--------------------------- MODULE EmbeddedEngine ---------------------------
(***************************************************************************)
(* The embedded engine of the language server (lsp/src/embedded_db.rs):    *)
(* two in-memory databases.  "workspace" holds what the .surql files       *)
(* define, "meta" one row per file with the hash of the text that was      *)
(* executed last.  initialized() and every did_save() call                 *)
(* apply_migrations(); the engine is behind a lock that saves only take    *)
(* for reading, so calls overlap at every await.                           *)
(*                                                                         *)
(* A text is the set of names it defines, each with a plain DEFINE, or     *)
(* Broken when it does not parse.  A hash stands for its text (FNV-1a is   *)
(* taken to be injective).  Files are numbered in the order of their paths.*)
(***************************************************************************)
EXTENDS Integers, FiniteSets

CONSTANTS
  Path,          \* files of the workspace, numbered in sorted order
  FileText,      \* texts: sets of defined names, or Broken
  FirstTexts,    \* those of the files when the server starts
  Broken,
  NoFile,        \* the file does not exist; no row
  Runs,          \* calls of apply_migrations that may overlap
  MaxSaves       \* bound: changes of a file

ASSUME EngineAssumption ==
  /\ Path \subseteq Nat
  /\ MaxSaves \in Nat
  /\ FirstTexts \subseteq FileText \cup {NoFile}

VARIABLES
  disk,          \* the text of each file
  workspace,     \* the names defined in the workspace database
  meta,          \* the hash in each file's row
  erroneous,     \* files whose row was written with the status "error"
  call,          \* each call: where it is, what it read, what is left to do,
                 \* and (history) whether no other call was active during it
  saves,         \* how many changes were made
  replayed,      \* history: what the call that reset last had read
  refused,       \* history: names that were free and whose DEFINE failed since
  settled        \* history: the last replay was alone and is what meta records

engineVars == <<disk, workspace, meta, erroneous, call, saves, replayed, refused, settled>>

Defines(t) == IF t \in {Broken, NoFile} THEN {} ELSE t
AllDefined(texts) == UNION {Defines(texts[f]) : f \in Path}

NoTexts == [f \in Path |-> NoFile]
Returned == [at |-> "idle", left |-> {}, file |-> 0, text |-> NoTexts,
             changed |-> FALSE, errors |-> {}, alone |-> TRUE]
NextPath(S) == CHOOSE f \in S : \A g \in S : f <= g

Active(r) == call[r].at # "idle"
Others(r) == Runs \ {r}

-----------------------------------------------------------------------------
\* start(): both databases are empty.
EngineInit ==
  /\ disk \in [Path -> FirstTexts]
  /\ workspace = {}
  /\ meta = NoTexts /\ erroneous = {}
  /\ call = [r \in Runs |-> Returned]
  /\ saves = 0
  /\ replayed = NoTexts /\ refused = {}
  /\ settled = TRUE

\* The user changes, creates or deletes a file.
ChangeFile ==
  /\ saves < MaxSaves
  /\ saves' = saves + 1
  /\ \E f \in Path, t \in FileText \cup {NoFile} : t # disk[f] /\ disk' = [disk EXCEPT ![f] = t]
  /\ UNCHANGED <<workspace, meta, erroneous, call, replayed, refused, settled>>

\* The files are collected and sorted.
BeginApply(r) ==
  /\ ~Active(r)
  /\ call' = [s \in Runs |->
       IF s = r THEN [Returned EXCEPT !.at = "read", !.left = {f \in Path : disk[f] # NoFile},
                                      !.alone = \A o \in Others(r) : ~Active(o)]
       ELSE [call[s] EXCEPT !.alone = ~Active(s)]]
  /\ UNCHANGED <<disk, workspace, meta, erroneous, saves, replayed, refused, settled>>

\* read_to_string: a file that is gone is passed over.
ReadFile(r) ==
  LET f == NextPath(call[r].left) IN
  /\ call[r].at = "read" /\ call[r].left # {}
  /\ call' = [call EXCEPT ![r] = [call[r] EXCEPT !.left = call[r].left \ {f}, !.file = f,
                                 !.text = [call[r].text EXCEPT ![f] = disk[f]],
                                 !.at = IF disk[f] = NoFile THEN "read" ELSE "check"]]
  /\ UNCHANGED <<disk, workspace, meta, erroneous, saves, replayed, refused, settled>>

\* Faulty variant: a file without a row needs nothing.
NeedsReapplyKnown(f, hash) == meta[f] \notin {hash, NoFile}

\* needs_reapply: the row is missing or has another hash.
NeedsReapply(f, hash) == meta[f] # hash

\* A failed query of the meta database counts as a missing row.
CheckFile(r) ==
  /\ call[r].at = "check"
  /\ \E failed \in BOOLEAN :
       call' = [call EXCEPT ![r] = [call[r] EXCEPT !.at = "read",
                  !.changed = call[r].changed \/ failed \/ NeedsReapply(call[r].file, call[r].text[call[r].file])]]
  /\ UNCHANGED <<disk, workspace, meta, erroneous, saves, replayed, refused, settled>>

\* No file changed: nothing is replayed.
SkipReplay(r) ==
  /\ call[r].at = "read" /\ call[r].left = {} /\ ~call[r].changed
  /\ call' = [call EXCEPT ![r] = Returned]
  /\ UNCHANGED <<disk, workspace, meta, erroneous, saves, replayed, refused, settled>>

\* Faulty variant: the database is kept.
RemoveNothing == workspace

\* REMOVE DATABASE; its error is ignored, taken to mean that there is none yet.
RemoveDatabase == {}

\* Faulty variant: only the files that changed are replayed.
ToReplayChanged(r) == {f \in Path : call[r].text[f] \notin {NoFile, meta[f]}}

\* Every file that was read is replayed, changed or not.
ToReplay(r) == {f \in Path : call[r].text[f] # NoFile}

\* reset_workspace, first half.
ResetWorkspace(r) ==
  /\ call[r].at = "read" /\ call[r].left = {} /\ call[r].changed
  /\ call' = [call EXCEPT ![r] = [call[r] EXCEPT !.at = "switch", !.left = ToReplay(r)]]
  /\ workspace' = RemoveDatabase
  /\ replayed' = call[r].text /\ refused' = {}
  /\ settled' = FALSE
  /\ UNCHANGED <<disk, meta, erroneous, saves>>

\* reset_workspace, second half: use_ns and use_db.  When they fail,
\* apply_migrations returns with the workspace empty.
SwitchSession(r) ==
  /\ call[r].at = "switch"
  /\ \/ call' = [call EXCEPT ![r] = [call[r] EXCEPT !.at = "replay"]] /\ UNCHANGED replayed
     \/ call' = [call EXCEPT ![r] = Returned] /\ replayed' = NoTexts
  /\ UNCHANGED <<disk, workspace, meta, erroneous, saves, refused, settled>>

\* A text is executed: statements that fail have no effect, and none has when
\* the query itself fails, as it does when the text does not parse.  A DEFINE
\* of a name that is taken fails, or not if it says OVERWRITE or IF NOT EXISTS.
\* errors is returned to the caller.
ReplayFile(r) ==
  LET f == NextPath(call[r].left)
      names == Defines(call[r].text[f])
  IN
  /\ call[r].at = "replay" /\ call[r].left # {}
  /\ \E done \in SUBSET (names \ workspace), failed \in BOOLEAN :
       /\ ~failed => names \subseteq workspace \cup done /\ call[r].text[f] # Broken
       /\ workspace' = workspace \cup done
       /\ refused' = refused \cup (names \ workspace')
       /\ call' = [call EXCEPT ![r] = [call[r] EXCEPT !.left = call[r].left \ {f}, !.file = f, !.at = "mark",
                                      !.errors = IF failed THEN call[r].errors \cup {f} ELSE call[r].errors]]
  /\ UNCHANGED <<disk, meta, erroneous, saves, replayed, settled>>

\* mark_file_applied, whether the text failed or not: the row is deleted and
\* created, with the status "error" if it failed.  A failure to delete or to
\* create it is passed over.
MarkFileApplied(r) ==
  LET f == call[r].file IN
  /\ call[r].at = "mark"
  /\ \/ /\ meta' = [meta EXCEPT ![f] = call[r].text[f]]
        /\ erroneous' = IF f \in call[r].errors THEN erroneous \cup {f} ELSE erroneous \ {f}
     \/ meta' = [meta EXCEPT ![f] = NoFile] /\ erroneous' = erroneous \ {f}
     \/ UNCHANGED <<meta, erroneous>>
  /\ call' = [call EXCEPT ![r] = [call[r] EXCEPT !.at = "replay"]]
  /\ UNCHANGED <<disk, workspace, saves, replayed, refused, settled>>

\* The rows of files that were not read, because they are gone, stay.
EndReplay(r) ==
  /\ call[r].at = "replay" /\ call[r].left = {}
  /\ call' = [call EXCEPT ![r] = Returned]
  /\ settled' = (call[r].alone /\ meta = call[r].text /\ call[r].errors \subseteq erroneous)
  /\ UNCHANGED <<disk, workspace, meta, erroneous, saves, replayed, refused>>

EngineNext ==
  \/ ChangeFile
  \/ \E r \in Runs :
       \/ BeginApply(r) \/ ReadFile(r) \/ CheckFile(r) \/ SkipReplay(r)
       \/ ResetWorkspace(r) \/ SwitchSession(r)
       \/ ReplayFile(r) \/ MarkFileApplied(r) \/ EndReplay(r)

EngineSpec == EngineInit /\ [][EngineNext]_engineVars

-----------------------------------------------------------------------------
CallRecord ==
  [at : {"idle", "read", "check", "switch", "replay", "mark"}, left : SUBSET Path,
   file : Path \cup {0}, text : [Path -> FileText \cup {NoFile}],
   changed : BOOLEAN, errors : SUBSET Path, alone : BOOLEAN]

\* The engine's variables keep their types.
EngineTypeOK ==
  /\ disk \in [Path -> FileText \cup {NoFile}]
  /\ workspace \subseteq UNION {Defines(t) : t \in FileText}
  /\ meta \in [Path -> FileText \cup {NoFile}] /\ erroneous \subseteq Path
  /\ call \in [Runs -> CallRecord]
  /\ saves \in 0..MaxSaves
  /\ replayed \in [Path -> FileText \cup {NoFile}]
  /\ refused \subseteq UNION {Defines(t) : t \in FileText}
  /\ settled \in BOOLEAN

\* However calls overlapped: when none is active, the workspace has every
\* name defined by the files the last resetting call had read, but for those
\* whose own DEFINE failed after that reset.  A call that resets under the feet
\* of another one replays all files again.
NothingIsLost ==
  (\A r \in Runs : ~Active(r)) => AllDefined(replayed) \subseteq workspace \cup refused

\* A replay that overlapped with no other call leaves what the files it read
\* define, nothing of an older text or of a deleted file, and nothing of
\* theirs is missing but of those it returns as errors.
AloneReplayIsExact ==
  [][\A r \in Runs : EndReplay(r) /\ call[r].alone =>
       /\ workspace \subseteq AllDefined(call[r].text)
       /\ \A f \in Path \ call[r].errors : Defines(call[r].text[f]) \subseteq workspace]_engineVars

\* When apply_migrations finds every hash unchanged and returns, the
\* workspace has all the files define whose row does not say "error", if the
\* last replay was undisturbed, recorded, and left no row of a deleted file.
SkipIsSafe ==
  [][\A r \in Runs : SkipReplay(r) /\ settled =>
       \A f \in Path \ erroneous : Defines(call[r].text[f]) \subseteq workspace]_engineVars
=============================================================================
