--------------------------- MODULE ManifestWriter ---------------------------
(***************************************************************************)
(* The files the language server leaves in surql-lsp-out for editors that  *)
(* cannot ask it (write_file_manifest, lsp/src/manifest.rs).  Each rebuild *)
(* of the schema spawns a task that nobody awaits: it is given the merged  *)
(* schema, lists and reads the workspace's files again, some time later,   *)
(* and writes one output after the other.  Tasks overlap with each other   *)
(* and with the next saves.                                                *)
(*                                                                         *)
(* A text is what it has for the outputs: the tables it defines and those  *)
(* that a line of it begins to define, as a definition over two lines does *)
(* not, and a line of a comment may; the links from a table to another;    *)
(* and the tables its statements are about.  The rebuilds' own             *)
(* interleavings are those of LspServer; here a rebuild is one step.  A    *)
(* pass over the files is one step too.                                    *)
(***************************************************************************)
EXTENDS Naturals, FiniteSets, Sequences, Functions

CONSTANTS
  ProjectFile,   \* .surql files
  ProjectText,   \* contents: records of tables, lines, links, uses
  Absent,        \* no file
  FirstProjects, \* the files at first
  Writer,        \* tasks that may be at work at the same time
  MaxUpdates     \* bound: files written or deleted

\* A text is read from a file that is there, and a link is from a table to another.
ASSUME ManifestAssumption ==
  /\ Absent \notin ProjectText
  /\ FirstProjects \subseteq [ProjectFile -> ProjectText \cup {Absent}]
  /\ \A text \in ProjectText : \A link \in text.links : link = <<link[1], link[2]>>

VARIABLES
  project,       \* the files of the workspace
  unsaved,       \* files written, whose didSave the server has not handled
  graphs,        \* file_schemas, one graph per file
  stage,         \* the server: "start", "initialize", "initialized"
  task,          \* the writers
  output,        \* surql-lsp-out
  updates        \* how many files were written or deleted

manifestVars == <<project, unsaved, graphs, stage, task, output, updates>>

-----------------------------------------------------------------------------
\* A schema, as far as the outputs show it.

NoDefinitions == [tables |-> {}, links |-> {}]
Unscanned == [f \in ProjectFile |-> Absent]

\* merge_file_schemas
MergedGraph(cache) ==
  LET cached == {f \in ProjectFile : cache[f] # Absent}
  IN  [tables |-> UNION {cache[f].tables : f \in cached},
       links |-> UNION {cache[f].links : f \in cached}]

FilesIn(directory) == {f \in ProjectFile : directory[f] # Absent}

\* schema.md: a section for each file, of those listed that are still there,
\* with lines that begin like a definition; nothing is parsed.
DefinitionsOf(directory, files) ==
  [f \in {g \in files \cap FilesIn(directory) : directory[g].lines # {}} |-> directory[f].lines]

\* relations.md: the links of each table and to it.
RelationsOf(schema) ==
  [t \in schema.tables |->
     [to |-> {link[2] : link \in {l \in schema.links : l[1] = t}},
      from |-> {link[1] : link \in {l \in schema.links : l[2] = t}}]]

\* diagnostics.md: statements about tables the schema does not have.  With no
\* table at all, nothing is said.
UndefinedTables(directory, files, schema) ==
  IF schema.tables = {} THEN {}
    ELSE UNION {{f} \X (directory[f].uses \ schema.tables) : f \in files \cap FilesIn(directory)}

-----------------------------------------------------------------------------
\* The tasks.  Of the outputs, relations stands for those made of the schema,
\* of which info.md, docs.md and graph.md are the others; migrations.md, made
\* of the migrations alone, is left out.

Outputs == <<"files", "schema", "relations", "diagnostics">>
NoOutput == [files |-> {}, schema |-> <<>>, relations |-> <<>>, diagnostics |-> {}]

\* alone: history, nothing happened beside the task.
Resting == [at |-> "rest", given |-> NoDefinitions, listed |-> {}, content |-> NoOutput,
            next |-> 1, alone |-> FALSE]

AtWork(w) == task[w].at # "rest"

Disturbed == [w \in Writer |-> [task[w] EXCEPT !.alone = FALSE]]

\* spawn_blocking(write_file_manifest)
Spawn(schema) ==
  \E w \in Writer :
    /\ ~AtWork(w)
    /\ task' = [Disturbed EXCEPT ![w] =
         [Resting EXCEPT !.at = "list", !.given = schema, !.alone = \A v \in Writer : ~AtWork(v)]]

ListFiles(w) ==
  /\ task[w].at = "list"
  /\ task' = [task EXCEPT ![w].listed = FilesIn(project), ![w].at = "read"]
  /\ UNCHANGED <<project, unsaved, graphs, stage, output, updates>>

ReadDefinitions(w) ==
  /\ task[w].at = "read"
  /\ task' = [task EXCEPT
       ![w].content = [@ EXCEPT !["files"] = task[w].listed,
                                !["schema"] = DefinitionsOf(project, task[w].listed),
                                !["relations"] = RelationsOf(task[w].given)],
       ![w].at = "check"]
  /\ UNCHANGED <<project, unsaved, graphs, stage, output, updates>>

\* build_check_results, which reads the files once more.
CheckFiles(w) ==
  /\ task[w].at = "check"
  /\ task' = [task EXCEPT
       ![w].content["diagnostics"] = UndefinedTables(project, task[w].listed, task[w].given),
       ![w].at = "write"]
  /\ UNCHANGED <<project, unsaved, graphs, stage, output, updates>>

\* A write that fails is logged, and the next output is written.
WriteOutput(w) ==
  LET o == Outputs[task[w].next]
      last == task[w].next = Len(Outputs)
  IN  /\ task[w].at = "write"
      /\ \E fails \in BOOLEAN :
           /\ output' = IF fails THEN output ELSE [output EXCEPT ![o] = task[w].content[o]]
           /\ task' = [task EXCEPT ![w] =
                IF last THEN Resting
                  ELSE [task[w] EXCEPT !.next = @ + 1, !.alone = @ /\ ~fails]]
      /\ UNCHANGED <<project, unsaved, graphs, stage, updates>>

\* create_dir_all fails.
NoDirectory(w) ==
  /\ task[w].at = "write" /\ task[w].next = 1
  /\ task' = [task EXCEPT ![w] = Resting]
  /\ UNCHANGED <<project, unsaved, graphs, stage, output, updates>>

-----------------------------------------------------------------------------
\* The server and the user.

\* initialize: outputs without a schema, as early as possible.
Initialize ==
  /\ stage = "start"
  /\ stage' = "initialize"
  /\ Spawn(NoDefinitions)
  /\ UNCHANGED <<project, unsaved, graphs, output, updates>>

\* initialized: rebuild_schema, or its failure to read the directory.
Initialized ==
  /\ stage = "initialize"
  /\ stage' = "initialized"
  /\ \/ /\ graphs' = project
        /\ Spawn(MergedGraph(project))
     \/ /\ Spawn(NoDefinitions)
        /\ UNCHANGED graphs
  /\ UNCHANGED <<project, unsaved, output, updates>>

\* Faulty variant: the task is given the schema merged before the new graph
\* is put into the cache.
RebuildFileLate(f) ==
  /\ stage = "initialized" /\ f \in unsaved
  /\ unsaved' = unsaved \ {f}
  /\ graphs' = [graphs EXCEPT ![f] = project[f]]
  /\ Spawn(MergedGraph(graphs))
  /\ UNCHANGED <<project, stage, output, updates>>

\* did_save: rebuild_file_schema.  A file that is gone loses its entry.
RebuildFile(f) ==
  /\ stage = "initialized" /\ f \in unsaved
  /\ unsaved' = unsaved \ {f}
  /\ graphs' = [graphs EXCEPT ![f] = project[f]]
  /\ Spawn(MergedGraph(graphs'))
  /\ UNCHANGED <<project, stage, output, updates>>

\* The user saves a file in the editor, or deletes one behind its back.
WriteProject(f) ==
  /\ updates < MaxUpdates
  /\ updates' = updates + 1
  /\ \E text \in ProjectText \cup {Absent} :
       /\ text # project[f]
       /\ project' = [project EXCEPT ![f] = text]
       /\ unsaved' = IF text = Absent THEN unsaved ELSE unsaved \cup {f}
  /\ task' = Disturbed
  /\ UNCHANGED <<graphs, stage, output>>

NothingWritten ==
  /\ unsaved = {} /\ graphs = Unscanned /\ stage = "start"
  /\ task = [w \in Writer |-> Resting]
  /\ output = NoOutput /\ updates = 0

ManifestInit == project \in FirstProjects /\ NothingWritten

ManifestNext ==
  \/ Initialize \/ Initialized
  \/ \E f \in ProjectFile : RebuildFile(f) \/ WriteProject(f)
  \/ \E w \in Writer :
       ListFiles(w) \/ ReadDefinitions(w) \/ CheckFiles(w) \/ WriteOutput(w) \/ NoDirectory(w)

ManifestSpec == ManifestInit /\ [][ManifestNext]_manifestVars

-----------------------------------------------------------------------------
\* What a task by itself leaves when it has written everything: outputs that
\* were made at different times, from the files and from the schema, tell of
\* the same files, and of the same tables where each definition is a line.
\* The cache is current when it has every file as it is.
Consistent(out, directory) ==
  LET texts == {directory[f] : f \in FilesIn(directory)}
      relations == out["relations"]
      defined == DOMAIN relations
      used == UNION {{f} \X directory[f].uses : f \in FilesIn(directory)}
  IN  /\ out["files"] = FilesIn(directory)
      /\ \A f \in DOMAIN out["schema"] : f \in out["files"] /\ directory[f].lines = out["schema"][f]
      /\ defined = UNION {text.tables : text \in texts}
      /\ (\A text \in texts : text.lines = text.tables) => defined = UNION Range(out["schema"])
      /\ \A t \in defined, u \in defined :
           /\ u \in relations[t].to <=> t \in relations[u].from
           /\ u \in relations[t].to <=> \E text \in texts : <<t, u>> \in text.links
      /\ out["diagnostics"] \subseteq used
      /\ \A use \in used : defined # {} => (use \in out["diagnostics"] <=> use[2] \notin defined)

CompletesAlone(w) ==
  task[w].alone /\ AtWork(w) /\ ~AtWork(w)' /\ task[w].next = Len(Outputs)

\* A write that nothing happens beside, for a cache that is current, leaves
\* outputs that agree with the files and with each other, whatever overlapping
\* writes left there before (rebuild_file_schema, server.rs; manifest.rs).
AloneManifestIsExact ==
  [][\A w \in Writer :
       CompletesAlone(w) /\ graphs = project /\ output'["diagnostics"] = task[w].content["diagnostics"]
         => Consistent(output', project)]_manifestVars
=============================================================================
