----------------------------- MODULE LspServer -----------------------------
(***************************************************************************)
(* The language server's state (lsp/src/server.rs, Backend): the open      *)
(* documents and their overlays, the cache of one schema graph per file,   *)
(* the workspace schema merged from it, and the diagnostics the editor     *)
(* was sent.                                                               *)
(*                                                                         *)
(* Requests are handled concurrently, a few at a time, by futures of one   *)
(* task: handlers interleave at their awaits, and what lies between two    *)
(* awaits is one step.  spawn_blocking and messages to the editor always   *)
(* let others run, the await of a free lock does when tokio's budget for   *)
(* the task is spent.                                                      *)
(*                                                                         *)
(* A schema graph is the text it was extracted from, the workspace schema  *)
(* the texts it was merged from, and a set of diagnostics the text and the *)
(* schema it was computed from.  Namespace scoping, the manifest file that *)
(* is written in the background, Rust documents and the embedded engine    *)
(* are left out.                                                           *)
(***************************************************************************)
EXTENDS Naturals, FiniteSets

CONSTANTS
  File,        \* .surql files of the workspace
  Text,        \* contents of a file
  Graphless,   \* contents no definitions can be extracted from
  None,        \* no document, no graph, no diagnostics
  Handler,     \* requests that may be handled at the same time
  MaxEvents    \* bound: how many requests the editor sends

ASSUME LspAssumption ==
  /\ IsFiniteSet(File) /\ IsFiniteSet(Handler)
  /\ Graphless \subseteq Text /\ None \notin Text \cup File
  /\ MaxEvents \in Nat

VARIABLES
  disk,        \* contents of the files
  docs,        \* documents: contents of those the editor has open
  overlay,     \* document_schemas
  cache,       \* file_schemas
  schema,      \* the merged workspace schema
  published,   \* the diagnostics the editor shows
  due,         \* files the editor wrote and has not told the server about
  events,      \* how many requests were sent
  pc,          \* where each handler is
  file,        \* the file of a handler's request
  found,       \* graphs a handler extracted from the files
  merged,      \* the schema a handler merged and has not stored yet
  rest,        \* documents a handler has still to publish diagnostics for
  source,      \* the text a handler is computing diagnostics of
  against,     \* the schema these diagnostics were computed with
  alone,       \* history: the file whose save a handler handles undisturbed
  saved,       \* history: files whose save was handled
  raced,       \* history: files whose latest rebuilds overlapped
  failed       \* history: files of which a rebuild failed since the latest save

editor == <<disk, due, events>>
state == <<docs, overlay, cache, schema, published>>
locals == <<pc, file, found, merged, rest, source, against>>
history == <<alone, saved, raced, failed>>
vars == <<editor, state, locals, history>>

Graph == (Text \ Graphless) \cup {None}
GraphOf(text) == IF text \in Graphless THEN None ELSE text
NoGraphs == [f \in File |-> None]

Busy == {h \in Handler : pc[h] # "idle"}
IsOpen(f) == docs[f] # None

\* Handlers that are about to put a graph of file f into the cache.
Rebuilding(f) ==
  {h \in Handler : pc[h] = "scan" \/ (pc[h] \in {"parse", "store"} /\ file[h] = f)}

Init ==
  /\ disk \in [File -> Text]
  /\ docs = NoGraphs /\ overlay = NoGraphs
  /\ cache = NoGraphs /\ schema = NoGraphs
  /\ published = [f \in File |-> [text |-> None, schema |-> NoGraphs]]
  /\ due = {} /\ events = 0
  /\ pc = [h \in Handler |-> "idle"]
  /\ file = [h \in Handler |-> None]
  /\ found = [h \in Handler |-> NoGraphs]
  /\ merged = [h \in Handler |-> NoGraphs]
  /\ rest = [h \in Handler |-> {}]
  /\ source = [h \in Handler |-> None]
  /\ against = [h \in Handler |-> NoGraphs]
  /\ alone = [h \in Handler |-> None]
  /\ saved = {} /\ raced = {} /\ failed = {}

-----------------------------------------------------------------------------
\* The editor.

\* The editor writes a document's text to its file, and owes the server a
\* didSave.
WriteFile(f) ==
  /\ IsOpen(f) /\ f \notin due
  /\ events < MaxEvents
  /\ disk' = [disk EXCEPT ![f] = docs[f]]
  /\ due' = due \cup {f}
  /\ alone' = [h \in Handler |-> None]
  /\ UNCHANGED <<events, state, locals, saved, raced, failed>>

\* A request reaches a handler that is free.
Begin(h) ==
  /\ h \notin Busy
  /\ events < MaxEvents
  /\ events' = events + 1

-----------------------------------------------------------------------------
\* publish_diagnostics

\* The first step: the text is read and the overlay stored without an await
\* in between.  now is what documents holds.
PublishFirst(h, f, now) ==
  /\ source' = [source EXCEPT ![h] = now[f]]
  /\ overlay' = IF GraphOf(now[f]) = None THEN overlay
                  ELSE [overlay EXCEPT ![f] = GraphOf(now[f])]
  /\ file' = [file EXCEPT ![h] = f]
  /\ pc' = [pc EXCEPT ![h] = "judge"]

\* effective_schema, and the diagnostics that follow from it.
Judge(h) ==
  /\ pc[h] = "judge"
  /\ against' = [against EXCEPT ![h] = schema]
  /\ pc' = [pc EXCEPT ![h] = "send"]
  /\ UNCHANGED <<editor, state, file, found, merged, rest, source, history>>

\* A handler with nothing left to publish is done.
NextDocument(h, left) ==
  /\ rest' = [rest EXCEPT ![h] = left]
  /\ pc' = [pc EXCEPT ![h] = IF left = {} THEN "idle" ELSE "publish"]
  /\ file' = [file EXCEPT ![h] = IF left = {} THEN None ELSE @]

\* client.publish_diagnostics
Send(h) ==
  /\ pc[h] = "send"
  /\ published' = [published EXCEPT ![file[h]] = [text |-> source[h], schema |-> against[h]]]
  /\ source' = [source EXCEPT ![h] = None]
  /\ against' = [against EXCEPT ![h] = NoGraphs]
  /\ NextDocument(h, rest[h] \ {file[h]})
  /\ UNCHANGED <<editor, docs, overlay, cache, schema, found, merged, history>>

\* Faulty variant: a document that is not open is read from its file.
PublishFromDisk(h, f) ==
  /\ pc[h] = "publish" /\ f \in rest[h]
  /\ PublishFirst(h, f, IF IsOpen(f) THEN docs ELSE disk)
  /\ UNCHANGED <<editor, docs, cache, schema, published, found, merged, rest, against, history>>

\* Faulty variant: the document is taken to be open still.
PublishUnguarded(h, f) ==
  /\ pc[h] = "publish" /\ f \in rest[h]
  /\ PublishFirst(h, f, docs)
  /\ UNCHANGED <<editor, docs, cache, schema, published, found, merged, rest, against, history>>

\* The loops over documents.all_uris(): one that was closed since is skipped.
Publish(h, f) ==
  /\ pc[h] = "publish" /\ f \in rest[h]
  /\ \/ /\ IsOpen(f)
        /\ PublishFirst(h, f, docs)
        /\ UNCHANGED rest
     \/ /\ ~IsOpen(f)
        /\ NextDocument(h, rest[h] \ {f})
        /\ UNCHANGED <<overlay, source>>
  /\ UNCHANGED <<editor, docs, cache, schema, published, found, merged, against, history>>

-----------------------------------------------------------------------------
\* did_open, did_change, did_close

\* The document changes in the same step as its overlay.
Edit(h, f, text) ==
  /\ Begin(h)
  /\ docs' = [docs EXCEPT ![f] = text]
  /\ rest' = [rest EXCEPT ![h] = {f}]
  /\ PublishFirst(h, f, docs')
  /\ alone' = [k \in Handler |-> None]
  /\ UNCHANGED <<disk, due, cache, schema, published, found, merged, against, saved, raced, failed>>

DidOpen(h, f) == ~IsOpen(f) /\ f \notin due /\ Edit(h, f, disk[f])
DidChange(h, f) == IsOpen(f) /\ \E text \in Text \ {docs[f]} : Edit(h, f, text)

DidClose(h, f) ==
  /\ Begin(h) /\ IsOpen(f) /\ f \notin due
  /\ docs' = [docs EXCEPT ![f] = None]
  /\ overlay' = [overlay EXCEPT ![f] = None]
  /\ file' = [file EXCEPT ![h] = f]
  /\ pc' = [pc EXCEPT ![h] = "clear"]
  /\ alone' = [k \in Handler |-> None]
  /\ UNCHANGED <<disk, due, cache, schema, published, found, merged, rest, source, against, saved, raced, failed>>

\* The last line of did_close: empty diagnostics are published.
Clear(h) ==
  /\ pc[h] = "clear"
  /\ published' = [published EXCEPT ![file[h]] = [text |-> None, schema |-> NoGraphs]]
  /\ pc' = [pc EXCEPT ![h] = "idle"]
  /\ file' = [file EXCEPT ![h] = None]
  /\ UNCHANGED <<editor, docs, overlay, cache, schema, found, merged, rest, source,
                 against, history>>

-----------------------------------------------------------------------------
\* initialized and did_save: the caches

\* The first request: initialized, whose rebuild_schema scans the files.
Initialized(h) ==
  /\ events = 0
  /\ Begin(h)
  /\ pc' = [pc EXCEPT ![h] = "scan"]
  /\ rest' = [rest EXCEPT ![h] = File]
  /\ alone' = [k \in Handler |-> None]
  /\ UNCHANGED <<disk, due, state, file, found, merged, source, against, saved, raced, failed>>

\* from_files_per_file reads one file after the other on another thread.
ScanFile(h, f) ==
  /\ pc[h] = "scan" /\ f \in rest[h]
  /\ found' = [found EXCEPT ![h][f] = GraphOf(disk[f])]
  /\ rest' = [rest EXCEPT ![h] = @ \ {f}]
  /\ UNCHANGED <<editor, state, pc, file, merged, source, against, history>>

\* The result replaces the whole cache; when the scan failed nothing changes
\* and the diagnostics are published all the same.
ScanStore(h) ==
  /\ pc[h] = "scan" /\ rest[h] = {}
  /\ \/ cache' = found[h] /\ pc' = [pc EXCEPT ![h] = "merge"]
     \/ pc' = [pc EXCEPT ![h] = "republish"] /\ UNCHANGED cache
  /\ found' = [found EXCEPT ![h] = NoGraphs]
  /\ UNCHANGED <<editor, docs, overlay, schema, published, file, merged, rest, source,
                 against, history>>

\* did_save: rebuild_file_schema of the saved file.
DidSave(h, f) ==
  /\ events > 0 /\ f \in due
  /\ due' = due \ {f}
  /\ Begin(h)
  /\ pc' = [pc EXCEPT ![h] = "parse"]
  /\ file' = [file EXCEPT ![h] = f]
  /\ alone' = [k \in Handler |-> IF k = h /\ Busy = {} THEN f ELSE None]
  /\ saved' = saved \cup {f}
  /\ raced' = IF Rebuilding(f) = {} THEN raced \ {f} ELSE raced \cup {f}
  /\ failed' = failed \ {f}
  /\ UNCHANGED <<disk, state, found, merged, rest, source, against>>

\* from_single_file, on another thread.
Parse(h) ==
  /\ pc[h] = "parse"
  /\ found' = [found EXCEPT ![h][file[h]] = GraphOf(disk[file[h]])]
  /\ pc' = [pc EXCEPT ![h] = "store"]
  /\ UNCHANGED <<editor, state, file, merged, rest, source, against, history>>

\* The other thread panics: rebuild_file_schema returns with neither the cache
\* nor the schema changed, and did_save publishes the diagnostics all the same.
ParseFails(h) ==
  /\ pc[h] = "parse"
  /\ pc' = [pc EXCEPT ![h] = "republish"]
  /\ failed' = failed \cup {file[h]}
  /\ UNCHANGED <<editor, state, file, found, merged, rest, source, against, alone, saved, raced>>

\* Faulty variant: a file without a graph keeps its old one.
StoreKeepsStale(h) ==
  /\ pc[h] = "store"
  /\ cache' = IF found[h][file[h]] = None THEN cache
                ELSE [cache EXCEPT ![file[h]] = found[h][file[h]]]
  /\ found' = [found EXCEPT ![h] = NoGraphs]
  /\ pc' = [pc EXCEPT ![h] = "merge"]
  /\ UNCHANGED <<editor, docs, overlay, schema, published, file, merged, rest, source,
                 against, history>>

\* Back from the other thread: the cache gets the graph, or loses its entry.
Store(h) ==
  /\ pc[h] = "store"
  /\ cache' = [cache EXCEPT ![file[h]] = found[h][file[h]]]
  /\ found' = [found EXCEPT ![h] = NoGraphs]
  /\ pc' = [pc EXCEPT ![h] = "merge"]
  /\ UNCHANGED <<editor, docs, overlay, schema, published, file, merged, rest, source,
                 against, history>>

\* merge_file_schemas: the cache is read, its guard dropped, ..
MergeRead(h) ==
  /\ pc[h] = "merge"
  /\ merged' = [merged EXCEPT ![h] = cache]
  /\ pc' = [pc EXCEPT ![h] = "write"]
  /\ UNCHANGED <<editor, state, file, found, rest, source, against, history>>

\* .. and then the schema is replaced.
MergeWrite(h) ==
  /\ pc[h] = "write"
  /\ schema' = merged[h]
  /\ merged' = [merged EXCEPT ![h] = NoGraphs]
  /\ pc' = [pc EXCEPT ![h] = "republish"]
  /\ UNCHANGED <<editor, docs, overlay, cache, published, file, found, rest, source,
                 against, history>>

\* Faulty variant: only the saved document is published again.
RepublishSaved(h) ==
  /\ pc[h] = "republish"
  /\ NextDocument(h, {f \in File : f = file[h] /\ IsOpen(f)})
  /\ UNCHANGED <<editor, state, found, merged, source, against, history>>

\* documents.all_uris()
Republish(h) ==
  /\ pc[h] = "republish"
  /\ NextDocument(h, {f \in File : IsOpen(f)})
  /\ UNCHANGED <<editor, state, found, merged, source, against, history>>

-----------------------------------------------------------------------------

Request(h) ==
  \/ Initialized(h)
  \/ \E f \in File :
       events > 0 /\ (DidOpen(h, f) \/ DidChange(h, f) \/ DidClose(h, f) \/ DidSave(h, f))

HandlerStep(h) ==
  \/ ScanStore(h) \/ Parse(h) \/ ParseFails(h) \/ Store(h)
  \/ MergeRead(h) \/ MergeWrite(h) \/ Republish(h) \/ Judge(h) \/ Send(h) \/ Clear(h)
  \/ \E f \in File : ScanFile(h, f) \/ Publish(h, f)

Next ==
  \/ \E f \in File : WriteFile(f)
  \/ \E h \in Handler : Request(h) \/ HandlerStep(h)

Spec == Init /\ [][Next]_vars

-----------------------------------------------------------------------------

Graphs == [File -> Graph]

\* Diagnostics are only ever computed of a text.
ServerTypeOK ==
  /\ disk \in [File -> Text]
  /\ docs \in [File -> Text \cup {None}]
  /\ overlay \in Graphs /\ cache \in Graphs /\ schema \in Graphs
  /\ published \in [File -> [text : Text \cup {None}, schema : Graphs]]
  /\ due \subseteq File /\ saved \subseteq File /\ raced \subseteq File
  /\ failed \subseteq File \cup {None}
  /\ events \in 0..MaxEvents
  /\ pc \in [Handler -> {"idle", "scan", "parse", "store", "merge", "write", "republish",
                         "publish", "judge", "send", "clear"}]
  /\ file \in [Handler -> File \cup {None}]
  /\ found \in [Handler -> Graphs] /\ merged \in [Handler -> Graphs]
  /\ rest \in [Handler -> SUBSET File]
  /\ source \in [Handler -> Text \cup {None}]
  /\ against \in [Handler -> Graphs]
  /\ alone \in [Handler -> File \cup {None}]
  /\ \A h \in Handler : pc[h] \in {"judge", "send"} => source[h] # None

\* The definitions of a closed document no longer shadow the workspace's,
\* whichever handlers are still publishing its diagnostics
\* (server.rs, did_close).
ClosedHasNoOverlay == \A f \in File : docs[f] = None => overlay[f] = None

\* Once no rebuild of a saved file is left and the editor owes no didSave,
\* its cache entry is what the file says, provided its latest rebuild did not
\* fail and overlapped with no other: a graph that is gone is removed ("remove
\* stale entry", server.rs:198), and the initial scan does not bring it back.
Settled(f) == f \in saved \ failed /\ f \notin due /\ Rebuilding(f) = {}
CacheFollowsDisk ==
  \A f \in File : Settled(f) /\ f \notin raced => cache[f] = GraphOf(disk[f])

\* A save that nothing overlaps refreshes everything: the cache entry and the
\* workspace schema, unless the rebuild failed, and then the diagnostics of
\* every open document, "because schema changes in one file can affect
\* diagnostics in other files" (server.rs:686-687).
AloneSaveRefreshes ==
  [][\A h \in Handler, f \in File :
       alone[h] = f /\ pc[h] # "idle" /\ pc'[h] = "idle" =>
         /\ f \notin failed => cache'[f] = GraphOf(disk'[f]) /\ schema' = cache'
         /\ \A g \in File : IsOpen(g) =>
              published'[g] = [text |-> docs[g], schema |-> schema']]_vars

\* rebuild_file_schema "re-parses only path, updates the per-file cache"
\* (server.rs:185): once no rebuild of a saved file is left, and none failed, its
\* cache entry is what the file says.
CacheIsFresh ==
  \A f \in File : Settled(f) => cache[f] = GraphOf(disk[f])
=============================================================================
