----------------------------- MODULE LspProofs -----------------------------
(***************************************************************************)
(* For every set of files, texts and handlers: the language server's       *)
(* types, that a closed document stays without overlay, that the cache     *)
(* follows the files, and that an undisturbed save refreshes everything.   *)
(***************************************************************************)
EXTENDS LspServer, TLAPS

Stations == {"idle", "scan", "parse", "store", "merge", "write", "republish",
             "publish", "judge", "send", "clear"}

\* The part of ServerTypeOK that says where handlers are.
PcOK ==
  /\ pc \in [Handler -> Stations]
  /\ \A h \in Handler : pc[h] \in {"judge", "send"} => source[h] # None

LEMMA NoGraphsTyped == NoGraphs \in Graphs
BY DEF NoGraphs, Graphs, Graph

\* An entry is changed: to a graph, if it is a file's.
LEMMA EntryTyped ==
  ASSUME NEW graphs \in Graphs, NEW f, NEW graph, f \in File => graph \in Graph
  PROVE  [graphs EXCEPT ![f] = graph] \in Graphs
BY DEF Graphs

LEMMA GraphOfTyped ==
  ASSUME NEW text \in Text
  PROVE  GraphOf(text) \in Graph
BY DEF GraphOf, Graph

\* What a handler that goes on to its next document leaves typed.
LEMMA NextDocumentTyped ==
  ASSUME ServerTypeOK, NEW h \in Handler, NEW left \in SUBSET File, NextDocument(h, left)
  PROVE  /\ rest' \in [Handler -> SUBSET File]
         /\ file' \in [Handler -> File \cup {None}]
         /\ pc' = [pc EXCEPT ![h] = IF left = {} THEN "idle" ELSE "publish"]
BY DEF NextDocument, ServerTypeOK

\* The first step of publishing a document that is open.
LEMMA PublishFirstTyped ==
  ASSUME ServerTypeOK, NEW h \in Handler, NEW f \in File, NEW now, now[f] \in Text,
         PublishFirst(h, f, now)
  PROVE  /\ source' \in [Handler -> Text \cup {None}]
         /\ overlay' \in Graphs
         /\ file' \in [Handler -> File \cup {None}]
         /\ pc' = [pc EXCEPT ![h] = "judge"]
         /\ source' = [source EXCEPT ![h] = now[f]]
         /\ now[f] # None
         /\ \A g \in File \ {f} : overlay'[g] = overlay[g]
BY GraphOfTyped, LspAssumption DEF PublishFirst, ServerTypeOK, Graphs, LspAssumption

\* Diagnostics are only ever computed of a text: kept by a change of pc[h]
\* that leads elsewhere.
LEMMA SourcesStay ==
  ASSUME ServerTypeOK, NEW h \in Handler,
         NEW at \in {"idle", "scan", "parse", "store", "merge", "write", "republish",
                     "publish", "clear"},
         pc' = [pc EXCEPT ![h] = at],
         \A k \in Handler \ {h} : source'[k] = source[k]
  PROVE  PcOK'
BY DEF ServerTypeOK, PcOK, Stations

-----------------------------------------------------------------------------
\* Types.

LEMMA TypesStay == ServerTypeOK /\ [Next]_vars => ServerTypeOK'
<1> SUFFICES ASSUME ServerTypeOK, [Next]_vars PROVE ServerTypeOK'
  OBVIOUS
<1> USE LspAssumption, NoGraphsTyped
<1>1. ASSUME NEW f \in File, WriteFile(f) PROVE ServerTypeOK'
  <2>1. disk' \in [File -> Text]
    BY <1>1 DEF WriteFile, IsOpen, ServerTypeOK
  <2> QED
    BY <1>1, <2>1 DEF WriteFile, state, locals, ServerTypeOK
<1>2. ASSUME NEW h \in Handler, Initialized(h) PROVE ServerTypeOK'
  <2>1. events' \in 0..MaxEvents
    BY <1>2 DEF Initialized, Begin, ServerTypeOK, LspAssumption
  <2>2. PcOK'
    BY <1>2, SourcesStay DEF Initialized
  <2> QED
    BY <1>2, <2>1, <2>2 DEF Initialized, state, ServerTypeOK
<1>3. ASSUME NEW h \in Handler, NEW f \in File, NEW text \in Text, Edit(h, f, text) PROVE ServerTypeOK'
  <2>1. events' \in 0..MaxEvents
    BY <1>3 DEF Edit, Begin, ServerTypeOK, LspAssumption
  <2>2. docs' \in [File -> Text \cup {None}] /\ docs'[f] = text
    BY <1>3 DEF Edit, ServerTypeOK
  <2>3. /\ source' \in [Handler -> Text \cup {None}] /\ overlay' \in Graphs
        /\ file' \in [Handler -> File \cup {None}]
        /\ pc' = [pc EXCEPT ![h] = "judge"] /\ source' = [source EXCEPT ![h] = text]
        /\ text # None
    BY <1>3, <2>2, GraphOfTyped DEF Edit, PublishFirst, ServerTypeOK, Graphs, LspAssumption
  <2>4. PcOK'
    BY <2>3 DEF ServerTypeOK, PcOK, Stations
  <2> QED
    BY <1>3, <2>1, <2>2, <2>3, <2>4 DEF Edit, ServerTypeOK
<1>4. ASSUME NEW h \in Handler, NEW f \in File, DidClose(h, f) PROVE ServerTypeOK'
  <2>1. events' \in 0..MaxEvents
    BY <1>4 DEF DidClose, Begin, ServerTypeOK, LspAssumption
  <2>2. PcOK'
    BY <1>4, SourcesStay DEF DidClose
  <2>3. overlay' \in Graphs
    BY <1>4 DEF DidClose, ServerTypeOK, Graphs, Graph
  <2> QED
    BY <1>4, <2>1, <2>2, <2>3 DEF DidClose, ServerTypeOK
<1>5. ASSUME NEW h \in Handler, NEW f \in File, DidSave(h, f) PROVE ServerTypeOK'
  <2>1. events' \in 0..MaxEvents
    BY <1>5 DEF DidSave, Begin, ServerTypeOK, LspAssumption
  <2>2. PcOK'
    BY <1>5, SourcesStay DEF DidSave
  <2> QED
    BY <1>5, <2>1, <2>2 DEF DidSave, state, ServerTypeOK
<1>6. ASSUME NEW h \in Handler, ScanStore(h) PROVE ServerTypeOK'
  <2>1. PcOK'
    BY <1>6, SourcesStay DEF ScanStore
  <2>2. cache' \in Graphs /\ found' \in [Handler -> Graphs]
    BY <1>6 DEF ScanStore, ServerTypeOK
  <2> QED
    BY <1>6, <2>1, <2>2 DEF ScanStore, editor, history, ServerTypeOK
<1>7. ASSUME NEW h \in Handler, Parse(h) PROVE ServerTypeOK'
  <2>1. PcOK'
    BY <1>7, SourcesStay DEF Parse
  <2>2. found' \in [Handler -> Graphs]
    <3> DEFINE graphs == [found[h] EXCEPT ![file[h]] = GraphOf(disk[file[h]])]
    <3>1. graphs \in Graphs
      <4>1. file[h] \in File => GraphOf(disk[file[h]]) \in Graph
        BY GraphOfTyped DEF ServerTypeOK
      <4>2. found[h] \in Graphs
        BY DEF ServerTypeOK
      <4> QED
        BY <4>1, <4>2, EntryTyped
    <3>2. found' = [found EXCEPT ![h] = graphs]
      BY <1>7 DEF Parse, ServerTypeOK, Graphs
    <3> HIDE DEF graphs
    <3> QED
      BY <3>1, <3>2 DEF ServerTypeOK
  <2> QED
    BY <1>7, <2>1, <2>2 DEF Parse, editor, state, history, ServerTypeOK
<1>20. ASSUME NEW h \in Handler, ParseFails(h) PROVE ServerTypeOK'
  <2>1. PcOK'
    BY <1>20, SourcesStay DEF ParseFails
  <2>2. failed' \subseteq File \cup {None}
    BY <1>20 DEF ParseFails, ServerTypeOK
  <2> QED
    BY <1>20, <2>1, <2>2 DEF ParseFails, editor, state, ServerTypeOK
<1>8. ASSUME NEW h \in Handler, Store(h) PROVE ServerTypeOK'
  <2>1. PcOK'
    BY <1>8, SourcesStay DEF Store
  <2>2. cache' \in Graphs /\ found' \in [Handler -> Graphs]
    <3>1. [cache EXCEPT ![file[h]] = found[h][file[h]]] \in Graphs
      <4>1. file[h] \in File => found[h][file[h]] \in Graph
        BY DEF ServerTypeOK, Graphs
      <4> QED
        BY <4>1, EntryTyped DEF ServerTypeOK
    <3> QED
      BY <1>8, <3>1 DEF Store, ServerTypeOK
  <2> QED
    BY <1>8, <2>1, <2>2 DEF Store, editor, history, ServerTypeOK
<1>9. ASSUME NEW h \in Handler, MergeRead(h) PROVE ServerTypeOK'
  <2>1. PcOK'
    BY <1>9, SourcesStay DEF MergeRead
  <2> QED
    BY <1>9, <2>1 DEF MergeRead, editor, state, history, ServerTypeOK
<1>10. ASSUME NEW h \in Handler, MergeWrite(h) PROVE ServerTypeOK'
  <2>1. PcOK'
    BY <1>10, SourcesStay DEF MergeWrite
  <2> QED
    BY <1>10, <2>1 DEF MergeWrite, editor, history, ServerTypeOK
<1>11. ASSUME NEW h \in Handler, Republish(h) PROVE ServerTypeOK'
  <2> DEFINE opened == {f \in File : IsOpen(f)}
  <2>1. /\ rest' \in [Handler -> SUBSET File] /\ file' \in [Handler -> File \cup {None}]
        /\ pc' = [pc EXCEPT ![h] = IF opened = {} THEN "idle" ELSE "publish"]
    <3> HIDE DEF opened
    <3>1. opened \in SUBSET File
      BY DEF opened
    <3>2. NextDocument(h, opened)
      BY <1>11 DEF Republish, opened
    <3> QED
      BY <3>1, <3>2, NextDocumentTyped
  <2>2. PcOK'
    <3> HIDE DEF opened
    <3> QED
      BY <1>11, <2>1, SourcesStay DEF Republish
  <2> QED
    BY <1>11, <2>1, <2>2 DEF Republish, editor, state, history, ServerTypeOK
<1>12. ASSUME NEW h \in Handler, Judge(h) PROVE ServerTypeOK'
  BY <1>12 DEF Judge, editor, state, history, ServerTypeOK
<1>13. ASSUME NEW h \in Handler, Send(h) PROVE ServerTypeOK'
  <2> DEFINE left == rest[h] \ {file[h]}
  <2>1. /\ rest' \in [Handler -> SUBSET File] /\ file' \in [Handler -> File \cup {None}]
        /\ pc' = [pc EXCEPT ![h] = IF left = {} THEN "idle" ELSE "publish"]
    <3> HIDE DEF left
    <3>1. left \in SUBSET File
      BY DEF left, ServerTypeOK
    <3>2. NextDocument(h, left)
      BY <1>13 DEF Send, left
    <3> QED
      BY <3>1, <3>2, NextDocumentTyped
  <2>2. source' = [source EXCEPT ![h] = None] /\ source' \in [Handler -> Text \cup {None}]
    BY <1>13 DEF Send, ServerTypeOK
  <2>3. PcOK'
    <3> HIDE DEF left
    <3>1. \A k \in Handler \ {h} : source'[k] = source[k]
      BY <2>2 DEF ServerTypeOK
    <3> QED
      BY <2>1, <3>1, SourcesStay
  <2>4. published' \in [File -> [text : Text \cup {None}, schema : Graphs]]
    BY <1>13 DEF Send, ServerTypeOK
  <2>5. against' \in [Handler -> Graphs]
    BY <1>13 DEF Send, ServerTypeOK
  <2> QED
    BY <1>13, <2>1, <2>2, <2>3, <2>4, <2>5 DEF Send, editor, history, ServerTypeOK
<1>14. ASSUME NEW h \in Handler, Clear(h) PROVE ServerTypeOK'
  <2>1. PcOK'
    BY <1>14, SourcesStay DEF Clear
  <2>2. published' \in [File -> [text : Text \cup {None}, schema : Graphs]]
    BY <1>14 DEF Clear, ServerTypeOK
  <2> QED
    BY <1>14, <2>1, <2>2 DEF Clear, editor, history, ServerTypeOK
<1>15. ASSUME NEW h \in Handler, NEW f \in File, ScanFile(h, f) PROVE ServerTypeOK'
  <2>1. found' \in [Handler -> Graphs]
    BY <1>15, GraphOfTyped DEF ScanFile, ServerTypeOK, Graphs
  <2> QED
    BY <1>15, <2>1 DEF ScanFile, editor, state, history, ServerTypeOK
<1>16. ASSUME NEW h \in Handler, NEW f \in File, Publish(h, f) PROVE ServerTypeOK'
  <2>1. CASE IsOpen(f)
    <3>1. docs[f] \in Text /\ PublishFirst(h, f, docs)
      BY <1>16, <2>1 DEF Publish, IsOpen, ServerTypeOK
    <3>2. /\ source' \in [Handler -> Text \cup {None}] /\ overlay' \in Graphs
          /\ file' \in [Handler -> File \cup {None}]
          /\ pc' = [pc EXCEPT ![h] = "judge"] /\ source' = [source EXCEPT ![h] = docs[f]]
          /\ docs[f] # None
      BY <3>1, PublishFirstTyped
    <3>3. PcOK'
      BY <3>2 DEF ServerTypeOK, PcOK, Stations
    <3> QED
      BY <1>16, <2>1, <3>2, <3>3 DEF Publish, editor, history, ServerTypeOK
  <2>2. CASE ~IsOpen(f)
    <3> DEFINE left == rest[h] \ {f}
    <3>1. /\ rest' \in [Handler -> SUBSET File] /\ file' \in [Handler -> File \cup {None}]
          /\ pc' = [pc EXCEPT ![h] = IF left = {} THEN "idle" ELSE "publish"]
      <4> HIDE DEF left
      <4>1. left \in SUBSET File
        BY DEF left, ServerTypeOK
      <4>2. NextDocument(h, left)
        BY <1>16, <2>2 DEF Publish, left
      <4> QED
        BY <4>1, <4>2, NextDocumentTyped
    <3>2. PcOK'
      <4> HIDE DEF left
      <4> QED
        BY <1>16, <2>2, <3>1, SourcesStay DEF Publish
    <3> QED
      BY <1>16, <2>2, <3>1, <3>2 DEF Publish, editor, history, ServerTypeOK
  <2> QED
    BY <2>1, <2>2
<1>17. CASE UNCHANGED vars
  BY <1>17 DEF vars, editor, state, locals, history, ServerTypeOK
<1>18. ASSUME NEW h \in Handler, Request(h) PROVE ServerTypeOK'
  BY <1>18, <1>2, <1>3, <1>4, <1>5 DEF Request, DidOpen, DidChange, ServerTypeOK
<1>19. ASSUME NEW h \in Handler, HandlerStep(h) PROVE ServerTypeOK'
  BY <1>19, <1>6, <1>7, <1>8, <1>9, <1>10, <1>11, <1>12, <1>13, <1>14, <1>15, <1>16, <1>20
  DEF HandlerStep
<1> QED
  BY <1>1, <1>17, <1>18, <1>19 DEF Next

\* Every variable of the server keeps its type; in particular, diagnostics
\* are only ever computed of a text (server.rs publish_diagnostics).
THEOREM ServerTypeCorrect == Spec => []ServerTypeOK
<1>1. Init => ServerTypeOK
  <2> SUFFICES ASSUME Init PROVE ServerTypeOK
    OBVIOUS
  <2>1. docs \in [File -> Text \cup {None}]
    BY DEF Init, NoGraphs
  <2>2. published \in [File -> [text : Text \cup {None}, schema : Graphs]]
    BY NoGraphsTyped DEF Init
  <2>3. pc \in [Handler -> {"idle"}]
    BY DEF Init
  <2> QED
    BY <2>1, <2>2, <2>3, NoGraphsTyped, LspAssumption DEF Init, ServerTypeOK, LspAssumption
<1> QED
  BY <1>1, TypesStay, PTL DEF Spec

-----------------------------------------------------------------------------
\* Closed documents.

LEMMA ClosedStays == ServerTypeOK /\ ClosedHasNoOverlay /\ [Next]_vars => ClosedHasNoOverlay'
<1> SUFFICES ASSUME ServerTypeOK, ClosedHasNoOverlay, [Next]_vars PROVE ClosedHasNoOverlay'
  OBVIOUS
<1>1. ASSUME NEW h \in Handler, NEW f \in File, NEW text \in Text, Edit(h, f, text)
      PROVE  ClosedHasNoOverlay'
  BY <1>1, LspAssumption DEF Edit, PublishFirst, ClosedHasNoOverlay, ServerTypeOK, Graphs, LspAssumption
<1>2. ASSUME NEW h \in Handler, NEW f \in File, DidClose(h, f) PROVE ClosedHasNoOverlay'
  BY <1>2 DEF DidClose, ClosedHasNoOverlay, ServerTypeOK, Graphs
<1>3. ASSUME NEW h \in Handler, NEW f \in File, Publish(h, f) PROVE ClosedHasNoOverlay'
  BY <1>3 DEF Publish, PublishFirst, IsOpen, ClosedHasNoOverlay, ServerTypeOK, Graphs
<1>4. CASE UNCHANGED <<docs, overlay>>
  BY <1>4 DEF ClosedHasNoOverlay
<1>5. ASSUME NEW h \in Handler, Request(h) PROVE ClosedHasNoOverlay'
  BY <1>5, <1>1, <1>2, <1>4 DEF Request, DidOpen, DidChange, Initialized, DidSave, state, ServerTypeOK
<1>6. ASSUME NEW h \in Handler, HandlerStep(h) PROVE ClosedHasNoOverlay'
  BY <1>6, <1>3, <1>4
  DEF HandlerStep, ScanStore, Parse, ParseFails, Store, MergeRead, MergeWrite, Republish, Judge,
      Send, Clear, ScanFile, state
<1> QED
  BY <1>4, <1>5, <1>6 DEF Next, WriteFile, vars, state

\* The definitions of a closed document never shadow the workspace's,
\* however many handlers are publishing diagnostics (server.rs did_close).
THEOREM ClosedStaysBare == Spec => []ClosedHasNoOverlay
<1>1. Init => ClosedHasNoOverlay
  BY DEF Init, ClosedHasNoOverlay, NoGraphs
<1> QED
  BY <1>1, ClosedStays, ServerTypeCorrect, PTL DEF Spec

-----------------------------------------------------------------------------
\* The cache.

\* Of a file whose latest rebuild overlapped with no other: the scan is over,
\* one handler at most is rebuilding it, and unless the editor has written it
\* since, what that handler read, or else the cache, is what the file says.
CacheFresh(f) ==
  /\ \A h \in Handler : pc[h] # "scan"
  /\ \A h, k \in Rebuilding(f) : h = k
  /\ f \notin due =>
       /\ \A h \in Rebuilding(f) : pc[h] = "store" => found[h][f] = GraphOf(disk[f])
       /\ Rebuilding(f) = {} => cache[f] = GraphOf(disk[f])

CacheInv ==
  /\ saved # {} => events > 0
  /\ \A f \in saved \ (raced \cup failed) : CacheFresh(f)

\* A handler that neither joins nor leaves those who rebuild changes nothing.
LEMMA CacheUntouched ==
  ASSUME ServerTypeOK, CacheInv, NEW h \in Handler, UNCHANGED <<disk, due, cache, saved, raced, failed>>,
         events' >= events, events' \in Nat,
         \A k \in Handler \ {h} : pc'[k] = pc[k] /\ file'[k] = file[k] /\ found'[k] = found[k],
         pc[h] \notin {"scan", "parse", "store"}, pc'[h] \notin {"scan", "parse", "store"}
  PROVE  CacheInv'
<1>1. \A f \in File : Rebuilding(f)' = Rebuilding(f)
  BY DEF Rebuilding, ServerTypeOK
<1>2. (saved # {} => events > 0)'
  BY DEF CacheInv, ServerTypeOK
<1>3. ASSUME NEW f \in saved \ (raced \cup failed) PROVE CacheFresh(f)'
  <2>1. CacheFresh(f) /\ f \in File
    BY DEF CacheInv, ServerTypeOK
  <2>2. Rebuilding(f)' = Rebuilding(f) /\ h \notin Rebuilding(f)
    BY <1>1, <2>1 DEF Rebuilding
  <2>3. \A k \in Rebuilding(f) : k \in Handler \ {h}
    BY <2>2 DEF Rebuilding
  <2> QED
    BY <2>1, <2>2, <2>3 DEF CacheFresh
<1> QED
  BY <1>2, <1>3 DEF CacheInv

LEMMA CacheStays == ServerTypeOK /\ CacheInv /\ [Next]_vars => CacheInv'
<1> SUFFICES ASSUME ServerTypeOK, CacheInv, [Next]_vars PROVE CacheInv'
  OBVIOUS
<1>0. /\ saved # {} => events > 0
      /\ events \in Nat
      /\ \A f \in saved \ (raced \cup failed) : CacheFresh(f) /\ f \in File
  BY LspAssumption DEF CacheInv, ServerTypeOK, LspAssumption
<1>1. ASSUME NEW g \in File, WriteFile(g) PROVE CacheInv'
  <2>1. ASSUME NEW f \in saved \ (raced \cup failed) PROVE CacheFresh(f)'
    <3>1. CacheFresh(f) /\ f \in File
      BY <1>0
    <3>2. Rebuilding(f)' = Rebuilding(f)
      BY <1>1 DEF WriteFile, locals, Rebuilding
    <3>3. f \notin due' => f \notin due /\ disk'[f] = disk[f]
      BY <1>1, <3>1 DEF WriteFile, ServerTypeOK
    <3> QED
      BY <1>1, <3>1, <3>2, <3>3 DEF WriteFile, state, locals, CacheFresh, GraphOf
  <2> QED
    BY <1>0, <1>1, <2>1 DEF WriteFile, CacheInv
<1>2. ASSUME NEW h \in Handler, Initialized(h) PROVE CacheInv'
  <2>1. saved = {} /\ saved' = {}
    BY <1>0, <1>2 DEF Initialized
  <2> QED
    BY <2>1 DEF CacheInv
<1>3. ASSUME NEW h \in Handler, NEW g \in File, NEW text \in Text, Edit(h, g, text)
      PROVE  CacheInv'
  <2>1. pc[h] = "idle" /\ events' = events + 1
    BY <1>3 DEF Edit, Begin, Busy
  <2>2. pc' = [pc EXCEPT ![h] = "judge"] /\ file' = [file EXCEPT ![h] = g]
    BY <1>3 DEF Edit, PublishFirst
  <2>3. /\ pc'[h] = "judge"
        /\ \A k \in Handler \ {h} : pc'[k] = pc[k] /\ file'[k] = file[k]
    BY <2>2 DEF ServerTypeOK
  <2>4. UNCHANGED <<disk, due, cache, saved, raced, failed, found>>
    BY <1>3 DEF Edit
  <2> QED
    BY <1>0, <2>1, <2>3, <2>4, CacheUntouched
<1>4. ASSUME NEW h \in Handler, NEW g \in File, DidClose(h, g) PROVE CacheInv'
  <2>1. pc[h] = "idle" /\ events' = events + 1
    BY <1>4 DEF DidClose, Begin, Busy
  <2>2. pc' = [pc EXCEPT ![h] = "clear"] /\ file' = [file EXCEPT ![h] = g]
    BY <1>4 DEF DidClose
  <2>3. /\ pc'[h] = "clear"
        /\ \A k \in Handler \ {h} : pc'[k] = pc[k] /\ file'[k] = file[k]
    BY <2>2 DEF ServerTypeOK
  <2>4. UNCHANGED <<disk, due, cache, saved, raced, failed, found>>
    BY <1>4 DEF DidClose
  <2>5. events' >= events /\ events' \in Nat
    BY <2>1, LspAssumption DEF ServerTypeOK, LspAssumption
  <2> QED
    BY <1>0, <2>1, <2>3, <2>4, <2>5, CacheUntouched
<1>5. ASSUME NEW h \in Handler, NEW g \in File, DidSave(h, g) PROVE CacheInv'
  <2>1. pc[h] = "idle" /\ events' = events + 1
    BY <1>5 DEF DidSave, Begin, Busy
  <2>2. /\ pc'[h] = "parse" /\ file'[h] = g
        /\ \A k \in Handler \ {h} : pc'[k] = pc[k] /\ file'[k] = file[k]
    BY <1>5 DEF DidSave, ServerTypeOK
  <2>3. ASSUME NEW f \in saved' \ (raced' \cup failed') PROVE CacheFresh(f)'
    <3>1. CASE f = g
      <4>1. Rebuilding(g) = {}
        BY <1>5, <2>3, <3>1 DEF DidSave
      <4>2. Rebuilding(g)' = {h}
        BY <2>2, <4>1 DEF Rebuilding
      <4>3. \A k \in Handler : pc'[k] # "scan"
        BY <2>2, <4>1 DEF Rebuilding
      <4> QED
        BY <2>2, <3>1, <4>2, <4>3 DEF CacheFresh
    <3>2. CASE f # g
      <4>1. CacheFresh(f) /\ f \in saved \ (raced \cup failed)
        BY <1>0, <1>5, <3>2, <2>3 DEF DidSave
      <4>2. Rebuilding(f)' = Rebuilding(f)
        BY <2>1, <2>2, <3>2 DEF Rebuilding
      <4>3. \A k \in Handler : pc'[k] # "scan"
        BY <2>2, <4>1 DEF CacheFresh
      <4>4. f \notin due' => f \notin due
        BY <1>5, <3>2 DEF DidSave
      <4>5. UNCHANGED <<disk, cache, found>>
        BY <1>5 DEF DidSave, state
      <4>6. \A k \in Rebuilding(f) : pc'[k] = pc[k]
        BY <2>1, <2>2 DEF Rebuilding
      <4> QED
        BY <4>1, <4>2, <4>3, <4>4, <4>5, <4>6 DEF CacheFresh, GraphOf
    <3> QED
      BY <3>1, <3>2
  <2> QED
    BY <1>0, <2>1, <2>3 DEF CacheInv
<1>7. ASSUME NEW h \in Handler, pc[h] = "scan", UNCHANGED <<saved, raced, failed, events>>
      PROVE  CacheInv'
  <2>1. saved \ (raced \cup failed) = {}
    BY <1>0, <1>7 DEF CacheFresh
  <2> QED
    BY <1>0, <1>7, <2>1 DEF CacheInv
<1>8. ASSUME NEW h \in Handler, Parse(h) PROVE CacheInv'
  <2>1. ASSUME NEW f \in saved \ (raced \cup failed) PROVE CacheFresh(f)'
    <3>1. CacheFresh(f) /\ f \in File
      BY <1>0
    <3>2. pc[h] = "parse" /\ pc' = [pc EXCEPT ![h] = "store"] /\ file' = file
      BY <1>8 DEF Parse
    <3>3. Rebuilding(f)' = Rebuilding(f)
      BY <3>2 DEF Rebuilding, ServerTypeOK
    <3>4. ASSUME NEW k \in Rebuilding(f), pc'[k] = "store", f \notin due
          PROVE  found'[k][f] = GraphOf(disk[f])
      <4>1. CASE k = h
        <5>1. file[h] = f
          BY <3>2, <4>1, <3>4 DEF Rebuilding
        <5> QED
          BY <1>8, <3>1, <4>1, <5>1 DEF Parse, ServerTypeOK, Graphs
      <4>2. CASE k # h
        BY <1>8, <3>1, <3>2, <3>4, <4>2 DEF Parse, ServerTypeOK, CacheFresh, Rebuilding
      <4> QED
        BY <4>1, <4>2
    <3>5. \A k \in Handler : pc'[k] # "scan"
      BY <3>1, <3>2 DEF CacheFresh, ServerTypeOK
    <3> QED
      BY <1>8, <3>1, <3>3, <3>4, <3>5 DEF Parse, editor, state, CacheFresh, GraphOf
  <2> QED
    BY <1>0, <1>8, <2>1 DEF Parse, editor, history, CacheInv
<1>13. ASSUME NEW h \in Handler, ParseFails(h) PROVE CacheInv'
  <2>1. ASSUME NEW f \in saved' \ (raced' \cup failed') PROVE CacheFresh(f)'
    <3>1. CacheFresh(f) /\ f \in File /\ file[h] # f
      BY <1>0, <1>13, <2>1 DEF ParseFails
    <3>2. pc[h] = "parse" /\ pc' = [pc EXCEPT ![h] = "republish"] /\ file' = file
      BY <1>13 DEF ParseFails
    <3>3. /\ pc'[h] = "republish"
          /\ \A k \in Handler \ {h} : pc'[k] = pc[k]
      BY <3>2 DEF ServerTypeOK
    <3>4. Rebuilding(f)' = Rebuilding(f) /\ h \notin Rebuilding(f)
      BY <3>1, <3>2, <3>3 DEF Rebuilding
    <3>5. \A k \in Rebuilding(f) : pc'[k] = pc[k]
      BY <3>3, <3>4 DEF Rebuilding
    <3>6. \A k \in Handler : pc'[k] # "scan"
      BY <3>1, <3>3 DEF CacheFresh
    <3>7. UNCHANGED <<disk, due, cache, found>>
      BY <1>13 DEF ParseFails, editor, state
    <3> QED
      BY <3>1, <3>4, <3>5, <3>6, <3>7 DEF CacheFresh, GraphOf
  <2> QED
    BY <1>0, <1>13, <2>1 DEF ParseFails, editor, CacheInv
<1>9. ASSUME NEW h \in Handler, Store(h) PROVE CacheInv'
  <2>1. ASSUME NEW f \in saved \ (raced \cup failed) PROVE CacheFresh(f)'
    <3>1. CacheFresh(f) /\ f \in File
      BY <1>0
    <3>2. pc[h] = "store" /\ pc' = [pc EXCEPT ![h] = "merge"] /\ file' = file
      BY <1>9 DEF Store
    <3>3. /\ pc'[h] = "merge"
          /\ \A k \in Handler \ {h} : pc'[k] = pc[k] /\ file'[k] = file[k] /\ found'[k] = found[k]
      BY <1>9, <3>2 DEF Store, ServerTypeOK
    <3>4. \A k \in Handler : pc'[k] # "scan"
      BY <3>1, <3>3 DEF CacheFresh
    <3>5. CASE file[h] = f
      <4>1. h \in Rebuilding(f)
        BY <3>2, <3>5 DEF Rebuilding
      <4>2. Rebuilding(f) = {h}
        BY <3>1, <4>1 DEF CacheFresh
      <4>3. Rebuilding(f)' = {}
        BY <3>3, <4>2 DEF Rebuilding
      <4>4. f \notin due => cache'[f] = GraphOf(disk[f])
        BY <1>9, <3>1, <3>2, <3>5, <4>1 DEF Store, CacheFresh, ServerTypeOK, Graphs
      <4> QED
        BY <1>9, <3>4, <4>3, <4>4 DEF Store, editor, CacheFresh, GraphOf
    <3>6. CASE file[h] # f
      <4>1. Rebuilding(f)' = Rebuilding(f) /\ h \notin Rebuilding(f)
        BY <3>2, <3>3, <3>6 DEF Rebuilding
      <4>2. \A k \in Rebuilding(f) : pc'[k] = pc[k] /\ found'[k] = found[k]
        BY <3>3, <4>1 DEF Rebuilding
      <4>3. cache'[f] = cache[f]
        BY <1>9, <3>1, <3>6 DEF Store, ServerTypeOK, Graphs
      <4> QED
        BY <1>9, <3>1, <3>4, <4>1, <4>2, <4>3 DEF Store, editor, CacheFresh, GraphOf
    <3> QED
      BY <3>5, <3>6
  <2> QED
    BY <1>0, <1>9, <2>1 DEF Store, editor, history, CacheInv
<1>10. ASSUME NEW h \in Handler,
              ScanStore(h) \/ Parse(h) \/ ParseFails(h) \/ Store(h) \/ MergeRead(h) \/ MergeWrite(h)
              \/ Republish(h) \/ Judge(h) \/ Send(h) \/ Clear(h)
              \/ \E f \in File : ScanFile(h, f) \/ Publish(h, f)
       PROVE  CacheInv'
  <2>1. CASE ScanStore(h) \/ \E f \in File : ScanFile(h, f)
    BY <1>7, <2>1 DEF ScanStore, ScanFile, editor, history
  <2>2. CASE MergeRead(h) \/ MergeWrite(h) \/ Judge(h)
    BY <1>0, <2>2, CacheUntouched DEF MergeRead, MergeWrite, Judge, editor, state, history, ServerTypeOK
  <2>3. CASE Clear(h)
    BY <1>0, <2>3, CacheUntouched DEF Clear, editor, history, ServerTypeOK
  <2>4. CASE Republish(h) \/ Send(h)
    <3>1. pc[h] \in {"republish", "send"} /\ pc'[h] \in {"idle", "publish"}
      BY <2>4 DEF Republish, Send, NextDocument, ServerTypeOK
    <3>2. \A k \in Handler \ {h} : pc'[k] = pc[k] /\ file'[k] = file[k]
      BY <2>4 DEF Republish, Send, NextDocument, ServerTypeOK
    <3>3. UNCHANGED <<disk, due, events, cache, saved, raced, failed, found>>
      BY <2>4 DEF Republish, Send, editor, state, history
    <3> QED
      BY <1>0, <3>1, <3>2, <3>3, CacheUntouched
  <2>5. CASE \E f \in File : Publish(h, f)
    <3>1. PICK f \in File : Publish(h, f)
      BY <2>5
    <3>2. pc[h] = "publish" /\ pc'[h] \in {"idle", "publish", "judge"}
      BY <3>1 DEF Publish, PublishFirst, NextDocument, ServerTypeOK
    <3>3. \A k \in Handler \ {h} : pc'[k] = pc[k] /\ file'[k] = file[k]
      BY <3>1 DEF Publish, PublishFirst, NextDocument, ServerTypeOK
    <3>4. UNCHANGED <<disk, due, events, cache, saved, raced, failed, found>>
      BY <3>1 DEF Publish, editor, history
    <3> QED
      BY <1>0, <3>2, <3>3, <3>4, CacheUntouched
  <2> QED
    BY <1>8, <1>9, <1>10, <1>13, <2>1, <2>2, <2>3, <2>4, <2>5
<1>11. CASE UNCHANGED vars
  BY <1>0, <1>11 DEF vars, editor, state, locals, history, CacheInv, CacheFresh, Rebuilding, GraphOf
<1>12. ASSUME NEW h \in Handler, Request(h) PROVE CacheInv'
  BY <1>12, <1>2, <1>3, <1>4, <1>5 DEF Request, DidOpen, DidChange, ServerTypeOK
<1> QED
  BY <1>1, <1>10, <1>11, <1>12 DEF Next, HandlerStep

\* However requests overlap, a cache entry whose latest rebuild overlapped
\* with no other and did not fail is what its file says, once the server knows
\* of the last save (server.rs rebuild_file_schema).
THEOREM CacheFollows == Spec => []CacheFollowsDisk
<1>1. Init => CacheInv
  BY DEF Init, CacheInv
<1>2. ServerTypeOK /\ CacheInv => CacheFollowsDisk
  BY DEF CacheInv, CacheFresh, CacheFollowsDisk, Settled
<1> QED
  BY <1>1, <1>2, CacheStays, ServerTypeCorrect, PTL DEF Spec

-----------------------------------------------------------------------------
\* Undisturbed saves.

\* What is up to date where a handler is that has handled the save of f, with
\* no other since: from parse to the end, what it read, the cache and the
\* schema, unless the parse failed, and the diagnostics of the documents it is
\* done with.
AloneAt(h, f) ==
  /\ \A k \in Handler \ {h} : pc[k] = "idle"
  /\ pc[h] \notin {"scan", "clear"}
  /\ pc[h] \in {"parse", "store"} => file[h] = f
  /\ pc[h] = "store" => found[h][f] = GraphOf(disk[f])
  /\ pc[h] \notin {"parse", "store"} /\ f \notin failed => cache[f] = GraphOf(disk[f])
  /\ pc[h] = "write" => merged[h] = cache
  /\ pc[h] \notin {"parse", "store", "merge", "write"} /\ f \notin failed => schema = cache
  /\ pc[h] \in {"publish", "judge", "send", "idle"} =>
       \A g \in File \ rest[h] :
         IsOpen(g) => published[g] = [text |-> docs[g], schema |-> schema]
  /\ pc[h] \in {"judge", "send"} => file[h] \in File /\ source[h] = docs[file[h]]
  /\ pc[h] = "send" => against[h] = schema
  /\ pc[h] = "idle" => rest[h] = {}

AloneInv == \A h \in Handler, f \in File : alone[h] = f => AloneAt(h, f)

LEMMA NobodyIsAlone ==
  ASSUME alone' = [k \in Handler |-> None]
  PROVE  AloneInv'
BY LspAssumption DEF AloneInv, LspAssumption

\* The end of a document: the next one, or none.
LEMMA GoesOn ==
  ASSUME ServerTypeOK, NEW h \in Handler, NEW left \in SUBSET File, NextDocument(h, left)
  PROVE  /\ rest'[h] = left
         /\ pc'[h] \in {"publish", "idle"}
         /\ pc'[h] = "idle" => left = {}
         /\ \A k \in Handler \ {h} : pc'[k] = pc[k]
BY DEF NextDocument, ServerTypeOK

LEMMA AloneGoesOn ==
  ASSUME ServerTypeOK, NEW h \in Handler, NEW f \in File, AloneAt(h, f), HandlerStep(h)
  PROVE  AloneAt(h, f)'
<1>1. /\ \A k \in Handler \ {h} : pc[k] = "idle"
      /\ pc[h] \notin {"scan", "clear"}
  BY DEF AloneAt
<1>2. CASE Parse(h)
  <2>1. pc[h] = "parse" /\ pc'[h] = "store" /\ \A k \in Handler \ {h} : pc'[k] = "idle"
    BY <1>1, <1>2 DEF Parse, ServerTypeOK
  <2>2. file[h] = f /\ file' = file
    BY <1>2, <2>1 DEF Parse, AloneAt
  <2>3. found'[h][f] = GraphOf(disk[f]) /\ disk' = disk
    BY <1>2, <2>2 DEF Parse, editor, ServerTypeOK, Graphs
  <2> QED
    BY <2>1, <2>2, <2>3 DEF AloneAt, GraphOf
<1>11. CASE ParseFails(h)
  <2>1. pc[h] = "parse" /\ pc'[h] = "republish" /\ \A k \in Handler \ {h} : pc'[k] = "idle"
    BY <1>1, <1>11 DEF ParseFails, ServerTypeOK
  <2>2. f \in failed'
    BY <1>11, <2>1 DEF ParseFails, AloneAt
  <2> QED
    BY <2>1, <2>2 DEF AloneAt
<1>3. CASE Store(h)
  <2>1. pc[h] = "store" /\ pc'[h] = "merge" /\ \A k \in Handler \ {h} : pc'[k] = "idle"
    BY <1>1, <1>3 DEF Store, ServerTypeOK
  <2>2. cache'[f] = GraphOf(disk[f]) /\ disk' = disk
    BY <1>3, <2>1 DEF Store, editor, AloneAt, ServerTypeOK, Graphs
  <2> QED
    BY <2>1, <2>2 DEF AloneAt, GraphOf
<1>4. CASE MergeRead(h)
  <2>1. pc[h] = "merge" /\ pc'[h] = "write" /\ \A k \in Handler \ {h} : pc'[k] = "idle"
    BY <1>1, <1>4 DEF MergeRead, ServerTypeOK
  <2>2. merged'[h] = cache' /\ cache' = cache /\ disk' = disk /\ failed' = failed
    BY <1>4 DEF MergeRead, editor, state, history, ServerTypeOK
  <2> QED
    BY <2>1, <2>2 DEF AloneAt, GraphOf
<1>5. CASE MergeWrite(h)
  <2>1. pc[h] = "write" /\ pc'[h] = "republish" /\ \A k \in Handler \ {h} : pc'[k] = "idle"
    BY <1>1, <1>5 DEF MergeWrite, ServerTypeOK
  <2>2. schema' = cache' /\ cache' = cache /\ disk' = disk /\ failed' = failed
    BY <1>5, <2>1 DEF MergeWrite, editor, history, AloneAt
  <2> QED
    BY <2>1, <2>2 DEF AloneAt, GraphOf
<1>6. CASE Republish(h)
  <2> DEFINE opened == {g \in File : IsOpen(g)}
  <2>1. pc[h] = "republish" /\ NextDocument(h, opened)
    BY <1>6 DEF Republish
  <2>2. UNCHANGED <<disk, failed, docs, cache, schema, published>>
    BY <1>6 DEF Republish, editor, state, history
  <2>3. \A g \in File : IsOpen(g) => g \in opened
    OBVIOUS
  <2>4. opened \in SUBSET File
    OBVIOUS
  <2> HIDE DEF opened
  <2>5. /\ rest'[h] = opened /\ pc'[h] \in {"publish", "idle"}
        /\ pc'[h] = "idle" => opened = {}
        /\ \A k \in Handler \ {h} : pc'[k] = "idle"
    BY <1>1, <2>1, <2>4, GoesOn
  <2> QED
    BY <2>1, <2>2, <2>3, <2>5 DEF AloneAt, GraphOf, IsOpen
<1>7. CASE Judge(h)
  <2>1. pc[h] = "judge" /\ pc'[h] = "send" /\ \A k \in Handler \ {h} : pc'[k] = "idle"
    BY <1>1, <1>7 DEF Judge, ServerTypeOK
  <2>2. against'[h] = schema'
    BY <1>7 DEF Judge, state, ServerTypeOK
  <2>3. UNCHANGED <<disk, failed, docs, cache, schema, published, file, rest, source>>
    BY <1>7 DEF Judge, editor, state, history
  <2> QED
    BY <2>1, <2>2, <2>3 DEF AloneAt, GraphOf, IsOpen
<1>8. CASE Send(h)
  <2> DEFINE left == rest[h] \ {file[h]}
  <2>1. pc[h] = "send" /\ NextDocument(h, left)
    BY <1>8 DEF Send
  <2>2. UNCHANGED <<disk, failed, docs, cache, schema>>
    BY <1>8 DEF Send, editor, history
  <2>3. left \in SUBSET File
    BY DEF ServerTypeOK
  <2>4. ASSUME NEW g \in File \ left, IsOpen(g)
        PROVE  published'[g] = [text |-> docs[g], schema |-> schema]
    <3>1. CASE g = file[h]
      BY <1>8, <2>1, <3>1 DEF Send, AloneAt, ServerTypeOK
    <3>2. CASE g # file[h]
      <4>1. published'[g] = published[g]
        BY <1>8, <3>2 DEF Send, ServerTypeOK
      <4> QED
        BY <2>1, <2>4, <3>2, <4>1 DEF AloneAt
    <3> QED
      BY <3>1, <3>2
  <2> HIDE DEF left
  <2>5. /\ rest'[h] = left /\ pc'[h] \in {"publish", "idle"}
        /\ pc'[h] = "idle" => left = {}
        /\ \A k \in Handler \ {h} : pc'[k] = "idle"
    BY <1>1, <2>1, <2>3, GoesOn
  <2> QED
    BY <2>1, <2>2, <2>4, <2>5 DEF AloneAt, GraphOf, IsOpen
<1>9. ASSUME NEW g \in File, Publish(h, g), IsOpen(g) PROVE AloneAt(h, f)'
  <2>1. pc[h] = "publish" /\ pc'[h] = "judge" /\ \A k \in Handler \ {h} : pc'[k] = "idle"
    BY <1>1, <1>9 DEF Publish, PublishFirst, ServerTypeOK
  <2>2. file'[h] = g /\ source'[h] = docs[g]
    BY <1>9 DEF Publish, PublishFirst, ServerTypeOK
  <2>3. UNCHANGED <<disk, failed, docs, cache, schema, published, rest>>
    BY <1>9 DEF Publish, editor, history
  <2> QED
    BY <2>1, <2>2, <2>3 DEF AloneAt, GraphOf, IsOpen
<1>10. ASSUME NEW g \in File, Publish(h, g), ~IsOpen(g) PROVE AloneAt(h, f)'
  <2> DEFINE left == rest[h] \ {g}
  <2>1. pc[h] = "publish" /\ NextDocument(h, left)
    BY <1>10 DEF Publish
  <2>2. UNCHANGED <<disk, failed, docs, cache, schema, published>>
    BY <1>10 DEF Publish, editor, history
  <2>3. left \in SUBSET File /\ \A o \in File \ left : IsOpen(o) => o \notin rest[h]
    BY <1>10 DEF ServerTypeOK
  <2> HIDE DEF left
  <2>4. /\ rest'[h] = left /\ pc'[h] \in {"publish", "idle"}
        /\ pc'[h] = "idle" => left = {}
        /\ \A k \in Handler \ {h} : pc'[k] = "idle"
    BY <1>1, <2>1, <2>3, GoesOn
  <2> QED
    BY <2>1, <2>2, <2>3, <2>4 DEF AloneAt, GraphOf, IsOpen
<1> QED
  BY <1>1, <1>2, <1>3, <1>4, <1>5, <1>6, <1>7, <1>8, <1>9, <1>10, <1>11
  DEF HandlerStep, ScanStore, ScanFile, Clear

\* A handler's step leaves the requests and the history alone.
LEMMA HandlerKeeps ==
  ASSUME ServerTypeOK, NEW h \in Handler, HandlerStep(h)
  PROVE  /\ pc[h] # "idle"
         /\ UNCHANGED <<docs, alone>>
         /\ \A k \in Handler \ {h} : pc'[k] = pc[k]
BY DEF HandlerStep, ScanStore, Parse, ParseFails, Store, MergeRead, MergeWrite, Republish, Judge, Send,
       Clear, ScanFile, Publish, PublishFirst, NextDocument, state, history, ServerTypeOK

LEMMA AloneStays == ServerTypeOK /\ AloneInv /\ [Next]_vars => AloneInv'
<1> SUFFICES ASSUME ServerTypeOK, AloneInv, [Next]_vars PROVE AloneInv'
  OBVIOUS
<1>1. ASSUME NEW g \in File, WriteFile(g) PROVE AloneInv'
  BY <1>1, NobodyIsAlone DEF WriteFile
<1>2. ASSUME NEW h \in Handler, NEW g \in File, DidSave(h, g) PROVE AloneInv'
  <2>1. SUFFICES ASSUME NEW k \in Handler, NEW f \in File, alone'[k] = f
                 PROVE  AloneAt(k, f)'
    BY DEF AloneInv
  <2>2. k = h /\ g = f /\ Busy = {}
    BY <1>2, <2>1, LspAssumption DEF DidSave, LspAssumption
  <2>3. /\ pc'[h] = "parse" /\ file'[h] = f
        /\ \A o \in Handler \ {h} : pc'[o] = "idle"
    BY <1>2, <2>2 DEF DidSave, Busy, ServerTypeOK
  <2> QED
    BY <2>2, <2>3 DEF AloneAt
<1>3. ASSUME NEW h \in Handler, Request(h) PROVE AloneInv'
  <2>1. CASE alone' = [k \in Handler |-> None]
    BY <2>1, NobodyIsAlone
  <2> QED
    BY <1>2, <1>3, <2>1 DEF Request, Initialized, DidOpen, DidChange, DidClose, Edit
<1>4. ASSUME NEW h \in Handler, HandlerStep(h) PROVE AloneInv'
  <2>1. SUFFICES ASSUME NEW k \in Handler, NEW f \in File, alone'[k] = f
                 PROVE  AloneAt(k, f)'
    BY DEF AloneInv
  <2>2. AloneAt(k, f) /\ pc[h] # "idle"
    BY <1>4, <2>1, HandlerKeeps DEF AloneInv
  <2>3. k = h
    BY <2>2 DEF AloneAt
  <2> QED
    BY <1>4, <2>2, <2>3, AloneGoesOn
<1>5. CASE UNCHANGED vars
  BY <1>5 DEF vars, editor, state, locals, history, AloneInv, AloneAt, IsOpen, GraphOf
<1> QED
  BY <1>1, <1>3, <1>4, <1>5 DEF Next

\* A save that nothing overlaps brings the cache and the schema up to date,
\* unless its parse failed, and every document's diagnostics with the schema
\* there is (server.rs did_save).
THEOREM AloneSavesRefresh == Spec => AloneSaveRefreshes
<1>1. Init => AloneInv
  BY LspAssumption DEF Init, AloneInv, LspAssumption
<1>2. ASSUME ServerTypeOK, AloneInv, AloneInv', [Next]_vars,
             NEW h \in Handler, NEW f \in File, alone[h] = f, pc[h] # "idle", pc'[h] = "idle"
      PROVE  /\ f \notin failed => cache'[f] = GraphOf(disk'[f]) /\ schema' = cache'
             /\ \A g \in File : IsOpen(g) =>
                  published'[g] = [text |-> docs[g], schema |-> schema']
  <2>1. ~ \E g \in File : WriteFile(g)
    BY <1>2 DEF WriteFile, locals
  <2>2. ~ \E k \in Handler : Request(k)
    <3> SUFFICES ASSUME NEW k \in Handler, Request(k) PROVE FALSE
      OBVIOUS
    <3>1. k \notin Busy
      BY DEF Request, Initialized, DidOpen, DidChange, DidClose, DidSave, Edit, Begin
    <3>2. \E at \in Stations : pc' = [pc EXCEPT ![k] = at]
      BY DEF Request, Initialized, DidOpen, DidChange, DidClose, DidSave, Edit, PublishFirst,
             Stations
    <3> QED
      BY <1>2, <3>1, <3>2 DEF Busy, ServerTypeOK
  <2>3. PICK k \in Handler : HandlerStep(k)
    BY <1>2, <2>1, <2>2 DEF Next, vars, locals
  <2>4. UNCHANGED <<docs, alone>>
    BY <1>2, <2>3, HandlerKeeps
  <2>5. AloneAt(h, f)'
    BY <1>2, <2>4 DEF AloneInv
  <2>6. failed' = failed
    BY <1>2, <2>3 DEF HandlerStep, ScanStore, Parse, ParseFails, Store, MergeRead, MergeWrite,
       Republish, Judge, Send, Clear, ScanFile, Publish, history, ServerTypeOK
  <2> QED
    BY <1>2, <2>4, <2>5, <2>6 DEF AloneAt, GraphOf, IsOpen
<1>3. ServerTypeOK /\ AloneInv /\ AloneInv' /\ [Next]_vars =>
        \A h \in Handler, f \in File :
          alone[h] = f /\ pc[h] # "idle" /\ pc'[h] = "idle" =>
            /\ f \notin failed => cache'[f] = GraphOf(disk'[f]) /\ schema' = cache'
            /\ \A g \in File : IsOpen(g) =>
                 published'[g] = [text |-> docs[g], schema |-> schema']
  BY <1>2
<1> QED
  BY <1>1, <1>3, AloneStays, ServerTypeCorrect, PTL DEF Spec, AloneSaveRefreshes
=============================================================================
