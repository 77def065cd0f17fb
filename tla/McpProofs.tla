----------------------------- MODULE McpProofs ------------------------------
(***************************************************************************)
(* For any number of concurrent tool calls, of projects, schema modules    *)
(* and migrations: the playground is well-typed, no migration took effect  *)
(* more often than there were calls, and what a tool that nobody           *)
(* interferes with leaves behind does not depend on what it found.         *)
(***************************************************************************)
EXTENDS McpPlayground, SequenceTheorems, FiniteSetTheorems, TLAPS

-----------------------------------------------------------------------------
(* The parts of a script.                                                  *)

\* The commands there are (mcp/src/lib.rs, the calls of the database).
Sendable ==
  [op : {"use"}, to : Database]
    \cup [op : {"remove"}, db : DbName, quoted : BOOLEAN]
    \cup [op : {"read"}]
    \cup [op : {"define"}, module : Module, text : Content, overwrite : BOOLEAN,
          onError : {"fatal", "collect", "ignore"}]
    \cup [op : {"migrate"}, version : Version, onError : {"fatal", "collect", "ignore"}]
    \cup [op : {"query"}, what : {"query", "file"}, onError : {"fatal", "collect", "ignore"}]
    \cup [op : {"compare"}, project : ProjectFiles]

\* The tools that apply a project.
Applying ==
  [tool : {"load_project"}, project : ProjectFiles, clean : BOOLEAN]
    \cup [tool : {"load_manifest", "verify"}, project : ProjectFiles]
    \cup [tool : {"rollback"}, project : ProjectFiles, target : 0..Versions]

\* What such a tool sends before the modules, between them and the
\* migrations, and after these.
Opening(a) ==
  CASE a.tool = "load_project" ->
         IF a.clean
         THEN <<Use("default", "default"), RemoveDatabase("default"), Use("default", "default")>>
         ELSE <<>>
    [] a.tool = "verify" ->
         <<Use(a.project.ns, "default"), RemoveQuoted(a.project.db),
           Use(a.project.ns, a.project.db)>>
    [] a.tool = "load_manifest" ->
         <<RemoveDatabase("default"), Use(a.project.ns, a.project.db), ReadFiles>>
    [] a.tool = "rollback" ->
         <<RemoveDatabase(a.project.db), Use(a.project.ns, a.project.db), ReadFiles>>
Between(a) == IF a.tool \in {"load_manifest", "rollback"} THEN <<ReadFiles>> ELSE <<>>
Closing(a) ==
  CASE a.tool = "load_project" -> <<RunQuery("file", "collect"), RunQuery("file", "ignore")>>
    [] a.tool = "verify" -> <<CompareWithShadow(a.project)>>
    [] OTHER -> <<>>

\* The last migration it runs, and how it defines modules.
Last(a) == IF a.tool = "rollback" THEN a.target ELSE Versions
Overwrites(a) == a.tool \in {"load_project", "rollback"}
OnError(a) == IF a.tool \in {"load_project", "load_manifest"} THEN "collect" ELSE "fatal"

\* Where the modules, the migrations and the closing commands begin.
ModulesAt(a) == Len(Opening(a))
MigrationsAt(a) == Len(Opening(a)) + Modules + Len(Between(a))
ClosingAt(a) == Len(Opening(a)) + Modules + Len(Between(a)) + Last(a)

\* Two lists one behind the other.
LEMMA Joined ==
  ASSUME NEW S, NEW s \in Seq(S), NEW t \in Seq(S)
  PROVE  /\ s \o t \in Seq(S) /\ Len(s \o t) = Len(s) + Len(t)
         /\ Len(s) \in Nat /\ Len(t) \in Nat
         /\ \A i \in 1..Len(s) : (s \o t)[i] = s[i] /\ i \in 1..Len(s \o t)
         /\ \A i \in 1..Len(t) :
              (s \o t)[Len(s) + i] = t[i] /\ Len(s) + i \in 1..Len(s \o t)
<1>1. Len(s) \in Nat /\ Len(t) \in Nat
  OBVIOUS
<1>2. /\ s \o t \in Seq(S) /\ Len(s \o t) = Len(s) + Len(t)
      /\ \A i \in 1..(Len(s) + Len(t)) :
           (s \o t)[i] = IF i <= Len(s) THEN s[i] ELSE t[i - Len(s)]
  BY ConcatProperties
<1>3. ASSUME NEW i \in 1..Len(t) PROVE (s \o t)[Len(s) + i] = t[i]
  <2>1. Len(s) + i \in 1..(Len(s) + Len(t)) /\ ~(Len(s) + i <= Len(s)) /\ (Len(s) + i) - Len(s) = i
    BY <1>1
  <2> QED
    BY <1>2, <2>1
<1> QED
  BY <1>1, <1>2, <1>3

\* w consists of these five lists, one behind the other.
InOrder(w, q, r, s, t, u, S) ==
  /\ w \in Seq(S)
  /\ Len(w) = Len(q) + Len(r) + Len(s) + Len(t) + Len(u)
  /\ \A i \in 1..Len(q) : w[i] = q[i]
  /\ \A i \in 1..Len(r) : w[Len(q) + i] = r[i]
  /\ \A i \in 1..Len(s) : w[Len(q) + Len(r) + i] = s[i]
  /\ \A i \in 1..Len(t) : w[Len(q) + Len(r) + Len(s) + i] = t[i]
  /\ \A i \in 1..Len(u) : w[Len(q) + Len(r) + Len(s) + Len(t) + i] = u[i]

\* What is where in such a list.
LEMMA PartsInOrder ==
  ASSUME NEW S, NEW q \in Seq(S), NEW r \in Seq(S), NEW s \in Seq(S), NEW t \in Seq(S),
         NEW u \in Seq(S)
  PROVE  InOrder(q \o r \o s \o t \o u, q, r, s, t, u, S)
<1> DEFINE a == q \o r
           b == a \o s
           d == b \o t
           w == d \o u
<1>1. /\ a \in Seq(S) /\ Len(a) = Len(q) + Len(r)
      /\ \A i \in 1..Len(q) : a[i] = q[i] /\ i \in 1..Len(a)
      /\ \A i \in 1..Len(r) : a[Len(q) + i] = r[i] /\ Len(q) + i \in 1..Len(a)
  BY Joined
<1> HIDE DEF a
<1>2. /\ b \in Seq(S) /\ Len(b) = Len(a) + Len(s)
      /\ \A i \in 1..Len(a) : b[i] = a[i] /\ i \in 1..Len(b)
      /\ \A i \in 1..Len(s) : b[Len(a) + i] = s[i] /\ Len(a) + i \in 1..Len(b)
  BY <1>1, Joined
<1> HIDE DEF b
<1>3. /\ d \in Seq(S) /\ Len(d) = Len(b) + Len(t)
      /\ \A i \in 1..Len(b) : d[i] = b[i] /\ i \in 1..Len(d)
      /\ \A i \in 1..Len(t) : d[Len(b) + i] = t[i] /\ Len(b) + i \in 1..Len(d)
  BY <1>2, Joined
<1> HIDE DEF d
<1>4. /\ w \in Seq(S) /\ Len(w) = Len(d) + Len(u)
      /\ \A i \in 1..Len(d) : w[i] = d[i] /\ i \in 1..Len(w)
      /\ \A i \in 1..Len(u) : w[Len(d) + i] = u[i] /\ Len(d) + i \in 1..Len(w)
  BY <1>3, Joined
<1> HIDE DEF w
<1>5. \A i \in 1..Len(b) : w[i] = b[i]
  BY <1>3, <1>4
<1>6. \A i \in 1..Len(a) : w[i] = a[i]
  BY <1>2, <1>5
<1>7. /\ \A i \in 1..Len(q) : w[i] = q[i]
      /\ \A i \in 1..Len(r) : w[Len(q) + i] = r[i]
  BY <1>1, <1>6
<1>8. \A i \in 1..Len(s) : w[Len(a) + i] = s[i]
  BY <1>2, <1>5
<1>9. \A i \in 1..Len(t) : w[Len(b) + i] = t[i]
  BY <1>3, <1>4
<1>10. /\ Len(a) = Len(q) + Len(r)
       /\ Len(b) = Len(q) + Len(r) + Len(s)
       /\ Len(d) = Len(q) + Len(r) + Len(s) + Len(t)
       /\ Len(w) = Len(q) + Len(r) + Len(s) + Len(t) + Len(u)
  BY <1>1, <1>2, <1>3, <1>4
<1>11. /\ \A i \in 1..Len(s) : w[Len(q) + Len(r) + i] = s[i]
       /\ \A i \in 1..Len(t) : w[Len(q) + Len(r) + Len(s) + i] = t[i]
       /\ \A i \in 1..Len(u) : w[Len(q) + Len(r) + Len(s) + Len(t) + i] = u[i]
  BY <1>4, <1>8, <1>9, <1>10
<1>12. w \in Seq(S) /\ Len(w) = Len(q) + Len(r) + Len(s) + Len(t) + Len(u)
  BY <1>4, <1>10
<1>13. InOrder(w, q, r, s, t, u, S)
  BY <1>7, <1>11, <1>12 DEF InOrder
<1> QED
  BY <1>13 DEF a, b, d, w

\* The parts are made of commands (lib.rs, the bodies of the tools).
LEMMA PartsAreSendable ==
  ASSUME NEW a \in Applying
  PROVE  /\ Opening(a) \in Seq(Sendable) /\ Between(a) \in Seq(Sendable)
         /\ Closing(a) \in Seq(Sendable)
         /\ ApplyModules(a.project, Overwrites(a), OnError(a)) \in Seq(Sendable)
         /\ RunMigrations(Last(a), OnError(a)) \in Seq(Sendable)
         /\ Len(ApplyModules(a.project, Overwrites(a), OnError(a))) = Modules
         /\ Len(RunMigrations(Last(a), OnError(a))) = Last(a)
         /\ Last(a) \in 0..Versions
<1> USE PlaygroundAssumption
<1>1. a.project \in ProjectFiles /\ Last(a) \in 0..Versions /\ Last(a) \in Nat
  BY DEF Applying, Last
<1>2. Overwrites(a) \in BOOLEAN /\ OnError(a) \in {"fatal", "collect", "ignore"}
  BY DEF Overwrites, OnError
<1>3. \A m \in Module : DefineModule(a.project, m, Overwrites(a), OnError(a)) \in Sendable
  BY <1>1, <1>2 DEF DefineModule, Sendable, ProjectFiles
<1>4. \A v \in 1..Last(a) : RunMigration(v, OnError(a)) \in Sendable
  BY <1>1, <1>2 DEF RunMigration, Sendable, Version
<1>5. /\ a.project.ns \in Namespace /\ a.project.db \in DbName
      /\ "default" \in Namespace /\ "default" \in DbName
  BY <1>1 DEF ProjectFiles
<1>6. /\ \A n \in Namespace, b \in DbName : Use(n, b) \in Sendable
      /\ \A b \in DbName : RemoveDatabase(b) \in Sendable /\ RemoveQuoted(b) \in Sendable
      /\ ReadFiles \in Sendable
      /\ RunQuery("file", "collect") \in Sendable /\ RunQuery("file", "ignore") \in Sendable
      /\ CompareWithShadow(a.project) \in Sendable
  BY <1>1 DEF Use, RemoveDatabase, RemoveQuoted, ReadFiles, RunQuery, CompareWithShadow, Sendable, Database
<1>7. Opening(a) \in Seq(Sendable) /\ Between(a) \in Seq(Sendable) /\ Closing(a) \in Seq(Sendable)
  <2>1. a.tool \in {"load_project", "load_manifest", "verify", "rollback"}
    BY DEF Applying
  <2> QED
    BY <1>5, <1>6, <2>1 DEF Opening, Between, Closing
<1>8. /\ ApplyModules(a.project, Overwrites(a), OnError(a)) \in [1..Modules -> Sendable]
      /\ RunMigrations(Last(a), OnError(a)) \in [1..Last(a) -> Sendable]
  BY <1>3, <1>4 DEF ApplyModules, RunMigrations, Module
<1>9. \A n \in Nat : \A s \in [1..n -> Sendable] : s \in Seq(Sendable) /\ Len(s) = n
  OBVIOUS
<1>10. Modules \in Nat
  OBVIOUS
<1> QED
  BY <1>1, <1>7, <1>8, <1>9, <1>10, Zenon

\* The scripts are these parts in this order.
LEMMA ScriptsHaveParts ==
  ASSUME NEW a \in Applying
  PROVE  Script(a) = Opening(a) \o ApplyModules(a.project, Overwrites(a), OnError(a))
                       \o Between(a) \o RunMigrations(Last(a), OnError(a)) \o Closing(a)
<1> DEFINE q == Opening(a)
           r == ApplyModules(a.project, Overwrites(a), OnError(a))
           t == RunMigrations(Last(a), OnError(a))
<1>1. q \in Seq(Sendable) /\ r \in Seq(Sendable) /\ t \in Seq(Sendable)
  BY PartsAreSendable
<1>2. q \o r \in Seq(Sendable) /\ (q \o r) \o <<>> = q \o r
  BY <1>1, ConcatProperties, ConcatEmptySeq
<1>3. CASE a.tool = "load_project"
  <2>1. Overwrites(a) = TRUE /\ OnError(a) = "collect" /\ Last(a) = Versions /\ Between(a) = <<>>
    BY <1>3 DEF Overwrites, OnError, Last, Between
  <2>2. Closing(a) = <<RunQuery("file", "collect"), RunQuery("file", "ignore")>>
    BY <1>3 DEF Closing
  <2>3. Script(a) = LoadProjectScript(a.project, a.clean)
    BY <1>3 DEF Script
  <2>4. Opening(a) = IF a.clean
                     THEN <<Use("default", "default"), RemoveDatabase("default"),
                            Use("default", "default")>>
                     ELSE <<>>
    BY <1>3 DEF Opening
  <2> QED
    BY <1>2, <2>1, <2>2, <2>3, <2>4 DEF LoadProjectScript
<1>4. CASE a.tool = "verify"
  <2>1. Overwrites(a) = FALSE /\ OnError(a) = "fatal" /\ Last(a) = Versions /\ Between(a) = <<>>
    BY <1>4 DEF Overwrites, OnError, Last, Between
  <2>2. Closing(a) = <<CompareWithShadow(a.project)>>
    BY <1>4 DEF Closing
  <2>3. Script(a) = VerifyScript(a.project)
    BY <1>4 DEF Script
  <2>4. Opening(a) = <<Use(a.project.ns, "default"), RemoveQuoted(a.project.db),
                       Use(a.project.ns, a.project.db)>>
    BY <1>4 DEF Opening
  <2> QED
    BY <1>2, <2>1, <2>2, <2>3, <2>4 DEF VerifyScript
<1>5. CASE a.tool = "load_manifest"
  <2>1. Overwrites(a) = FALSE /\ OnError(a) = "collect" /\ Last(a) = Versions
        /\ Between(a) = <<ReadFiles>>
    BY <1>5 DEF Overwrites, OnError, Last, Between
  <2>2. Closing(a) = <<>>
    BY <1>5 DEF Closing
  <2>3. Script(a) = LoadManifestScript(a.project)
    BY <1>5 DEF Script
  <2>4. Opening(a) = <<RemoveDatabase("default"), Use(a.project.ns, a.project.db), ReadFiles>>
    BY <1>5 DEF Opening
  <2>5. (q \o r \o Between(a) \o t) \o <<>> = q \o r \o Between(a) \o t
    BY <1>1, PartsAreSendable, ConcatProperties, ConcatEmptySeq
  <2> QED
    BY <2>1, <2>2, <2>3, <2>4, <2>5 DEF LoadManifestScript
<1>6. CASE a.tool = "rollback"
  <2>1. Overwrites(a) = TRUE /\ OnError(a) = "fatal" /\ Last(a) = a.target
        /\ Between(a) = <<ReadFiles>>
    BY <1>6 DEF Overwrites, OnError, Last, Between
  <2>2. Closing(a) = <<>>
    BY <1>6 DEF Closing
  <2>3. Script(a) = RollbackScript(a.project, a.target)
    BY <1>6 DEF Script
  <2>4. Opening(a) = <<RemoveDatabase(a.project.db), Use(a.project.ns, a.project.db), ReadFiles>>
    BY <1>6 DEF Opening
  <2>5. (q \o r \o Between(a) \o t) \o <<>> = q \o r \o Between(a) \o t
    BY <1>1, PartsAreSendable, ConcatProperties, ConcatEmptySeq
  <2> QED
    BY <2>1, <2>2, <2>3, <2>4, <2>5 DEF RollbackScript
<1>7. a.tool \in {"load_project", "load_manifest", "verify", "rollback"}
  BY DEF Applying
<1> QED
  BY <1>3, <1>4, <1>5, <1>6, <1>7

\* Where the parts of a script lie.
LEMMA Layout ==
  ASSUME NEW a \in Applying
  PROVE  /\ Script(a) \in Seq(Sendable)
         /\ ModulesAt(a) \in Nat /\ MigrationsAt(a) \in Nat /\ ClosingAt(a) \in Nat
         /\ Last(a) \in 0..Versions /\ Len(Between(a)) \in Nat /\ Len(Closing(a)) \in Nat
         /\ MigrationsAt(a) = ModulesAt(a) + Modules + Len(Between(a))
         /\ ClosingAt(a) = MigrationsAt(a) + Last(a)
         /\ Len(Script(a)) = ClosingAt(a) + Len(Closing(a))
         /\ \A i \in 1..ModulesAt(a) : Script(a)[i] = Opening(a)[i]
         /\ \A m \in Module : Script(a)[ModulesAt(a) + m]
                                = DefineModule(a.project, m, Overwrites(a), OnError(a))
         /\ \A i \in 1..Len(Between(a)) : Script(a)[ModulesAt(a) + Modules + i] = Between(a)[i]
         /\ \A v \in 1..Last(a) : Script(a)[MigrationsAt(a) + v] = RunMigration(v, OnError(a))
         /\ \A i \in 1..Len(Closing(a)) : Script(a)[ClosingAt(a) + i] = Closing(a)[i]
<1> DEFINE q == Opening(a)
           r == ApplyModules(a.project, Overwrites(a), OnError(a))
           s == Between(a)
           t == RunMigrations(Last(a), OnError(a))
           u == Closing(a)
<1>1. /\ q \in Seq(Sendable) /\ r \in Seq(Sendable) /\ s \in Seq(Sendable)
      /\ t \in Seq(Sendable) /\ u \in Seq(Sendable)
      /\ Len(r) = Modules /\ Len(t) = Last(a) /\ Last(a) \in 0..Versions
  BY PartsAreSendable
<1>2. Script(a) = q \o r \o s \o t \o u
  BY ScriptsHaveParts
<1>3. /\ \A m \in Module : r[m] = DefineModule(a.project, m, Overwrites(a), OnError(a))
      /\ \A v \in 1..Last(a) : t[v] = RunMigration(v, OnError(a))
  BY DEF ApplyModules, RunMigrations
<1>4. Module = 1..Modules /\ Modules \in Nat /\ Versions \in Nat
  BY PlaygroundAssumption DEF Module
<1>5. /\ ModulesAt(a) = Len(q)
      /\ MigrationsAt(a) = Len(q) + Len(r) + Len(s)
      /\ ClosingAt(a) = Len(q) + Len(r) + Len(s) + Len(t)
  BY <1>1 DEF ModulesAt, MigrationsAt, ClosingAt
<1> HIDE DEF q, r, s, t, u
<1>6. /\ Script(a) \in Seq(Sendable)
      /\ Len(Script(a)) = Len(q) + Len(r) + Len(s) + Len(t) + Len(u)
      /\ \A i \in 1..Len(q) : Script(a)[i] = q[i]
      /\ \A i \in 1..Len(r) : Script(a)[Len(q) + i] = r[i]
      /\ \A i \in 1..Len(s) : Script(a)[Len(q) + Len(r) + i] = s[i]
      /\ \A i \in 1..Len(t) : Script(a)[Len(q) + Len(r) + Len(s) + i] = t[i]
      /\ \A i \in 1..Len(u) : Script(a)[Len(q) + Len(r) + Len(s) + Len(t) + i] = u[i]
  <2>1. InOrder(Script(a), q, r, s, t, u, Sendable)
    BY <1>1, <1>2, PartsInOrder, Zenon
  <2> QED
    BY <2>1 DEF InOrder
<1>7. /\ \A i \in 1..ModulesAt(a) : Script(a)[i] = q[i]
      /\ \A m \in Module : Script(a)[ModulesAt(a) + m] = r[m]
      /\ \A i \in 1..Len(s) : Script(a)[ModulesAt(a) + Modules + i] = s[i]
      /\ \A v \in 1..Last(a) : Script(a)[MigrationsAt(a) + v] = t[v]
      /\ \A i \in 1..Len(u) : Script(a)[ClosingAt(a) + i] = u[i]
  BY <1>1, <1>4, <1>5, <1>6
<1>8. Len(q) \in Nat /\ Len(r) \in Nat /\ Len(s) \in Nat /\ Len(t) \in Nat /\ Len(u) \in Nat
  BY <1>1
<1>9. /\ ModulesAt(a) \in Nat /\ MigrationsAt(a) \in Nat /\ ClosingAt(a) \in Nat
      /\ MigrationsAt(a) = ModulesAt(a) + Modules + Len(s)
      /\ ClosingAt(a) = MigrationsAt(a) + Last(a)
      /\ Len(Script(a)) = ClosingAt(a) + Len(u)
  BY <1>1, <1>4, <1>5, <1>6, <1>8
<1> QED
  BY <1>1, <1>3, <1>6, <1>7, <1>8, <1>9, Zenon DEF q, s, u

\* How many commands the other parts have, and which.
LEMMA PartsDiffer ==
  ASSUME NEW a \in Applying
  PROVE  /\ ModulesAt(a) \in {0, 3}
         /\ \A i \in 1..ModulesAt(a) : Opening(a)[i].op \in {"use", "remove", "read"}
         /\ \A i \in 1..Len(Between(a)) : Between(a)[i] = ReadFiles
         /\ Len(Between(a)) = IF a.tool \in {"load_manifest", "rollback"} THEN 1 ELSE 0
         /\ \A i \in 1..Len(Closing(a)) : Closing(a)[i].op \in {"query", "compare"}
         /\ Len(Closing(a)) + ModulesAt(a) >= 2
<1>1. a.tool \in {"load_project", "load_manifest", "verify", "rollback"}
  BY DEF Applying
<1>2. /\ ModulesAt(a) \in {0, 3}
      /\ \A i \in 1..ModulesAt(a) : Opening(a)[i].op \in {"use", "remove", "read"}
  <2>1. \/ Opening(a) = <<>>
        \/ \E x, y, z \in {e \in Sendable : e.op \in {"use", "remove", "read"}} :
             Opening(a) = <<x, y, z>>
    <3> DEFINE E == {e \in Sendable : e.op \in {"use", "remove", "read"}}
    <3>1. a.project.ns \in Namespace /\ a.project.db \in DbName
      BY DEF Applying, ProjectFiles
    <3>2. /\ \A n \in Namespace, b \in DbName : Use(n, b) \in E
          /\ \A b \in DbName : RemoveDatabase(b) \in E /\ RemoveQuoted(b) \in E
          /\ ReadFiles \in E
      BY DEF Use, RemoveDatabase, RemoveQuoted, ReadFiles, Sendable, Database
    <3>3. "default" \in Namespace /\ "default" \in DbName
      BY PlaygroundAssumption
    <3> HIDE DEF E
    <3>4. \/ Opening(a) = <<>>
          \/ \E x, y, z \in E : Opening(a) = <<x, y, z>>
      <4>1. CASE a.tool = "load_project"
        <5>1. Opening(a) = IF a.clean
                     THEN <<Use("default", "default"), RemoveDatabase("default"),
                            Use("default", "default")>>
                     ELSE <<>>
          BY <4>1 DEF Opening
        <5> QED
          BY <5>1, <3>2, <3>3
      <4>2. CASE a.tool = "verify"
        BY <3>1, <3>2, <3>3, <4>2 DEF Opening
      <4>3. CASE a.tool = "load_manifest"
        BY <3>1, <3>2, <3>3, <4>3 DEF Opening
      <4>4. CASE a.tool = "rollback"
        BY <3>1, <3>2, <3>3, <4>4 DEF Opening
      <4> QED
        BY <1>1, <4>1, <4>2, <4>3, <4>4
    <3> QED
      BY <3>4 DEF E
  <2> QED
    BY <2>1 DEF ModulesAt
<1>3. /\ \A i \in 1..Len(Between(a)) : Between(a)[i] = ReadFiles
      /\ Len(Between(a)) = IF a.tool \in {"load_manifest", "rollback"} THEN 1 ELSE 0
  BY DEF Between
<1>4. \A i \in 1..Len(Closing(a)) : Closing(a)[i].op \in {"query", "compare"}
  <2>1. CASE a.tool = "load_project"
    BY <2>1 DEF Closing, RunQuery
  <2>2. CASE a.tool = "verify"
    BY <2>2 DEF Closing, CompareWithShadow
  <2>3. CASE a.tool \in {"load_manifest", "rollback"}
    BY <2>3 DEF Closing
  <2> QED
    BY <1>1, <2>1, <2>2, <2>3
<1>5. Len(Closing(a)) + ModulesAt(a) >= 2
  <2>1. CASE a.tool = "load_project"
    <3>1. Len(Closing(a)) = 2
      BY <2>1 DEF Closing
    <3> QED
      BY <3>1, <1>2
  <2>2. CASE a.tool = "verify"
    <3>1. Len(Closing(a)) = 1 /\ ModulesAt(a) = 3
      BY <2>2 DEF Closing, ModulesAt, Opening
    <3> QED
      BY <3>1
  <2>3. CASE a.tool \in {"load_manifest", "rollback"}
    <3>1. Len(Closing(a)) = 0 /\ ModulesAt(a) = 3
      BY <2>3 DEF Closing, ModulesAt, Opening
    <3> QED
      BY <3>1
  <2> QED
    BY <1>1, <2>1, <2>2, <2>3
<1> QED
  BY <1>2, <1>3, <1>4, <1>5

\* Every command of a script is in one of its parts.
LEMMA EveryCommand ==
  ASSUME NEW a \in Applying, NEW k \in 1..Len(Script(a))
  PROVE  \/ k \in 1..ModulesAt(a) /\ Script(a)[k] = Opening(a)[k]
         \/ \E m \in Module :
              /\ k = ModulesAt(a) + m
              /\ Script(a)[k] = DefineModule(a.project, m, Overwrites(a), OnError(a))
         \/ k = ModulesAt(a) + Modules + 1 /\ k = MigrationsAt(a) /\ Script(a)[k] = ReadFiles
         \/ \E v \in 1..Last(a) :
              k = MigrationsAt(a) + v /\ Script(a)[k] = RunMigration(v, OnError(a))
         \/ \E i \in 1..Len(Closing(a)) :
              k = ClosingAt(a) + i /\ Script(a)[k] = Closing(a)[i]
<1>1. /\ ModulesAt(a) \in Nat /\ MigrationsAt(a) \in Nat /\ ClosingAt(a) \in Nat
      /\ Last(a) \in Nat /\ Len(Closing(a)) \in Nat
      /\ MigrationsAt(a) = ModulesAt(a) + Modules + Len(Between(a))
      /\ ClosingAt(a) = MigrationsAt(a) + Last(a)
      /\ Len(Script(a)) = ClosingAt(a) + Len(Closing(a))
      /\ \A i \in 1..ModulesAt(a) : Script(a)[i] = Opening(a)[i]
      /\ \A m \in Module : Script(a)[ModulesAt(a) + m]
                             = DefineModule(a.project, m, Overwrites(a), OnError(a))
      /\ \A i \in 1..Len(Between(a)) : Script(a)[ModulesAt(a) + Modules + i] = Between(a)[i]
      /\ \A v \in 1..Last(a) : Script(a)[MigrationsAt(a) + v] = RunMigration(v, OnError(a))
      /\ \A i \in 1..Len(Closing(a)) : Script(a)[ClosingAt(a) + i] = Closing(a)[i]
  <2>1. Last(a) \in 0..Versions => Last(a) \in Nat
    BY PlaygroundAssumption
  <2> QED
    BY <2>1, Layout, Zenon
<1>2. /\ Len(Between(a)) \in {0, 1} /\ \A i \in 1..Len(Between(a)) : Between(a)[i] = ReadFiles
      /\ Module = 1..Modules /\ Modules \in Nat
  BY PartsDiffer, PlaygroundAssumption DEF Module
<1>3. CASE k <= ModulesAt(a)
  BY <1>1, <1>3
<1>4. CASE \E m \in Module : k = ModulesAt(a) + m
  <2>1. PICK m \in Module : k = ModulesAt(a) + m
    BY <1>4
  <2>2. Script(a)[k] = DefineModule(a.project, m, Overwrites(a), OnError(a))
    BY <1>1, <2>1
  <2> QED
    BY <2>1, <2>2
<1>5. CASE Len(Between(a)) = 1 /\ k = ModulesAt(a) + Modules + 1
  <2>1. k = MigrationsAt(a) /\ 1 \in 1..Len(Between(a))
    BY <1>1, <1>2, <1>5
  <2>2. Script(a)[k] = ReadFiles
    BY <1>1, <1>2, <1>5, <2>1
  <2> QED
    BY <1>5, <2>1, <2>2
<1>6. CASE \E v \in 1..Last(a) : k = MigrationsAt(a) + v
  <2>1. PICK v \in 1..Last(a) : k = MigrationsAt(a) + v
    BY <1>6
  <2>2. Script(a)[k] = RunMigration(v, OnError(a))
    BY <1>1, <2>1
  <2> QED
    BY <2>1, <2>2
<1>7. CASE \E i \in 1..Len(Closing(a)) : k = ClosingAt(a) + i
  <2>1. PICK i \in 1..Len(Closing(a)) : k = ClosingAt(a) + i
    BY <1>7
  <2>2. Script(a)[k] = Closing(a)[i]
    BY <1>1, <2>1
  <2> QED
    BY <2>1, <2>2
<1> QED
  <2>1. \A p, n, g, l, z \in Nat : k \in 1..(p + n + g + l + z) /\ g \in {0, 1} =>
          \/ k <= p
          \/ \E m \in 1..n : k = p + m
          \/ g = 1 /\ k = p + n + 1
          \/ \E v \in 1..l : k = p + n + g + v
          \/ \E i \in 1..z : k = p + n + g + l + i
    <3> SUFFICES ASSUME NEW p \in Nat, NEW n \in Nat, NEW g \in {0, 1}, NEW l \in Nat, NEW z \in Nat,
                        k \in 1..(p + n + g + l + z)
                 PROVE  \/ k <= p
                        \/ k - p \in 1..n /\ k = p + (k - p)
                        \/ g = 1 /\ k = p + n + 1
                        \/ /\ k - (p + n + g) \in 1..l
                           /\ k = p + n + g + (k - (p + n + g))
                        \/ /\ k - (p + n + g + l) \in 1..z
                           /\ k = p + n + g + l + (k - (p + n + g + l))
      OBVIOUS
    <3> QED
      OBVIOUS
  <2>2. \/ k <= ModulesAt(a)
        \/ \E m \in Module : k = ModulesAt(a) + m
        \/ Len(Between(a)) = 1 /\ k = ModulesAt(a) + Modules + 1
        \/ \E v \in 1..Last(a) : k = MigrationsAt(a) + v
        \/ \E i \in 1..Len(Closing(a)) : k = ClosingAt(a) + i
    <3> DEFINE p == ModulesAt(a)
               g == Len(Between(a))
               l == Last(a)
               z == Len(Closing(a))
    <3>1. p \in Nat /\ Modules \in Nat /\ g \in {0, 1} /\ g \in Nat /\ l \in Nat /\ z \in Nat
      BY <1>1, <1>2
    <3>2. /\ MigrationsAt(a) = p + Modules + g /\ ClosingAt(a) = p + Modules + g + l
          /\ Module = 1..Modules
      BY <1>1, <1>2
    <3>3. k \in 1..(p + Modules + g + l + z)
      BY <1>1, <3>1, <3>2
    <3> HIDE DEF p, g, l, z
    <3>4. \/ k <= p
          \/ \E m \in 1..Modules : k = p + m
          \/ g = 1 /\ k = p + Modules + 1
          \/ \E v \in 1..l : k = p + Modules + g + v
          \/ \E i \in 1..z : k = p + Modules + g + l + i
      BY <2>1, <3>1, <3>3
    <3> QED
      BY <3>2, <3>4 DEF p, g, l, z
  <2> QED
    BY <2>2, <1>3, <1>4, <1>5, <1>6, <1>7

\* Which part a command is in can be told from what it does.
LEMMA PlaceOfCommand ==
  ASSUME NEW a \in Applying, NEW k \in 1..Len(Script(a))
  PROVE  /\ Script(a)[k].op = "define" =>
              \E m \in Module :
                /\ k = ModulesAt(a) + m
                /\ Script(a)[k] = DefineModule(a.project, m, Overwrites(a), OnError(a))
         /\ Script(a)[k].op = "migrate" =>
              \E v \in 1..Last(a) :
                k = MigrationsAt(a) + v /\ Script(a)[k] = RunMigration(v, OnError(a))
         /\ Script(a)[k].op \in {"query", "compare"} =>
              \E i \in 1..Len(Closing(a)) : k = ClosingAt(a) + i /\ Script(a)[k] = Closing(a)[i]
         /\ Script(a)[k].op \in {"use", "remove"} =>
              k \in 1..ModulesAt(a) /\ Script(a)[k] = Opening(a)[k]
         /\ Script(a)[k].op = "read" =>
              \/ k \in 1..ModulesAt(a) /\ Script(a)[k] = Opening(a)[k]
              \/ k = ModulesAt(a) + Modules + 1 /\ k = MigrationsAt(a)
<1>1. CASE k \in 1..ModulesAt(a) /\ Script(a)[k] = Opening(a)[k]
  <2>1. Script(a)[k].op \in {"use", "remove", "read"}
    BY <1>1, PartsDiffer
  <2> QED
    BY <1>1, <2>1
<1>2. CASE \E m \in Module :
             /\ k = ModulesAt(a) + m
             /\ Script(a)[k] = DefineModule(a.project, m, Overwrites(a), OnError(a))
  <2>1. Script(a)[k].op = "define"
    BY <1>2 DEF DefineModule
  <2> QED
    BY <1>2, <2>1
<1>3. CASE k = ModulesAt(a) + Modules + 1 /\ k = MigrationsAt(a) /\ Script(a)[k] = ReadFiles
  <2>1. Script(a)[k].op = "read"
    BY <1>3 DEF ReadFiles
  <2> QED
    BY <1>3, <2>1
<1>4. CASE \E v \in 1..Last(a) :
             k = MigrationsAt(a) + v /\ Script(a)[k] = RunMigration(v, OnError(a))
  <2>1. Script(a)[k].op = "migrate"
    BY <1>4 DEF RunMigration
  <2> QED
    BY <1>4, <2>1
<1>5. CASE \E i \in 1..Len(Closing(a)) : k = ClosingAt(a) + i /\ Script(a)[k] = Closing(a)[i]
  <2>1. Script(a)[k].op \in {"query", "compare"}
    BY <1>5, PartsDiffer
  <2> QED
    BY <1>5, <2>1
<1> QED
  BY <1>1, <1>2, <1>3, <1>4, <1>5, EveryCommand

\* Every call sends at least one command.
LEMMA ScriptsAreSendable ==
  ASSUME NEW a \in Request
  PROVE  Script(a) \in Seq(Sendable) /\ Len(Script(a)) \in Nat /\ 1 \in 1..Len(Script(a))
<1>1. CASE a.tool = "exec"
  <2>1. RunQuery("query", "fatal") \in Sendable
    BY DEF RunQuery, Sendable
  <2> QED
    BY <1>1, <2>1 DEF Script, QueryScript
<1>2. CASE a.tool = "reset"
  <2>1. RemoveDatabase("default") \in Sendable /\ Use("default", "default") \in Sendable
    BY PlaygroundAssumption DEF RemoveDatabase, Use, Sendable, Database
  <2> QED
    BY <1>2, <2>1 DEF Script, ResetScript
<1>3. CASE a \in Applying
  <2>1. /\ Script(a) \in Seq(Sendable) /\ Len(Script(a)) = ClosingAt(a) + Len(Closing(a))
        /\ ClosingAt(a) = MigrationsAt(a) + Last(a)
        /\ MigrationsAt(a) = ModulesAt(a) + Modules + Len(Between(a))
        /\ ModulesAt(a) \in Nat /\ Last(a) \in 0..Versions /\ Len(Between(a)) \in Nat
        /\ Len(Closing(a)) \in Nat
    BY <1>3, Layout
  <2>2. Len(Closing(a)) + ModulesAt(a) >= 2
    BY <1>3, PartsDiffer
  <2>3. Modules \in Nat /\ Versions \in Nat
    BY PlaygroundAssumption
  <2> QED
    BY <2>1, <2>2, <2>3
<1>4. a \in Applying \/ a.tool \in {"exec", "reset"}
  BY DEF Request, Applying
<1> QED
  BY <1>1, <1>2, <1>3, <1>4

\* No call sends a migration twice.
LEMMA MigrationsAreSentOnce ==
  ASSUME NEW a \in Request, NEW i \in 1..Len(Script(a)), NEW j \in 1..Len(Script(a)),
         Script(a)[i].op = "migrate", Script(a)[j].op = "migrate",
         Script(a)[i].version = Script(a)[j].version
  PROVE  i = j
<1>1. CASE a.tool = "exec"
  BY <1>1 DEF Script, QueryScript
<1>2. CASE a.tool = "reset"
  BY <1>2 DEF Script, ResetScript, RemoveDatabase, Use
<1>3. CASE a \in Applying
  <2>1. PICK v \in 1..Last(a) :
          i = MigrationsAt(a) + v /\ Script(a)[i] = RunMigration(v, OnError(a))
    BY <1>3, PlaceOfCommand
  <2>2. PICK w \in 1..Last(a) :
          j = MigrationsAt(a) + w /\ Script(a)[j] = RunMigration(w, OnError(a))
    BY <1>3, PlaceOfCommand
  <2>3. v = w
    BY <2>1, <2>2 DEF RunMigration
  <2> QED
    BY <2>1, <2>2, <2>3
<1>4. a \in Applying \/ a.tool \in {"exec", "reset"}
  BY DEF Request, Applying
<1> QED
  BY <1>1, <1>2, <1>3, <1>4

-----------------------------------------------------------------------------
(* Types, and how often a migration takes effect.                          *)

\* The calls that have still to send migration v.
Awaiting(v) ==
  {c \in Running : \E i \in next[c]..Len(Script(args[c])) :
                     /\ Script(args[c])[i].op = "migrate"
                     /\ Script(args[c])[i].version = v}

\* Each call accounts for one time a migration took effect or will.
CountsInv ==
  /\ IsFiniteSet(Running)
  /\ \A d \in Database, v \in Version : count[d][v] + Cardinality(Awaiting(v)) <= begun

-----------------------------------------------------------------------------
(* What a tool that nobody interferes with has done.                       *)

\* The database it works in, and whether it removes that first, given the
\* namespace the session was in when it began.
Home(a) ==
  IF a.tool = "load_project" THEN <<"default", "default">> ELSE <<a.project.ns, a.project.db>>
Clears(a, ns) ==
  \/ a.tool = "load_project" /\ a.clean
  \/ a.tool = "verify"
  \/ a.tool = "rollback" /\ ns = a.project.ns /\ a.project.db \in PlainName
ClearsAt(a) == IF a.tool = "rollback" THEN 1 ELSE 2

\* Where the session is before command k.
SessionAt(a, k, ns) ==
  /\ a.tool = "load_project" /\ a.clean /\ k > 1 => session = Home(a)
  /\ a.tool = "verify" /\ k \in {2, 3} => session = <<a.project.ns, "default">>
  /\ a.tool = "verify" /\ k > 3 => session = Home(a)
  /\ a.tool = "rollback" /\ k <= 2 => session[1] = ns
  /\ a.tool \in {"load_manifest", "rollback"} /\ k > 2 => session = Home(a)

\* What is in its database before command k, if it was empty at first.
DoneAt(a, k) ==
  /\ schema[Home(a)] = [m \in Module |-> IF ModulesAt(a) + m < k THEN a.project.modules[m] ELSE Absent]
  /\ count[Home(a)] = [v \in Version |-> IF v <= Last(a) /\ MigrationsAt(a) + v < k THEN 1 ELSE 0]
  /\ extra[Home(a)] \subseteq (IF a.tool = "load_project" THEN {"file"} ELSE {})

\* And if it was not.
LoadedAt(a, k) ==
  /\ \A m \in Module : ModulesAt(a) + m < k /\ "unless" \notin Written[a.project.modules[m]] =>
       schema[Home(a)][m] = a.project.modules[m]
  /\ \A v \in Version : MigrationsAt(a) + v < k => count[Home(a)][v] > 0

\* A call with arguments a, that began in namespace ns and has had errors or
\* not, is about to send command k.
Reached(a, k, ns, failed) ==
  /\ SessionAt(a, k, ns)
  /\ Clears(a, ns) /\ k > ClearsAt(a) /\ ~failed => DoneAt(a, k)
  /\ a.tool = "load_manifest" /\ ~failed => LoadedAt(a, k)
  /\ a.tool \in {"verify", "rollback"} => ~failed

AloneInv ==
  \A c \in Call : alone[c] =>
    /\ Running = {c}
    /\ args[c] \in Applying => Reached(args[c], next[c], from[c], errors[c])

IInv == TypeOK /\ CountsInv /\ AloneInv

-----------------------------------------------------------------------------
(* IInv is an invariant: types and counts.                                 *)

\* What a running call sends next is one of the commands there are.
LEMMA SentIsSendable ==
  ASSUME TypeOK, NEW c \in Call, at[c] = "running"
  PROVE  /\ args[c] \in Request /\ next[c] \in 1..Len(Script(args[c]))
         /\ Len(Script(args[c])) \in Nat /\ next[c] \in Nat /\ Sent(c) \in Sendable
<1>1. args[c] \in Request /\ next[c] \in 1..Len(Script(args[c]))
  BY DEF TypeOK
<1>2. Script(args[c]) \in Seq(Sendable) /\ Len(Script(args[c])) \in Nat
  BY <1>1, ScriptsAreSendable
<1> QED
  BY <1>1, <1>2 DEF Sent

\* A command is sent by a running call, which then goes on or returns
\* (lib.rs, the if let Err(e) = .. after each call of the database).
LEMMA CommandMoves ==
  ASSUME TypeOK, NEW c \in Call, Command(c)
  PROVE  /\ at[c] = "running" /\ begun' = begun
         /\ \/ Proceed(c) /\ errors' \in {errors, [errors EXCEPT ![c] = TRUE]}
            \/ GiveUp(c)
         /\ report' \in [Call -> {"none", "match", "drift"}]
<1>1. report \in [Call -> {"none", "match", "drift"}]
  BY DEF TypeOK
<1>2. ASSUME at[c] = "running", HandleError(c), Sent(c).op \in {"define", "migrate", "query"}
      PROVE  \/ Proceed(c) /\ errors' \in {errors, [errors EXCEPT ![c] = TRUE]}
             \/ GiveUp(c)
  <2>1. Sent(c).onError \in {"fatal", "collect", "ignore"}
    BY <1>2, SentIsSendable DEF Sendable
  <2> QED
    BY <1>2, <2>1 DEF HandleError
<1>3. CASE DoUse(c)
  BY <1>1, <1>3 DEF DoUse, Sends
<1>4. CASE DoRemove(c)
  BY <1>1, <1>4 DEF DoRemove, Sends
<1>5. CASE DoRead(c)
  BY <1>1, <1>5 DEF DoRead, Sends
<1>6. CASE DoDefine(c)
  BY <1>1, <1>2, <1>6 DEF DoDefine, Sends
<1>7. CASE DoMigrate(c)
  BY <1>1, <1>2, <1>7 DEF DoMigrate, Sends
<1>8. CASE DoQuery(c)
  BY <1>1, <1>2, <1>8 DEF DoQuery, Sends
<1>9. CASE DoCompare(c)
  BY <1>1, <1>9 DEF DoCompare, Sends
<1> QED
  BY <1>3, <1>4, <1>5, <1>6, <1>7, <1>8, <1>9 DEF Command

\* What the commands leave of TypeOK to the database.
CallsTypeOK ==
  /\ at \in [Call -> {"idle", "running", "ok", "err"}]
  /\ errors \in [Call -> BOOLEAN]
  /\ report \in [Call -> {"none", "match", "drift"}]
  /\ begun \in 0..Len(Projects)
  /\ from \in [Call -> Namespace]
  /\ alone \in [Call -> BOOLEAN]
  /\ DOMAIN args = Call /\ DOMAIN next = Call
  /\ \A c \in Call :
       IF at[c] = "running"
       THEN args[c] \in Request /\ next[c] \in 1..Len(Script(args[c]))
       ELSE args[c] = [tool |-> "none"] /\ next[c] = 0

\* After a command only the call that sent it is elsewhere: one command
\* further, or no longer running.
LEMMA CommandMovesOneCall ==
  ASSUME TypeOK, NEW c \in Call, Command(c)
  PROVE  /\ CallsTypeOK'
         /\ Running' \subseteq Running
         /\ \A d \in Call \ {c} : /\ args'[d] = args[d] /\ next'[d] = next[d]
                                  /\ alone'[d] = alone[d] /\ from'[d] = from[d]
                                  /\ errors'[d] = errors[d] /\ at'[d] = at[d]
         /\ at'[c] = "running" => /\ args'[c] = args[c] /\ next'[c] = next[c] + 1
                                  /\ alone'[c] = alone[c] /\ from'[c] = from[c]
         /\ at'[c] # "running" => alone'[c] = FALSE
<1>1. /\ at[c] = "running" /\ begun' = begun
      /\ \/ Proceed(c) /\ errors' \in {errors, [errors EXCEPT ![c] = TRUE]}
         \/ GiveUp(c)
      /\ report' \in [Call -> {"none", "match", "drift"}]
  BY CommandMoves
<1>2. /\ args[c] \in Request /\ next[c] \in 1..Len(Script(args[c]))
      /\ Len(Script(args[c])) \in Nat /\ next[c] \in Nat
  BY <1>1, SentIsSendable
<1>3. CallsTypeOK
  BY DEF TypeOK, CallsTypeOK
<1>4. ASSUME Proceed(c), next[c] < Len(Script(args[c])),
             errors' \in {errors, [errors EXCEPT ![c] = TRUE]}
      PROVE  /\ CallsTypeOK' /\ Running' = Running /\ at' = at /\ args' = args
             /\ alone' = alone /\ from' = from
             /\ next' = [next EXCEPT ![c] = next[c] + 1]
  <2>1. /\ next' = [next EXCEPT ![c] = next[c] + 1]
        /\ at' = at /\ args' = args /\ from' = from /\ alone' = alone
    BY <1>4 DEF Proceed, callVars
  <2>2. next[c] + 1 \in 1..Len(Script(args[c]))
    BY <1>2, <1>4
  <2>3. \A d \in Call : IF at'[d] = "running"
                        THEN args'[d] \in Request /\ next'[d] \in 1..Len(Script(args'[d]))
                        ELSE args'[d] = [tool |-> "none"] /\ next'[d] = 0
    BY <1>1, <1>3, <2>1, <2>2 DEF CallsTypeOK
  <2>4. CallsTypeOK'
    BY <1>1, <1>3, <1>4, <2>1, <2>3 DEF CallsTypeOK
  <2> QED
    BY <2>1, <2>4 DEF Running
<1>5. ASSUME NEW how \in {"ok", "err"}, Return(c, how), next' = [next EXCEPT ![c] = 0],
             errors' \in {errors, [errors EXCEPT ![c] = TRUE]}
      PROVE  /\ CallsTypeOK' /\ Running' \subseteq Running
             /\ \A d \in Call \ {c} : /\ args'[d] = args[d] /\ next'[d] = next[d]
                                      /\ alone'[d] = alone[d] /\ from'[d] = from[d]
                                      /\ at'[d] = at[d]
             /\ at'[c] # "running" /\ alone'[c] = FALSE
  <2>1. /\ at' = [at EXCEPT ![c] = how]
        /\ args' = [args EXCEPT ![c] = [tool |-> "none"]]
        /\ from' = [from EXCEPT ![c] = "default"]
        /\ alone' = [alone EXCEPT ![c] = FALSE]
    BY <1>5 DEF Return
  <2>2. \A d \in Call : IF at'[d] = "running"
                        THEN args'[d] \in Request /\ next'[d] \in 1..Len(Script(args'[d]))
                        ELSE args'[d] = [tool |-> "none"] /\ next'[d] = 0
    BY <1>3, <1>5, <2>1 DEF CallsTypeOK
  <2>3. "default" \in Namespace
    BY PlaygroundAssumption
  <2>4. CallsTypeOK'
    BY <1>1, <1>3, <1>5, <2>1, <2>2, <2>3 DEF CallsTypeOK
  <2> QED
    BY <1>3, <1>5, <2>1, <2>4 DEF Running, CallsTypeOK
<1>6. errors' \in {errors, [errors EXCEPT ![c] = TRUE]}
  BY <1>1 DEF GiveUp
<1>7. \A d \in Call \ {c} : errors'[d] = errors[d]
  BY <1>3, <1>6 DEF CallsTypeOK
<1>8. CASE Proceed(c) /\ next[c] < Len(Script(args[c]))
  BY <1>3, <1>4, <1>6, <1>7, <1>8 DEF CallsTypeOK
<1>9. CASE Proceed(c) /\ ~(next[c] < Len(Script(args[c])))
  <2>1. Return(c, "ok") /\ next' = [next EXCEPT ![c] = 0]
    BY <1>9 DEF Proceed
  <2> QED
    BY <1>5, <1>6, <1>7, <2>1
<1>10. CASE GiveUp(c)
  <2>1. Return(c, "err") /\ next' = [next EXCEPT ![c] = 0]
    BY <1>10 DEF GiveUp
  <2> QED
    BY <1>5, <1>6, <1>7, <2>1
<1> QED
  BY <1>1, <1>8, <1>9, <1>10

\* After a command no more calls await a migration, and the call that sent
\* it no longer does.
LEMMA AwaitingShrinks ==
  ASSUME TypeOK, NEW c \in Call, Command(c), NEW v \in Version
  PROVE  /\ Awaiting(v)' \subseteq Awaiting(v)
         /\ Sent(c).op = "migrate" /\ Sent(c).version = v =>
              c \in Awaiting(v) /\ c \notin Awaiting(v)'
<1>1. at[c] = "running"
  BY CommandMoves
<1>2. /\ args[c] \in Request /\ next[c] \in 1..Len(Script(args[c]))
      /\ Len(Script(args[c])) \in Nat /\ next[c] \in Nat
  BY <1>1, SentIsSendable
<1>3. /\ Running' \subseteq Running
      /\ \A d \in Call \ {c} : args'[d] = args[d] /\ next'[d] = next[d]
      /\ at'[c] = "running" => args'[c] = args[c] /\ next'[c] = next[c] + 1
  BY CommandMovesOneCall
<1>4. ASSUME NEW d \in Awaiting(v)' PROVE d \in Awaiting(v)
  <2>1. d \in Running' /\ d \in Running /\ d \in Call /\ at'[d] = "running"
    BY <1>3 DEF Awaiting, Running
  <2>2. PICK i \in next'[d]..Len(Script(args'[d])) :
          Script(args'[d])[i].op = "migrate" /\ Script(args'[d])[i].version = v
    BY DEF Awaiting
  <2>3. args'[d] = args[d]
    BY <1>3, <2>1
  <2>4. i \in next[d]..Len(Script(args[d]))
    <3>1. CASE d = c
      BY <1>2, <1>3, <2>1, <2>2, <3>1
    <3>2. CASE d # c
      BY <1>3, <2>1, <2>2, <3>2
    <3> QED
      BY <3>1, <3>2
  <2> QED
    BY <2>1, <2>2, <2>3, <2>4 DEF Awaiting
<1>5. ASSUME Sent(c).op = "migrate", Sent(c).version = v
      PROVE  c \in Awaiting(v) /\ c \notin Awaiting(v)'
  <2>1. c \in Awaiting(v)
    <3>1. next[c] \in next[c]..Len(Script(args[c])) /\ c \in Running
      BY <1>1, <1>2 DEF Running
    <3> QED
      BY <1>5, <3>1 DEF Awaiting, Sent
  <2>2. SUFFICES ASSUME c \in Awaiting(v)' PROVE FALSE
    BY <2>1
  <2>3. at'[c] = "running"
    BY <2>2 DEF Awaiting, Running
  <2>4. PICK i \in (next[c] + 1)..Len(Script(args[c])) :
          Script(args[c])[i].op = "migrate" /\ Script(args[c])[i].version = v
    <3>1. \E i \in next'[c]..Len(Script(args'[c])) :
            Script(args'[c])[i].op = "migrate" /\ Script(args'[c])[i].version = v
      BY <2>2 DEF Awaiting
    <3> QED
      BY <1>3, <2>3, <3>1
  <2>5. i \in 1..Len(Script(args[c])) /\ i # next[c]
    BY <1>2, <2>4
  <2> QED
    BY <1>2, <1>5, <2>4, <2>5, MigrationsAreSentOnce DEF Sent
<1> QED
  BY <1>4, <1>5

\* Initially nothing runs.
LEMMA InitIsTyped == Init => TypeOK /\ CountsInv
<1> SUFFICES ASSUME Init PROVE TypeOK /\ CountsInv
  OBVIOUS
<1> USE DEF Init
<1>1. "default" \in Namespace /\ "default" \in DbName /\ Len(Projects) \in Nat
  BY PlaygroundAssumption
<1>2. session \in Database
  BY <1>1 DEF Database
<1>3. schema \in [Database -> [Module -> Content \cup {Absent, Mixed}]]
  BY DEF Empty
<1>4. count \in [Database -> [Version -> 0..begun]]
  BY DEF Never
<1>5. TypeOK
  BY <1>1, <1>2, <1>3, <1>4 DEF TypeOK
<1>6. Running = {}
  BY DEF Running
<1>7. \A v \in Version : Awaiting(v) = {}
  BY <1>6 DEF Awaiting
<1>8. \A d \in Database, v \in Version : count[d][v] = 0
  <2>1. count = [d \in Database |-> [v \in Version |-> 0]]
    BY DEF Never
  <2> HIDE DEF Init
  <2> QED
    BY <2>1
<1>9. CountsInv
  <2>1. begun = 0 /\ Cardinality({}) = 0 /\ IsFiniteSet({})
    BY FS_EmptySet
  <2> HIDE DEF Init
  <2>2. \A d \in Database, v \in Version : count[d][v] + Cardinality(Awaiting(v)) <= begun
    BY <1>7, <1>8, <2>1
  <2> QED
    BY <1>6, <2>1, <2>2 DEF CountsInv
<1> QED
  BY <1>5, <1>9

\* A tool is called with arguments of its own.
LEMMA CallsAreRequests ==
  ASSUME TypeOK, NEW c \in Call, CallTool(c)
  PROVE  \E what \in Request : Begin(c, what)
<1>1. begun < Len(Projects) => Project \in ProjectFiles
  BY PlaygroundAssumption DEF TypeOK, Project
<1>2. CASE Exec(c)
  BY <1>2 DEF Exec, Request
<1>3. CASE Reset(c)
  BY <1>3 DEF Reset, Request
<1>4. CASE LoadProject(c)
  <2>1. PICK clean \in BOOLEAN :
          Begin(c, [tool |-> "load_project", project |-> Project, clean |-> clean])
    BY <1>4 DEF LoadProject
  <2>2. [tool |-> "load_project", project |-> Project, clean |-> clean] \in Request
    BY <1>1, <1>4 DEF LoadProject, Request
  <2> QED
    BY <2>1, <2>2
<1>5. CASE LoadManifest(c)
  <2>1. [tool |-> "load_manifest", project |-> Project] \in Request
    BY <1>1, <1>5 DEF LoadManifest, Request
  <2> QED
    BY <1>5, <2>1 DEF LoadManifest
<1>6. CASE Verify(c)
  <2>1. [tool |-> "verify", project |-> Project] \in Request
    BY <1>1, <1>6 DEF Verify, Request
  <2> QED
    BY <1>6, <2>1 DEF Verify
<1>7. CASE Rollback(c)
  <2>1. PICK target \in 0..Versions :
          Begin(c, [tool |-> "rollback", project |-> Project, target |-> target])
    BY <1>7 DEF Rollback
  <2>2. [tool |-> "rollback", project |-> Project, target |-> target] \in Request
    BY <1>1, <1>7 DEF Rollback, Request
  <2> QED
    BY <2>1, <2>2
<1> QED
  BY <1>2, <1>3, <1>4, <1>5, <1>6, <1>7 DEF CallTool

\* A call that begins may take each migration into effect once more.
LEMMA BeginIsTyped ==
  ASSUME TypeOK, CountsInv, NEW c \in Call, NEW what \in Request, Begin(c, what)
  PROVE  TypeOK' /\ CountsInv'
<1>1. /\ begun \in 0..Len(Projects) /\ Len(Projects) \in Nat /\ begun < Len(Projects)
      /\ begun' = begun + 1 /\ begun' \in 0..Len(Projects) /\ begun \in Nat
  BY PlaygroundAssumption DEF TypeOK, Begin
<1>2. session' = session /\ schema' = schema /\ count' = count /\ extra' = extra
  BY DEF Begin, dbVars
<1>3. Running' = Running \cup {c} /\ c \notin Running
  BY DEF Begin, Running, TypeOK
<1>4. /\ next' = [next EXCEPT ![c] = 1] /\ args' = [args EXCEPT ![c] = what]
      /\ from' = [from EXCEPT ![c] = session[1]]
      /\ at' = [d \in Call |-> IF d \in Running \cup {c} THEN "running" ELSE "idle"]
  BY DEF Begin
<1>5. \A d \in Call : IF at'[d] = "running"
                      THEN args'[d] \in Request /\ next'[d] \in 1..Len(Script(args'[d]))
                      ELSE args'[d] = [tool |-> "none"] /\ next'[d] = 0
  <2>1. 1 \in 1..Len(Script(what))
    BY ScriptsAreSendable
  <2>2. ASSUME NEW d \in Call, d # c
        PROVE  args'[d] = args[d] /\ next'[d] = next[d] /\ (at'[d] = "running" <=> at[d] = "running")
    BY <1>4, <2>2 DEF TypeOK, Running
  <2>3. at'[c] = "running" /\ args'[c] = what /\ next'[c] = 1
    BY <1>4 DEF TypeOK
  <2> QED
    BY <2>1, <2>2, <2>3 DEF TypeOK
<1>6. count' \in [Database -> [Version -> 0..begun']]
  <2>1. count \in [Database -> [Version -> 0..begun]] /\ 0..begun \subseteq 0..begun'
    BY <1>1 DEF TypeOK
  <2> QED
    BY <1>2, <2>1
<1>7. TypeOK'
  <2>1. session[1] \in Namespace
    BY DEF TypeOK, Database
  <2>2. errors' \in [Call -> BOOLEAN] /\ report' \in [Call -> {"none", "match", "drift"}]
        /\ alone' \in [Call -> BOOLEAN]
    BY DEF Begin, TypeOK
  <2>3. at' \in [Call -> {"idle", "running", "ok", "err"}] /\ from' \in [Call -> Namespace]
        /\ DOMAIN args' = Call /\ DOMAIN next' = Call
    BY <1>4, <2>1 DEF TypeOK
  <2> QED
    BY <1>1, <1>2, <1>5, <1>6, <2>2, <2>3 DEF TypeOK
<1>8. IsFiniteSet(Running')
  BY <1>3, FS_AddElement DEF CountsInv
<1>9. ASSUME NEW v \in Version
      PROVE  /\ Cardinality(Awaiting(v)) \in Nat /\ Cardinality(Awaiting(v)') \in Nat
             /\ Cardinality(Awaiting(v)') <= Cardinality(Awaiting(v)) + 1
  <2>1. Awaiting(v)' \subseteq Awaiting(v) \cup {c}
    <3>1. ASSUME NEW d \in Awaiting(v)', d # c PROVE d \in Awaiting(v)
      <4>1. d \in Running /\ args'[d] = args[d] /\ next'[d] = next[d]
        BY <1>3, <1>4, <3>1 DEF Awaiting, TypeOK
      <4> QED
        BY <4>1 DEF Awaiting
    <3> QED
      BY <3>1
  <2>2. Awaiting(v) \subseteq Running
    BY DEF Awaiting
  <2>3. IsFiniteSet(Awaiting(v)) /\ IsFiniteSet(Awaiting(v) \cup {c})
        /\ Cardinality(Awaiting(v) \cup {c}) <= Cardinality(Awaiting(v)) + 1
        /\ Cardinality(Awaiting(v)) \in Nat
    <3>1. IsFiniteSet(Awaiting(v))
      BY <2>2, FS_Subset DEF CountsInv
    <3>2. /\ IsFiniteSet(Awaiting(v) \cup {c})
          /\ Cardinality(Awaiting(v) \cup {c})
               = IF c \in Awaiting(v) THEN Cardinality(Awaiting(v)) ELSE Cardinality(Awaiting(v)) + 1
      BY <3>1, FS_AddElement
    <3>3. Cardinality(Awaiting(v)) \in Nat
      BY <3>1, FS_CardinalityType
    <3> QED
      BY <3>1, <3>2, <3>3
  <2>4. IsFiniteSet(Awaiting(v)') /\ Cardinality(Awaiting(v)') <= Cardinality(Awaiting(v) \cup {c})
    BY <2>1, <2>3, FS_Subset
  <2> QED
    BY <2>3, <2>4, FS_CardinalityType
<1>10. ASSUME NEW d \in Database, NEW v \in Version
       PROVE  count'[d][v] + Cardinality(Awaiting(v)') <= begun'
  <2>1. count[d][v] + Cardinality(Awaiting(v)) <= begun /\ count[d][v] \in Nat
    BY DEF CountsInv, TypeOK
  <2> QED
    BY <1>1, <1>2, <1>9, <2>1
<1>11. CountsInv'
  BY <1>8, <1>10 DEF CountsInv
<1> QED
  BY <1>7, <1>11

\* What a command leaves in the databases is of the right kind, and a
\* migration takes effect at most once.
LEMMA CommandIsTyped ==
  ASSUME TypeOK, CountsInv, NEW c \in Call, Command(c)
  PROVE  /\ session' \in Database
         /\ schema' \in [Database -> [Module -> Content \cup {Absent, Mixed}]]
         /\ extra' \in [Database -> SUBSET {"query", "file", "old"}]
         /\ \/ count' = count
            \/ \E b \in DbName : count' = [count EXCEPT ![<<session[1], b>>] = Never]
            \/ /\ Sent(c).op = "migrate" /\ Sent(c).version \in Version
               /\ count' = [count EXCEPT ![session][Sent(c).version] = @ + 1]
<1>1. /\ session \in Database /\ session[1] \in Namespace
      /\ schema \in [Database -> [Module -> Content \cup {Absent, Mixed}]]
      /\ extra \in [Database -> SUBSET {"query", "file", "old"}]
  BY DEF TypeOK, Database
<1>2. Sent(c) \in Sendable
  BY CommandMoves, SentIsSendable
<1>3. CASE DoUse(c)
  BY <1>1, <1>2, <1>3 DEF DoUse, Sends, Sendable
<1>4. CASE DoRemove(c)
  <2>1. Sent(c).db \in DbName
    BY <1>2, <1>4 DEF DoRemove, Sends, Sendable
  <2>2. <<session[1], Sent(c).db>> \in Database
    BY <1>1, <2>1 DEF Database
  <2>3. Empty \in [Module -> Content \cup {Absent, Mixed}]
    BY DEF Empty
  <2>4. CASE UNCHANGED <<schema, count, extra>>
    BY <1>1, <1>4, <2>4 DEF DoRemove
  <2>5. CASE /\ schema' = [schema EXCEPT ![<<session[1], Sent(c).db>>] = Empty]
             /\ count' = [count EXCEPT ![<<session[1], Sent(c).db>>] = Never]
             /\ extra' = [extra EXCEPT ![<<session[1], Sent(c).db>>] = {}]
    BY <1>1, <1>4, <2>1, <2>2, <2>3, <2>5 DEF DoRemove
  <2> QED
    BY <1>4, <2>4, <2>5 DEF DoRemove
<1>5. CASE DoRead(c)
  BY <1>1, <1>5 DEF DoRead, dbVars
<1>6. CASE DoDefine(c)
  <2>1. Sent(c).module \in Module /\ Sent(c).text \in Content
    BY <1>2, <1>6 DEF DoDefine, Sends, Sendable
  <2>2. PICK now \in Content \cup {Absent, Mixed} :
          schema' = [schema EXCEPT ![session][Sent(c).module] = now]
    <3>1. schema[session][Sent(c).module] \in Content \cup {Absent, Mixed}
      BY <1>1, <2>1
    <3>2. \E now \in {schema[session][Sent(c).module], Mixed, Sent(c).text} :
            schema' = [schema EXCEPT ![session][Sent(c).module] = now]
      BY <1>6 DEF DoDefine
    <3> QED
      BY <2>1, <3>1, <3>2
  <2>3. extra' \in {extra, [extra EXCEPT ![session] = @ \cup {"old"}]}
    BY <1>6 DEF DoDefine
  <2>4. extra' \in [Database -> SUBSET {"query", "file", "old"}]
    BY <1>1, <2>3
  <2> QED
    BY <1>1, <1>6, <2>1, <2>2, <2>4 DEF DoDefine
<1>7. CASE DoMigrate(c)
  <2>1. Sent(c).op = "migrate" /\ Sent(c).version \in Version
    BY <1>2, <1>7 DEF DoMigrate, Sends, Sendable
  <2> QED
    BY <1>1, <1>7, <2>1 DEF DoMigrate
<1>8. CASE DoQuery(c)
  <2>1. Sent(c).what \in {"query", "file"}
    BY <1>2, <1>8 DEF DoQuery, Sends, Sendable
  <2>2. [extra EXCEPT ![session] = @ \cup {Sent(c).what}] \in [Database -> SUBSET {"query", "file", "old"}]
    BY <1>1, <2>1
  <2> QED
    BY <1>1, <1>8, <2>2 DEF DoQuery
<1>9. CASE DoCompare(c)
  BY <1>1, <1>9 DEF DoCompare, dbVars
<1> QED
  BY <1>3, <1>4, <1>5, <1>6, <1>7, <1>8, <1>9 DEF Command

\* Every step preserves the types and the counts.
LEMMA TypesAreKept ==
  ASSUME TypeOK, CountsInv, [Next]_vars
  PROVE  TypeOK' /\ CountsInv'
<1>1. CASE UNCHANGED vars
  BY <1>1 DEF vars, dbVars, callVars, TypeOK, CountsInv, Awaiting, Running
<1>2. ASSUME NEW c \in Call, CallTool(c) PROVE TypeOK' /\ CountsInv'
  BY <1>2, CallsAreRequests, BeginIsTyped
<1>3. ASSUME NEW c \in Call, Command(c) PROVE TypeOK' /\ CountsInv'
  <2>1. begun' = begun /\ begun \in Nat
    BY <1>3, CommandMoves, PlaygroundAssumption DEF TypeOK
  <2>2. CallsTypeOK' /\ Running' \subseteq Running
    BY <1>3, CommandMovesOneCall
  <2>3. ASSUME NEW v \in Version
        PROVE  /\ Cardinality(Awaiting(v)) \in Nat /\ Cardinality(Awaiting(v)') \in Nat
               /\ Cardinality(Awaiting(v)') <= Cardinality(Awaiting(v))
               /\ Sent(c).op = "migrate" /\ Sent(c).version = v =>
                    Cardinality(Awaiting(v)') <= Cardinality(Awaiting(v)) - 1
    <3>1. IsFiniteSet(Awaiting(v))
      <4>1. Awaiting(v) \subseteq Running
        BY DEF Awaiting
      <4> QED
        BY <4>1, FS_Subset DEF CountsInv
    <3>2. Awaiting(v)' \subseteq Awaiting(v)
      BY <1>3, AwaitingShrinks
    <3>3. /\ IsFiniteSet(Awaiting(v)') /\ Cardinality(Awaiting(v)') <= Cardinality(Awaiting(v))
          /\ Cardinality(Awaiting(v)) \in Nat /\ Cardinality(Awaiting(v)') \in Nat
      BY <3>1, <3>2, FS_Subset, FS_CardinalityType
    <3>4. ASSUME Sent(c).op = "migrate", Sent(c).version = v
          PROVE  Cardinality(Awaiting(v)') <= Cardinality(Awaiting(v)) - 1
      <4>1. c \in Awaiting(v) /\ Awaiting(v)' \subseteq Awaiting(v) \ {c}
        BY <1>3, <3>2, <3>4, AwaitingShrinks
      <4>2. IsFiniteSet(Awaiting(v) \ {c}) /\ Cardinality(Awaiting(v) \ {c}) = Cardinality(Awaiting(v)) - 1
        BY <3>1, <4>1, FS_RemoveElement
      <4> QED
        BY <4>1, <4>2, FS_Subset
    <3> QED
      BY <3>3, <3>4
  <2>4. count \in [Database -> [Version -> 0..begun]]
    BY DEF TypeOK
  <2>5. ASSUME NEW d \in Database, NEW v \in Version
        PROVE  /\ count[d][v] \in Nat /\ count[d][v] + Cardinality(Awaiting(v)) <= begun
    BY <2>4 DEF CountsInv
  <2>6. /\ count' \in [Database -> [Version -> 0..begun]]
        /\ \A d \in Database, v \in Version : count'[d][v] + Cardinality(Awaiting(v)') <= begun
    <3>1. CASE count' = count
      <4>1. \A d \in Database, v \in Version : count[d][v] + Cardinality(Awaiting(v)') <= begun
        BY <2>1, <2>3, <2>5
      <4> QED
        BY <2>4, <3>1, <4>1
    <3>2. CASE \E b \in DbName : count' = [count EXCEPT ![<<session[1], b>>] = Never]
      <4>1. PICK e \in Database : count' = [count EXCEPT ![e] = Never]
        BY <3>2 DEF Database, TypeOK
      <4>2. Never \in [Version -> 0..begun] /\ \A v \in Version : Never[v] = 0
        BY <2>1 DEF Never
      <4>3. count' \in [Database -> [Version -> 0..begun]]
        BY <2>4, <4>1, <4>2
      <4>4. ASSUME NEW d \in Database, NEW v \in Version
            PROVE  count'[d][v] + Cardinality(Awaiting(v)') <= begun
        <5>1. count'[d][v] = 0 \/ count'[d][v] = count[d][v]
          BY <2>4, <4>1, <4>2
        <5> QED
          BY <2>1, <2>3, <2>5, <5>1
      <4> QED
        BY <4>3, <4>4
    <3>3. CASE /\ Sent(c).op = "migrate" /\ Sent(c).version \in Version
               /\ count' = [count EXCEPT ![session][Sent(c).version] = @ + 1]
      <4> DEFINE u == Sent(c).version
      <4>1. session \in Database /\ u \in Version
        BY <3>3 DEF TypeOK
      <4>2. count[session][u] + 1 \in 0..begun
        BY <2>1, <2>3, <2>5, <3>3, <4>1
      <4>3. count' \in [Database -> [Version -> 0..begun]]
        BY <2>4, <3>3, <4>1, <4>2
      <4>4. ASSUME NEW d \in Database, NEW v \in Version
            PROVE  count'[d][v] + Cardinality(Awaiting(v)') <= begun
        <5>1. CASE v = u
          <6>1. count'[d][v] \in {count[d][v], count[d][v] + 1}
            BY <2>4, <3>3, <4>1, <5>1
          <6>2. Cardinality(Awaiting(v)') <= Cardinality(Awaiting(v)) - 1
            BY <2>3, <3>3, <5>1
          <6> QED
            BY <2>1, <2>3, <2>5, <6>1, <6>2
        <5>2. CASE v # u
          <6>1. count'[d][v] = count[d][v]
            BY <2>4, <3>3, <4>1, <5>2
          <6> QED
            BY <2>1, <2>3, <2>5, <6>1
        <5> QED
          BY <5>1, <5>2
      <4> QED
        BY <4>3, <4>4
    <3> QED
      BY <1>3, <3>1, <3>2, <3>3, CommandIsTyped
  <2>7. TypeOK'
    BY <1>3, <2>1, <2>2, <2>6, CommandIsTyped DEF CallsTypeOK, TypeOK
  <2>8. IsFiniteSet(Running')
    BY <2>2, FS_Subset DEF CountsInv
  <2> QED
    BY <2>1, <2>6, <2>7, <2>8 DEF CountsInv
<1> QED
  BY <1>1, <1>2, <1>3 DEF Next

\* TypeOK holds whatever is called, by whom and in what order.
THEOREM TypeCorrect == Spec => []TypeOK
<1>1. Init => TypeOK /\ CountsInv
  BY InitIsTyped
<1>2. TypeOK /\ CountsInv /\ [Next]_vars => TypeOK' /\ CountsInv'
  BY TypesAreKept
<1> QED
  BY <1>1, <1>2, PTL DEF Spec

-----------------------------------------------------------------------------
(* IInv is an invariant: what an undisturbed tool has done.                *)

\* If a rollback stops here, the migrations in effect are the first ones,
\* on top of the whole schema.
StoppedWell(a, ns) ==
  a.tool = "rollback" /\ Clears(a, ns) /\ session = Home(a) =>
    \A v \in Version : count[Home(a)][v] > 0 =>
      /\ schema[Home(a)] = a.project.modules
      /\ \A u \in Version : u < v => count[Home(a)][u] > 0

\* How each tool gets to its database (lib.rs:234, 556, 695, 971).
LEMMA OpeningCommands ==
  ASSUME NEW a \in Applying
  PROVE  /\ Home(a) \in Database
         /\ a.tool \in {"load_project", "load_manifest", "verify", "rollback"}
         /\ a.tool = "load_project" /\ a.clean =>
              /\ ModulesAt(a) = 3
              /\ Script(a)[1] = Use("default", "default")
              /\ Script(a)[2] = RemoveDatabase("default")
              /\ Script(a)[3] = Use("default", "default")
         /\ a.tool = "verify" =>
              /\ ModulesAt(a) = 3
              /\ Script(a)[1] = Use(a.project.ns, "default")
              /\ Script(a)[2] = RemoveQuoted(a.project.db)
              /\ Script(a)[3] = Use(a.project.ns, a.project.db)
         /\ a.tool = "load_manifest" =>
              /\ ModulesAt(a) = 3
              /\ Script(a)[1] = RemoveDatabase("default")
              /\ Script(a)[2] = Use(a.project.ns, a.project.db)
              /\ Script(a)[3] = ReadFiles
         /\ a.tool = "rollback" =>
              /\ ModulesAt(a) = 3
              /\ Script(a)[1] = RemoveDatabase(a.project.db)
              /\ Script(a)[2] = Use(a.project.ns, a.project.db)
              /\ Script(a)[3] = ReadFiles
<1>1. \A i \in 1..ModulesAt(a) : Script(a)[i] = Opening(a)[i]
  BY Layout
<1>2. a.project.ns \in Namespace /\ a.project.db \in DbName
  BY DEF Applying, ProjectFiles
<1>3. Home(a) \in Database
  BY <1>2, PlaygroundAssumption DEF Home, Database
<1>4. ASSUME NEW x, NEW y, NEW z, Opening(a) = <<x, y, z>>
      PROVE  ModulesAt(a) = 3 /\ Script(a)[1] = x /\ Script(a)[2] = y /\ Script(a)[3] = z
  <2>1. ModulesAt(a) = 3 /\ Opening(a)[1] = x /\ Opening(a)[2] = y /\ Opening(a)[3] = z
    BY <1>4 DEF ModulesAt
  <2> QED
    BY <1>1, <2>1
<1>5. /\ a.tool = "load_project" /\ a.clean =>
           Opening(a) = <<Use("default", "default"), RemoveDatabase("default"),
                          Use("default", "default")>>
      /\ a.tool = "verify" =>
           Opening(a) = <<Use(a.project.ns, "default"), RemoveQuoted(a.project.db),
                          Use(a.project.ns, a.project.db)>>
      /\ a.tool = "load_manifest" =>
           Opening(a) = <<RemoveDatabase("default"), Use(a.project.ns, a.project.db), ReadFiles>>
      /\ a.tool = "rollback" =>
           Opening(a) = <<RemoveDatabase(a.project.db), Use(a.project.ns, a.project.db), ReadFiles>>
  BY DEF Opening
<1>6. a.tool \in {"load_project", "load_manifest", "verify", "rollback"}
  BY DEF Applying
<1> QED
  BY <1>3, <1>4, <1>5, <1>6

\* The same, command by command.
LEMMA OpeningOps ==
  ASSUME NEW a \in Applying
  PROVE  /\ a.tool \in {"load_project", "load_manifest", "verify", "rollback"}
         /\ a.tool = "load_project" /\ a.clean =>
              /\ Script(a)[1].op = "use" /\ Script(a)[1].to = Home(a)
              /\ Script(a)[2].op = "remove" /\ Script(a)[2].db = "default"
              /\ Script(a)[3].op = "use" /\ Script(a)[3].to = Home(a)
         /\ a.tool = "verify" =>
              /\ Script(a)[1].op = "use" /\ Script(a)[1].to = <<a.project.ns, "default">>
              /\ Script(a)[2].op = "remove" /\ Script(a)[2].db = a.project.db
              /\ Script(a)[2].quoted
              /\ Script(a)[3].op = "use" /\ Script(a)[3].to = Home(a)
         /\ a.tool \in {"load_manifest", "rollback"} =>
              /\ Script(a)[1].op = "remove"
              /\ Script(a)[2].op = "use" /\ Script(a)[2].to = Home(a)
              /\ Script(a)[3].op = "read"
         /\ a.tool = "rollback" => Script(a)[1].db = a.project.db
<1>1. /\ \A n, b : Use(n, b).op = "use" /\ Use(n, b).to = <<n, b>>
      /\ \A b : RemoveDatabase(b).op = "remove" /\ RemoveDatabase(b).db = b
      /\ \A b : RemoveQuoted(b).op = "remove" /\ RemoveQuoted(b).db = b /\ RemoveQuoted(b).quoted
      /\ ReadFiles.op = "read"
  BY DEF Use, RemoveDatabase, RemoveQuoted, ReadFiles
<1>2. CASE a.tool = "load_project" /\ a.clean
  <2>1. /\ Home(a) = <<"default", "default">>
        /\ Script(a)[1] = Use("default", "default")
        /\ Script(a)[2] = RemoveDatabase("default")
        /\ Script(a)[3] = Use("default", "default")
    BY <1>2, OpeningCommands DEF Home
  <2> QED
    BY <1>1, <1>2, <2>1
<1>3. CASE a.tool = "verify"
  <2>1. /\ Home(a) = <<a.project.ns, a.project.db>>
        /\ Script(a)[1] = Use(a.project.ns, "default")
        /\ Script(a)[2] = RemoveQuoted(a.project.db)
        /\ Script(a)[3] = Use(a.project.ns, a.project.db)
    BY <1>3, OpeningCommands DEF Home
  <2> QED
    BY <1>1, <1>3, <2>1
<1>4. CASE a.tool = "load_manifest"
  <2>1. /\ Home(a) = <<a.project.ns, a.project.db>>
        /\ Script(a)[1] = RemoveDatabase("default")
        /\ Script(a)[2] = Use(a.project.ns, a.project.db)
        /\ Script(a)[3] = ReadFiles
    BY <1>4, OpeningCommands DEF Home
  <2> QED
    BY <1>1, <1>4, <2>1
<1>5. CASE a.tool = "rollback"
  <2>1. /\ Home(a) = <<a.project.ns, a.project.db>>
        /\ Script(a)[1] = RemoveDatabase(a.project.db)
        /\ Script(a)[2] = Use(a.project.ns, a.project.db)
        /\ Script(a)[3] = ReadFiles
    BY <1>5, OpeningCommands DEF Home
  <2> QED
    BY <1>1, <1>5, <2>1
<1> QED
  BY <1>2, <1>3, <1>4, <1>5, OpeningCommands

\* A command that is not a use keeps the session where it has to be.
LEMMA SessionIsKept ==
  ASSUME NEW a \in Applying, NEW k \in Nat \ {0}, NEW ns, SessionAt(a, k, ns),
         Script(a)[k].op # "use", session' = session
  PROVE  SessionAt(a, k + 1, ns)'
<1>1. CASE a.tool = "load_project"
  <2>1. a.clean => k # 1
    <3>1. a.clean => Script(a)[1].op = "use"
      BY <1>1, OpeningOps
    <3> QED
      BY <3>1
  <2>2. a.clean /\ k > 1 => session = Home(a)
    BY <1>1 DEF SessionAt
  <2> QED
    BY <1>1, <2>1, <2>2 DEF SessionAt
<1>2. CASE a.tool = "verify"
  <2>1. k # 1 /\ k # 3
    <3>1. Script(a)[1].op = "use" /\ Script(a)[3].op = "use"
      BY <1>2, OpeningOps
    <3> QED
      BY <3>1
  <2>2. k + 1 \in {2, 3} => k = 2
    BY <2>1
  <2>3. k + 1 > 3 => k > 3
    BY <2>1, <2>2
  <2> QED
    BY <1>2, <2>2, <2>3 DEF SessionAt
<1>3. CASE a.tool \in {"load_manifest", "rollback"}
  <2>1. k # 2
    <3>1. Script(a)[2].op = "use"
      BY <1>3, OpeningOps
    <3> QED
      BY <3>1
  <2>2. k + 1 > 2 => k > 2
    BY <2>1
  <2>3. k + 1 <= 2 => k <= 2
    OBVIOUS
  <2> QED
    BY <1>3, <2>2, <2>3 DEF SessionAt
<1> QED
  BY <1>1, <1>2, <1>3, OpeningCommands

\* Only the commands of modules and of migrations make a difference to what
\* has to be in the database.
LEMMA DoneReaches ==
  ASSUME NEW a \in Applying, NEW k \in Nat, Script(a)[k].op \notin {"define", "migrate"}
  PROVE  /\ DoneAt(a, k) => DoneAt(a, k + 1)
         /\ a.tool = "load_manifest" /\ LoadedAt(a, k) => LoadedAt(a, k + 1)
<1>1. \A m \in Module : k # ModulesAt(a) + m
  <2> SUFFICES ASSUME NEW m \in Module PROVE Script(a)[ModulesAt(a) + m].op = "define"
    OBVIOUS
  <2>1. Script(a)[ModulesAt(a) + m] = DefineModule(a.project, m, Overwrites(a), OnError(a))
    BY Layout
  <2> QED
    BY <2>1 DEF DefineModule
<1>2. \A v \in 1..Last(a) : k # MigrationsAt(a) + v
  <2> SUFFICES ASSUME NEW v \in 1..Last(a) PROVE Script(a)[MigrationsAt(a) + v].op = "migrate"
    OBVIOUS
  <2>1. Script(a)[MigrationsAt(a) + v] = RunMigration(v, OnError(a))
    BY Layout
  <2> QED
    BY <2>1 DEF RunMigration
<1>3. ModulesAt(a) \in Nat /\ MigrationsAt(a) \in Nat /\ Module \subseteq Nat /\ Version \subseteq Nat
  BY Layout DEF Module, Version
<1>4. \A m \in Module : ModulesAt(a) + m < k + 1 <=> ModulesAt(a) + m < k
  BY <1>1, <1>3
<1>5. \A v \in Version : v <= Last(a) =>
        (MigrationsAt(a) + v < k + 1 <=> MigrationsAt(a) + v < k)
  <2>1. \A v \in Version : v <= Last(a) => v \in 1..Last(a)
    <3>1. Last(a) \in 0..Versions /\ Versions \in Nat
      BY Layout, PlaygroundAssumption
    <3> QED
      BY <3>1 DEF Version
  <2>2. \A v \in Version : v <= Last(a) => k # MigrationsAt(a) + v
    BY <1>2, <2>1
  <2> QED
    BY <1>3, <2>2
<1>6. /\ [m \in Module |-> IF ModulesAt(a) + m < k THEN a.project.modules[m] ELSE Absent]
           = [m \in Module |-> IF ModulesAt(a) + m < k + 1 THEN a.project.modules[m] ELSE Absent]
      /\ [v \in Version |-> IF v <= Last(a) /\ MigrationsAt(a) + v < k THEN 1 ELSE 0]
           = [v \in Version |-> IF v <= Last(a) /\ MigrationsAt(a) + v < k + 1 THEN 1 ELSE 0]
  BY <1>4, <1>5
<1>7. a.tool = "load_manifest" => \A v \in Version : v <= Last(a)
  BY PlaygroundAssumption DEF Last, Version
<1> QED
  BY <1>4, <1>5, <1>6, <1>7 DEF DoneAt, LoadedAt

\* So they need not change anything there.
LEMMA DoneIsKept ==
  ASSUME NEW a \in Applying, NEW k \in Nat, Script(a)[k].op \notin {"define", "migrate"},
         schema' = schema, count' = count, extra' = extra
  PROVE  /\ DoneAt(a, k) => DoneAt(a, k + 1)' /\ DoneAt(a, k)'
         /\ a.tool = "load_manifest" /\ LoadedAt(a, k) => LoadedAt(a, k + 1)'
<1>1. DoneAt(a, k)' = DoneAt(a, k) /\ DoneAt(a, k + 1)' = DoneAt(a, k + 1)
  BY DEF DoneAt
<1>2. LoadedAt(a, k + 1)' = LoadedAt(a, k + 1)
  BY DEF LoadedAt
<1> QED
  BY <1>1, <1>2, DoneReaches

\* Wherever a tool that began with an empty database stops, it stops well.
LEMMA DoneStopsWell ==
  ASSUME NEW a \in Applying, NEW k \in Nat, NEW ns, DoneAt(a, k)
  PROVE  StoppedWell(a, ns)
<1> SUFFICES ASSUME NEW v \in Version, count[Home(a)][v] > 0
             PROVE  /\ schema[Home(a)] = a.project.modules
                    /\ \A u \in Version : u < v => count[Home(a)][u] > 0
  BY DEF StoppedWell
<1>1. v <= Last(a) /\ MigrationsAt(a) + v < k
  BY DEF DoneAt
<1>2. /\ ModulesAt(a) \in Nat /\ Len(Between(a)) \in Nat /\ Modules \in Nat /\ Last(a) \in Nat
      /\ MigrationsAt(a) = ModulesAt(a) + Modules + Len(Between(a))
      /\ Module = 1..Modules /\ Version = 1..Versions /\ MigrationsAt(a) \in Nat
  BY Layout, PlaygroundAssumption DEF Module, Version
<1>3. \A m \in Module : ModulesAt(a) + m < k
  BY <1>1, <1>2
<1>4. schema[Home(a)] = [m \in Module |-> a.project.modules[m]]
  BY <1>3 DEF DoneAt
<1>5. a.project.modules \in [Module -> Content]
  BY DEF Applying, ProjectFiles
<1>6. schema[Home(a)] = a.project.modules
  BY <1>4, <1>5
<1>7. ASSUME NEW u \in Version, u < v PROVE count[Home(a)][u] > 0
  <2>1. u <= Last(a) /\ MigrationsAt(a) + u < k
    BY <1>1, <1>2, <1>7
  <2> QED
    BY <2>1 DEF DoneAt
<1> QED
  BY <1>6, <1>7

\* A call with arguments a, that began in namespace ns, is about to send
\* command k, and so far everything is as it has to be.
Here(c, a, k, ns) ==
  /\ at[c] = "running" /\ Running = {c} /\ args[c] = a /\ next[c] = k
  /\ Reached(a, k, ns, errors[c])

\* It sends it, and either goes on as it has to or stops.
GoesOn(c, a, k, ns) ==
  \/ Proceed(c) /\ Reached(a, k + 1, ns, errors[c])'
  \/ GiveUp(c) /\ StoppedWell(a, ns)'

\* use_ns(..).use_db(..)
LEMMA UseGoesOn ==
  ASSUME TypeOK, NEW c \in Call, NEW a \in Applying, NEW k \in 1..Len(Script(a)), NEW ns,
         Here(c, a, k, ns), DoUse(c)
  PROVE  GoesOn(c, a, k, ns)
<1>1. /\ args[c] = a /\ next[c] = k /\ Sent(c) = Script(a)[k] /\ Reached(a, k, ns, errors[c])
      /\ Script(a)[k].op = "use" /\ schema' = schema /\ count' = count /\ extra' = extra
  BY DEF Here, Sent, DoUse, Sends
<1>2. k \in 1..ModulesAt(a) /\ k \in {1, 2, 3} /\ k \in Nat
  <2>1. k \in 1..ModulesAt(a)
    BY <1>1, PlaceOfCommand
  <2> QED
    BY <2>1, PartsDiffer
<1>3. /\ DoneAt(a, k) => DoneAt(a, k + 1)' /\ DoneAt(a, k)'
      /\ a.tool = "load_manifest" /\ LoadedAt(a, k) => LoadedAt(a, k + 1)'
  BY <1>1, <1>2, DoneIsKept
<1>4. CASE session' = Sent(c).to /\ Proceed(c) /\ UNCHANGED errors
  <2>1. SessionAt(a, k + 1, ns)'
    <3>1. CASE a.tool = "load_project"
      <4>1. a.clean => session' = <<"default", "default">>
        <5>1. a.clean => k \in {1, 3}
          BY <1>1, <1>2, <3>1, OpeningOps
        <5>2. a.clean => Script(a)[k].to = Home(a)
          BY <3>1, <5>1, OpeningOps
        <5> QED
          BY <1>1, <1>4, <3>1, <5>2 DEF Home
      <4> QED
        BY <3>1, <4>1 DEF SessionAt, Home
    <3>2. CASE a.tool = "verify"
      <4>1. k \in {1, 3}
        BY <1>1, <1>2, <3>2, OpeningOps
      <4>2. CASE k = 1
        <5>1. session' = <<a.project.ns, "default">>
          BY <1>1, <1>4, <3>2, <4>2, OpeningOps
        <5> QED
          BY <3>2, <4>2, <5>1 DEF SessionAt
      <4>3. CASE k = 3
        <5>1. session' = Home(a)
          BY <1>1, <1>4, <3>2, <4>3, OpeningOps
        <5> QED
          BY <3>2, <4>3, <5>1 DEF SessionAt, Home
      <4> QED
        BY <4>1, <4>2, <4>3
    <3>3. CASE a.tool \in {"load_manifest", "rollback"}
      <4>1. k = 2
        BY <1>1, <1>2, <3>3, OpeningOps
      <4>2. session' = Home(a)
        BY <1>1, <1>4, <3>3, <4>1, OpeningOps
      <4> QED
        BY <3>3, <4>1, <4>2 DEF SessionAt, Home
    <3> QED
      BY <3>1, <3>2, <3>3, OpeningOps
  <2>2. k + 1 > ClearsAt(a) /\ Clears(a, ns) => k > ClearsAt(a) \/ a.tool \in {"verify", "load_project"}
    <3>1. a.tool = "rollback" => k = 2
      BY <1>1, <1>2, OpeningOps
    <3> QED
      BY <3>1 DEF ClearsAt, Clears
  <2>3. a.tool = "verify" \/ (a.tool = "load_project" /\ a.clean) =>
          (k + 1 > ClearsAt(a) => k > ClearsAt(a))
    <3>1. a.tool = "verify" \/ (a.tool = "load_project" /\ a.clean) => k \in {1, 3}
      BY <1>1, <1>2, OpeningOps
    <3> QED
      BY <3>1 DEF ClearsAt
  <2>4. k + 1 > ClearsAt(a) /\ Clears(a, ns) => k > ClearsAt(a)
    BY <2>2, <2>3 DEF Clears
  <2>5. Reached(a, k + 1, ns, errors[c])'
    BY <1>1, <1>3, <1>4, <2>1, <2>4 DEF Reached
  <2> QED
    BY <1>4, <2>5 DEF GoesOn
<1>5. CASE GiveUp(c) /\ UNCHANGED session
  <2>1. StoppedWell(a, ns)'
    <3>1. SUFFICES ASSUME a.tool = "rollback", Clears(a, ns) PROVE StoppedWell(a, ns)'
      BY DEF StoppedWell
    <3>2. k = 2
      BY <1>1, <1>2, <3>1, OpeningOps
    <3>3. DoneAt(a, k)
      BY <1>1, <3>1, <3>2 DEF Reached, ClearsAt
    <3>4. StoppedWell(a, ns)
      BY <1>2, <3>3, DoneStopsWell
    <3> QED
      BY <1>1, <1>5, <3>4 DEF StoppedWell
  <2> QED
    BY <1>5, <2>1 DEF GoesOn
<1> QED
  BY <1>4, <1>5 DEF DoUse

\* REMOVE DATABASE
LEMMA RemoveGoesOn ==
  ASSUME TypeOK, NEW c \in Call, NEW a \in Applying, NEW k \in 1..Len(Script(a)), NEW ns,
         Here(c, a, k, ns), DoRemove(c)
  PROVE  GoesOn(c, a, k, ns)
<1>1. /\ args[c] = a /\ next[c] = k /\ Sent(c) = Script(a)[k] /\ Reached(a, k, ns, errors[c])
      /\ Script(a)[k].op = "remove" /\ session' = session /\ errors' = errors /\ Proceed(c)
  BY DEF Here, Sent, DoRemove, Sends
<1>2. k \in 1..ModulesAt(a) /\ k \in {1, 2, 3} /\ k \in Nat \ {0}
  <2>1. k \in 1..ModulesAt(a)
    BY <1>1, PlaceOfCommand
  <2> QED
    BY <2>1, PartsDiffer
<1>3. SessionAt(a, k + 1, ns)'
  BY <1>1, <1>2, SessionIsKept DEF Reached
<1>4. ASSUME Clears(a, ns), k + 1 > ClearsAt(a) PROVE DoneAt(a, k + 1)'
  <2>1. k = ClearsAt(a)
    <3>1. CASE a.tool = "rollback"
      BY <1>1, <1>2, <1>4, <3>1, OpeningOps DEF ClearsAt
    <3>2. CASE a.tool = "verify" \/ (a.tool = "load_project" /\ a.clean)
      BY <1>1, <1>2, <1>4, <3>2, OpeningOps DEF ClearsAt
    <3> QED
      BY <1>4, <3>1, <3>2 DEF Clears
  <2>2. <<session[1], Script(a)[k].db>> = Home(a)
    <3>1. CASE a.tool = "rollback"
      <4>1. k = 1 /\ Script(a)[1].db = a.project.db
        BY <2>1, <3>1, OpeningOps DEF ClearsAt
      <4>2. session[1] = a.project.ns
        BY <1>1, <1>4, <3>1, <4>1 DEF Reached, SessionAt, Clears
      <4> QED
        BY <3>1, <4>1, <4>2 DEF Home
    <3>2. CASE a.tool = "verify"
      <4>1. k = 2 /\ Script(a)[2].db = a.project.db
        BY <2>1, <3>2, OpeningOps DEF ClearsAt
      <4>2. session = <<a.project.ns, "default">>
        BY <1>1, <3>2, <4>1 DEF Reached, SessionAt
      <4> QED
        BY <3>2, <4>1, <4>2 DEF Home
    <3>3. CASE a.tool = "load_project" /\ a.clean
      <4>1. k = 2 /\ Script(a)[2].db = "default"
        BY <2>1, <3>3, OpeningOps DEF ClearsAt
      <4>2. session = <<"default", "default">>
        BY <1>1, <3>3, <4>1 DEF Reached, SessionAt, Home
      <4> QED
        BY <3>3, <4>1, <4>2 DEF Home
    <3> QED
      BY <1>4, <3>1, <3>2, <3>3 DEF Clears
  <2>a. Sent(c).quoted \/ Sent(c).db \in PlainName
    <3>1. CASE a.tool = "rollback"
      BY <1>1, <1>4, <2>1, <3>1, OpeningOps DEF ClearsAt, Clears
    <3>2. CASE a.tool = "verify"
      BY <1>1, <2>1, <3>2, OpeningOps DEF ClearsAt
    <3>3. CASE a.tool = "load_project" /\ a.clean
      BY <1>1, <2>1, <3>3, OpeningOps, PlaygroundAssumption DEF ClearsAt
    <3> QED
      BY <1>4, <3>1, <3>2, <3>3 DEF Clears
  <2>b. Running = {c}
    BY DEF Here
  <2>3. /\ schema' = [schema EXCEPT ![Home(a)] = Empty]
        /\ count' = [count EXCEPT ![Home(a)] = Never]
        /\ extra' = [extra EXCEPT ![Home(a)] = {}]
    BY <1>1, <2>2, <2>a, <2>b DEF DoRemove
  <2>4. schema'[Home(a)] = Empty /\ count'[Home(a)] = Never /\ extra'[Home(a)] = {}
    BY <2>3, OpeningCommands DEF TypeOK
  <2>5. \A m \in Module : ~(ModulesAt(a) + m < k + 1)
    BY <1>2, Layout DEF Module
  <2>6. \A v \in Version : ~(MigrationsAt(a) + v < k + 1)
    <3>1. MigrationsAt(a) >= ModulesAt(a) /\ ModulesAt(a) \in Nat /\ MigrationsAt(a) \in Nat
      BY Layout, PlaygroundAssumption
    <3> QED
      BY <1>2, <3>1 DEF Version
  <2> QED
    BY <2>4, <2>5, <2>6 DEF DoneAt, Empty, Never
<1>5. a.tool = "load_manifest" => LoadedAt(a, k + 1)'
  <2>1. \A m \in Module : ~(ModulesAt(a) + m < k + 1)
    BY <1>2, Layout DEF Module
  <2>2. \A v \in Version : ~(MigrationsAt(a) + v < k + 1)
    <3>1. MigrationsAt(a) >= ModulesAt(a) /\ ModulesAt(a) \in Nat /\ MigrationsAt(a) \in Nat
      BY Layout, PlaygroundAssumption
    <3> QED
      BY <1>2, <3>1 DEF Version
  <2> QED
    BY <2>1, <2>2 DEF LoadedAt
<1>6. Reached(a, k + 1, ns, errors[c])'
  BY <1>1, <1>3, <1>4, <1>5 DEF Reached
<1> QED
  BY <1>1, <1>6 DEF GoesOn

\* load_schema_modules, discover_migrations
LEMMA ReadGoesOn ==
  ASSUME TypeOK, NEW c \in Call, NEW a \in Applying, NEW k \in 1..Len(Script(a)), NEW ns,
         Here(c, a, k, ns), DoRead(c)
  PROVE  GoesOn(c, a, k, ns)
<1>1. /\ args[c] = a /\ next[c] = k /\ Sent(c) = Script(a)[k] /\ Reached(a, k, ns, errors[c])
      /\ Script(a)[k].op = "read" /\ session' = session
      /\ schema' = schema /\ count' = count /\ extra' = extra
  BY DEF Here, Sent, DoRead, Sends, dbVars
<1>2. k \in Nat \ {0} /\ k > 2
  <2>1. k \in Nat \ {0}
    OBVIOUS
  <2>2. CASE k \in 1..ModulesAt(a)
    <3>1. k \in {1, 2, 3}
      BY <2>2, PartsDiffer
    <3>2. a.tool = "load_project" => a.clean
      BY <2>2 DEF ModulesAt, Opening
    <3>3. Script(a)[1].op # "read" /\ Script(a)[2].op # "read"
      BY <3>2, OpeningOps
    <3> QED
      BY <1>1, <3>1, <3>3
  <2>3. CASE k = ModulesAt(a) + Modules + 1 /\ k = MigrationsAt(a)
    <3>1. /\ MigrationsAt(a) = ModulesAt(a) + Modules + Len(Between(a))
          /\ ModulesAt(a) \in Nat /\ Modules \in Nat
      BY Layout, PlaygroundAssumption
    <3>2. a.tool \in {"load_manifest", "rollback"}
      <4>1. Len(Between(a)) = IF a.tool \in {"load_manifest", "rollback"} THEN 1 ELSE 0
        BY PartsDiffer
      <4> QED
        BY <2>3, <3>1, <4>1
    <3>3. ModulesAt(a) = 3
      BY <3>2, OpeningCommands
    <3> QED
      BY <2>3, <3>3, PlaygroundAssumption
  <2> QED
    BY <1>1, <2>1, <2>2, <2>3, PlaceOfCommand
<1>3. /\ DoneAt(a, k) => DoneAt(a, k + 1)' /\ DoneAt(a, k)'
      /\ a.tool = "load_manifest" /\ LoadedAt(a, k) => LoadedAt(a, k + 1)'
  BY <1>1, <1>2, DoneIsKept
<1>4. SessionAt(a, k + 1, ns)'
  BY <1>1, <1>2, SessionIsKept DEF Reached
<1>5. CASE Proceed(c) /\ UNCHANGED errors
  <2>1. k > ClearsAt(a)
    BY <1>2 DEF ClearsAt
  <2>2. Reached(a, k + 1, ns, errors[c])'
    BY <1>1, <1>3, <1>4, <1>5, <2>1 DEF Reached
  <2> QED
    BY <1>5, <2>2 DEF GoesOn
<1>6. CASE GiveUp(c)
  <2>1. StoppedWell(a, ns)'
    <3>1. SUFFICES ASSUME a.tool = "rollback", Clears(a, ns) PROVE StoppedWell(a, ns)'
      BY DEF StoppedWell
    <3>2. DoneAt(a, k)
      BY <1>1, <1>2, <3>1 DEF Reached, ClearsAt
    <3>3. StoppedWell(a, ns)
      BY <1>2, <3>2, DoneStopsWell
    <3> QED
      BY <1>1, <3>3 DEF StoppedWell
  <2> QED
    BY <1>6, <2>1 DEF GoesOn
<1> QED
  BY <1>5, <1>6 DEF DoRead

\* The same of the state after a step.
LEMMA DoneWillStopWell ==
  ASSUME NEW a \in Applying, NEW k \in Nat, NEW ns
  PROVE  DoneAt(a, k)' => StoppedWell(a, ns)'
<1>1. DoneAt(a, k) => StoppedWell(a, ns)
  BY DoneStopsWell
<1> QED
  BY <1>1, PTL

\* The parts behind the opening run in the tool's database.
LEMMA PastOpening ==
  ASSUME NEW a \in Applying, NEW k \in Nat, NEW ns, SessionAt(a, k, ns), k > ModulesAt(a),
         a.tool = "load_project" => a.clean
  PROVE  session = Home(a) /\ k > 3 /\ k > ClearsAt(a)
<1>1. ModulesAt(a) = 3
  BY OpeningCommands
<1>2. k > 3
  BY <1>1
<1> QED
  BY <1>2, OpeningCommands DEF SessionAt, ClearsAt

\* What the tools do with an error of a module or a migration.
LEMMA ErrorsOfParts ==
  ASSUME TypeOK, NEW c \in Call, NEW a \in Applying, args[c] = a,
         Sent(c).onError = OnError(a), HandleError(c)
  PROVE  \/ /\ a.tool \in {"load_project", "load_manifest"}
            /\ Proceed(c) /\ errors'[c] = TRUE
         \/ /\ a.tool \in {"verify", "rollback"}
            /\ GiveUp(c)
<1>1. CASE a.tool \in {"load_project", "load_manifest"}
  <2>1. Sent(c).onError = "collect"
    BY <1>1 DEF OnError
  <2>2. Proceed(c) /\ errors' = [errors EXCEPT ![c] = TRUE]
    BY <2>1 DEF HandleError
  <2> QED
    BY <1>1, <2>2 DEF TypeOK
<1>2. CASE a.tool \in {"verify", "rollback"}
  <2>1. Sent(c).onError = "fatal"
    BY <1>2 DEF OnError
  <2>2. GiveUp(c)
    BY <2>1 DEF HandleError
  <2> QED
    BY <1>2, <2>2
<1> QED
  BY <1>1, <1>2, OpeningCommands

\* The DEFINE statements of a module.
LEMMA DefineGoesOn ==
  ASSUME TypeOK, NEW c \in Call, NEW a \in Applying, NEW k \in 1..Len(Script(a)), NEW ns,
         Here(c, a, k, ns), DoDefine(c)
  PROVE  GoesOn(c, a, k, ns)
<1>1. /\ args[c] = a /\ next[c] = k /\ Sent(c) = Script(a)[k] /\ Reached(a, k, ns, errors[c])
      /\ Script(a)[k].op = "define" /\ session' = session
      /\ count' = count /\ k \in Nat \ {0}
  BY DEF Here, Sent, DoDefine, Sends
<1>2. PICK m \in Module :
        /\ k = ModulesAt(a) + m
        /\ Script(a)[k] = DefineModule(a.project, m, Overwrites(a), OnError(a))
  BY <1>1, PlaceOfCommand
<1>3. /\ Sent(c).module = m /\ Sent(c).text = a.project.modules[m]
      /\ Sent(c).overwrite = Overwrites(a) /\ Sent(c).onError = OnError(a)
  BY <1>1, <1>2 DEF DefineModule
<1>4. /\ ModulesAt(a) \in Nat /\ Module \subseteq Nat \ {0} /\ Version \subseteq Nat \ {0}
      /\ MigrationsAt(a) \in Nat /\ k <= MigrationsAt(a)
  <2>1. /\ ModulesAt(a) \in Nat /\ MigrationsAt(a) \in Nat /\ Len(Between(a)) \in Nat
        /\ MigrationsAt(a) = ModulesAt(a) + Modules + Len(Between(a))
    BY Layout
  <2>2. Module = 1..Modules /\ Modules \in Nat /\ Version = 1..Versions
    BY PlaygroundAssumption DEF Module, Version
  <2> QED
    BY <1>2, <2>1, <2>2
<1>5. SessionAt(a, k + 1, ns)'
  BY <1>1, SessionIsKept DEF Reached
<1>6. (a.tool = "load_project" => a.clean) => session = Home(a) /\ k > ClearsAt(a)
  BY <1>1, <1>2, <1>4, PastOpening DEF Reached
<1>7. \A v \in Version : ~(MigrationsAt(a) + v < k + 1)
  BY <1>4
<1>8. \A n \in Module : ModulesAt(a) + n < k + 1 <=> n = m \/ ModulesAt(a) + n < k
  BY <1>2, <1>4
<1>9. ASSUME NEW now, schema' = [schema EXCEPT ![session][m] = now],
             Proceed(c), UNCHANGED errors,
             now = a.project.modules[m] \/ (/\ schema[session][m] # Absent
                                            /\ "unless" \in Written[a.project.modules[m]])
      PROVE  GoesOn(c, a, k, ns)
  <2>1. ASSUME session = Home(a)
        PROVE  \A n \in Module : schema'[Home(a)][n] = IF n = m THEN now ELSE schema[Home(a)][n]
    BY <1>9, <2>1, OpeningCommands DEF TypeOK
  <2>2. ASSUME session = Home(a), DoneAt(a, k) PROVE DoneAt(a, k + 1)'
    <3>1. \A n \in Module : schema[Home(a)][n]
                              = IF ModulesAt(a) + n < k THEN a.project.modules[n] ELSE Absent
      BY <2>2 DEF DoneAt
    <3>2. schema[session][m] = Absent /\ now = a.project.modules[m]
      BY <1>2, <1>4, <1>9, <2>2, <3>1
    <3>3. \A n \in Module : schema'[Home(a)][n]
                              = IF ModulesAt(a) + n < k + 1 THEN a.project.modules[n] ELSE Absent
      BY <1>8, <2>1, <2>2, <3>1, <3>2
    <3>4. schema'[Home(a)]
            = [n \in Module |-> IF ModulesAt(a) + n < k + 1 THEN a.project.modules[n] ELSE Absent]
      <4>1. schema'[Home(a)] \in [Module -> Content \cup {Absent, Mixed, now}]
        BY <1>9, <2>2, OpeningCommands DEF TypeOK
      <4> QED
        BY <3>3, <4>1
    <3>5. \A v \in Version : ~(MigrationsAt(a) + v < k)
      BY <1>4
    <3>6. count'[Home(a)]
            = [v \in Version |-> IF v <= Last(a) /\ MigrationsAt(a) + v < k + 1 THEN 1 ELSE 0]
      BY <1>1, <1>7, <2>2, <3>5 DEF DoneAt
    <3>7. extra' = extra
      BY <1>3, <3>2 DEF DoDefine
    <3> QED
      BY <2>2, <3>4, <3>6, <3>7 DEF DoneAt
  <2>3. ASSUME session = Home(a), LoadedAt(a, k) PROVE LoadedAt(a, k + 1)'
    <3>1. \A v \in Version : ~(MigrationsAt(a) + v < k + 1)
      BY <1>7
    <3>2. ASSUME NEW n \in Module, ModulesAt(a) + n < k + 1,
                 "unless" \notin Written[a.project.modules[n]]
          PROVE  schema'[Home(a)][n] = a.project.modules[n]
      BY <1>8, <1>9, <2>1, <2>3, <3>2 DEF LoadedAt
    <3> QED
      BY <3>1, <3>2 DEF LoadedAt
  <2>4. Clears(a, ns) \/ a.tool = "load_manifest" => session = Home(a) /\ k > ClearsAt(a)
    BY <1>6 DEF Clears
  <2>5. Reached(a, k + 1, ns, errors[c])'
    BY <1>1, <1>5, <1>9, <2>2, <2>3, <2>4 DEF Reached
  <2> QED
    BY <1>9, <2>5 DEF GoesOn
<1>10. CASE HandleError(c)
  <2>1. CASE a.tool \in {"load_project", "load_manifest"} /\ Proceed(c) /\ errors'[c] = TRUE
    <3>1. Reached(a, k + 1, ns, errors[c])'
      BY <1>5, <2>1 DEF Reached
    <3> QED
      BY <2>1, <3>1 DEF GoesOn
  <2>2. CASE a.tool \in {"verify", "rollback"} /\ GiveUp(c)
    <3>1. StoppedWell(a, ns)'
      <4>1. SUFFICES ASSUME Clears(a, ns), a.tool = "rollback" PROVE StoppedWell(a, ns)'
        BY DEF StoppedWell
      <4>2. DoneAt(a, k)
        BY <1>1, <1>6, <4>1 DEF Reached
      <4>3. \A v \in Version : ~(count'[Home(a)][v] > 0)
        BY <1>1, <1>4, <4>2 DEF DoneAt
      <4> QED
        BY <4>3 DEF StoppedWell
    <3> QED
      BY <2>2, <3>1 DEF GoesOn
  <2> QED
    BY <1>1, <1>3, <1>10, <2>1, <2>2, ErrorsOfParts
<1>11. PICK now \in {schema[session][m], Mixed, a.project.modules[m]} :
         /\ schema' = [schema EXCEPT ![session][m] = now]
         /\ \/ /\ \/ now = a.project.modules[m]
                  \/ schema[session][m] # Absent /\ "unless" \in Written[a.project.modules[m]]
               /\ Proceed(c) /\ UNCHANGED errors
            \/ HandleError(c)
  BY <1>3 DEF DoDefine
<1> QED
  BY <1>9, <1>10, <1>11

\* A migration.
LEMMA MigrateGoesOn ==
  ASSUME TypeOK, NEW c \in Call, NEW a \in Applying, NEW k \in 1..Len(Script(a)), NEW ns,
         Here(c, a, k, ns), DoMigrate(c)
  PROVE  GoesOn(c, a, k, ns)
<1>1. /\ args[c] = a /\ next[c] = k /\ Sent(c) = Script(a)[k] /\ Reached(a, k, ns, errors[c])
      /\ Script(a)[k].op = "migrate" /\ session' = session
      /\ schema' = schema /\ extra' = extra /\ k \in Nat \ {0}
  BY DEF Here, Sent, DoMigrate, Sends
<1>2. PICK v \in 1..Last(a) :
        k = MigrationsAt(a) + v /\ Script(a)[k] = RunMigration(v, OnError(a))
  BY <1>1, PlaceOfCommand
<1>3. Sent(c).version = v /\ Sent(c).onError = OnError(a)
  BY <1>1, <1>2 DEF RunMigration
<1>4. /\ ModulesAt(a) \in Nat /\ Module \subseteq Nat \ {0} /\ Version \subseteq Nat \ {0}
      /\ MigrationsAt(a) \in Nat /\ k > ModulesAt(a) /\ v \in Version /\ v <= Last(a)
      /\ \A m \in Module : ModulesAt(a) + m < k
  <2>1. /\ ModulesAt(a) \in Nat /\ MigrationsAt(a) \in Nat /\ Len(Between(a)) \in Nat
        /\ MigrationsAt(a) = ModulesAt(a) + Modules + Len(Between(a))
        /\ Last(a) \in 0..Versions
    BY Layout
  <2>2. Module = 1..Modules /\ Modules \in Nat /\ Version = 1..Versions /\ Versions \in Nat
    BY PlaygroundAssumption DEF Module, Version
  <2> QED
    BY <1>2, <2>1, <2>2
<1>5. SessionAt(a, k + 1, ns)'
  BY <1>1, SessionIsKept DEF Reached
<1>6. (a.tool = "load_project" => a.clean) => session = Home(a) /\ k > ClearsAt(a)
  BY <1>1, <1>4, PastOpening DEF Reached
<1>7. Clears(a, ns) \/ a.tool = "load_manifest" => session = Home(a) /\ k > ClearsAt(a)
  BY <1>6 DEF Clears
<1>8. \A w \in Version : MigrationsAt(a) + w < k + 1 <=> w = v \/ MigrationsAt(a) + w < k
  BY <1>2, <1>4
<1>9. \A m \in Module : ModulesAt(a) + m < k + 1
  BY <1>4
<1>10. /\ Home(a) \in Database
       /\ count \in [Database -> [Version -> 0..begun]] /\ begun \in Nat
  BY OpeningCommands, PlaygroundAssumption DEF TypeOK
<1>11. ASSUME session = Home(a), count' = [count EXCEPT ![session][v] = @ + 1]
       PROVE  \A w \in Version : count'[Home(a)][w] = IF w = v THEN count[Home(a)][w] + 1
                                                               ELSE count[Home(a)][w]
  BY <1>4, <1>10, <1>11
<1>12. ASSUME session = Home(a), count' = [count EXCEPT ![session][v] = @ + 1], DoneAt(a, k)
       PROVE  DoneAt(a, k + 1)'
  <2>1. DOMAIN count'[Home(a)] = Version /\ count'[Home(a)] = [w \in Version |-> count'[Home(a)][w]]
    BY <1>4, <1>10, <1>12
  <2>2. \A w \in Version : count[Home(a)][w]
                             = IF w <= Last(a) /\ MigrationsAt(a) + w < k THEN 1 ELSE 0
    BY <1>12 DEF DoneAt
  <2>3. ~(MigrationsAt(a) + v < k)
    BY <1>2, <1>4
  <2>4. \A w \in Version : count'[Home(a)][w]
                             = IF w <= Last(a) /\ MigrationsAt(a) + w < k + 1 THEN 1 ELSE 0
    BY <1>4, <1>8, <1>11, <1>12, <2>2, <2>3
  <2>5. count'[Home(a)]
          = [w \in Version |-> IF w <= Last(a) /\ MigrationsAt(a) + w < k + 1 THEN 1 ELSE 0]
    BY <2>1, <2>4
  <2>6. schema'[Home(a)]
          = [m \in Module |-> IF ModulesAt(a) + m < k + 1 THEN a.project.modules[m] ELSE Absent]
    BY <1>1, <1>4, <1>9, <1>12 DEF DoneAt
  <2> QED
    BY <1>1, <1>12, <2>5, <2>6 DEF DoneAt
<1>13. CASE /\ count' = [count EXCEPT ![session][v] = @ + 1]
            /\ Proceed(c) /\ UNCHANGED errors
  <2>1. ASSUME session = Home(a), LoadedAt(a, k) PROVE LoadedAt(a, k + 1)'
    <3>1. \A w \in Version : MigrationsAt(a) + w < k + 1 => count'[Home(a)][w] > 0
      BY <1>8, <1>10, <1>11, <1>13, <2>1 DEF LoadedAt
    <3>2. \A m \in Module : "unless" \notin Written[a.project.modules[m]] =>
            schema'[Home(a)][m] = a.project.modules[m]
      BY <1>1, <1>4, <2>1 DEF LoadedAt
    <3> QED
      BY <3>1, <3>2 DEF LoadedAt
  <2>2. Reached(a, k + 1, ns, errors[c])'
    BY <1>1, <1>5, <1>7, <1>12, <1>13, <2>1 DEF Reached
  <2> QED
    BY <1>13, <2>2 DEF GoesOn
<1>14. CASE HandleError(c) /\ count' \in {count, [count EXCEPT ![session][v] = @ + 1]}
  <2>1. CASE a.tool \in {"load_project", "load_manifest"} /\ Proceed(c) /\ errors'[c] = TRUE
    <3>1. Reached(a, k + 1, ns, errors[c])'
      BY <1>5, <2>1 DEF Reached
    <3> QED
      BY <2>1, <3>1 DEF GoesOn
  <2>2. CASE a.tool \in {"verify", "rollback"} /\ GiveUp(c)
    <3>1. StoppedWell(a, ns)'
      <4>1. SUFFICES ASSUME Clears(a, ns), a.tool = "rollback" PROVE StoppedWell(a, ns)'
        BY DEF StoppedWell
      <4>2. DoneAt(a, k) /\ session = Home(a)
        BY <1>1, <1>7, <4>1 DEF Reached
      <4>3. CASE count' = count
        <5>1. StoppedWell(a, ns)
          BY <1>1, <4>2, DoneStopsWell
        <5> QED
          BY <1>1, <4>3, <5>1 DEF StoppedWell
      <4>4. CASE count' = [count EXCEPT ![session][v] = @ + 1]
        <5>1. DoneAt(a, k + 1)'
          BY <1>12, <4>2, <4>4
        <5> QED
          BY <1>1, <5>1, DoneWillStopWell
      <4> QED
        BY <1>14, <4>3, <4>4
    <3> QED
      BY <2>2, <3>1 DEF GoesOn
  <2> QED
    BY <1>1, <1>3, <1>14, <2>1, <2>2, ErrorsOfParts
<1> QED
  BY <1>3, <1>13, <1>14 DEF DoMigrate

\* Any other query or file: only load_project has one behind the migrations.
LEMMA QueryGoesOn ==
  ASSUME TypeOK, NEW c \in Call, NEW a \in Applying, NEW k \in 1..Len(Script(a)), NEW ns,
         Here(c, a, k, ns), DoQuery(c)
  PROVE  GoesOn(c, a, k, ns)
<1>1. /\ args[c] = a /\ next[c] = k /\ Sent(c) = Script(a)[k] /\ Reached(a, k, ns, errors[c])
      /\ Script(a)[k].op = "query" /\ session' = session
      /\ schema' = schema /\ count' = count /\ k \in Nat \ {0}
  BY DEF Here, Sent, DoQuery, Sends
<1>2. PICK i \in 1..Len(Closing(a)) : k = ClosingAt(a) + i /\ Script(a)[k] = Closing(a)[i]
  BY <1>1, PlaceOfCommand
<1>3. a.tool = "load_project" /\ Sent(c).what = "file" /\ Sent(c).onError \in {"collect", "ignore"}
  <2>1. a.tool \in {"load_project", "verify"}
    BY <1>2, OpeningCommands DEF Closing
  <2>2. CASE a.tool = "verify"
    <3>1. Closing(a) = <<CompareWithShadow(a.project)>>
      BY <2>2 DEF Closing
    <3>2. Script(a)[k].op = "compare"
      BY <1>2, <3>1 DEF CompareWithShadow
    <3> QED
      BY <1>1, <3>2
  <2>3. CASE a.tool = "load_project"
    <3>1. Closing(a) = <<RunQuery("file", "collect"), RunQuery("file", "ignore")>>
      BY <2>3 DEF Closing
    <3>2. Sent(c) \in {RunQuery("file", "collect"), RunQuery("file", "ignore")}
      BY <1>1, <1>2, <3>1
    <3> QED
      BY <2>3, <3>2 DEF RunQuery
  <2> QED
    BY <2>1, <2>2, <2>3
<1>4. SessionAt(a, k + 1, ns)'
  BY <1>1, SessionIsKept DEF Reached
<1>5. k > ModulesAt(a)
  <2>1. /\ ModulesAt(a) \in Nat /\ MigrationsAt(a) \in Nat /\ Len(Between(a)) \in Nat
        /\ MigrationsAt(a) = ModulesAt(a) + Modules + Len(Between(a)) /\ Modules \in Nat
        /\ ClosingAt(a) = MigrationsAt(a) + Last(a) /\ Last(a) \in 0..Versions /\ Versions \in Nat
    BY Layout, PlaygroundAssumption
  <2> QED
    BY <1>2, <2>1
<1>6. a.clean => session = Home(a)
  BY <1>1, <1>3, <1>5, PastOpening DEF Reached
<1>7. ASSUME session = Home(a), DoneAt(a, k),
             extra' \in {extra, [extra EXCEPT ![session] = @ \cup {Sent(c).what}]}
      PROVE  DoneAt(a, k + 1)'
  <2>1. extra'[Home(a)] \subseteq {"file"}
    <3>1. extra[Home(a)] \subseteq {"file"}
      BY <1>3, <1>7 DEF DoneAt
    <3>2. CASE extra' = extra
      BY <3>1, <3>2
    <3>3. CASE extra' = [extra EXCEPT ![session] = @ \cup {Sent(c).what}]
      <4>1. extra'[Home(a)] = extra[Home(a)] \cup {"file"}
        BY <1>3, <1>7, <3>3, OpeningCommands DEF TypeOK
      <4> QED
        BY <3>1, <4>1
    <3> QED
      BY <1>7, <3>2, <3>3
  <2>2. /\ schema'[Home(a)] = schema[Home(a)] /\ count'[Home(a)] = count[Home(a)]
    BY <1>1
  <2>3. /\ schema[Home(a)] = [m \in Module |-> IF ModulesAt(a) + m < k + 1 THEN a.project.modules[m] ELSE Absent]
        /\ count[Home(a)] = [v \in Version |-> IF v <= Last(a) /\ MigrationsAt(a) + v < k + 1 THEN 1 ELSE 0]
    <3>1. DoneAt(a, k) => DoneAt(a, k + 1)
      BY <1>1, DoneReaches
    <3> QED
      BY <1>7, <3>1 DEF DoneAt
  <2> QED
    BY <1>3, <2>1, <2>2, <2>3 DEF DoneAt
<1>8. ASSUME extra' \in {extra, [extra EXCEPT ![session] = @ \cup {Sent(c).what}]},
             Proceed(c), errors'[c] = errors[c] \/ errors'[c] = TRUE
      PROVE  GoesOn(c, a, k, ns)
  <2>1. Clears(a, ns) => session = Home(a) /\ k > ClearsAt(a)
    <3>1. Clears(a, ns) => a.clean
      BY <1>3 DEF Clears
    <3>2. a.clean => k > ClearsAt(a)
      BY <1>1, <1>3, <1>5, PastOpening DEF Reached
    <3> QED
      BY <1>6, <3>1, <3>2
  <2>2. Reached(a, k + 1, ns, errors[c])'
    BY <1>1, <1>3, <1>4, <1>7, <1>8, <2>1 DEF Reached
  <2> QED
    BY <1>8, <2>2 DEF GoesOn
<1>9. CASE /\ extra' = [extra EXCEPT ![session] = @ \cup {Sent(c).what}]
           /\ Proceed(c) /\ UNCHANGED errors
  BY <1>8, <1>9
<1>10. CASE /\ extra' \in {extra, [extra EXCEPT ![session] = @ \cup {Sent(c).what}]}
            /\ HandleError(c)
  <2>1. \/ Proceed(c) /\ errors' = [errors EXCEPT ![c] = TRUE]
        \/ Proceed(c) /\ UNCHANGED errors
    <3>1. CASE Sent(c).onError = "collect"
      BY <1>10, <3>1 DEF HandleError
    <3>2. CASE Sent(c).onError = "ignore"
      BY <1>10, <3>2 DEF HandleError
    <3> QED
      BY <1>3, <3>1, <3>2
  <2>2. errors'[c] = errors[c] \/ errors'[c] = TRUE
    BY <2>1 DEF TypeOK
  <2> QED
    BY <1>8, <1>10, <2>1, <2>2
<1> QED
  BY <1>9, <1>10 DEF DoQuery

\* The comparison of verify.
LEMMA CompareGoesOn ==
  ASSUME TypeOK, NEW c \in Call, NEW a \in Applying, NEW k \in 1..Len(Script(a)), NEW ns,
         Here(c, a, k, ns), DoCompare(c)
  PROVE  GoesOn(c, a, k, ns)
<1>1. /\ args[c] = a /\ next[c] = k /\ Sent(c) = Script(a)[k] /\ Reached(a, k, ns, errors[c])
      /\ Script(a)[k].op = "compare" /\ session' = session
      /\ schema' = schema /\ count' = count /\ extra' = extra /\ k \in Nat \ {0}
  BY DEF Here, Sent, DoCompare, Sends, dbVars
<1>2. /\ a.tool = "verify" /\ k > ModulesAt(a)
  <2>1. PICK i \in 1..Len(Closing(a)) : k = ClosingAt(a) + i /\ Script(a)[k] = Closing(a)[i]
    BY <1>1, PlaceOfCommand
  <2>2. a.tool \in {"load_project", "verify"}
    BY <2>1, OpeningCommands DEF Closing
  <2>3. a.tool # "load_project"
    <3> SUFFICES ASSUME a.tool = "load_project" PROVE FALSE
      OBVIOUS
    <3>1. Closing(a) = <<RunQuery("file", "collect"), RunQuery("file", "ignore")>>
      BY DEF Closing
    <3>2. Script(a)[k] \in {RunQuery("file", "collect"), RunQuery("file", "ignore")}
      BY <2>1, <3>1
    <3> QED
      BY <1>1, <3>2 DEF RunQuery
  <2>4. /\ ModulesAt(a) \in Nat /\ MigrationsAt(a) \in Nat /\ Len(Between(a)) \in Nat
        /\ MigrationsAt(a) = ModulesAt(a) + Modules + Len(Between(a)) /\ Modules \in Nat
        /\ ClosingAt(a) = MigrationsAt(a) + Last(a) /\ Last(a) \in 0..Versions /\ Versions \in Nat
    BY Layout, PlaygroundAssumption
  <2> QED
    BY <2>1, <2>2, <2>3, <2>4
<1>3. SessionAt(a, k + 1, ns)'
  BY <1>1, SessionIsKept DEF Reached
<1>4. DoneAt(a, k) => DoneAt(a, k + 1)'
  BY <1>1, DoneIsKept
<1>5. k > ClearsAt(a)
  BY <1>1, <1>2, PastOpening DEF Reached
<1>6. CASE Proceed(c) /\ UNCHANGED errors
  <2>1. Reached(a, k + 1, ns, errors[c])'
    BY <1>1, <1>2, <1>3, <1>4, <1>5, <1>6 DEF Reached
  <2> QED
    BY <1>6, <2>1 DEF GoesOn
<1>7. CASE GiveUp(c)
  <2>1. StoppedWell(a, ns)'
    BY <1>2 DEF StoppedWell
  <2> QED
    BY <1>7, <2>1 DEF GoesOn
<1> QED
  BY <1>6, <1>7 DEF DoCompare

\* Every command of such a call leaves things as they have to be.
LEMMA CommandGoesOn ==
  ASSUME TypeOK, NEW c \in Call, NEW a \in Applying, NEW k \in 1..Len(Script(a)), NEW ns,
         Here(c, a, k, ns), Command(c)
  PROVE  GoesOn(c, a, k, ns)
  BY UseGoesOn, RemoveGoesOn, ReadGoesOn, DefineGoesOn, MigrateGoesOn, QueryGoesOn,
     CompareGoesOn DEF Command

\* Every step preserves AloneInv.
LEMMA AloneIsKept ==
  ASSUME TypeOK, TypeOK', AloneInv, [Next]_vars
  PROVE  AloneInv'
<1>1. CASE UNCHANGED vars
  BY <1>1 DEF vars, dbVars, callVars, AloneInv, Running, Reached, SessionAt, DoneAt, LoadedAt
<1>2. ASSUME NEW c \in Call, NEW what \in Request, Begin(c, what) PROVE AloneInv'
  <2> SUFFICES ASSUME NEW d \in Call, alone'[d]
               PROVE  /\ Running' = {d}
                      /\ args'[d] \in Applying =>
                           Reached(args[d], next[d], from[d], errors[d])'
    BY DEF AloneInv
  <2>1. d = c /\ Running = {}
    <3>1. alone' = [e \in Call |-> IF e = c THEN Running = {} ELSE alone[e] /\ e \notin Running]
      BY <1>2 DEF Begin
    <3>2. alone[d] => d \in Running
      BY DEF AloneInv
    <3> QED
      BY <3>1, <3>2
  <2>2. /\ at' = [e \in Call |-> IF e \in Running \cup {c} THEN "running" ELSE "idle"]
        /\ next' = [next EXCEPT ![c] = 1] /\ args' = [args EXCEPT ![c] = what]
        /\ from' = [from EXCEPT ![c] = session[1]]
        /\ errors' = [e \in Call |-> e \in Running /\ errors[e]]
        /\ session' = session
    BY <1>2 DEF Begin, dbVars
  <2>3. Running' = {d}
    BY <2>1, <2>2 DEF Running
  <2>4. next'[d] = 1 /\ args'[d] = what /\ from'[d] = session[1] /\ errors'[d] = FALSE
    BY <2>1, <2>2 DEF TypeOK
  <2>5. ASSUME what \in Applying PROVE Reached(args[d], next[d], from[d], errors[d])'
    <3>1. \A m \in Module : ~(ModulesAt(what) + m < 1)
      BY <2>5, Layout DEF Module
    <3>2. \A v \in Version : ~(MigrationsAt(what) + v < 1)
      BY <2>5, Layout DEF Version
    <3>3. ~(1 > ClearsAt(what))
      BY DEF ClearsAt
    <3> QED
      BY <2>2, <2>4, <3>1, <3>2, <3>3 DEF Reached, SessionAt, LoadedAt
  <2> QED
    BY <2>3, <2>4, <2>5
<1>3. ASSUME NEW c \in Call, Command(c) PROVE AloneInv'
  <2>1. at[c] = "running" /\ c \in Running
    BY <1>3, CommandMoves DEF Running
  <2>2. /\ Running' \subseteq Running
        /\ \A d \in Call \ {c} : alone'[d] = alone[d]
        /\ at'[c] = "running" => /\ args'[c] = args[c] /\ next'[c] = next[c] + 1
                                 /\ alone'[c] = alone[c] /\ from'[c] = from[c]
        /\ at'[c] # "running" => alone'[c] = FALSE
    BY <1>3, CommandMovesOneCall
  <2> SUFFICES ASSUME NEW d \in Call, alone'[d]
               PROVE  /\ Running' = {d}
                      /\ args'[d] \in Applying =>
                           Reached(args[d], next[d], from[d], errors[d])'
    BY DEF AloneInv
  <2>3. d = c
    BY <2>1, <2>2 DEF AloneInv
  <2>4. at'[c] = "running" /\ alone[c] /\ Running = {c}
    BY <2>2, <2>3 DEF AloneInv
  <2>5. Running' = {c}
    BY <2>2, <2>4 DEF Running
  <2>6. ASSUME args[c] \in Applying PROVE Reached(args[c], next[c], from[c], errors[c])'
    <3>a. PICK a \in Applying : a = args[c]
      BY <2>6
    <3>b. PICK k \in 1..Len(Script(a)) : k = next[c]
      BY <2>1, <3>a DEF Running, TypeOK
    <3>c. PICK ns : ns = from[c]
      OBVIOUS
    <3>1. a = args[c] /\ k = next[c] /\ ns = from[c]
      BY <3>a, <3>b, <3>c
    <3>2. Here(c, a, k, ns)
      BY <2>1, <2>4, <2>6, <3>1 DEF Here, AloneInv
    <3>3. GoesOn(c, a, k, ns)
      BY <1>3, <3>2, CommandGoesOn
    <3>4. ~GiveUp(c)
      BY <2>4 DEF GiveUp, Return, TypeOK
    <3>5. Reached(a, k + 1, ns, errors[c])'
      BY <3>3, <3>4 DEF GoesOn
    <3>6. args'[c] = a /\ next'[c] = k + 1 /\ from'[c] = ns
      BY <2>2, <2>4, <3>1
    <3> QED
      BY <3>5, <3>6
  <2> QED
    BY <2>2, <2>3, <2>4, <2>5, <2>6
<1> QED
  BY <1>1, <1>2, <1>3, CallsAreRequests DEF Next

\* IInv holds whatever is called, by whom and in what order.
THEOREM Invariance == Spec => []IInv
<1>1. Init => IInv
  <2>1. Init => AloneInv
    BY DEF Init, AloneInv
  <2> QED
    BY <2>1, InitIsTyped DEF IInv
<1>2. IInv /\ [Next]_vars => IInv'
  BY TypesAreKept, AloneIsKept DEF IInv
<1> QED
  BY <1>1, <1>2, PTL DEF Spec

-----------------------------------------------------------------------------
(* What the tools promise follows.                                         *)

\* Behind its last command a tool has done everything.
AllDone(a, k, ns) ==
  /\ DoneAt(a, k) => /\ schema[Home(a)] = a.project.modules
                     /\ count[Home(a)] = Once(Last(a))
                     /\ extra[Home(a)] \subseteq (IF a.tool = "load_project" THEN {"file"} ELSE {})
  /\ a.tool = "load_manifest" /\ LoadedAt(a, k) =>
       /\ \A m \in Module : "unless" \notin Written[a.project.modules[m]] =>
            schema[Home(a)][m] = a.project.modules[m]
       /\ \A v \in Version : count[Home(a)][v] > 0
  /\ (a.tool = "load_project" => a.clean) /\ SessionAt(a, k, ns) => session = Home(a)
  /\ (a.tool = "load_project" => a.clean) => k > ClearsAt(a)

LEMMA AllIsDone ==
  ASSUME NEW a \in Applying, NEW k, k = Len(Script(a)) + 1, NEW ns
  PROVE  AllDone(a, k, ns)
<1>1. /\ ModulesAt(a) \in Nat /\ MigrationsAt(a) \in Nat /\ Len(Between(a)) \in Nat
      /\ MigrationsAt(a) = ModulesAt(a) + Modules + Len(Between(a)) /\ Modules \in Nat
      /\ ClosingAt(a) = MigrationsAt(a) + Last(a) /\ Last(a) \in 0..Versions /\ Versions \in Nat
      /\ Len(Script(a)) = ClosingAt(a) + Len(Closing(a)) /\ Len(Closing(a)) \in Nat
      /\ Module = 1..Modules /\ Version = 1..Versions
  BY Layout, PlaygroundAssumption DEF Module, Version
<1>2. k \in Nat /\ k > ModulesAt(a)
  BY <1>1
<1>3. \A m \in Module : ModulesAt(a) + m < k
  <2> SUFFICES ASSUME NEW m \in Module PROVE ModulesAt(a) + m < k
    OBVIOUS
  <2>1. m \in Nat /\ m <= Modules
    BY <1>1
  <2>2. /\ ModulesAt(a) \in Nat /\ Len(Between(a)) \in Nat /\ Modules \in Nat /\ Last(a) \in Nat
        /\ Len(Closing(a)) \in Nat
        /\ k = ModulesAt(a) + Modules + Len(Between(a)) + Last(a) + Len(Closing(a)) + 1
    BY <1>1
  <2> QED
    BY <2>1, <2>2
<1>4. \A v \in Version : v <= Last(a) => MigrationsAt(a) + v < k
  <2>1. k > MigrationsAt(a) + Last(a) /\ Last(a) \in Nat /\ \A v \in Version : v \in Nat
    BY <1>1
  <2> QED
    BY <1>1, <1>2, <2>1
<1>5. a.project.modules \in [Module -> Content]
  BY DEF Applying, ProjectFiles
<1>6. ASSUME DoneAt(a, k)
      PROVE  /\ schema[Home(a)] = a.project.modules
             /\ count[Home(a)] = Once(Last(a))
             /\ extra[Home(a)] \subseteq (IF a.tool = "load_project" THEN {"file"} ELSE {})
  <2>1. schema[Home(a)] = [m \in Module |-> a.project.modules[m]]
    BY <1>3, <1>6 DEF DoneAt
  <2>2. count[Home(a)] = [v \in Version |-> IF v <= Last(a) THEN 1 ELSE 0]
    BY <1>4, <1>6 DEF DoneAt
  <2> QED
    BY <1>5, <1>6, <2>1, <2>2 DEF Once, DoneAt
<1>7. ASSUME a.tool = "load_manifest", LoadedAt(a, k)
      PROVE  /\ \A m \in Module : "unless" \notin Written[a.project.modules[m]] =>
                  schema[Home(a)][m] = a.project.modules[m]
             /\ \A v \in Version : count[Home(a)][v] > 0
  <2>1. \A m \in Module : "unless" \notin Written[a.project.modules[m]] =>
          schema[Home(a)][m] = a.project.modules[m]
    BY <1>3, <1>7 DEF LoadedAt
  <2>2. \A v \in Version : v <= Last(a)
    BY <1>1, <1>7 DEF Last
  <2> QED
    BY <1>4, <1>7, <2>1, <2>2 DEF LoadedAt
<1>8. ASSUME a.tool = "load_project" => a.clean, SessionAt(a, k, ns) PROVE session = Home(a)
  BY <1>2, <1>8, PastOpening
<1>9. ASSUME a.tool = "load_project" => a.clean PROVE k > ClearsAt(a)
  <2>1. ModulesAt(a) = 3
    BY <1>9, OpeningCommands
  <2> QED
    BY <1>2, <2>1 DEF ClearsAt
<1> QED
  BY <1>6, <1>7, <1>8, <1>9 DEF AllDone

\* The same of the state after a step.
LEMMA AllWillBeDone ==
  ASSUME NEW a \in Applying, NEW k, k = Len(Script(a)) + 1, NEW ns
  PROVE  AllDone(a, k, ns)'
<1>1. AllDone(a, k, ns)
  BY AllIsDone
<1> QED
  BY <1>1, PTL

\* A tool that nobody interfered with returns success when it has sent its
\* last command and everything is as it has to be, or else stops well.
LEMMA ReturnsAsItHasTo ==
  ASSUME IInv, [Next]_vars, NEW c \in Call, NEW a \in Applying, args[c] = a, alone[c],
         NEW ns, ns = from[c], at[c] = "running", at'[c] # "running"
  PROVE  /\ Command(c)
         /\ \/ /\ at'[c] = "ok" /\ next[c] = Len(Script(a))
               /\ Reached(a, Len(Script(a)) + 1, ns, errors[c])'
            \/ at'[c] = "err" /\ StoppedWell(a, ns)'
<1>1. PICK d \in Call : CallTool(d) \/ Command(d)
  BY DEF Next, vars
<1>2. TypeOK /\ AloneInv
  BY DEF IInv
<1>3. ~CallTool(d)
  <2> SUFFICES ASSUME CallTool(d) PROVE FALSE
    OBVIOUS
  <2>1. PICK what \in Request : Begin(d, what)
    BY <1>2, CallsAreRequests
  <2> QED
    BY <2>1 DEF Begin, Running
<1>4. d = c
  <2>1. d # c => at'[c] = at[c]
    BY <1>1, <1>2, <1>3, CommandMovesOneCall
  <2> QED
    BY <2>1
<1>5. Command(c)
  BY <1>1, <1>3, <1>4
<1>6. PICK k \in 1..Len(Script(a)) : k = next[c]
  BY <1>2 DEF TypeOK
<1>7. Here(c, a, k, ns)
  BY <1>2, <1>6 DEF Here, AloneInv
<1>8. GoesOn(c, a, k, ns)
  BY <1>2, <1>5, <1>7, CommandGoesOn
<1>9. CASE Proceed(c) /\ Reached(a, k + 1, ns, errors[c])'
  <2>1. ~(k < Len(Script(a))) /\ Return(c, "ok")
    BY <1>6, <1>9 DEF Proceed
  <2>2. k = Len(Script(a))
    BY <2>1, Layout
  <2>3. at'[c] = "ok"
    BY <1>2, <2>1 DEF Return, TypeOK
  <2> QED
    BY <1>5, <1>6, <1>9, <2>2, <2>3
<1>10. CASE GiveUp(c) /\ StoppedWell(a, ns)'
  BY <1>2, <1>5, <1>10 DEF GiveUp, Return, TypeOK
<1> QED
  BY <1>8, <1>9, <1>10 DEF GoesOn

\* verify sees no drift between the playground and its shadow database when
\* it is called by itself (lib.rs:655): what it compares is what it applied.
THEOREM VerifySeesNoDrift == Spec => NoFalseDrift
<1>1. IInv /\ [Next]_vars =>
        [\A c \in Call : Returns(c, "verify") => report'[c] = "match"]_vars
  <2> SUFFICES ASSUME IInv, [Next]_vars, NEW c \in Call, Returns(c, "verify")
               PROVE  report'[c] = "match"
    OBVIOUS
  <2>1. args[c].tool = "verify" /\ alone[c] /\ at[c] = "running" /\ at'[c] = "ok"
    BY DEF Returns
  <2>2. TypeOK
    BY DEF IInv
  <2>3. PICK a \in Applying : a = args[c] /\ a.tool = "verify"
    BY <2>1, <2>2 DEF TypeOK, Request, Applying
  <2>4. PICK ns : ns = from[c]
    OBVIOUS
  <2>5. PICK k : k = Len(Script(a)) + 1
    OBVIOUS
  <2>6. Command(c) /\ next[c] = Len(Script(a)) /\ Reached(a, k, ns, errors[c])'
    BY <2>1, <2>3, <2>4, <2>5, ReturnsAsItHasTo
  <2>7. AllDone(a, k, ns)' /\ AllDone(a, k, ns)
    BY <2>5, AllWillBeDone, AllIsDone
  <2>8. DoneAt(a, k)' /\ SessionAt(a, k, ns)'
    BY <2>3, <2>6, <2>7 DEF Reached, Clears, AllDone
  <2>9. /\ session' = Home(a) /\ schema'[Home(a)] = a.project.modules
        /\ count'[Home(a)] = Once(Last(a)) /\ extra'[Home(a)] \subseteq {}
    BY <2>3, <2>7, <2>8 DEF AllDone
  <2>10. Sent(c) = CompareWithShadow(a.project)
    <3>1. Closing(a) = <<CompareWithShadow(a.project)>>
      BY <2>3 DEF Closing
    <3>2. Len(Closing(a)) = 1 /\ Closing(a)[1] = CompareWithShadow(a.project)
      BY <3>1
    <3>3. Len(Script(a)) = ClosingAt(a) + 1 /\ Script(a)[ClosingAt(a) + 1] = Closing(a)[1]
      <4>1. /\ Len(Script(a)) = ClosingAt(a) + Len(Closing(a))
            /\ \A i \in 1..Len(Closing(a)) : Script(a)[ClosingAt(a) + i] = Closing(a)[i]
        BY Layout
      <4>2. 1 \in 1..Len(Closing(a))
        BY <3>2
      <4> QED
        BY <3>2, <4>1, <4>2
    <3>4. Sent(c) = Script(a)[Len(Script(a))]
      BY <2>3, <2>6 DEF Sent
    <3> QED
      BY <3>2, <3>3, <3>4
  <2>11. Sent(c).op = "compare" /\ Sent(c).project = a.project
    BY <2>10 DEF CompareWithShadow
  <2>12. DoCompare(c)
    BY <2>6, <2>11 DEF Command, DoUse, DoRemove, DoRead, DoDefine, DoMigrate, DoQuery, Sends
  <2>13. MatchesShadow(a.project)
    <3>1. session' = session /\ schema' = schema /\ count' = count /\ extra' = extra
      BY <2>12 DEF DoCompare, dbVars
    <3>2. \A v \in Version : Once(Last(a))[v] > 0
      <4>1. Last(a) = Versions /\ Versions \in Nat
        BY <2>3, PlaygroundAssumption DEF Last
      <4> QED
        BY <4>1 DEF Once, Version
    <3> QED
      BY <2>9, <3>1, <3>2 DEF MatchesShadow
  <2>14. ~GiveUp(c)
    BY <2>1, <2>2 DEF GiveUp, Return, TypeOK
  <2>15. report' = [report EXCEPT ![c] =
                       IF MatchesShadow(Sent(c).project) THEN "match" ELSE "drift"]
    BY <2>12, <2>14 DEF DoCompare
  <2>16. report' = [report EXCEPT ![c] = "match"]
    BY <2>11, <2>13, <2>15
  <2> QED
    BY <2>2, <2>16 DEF TypeOK
<1> QED
  BY <1>1, Invariance, PTL DEF Spec, NoFalseDrift

\* A clean load_project without errors leaves exactly its files
\* (lib.rs:214-331): what was there before is gone, also what another
\* project or a failed attempt left.
THEOREM CleanLoadIsExact == Spec => LoadProjectIsExact
<1>1. IInv /\ [Next]_vars =>
        [\A c \in Call :
           Returns(c, "load_project") /\ args[c].clean /\ ~errors'[c] =>
             /\ session' = <<"default", "default">>
             /\ schema'[session'] = args[c].project.modules
             /\ count'[session'] = Once(Versions)
             /\ extra'[session'] \subseteq {"file"}]_vars
  <2> SUFFICES ASSUME IInv, [Next]_vars, NEW c \in Call, Returns(c, "load_project"),
                      args[c].clean, ~errors'[c]
               PROVE  /\ session' = <<"default", "default">>
                      /\ schema'[session'] = args[c].project.modules
                      /\ count'[session'] = Once(Versions)
                      /\ extra'[session'] \subseteq {"file"}
    OBVIOUS
  <2>1. args[c].tool = "load_project" /\ alone[c] /\ at[c] = "running" /\ at'[c] = "ok"
    BY DEF Returns
  <2>2. PICK a \in Applying : a = args[c] /\ a.tool = "load_project" /\ a.clean
    BY <2>1 DEF IInv, TypeOK, Request, Applying
  <2>3. PICK ns : ns = from[c]
    OBVIOUS
  <2>4. PICK k : k = Len(Script(a)) + 1
    OBVIOUS
  <2>5. Reached(a, k, ns, errors[c])'
    BY <2>1, <2>2, <2>3, <2>4, ReturnsAsItHasTo
  <2>6. AllDone(a, k, ns)' /\ AllDone(a, k, ns)
    BY <2>4, AllWillBeDone, AllIsDone
  <2>7. DoneAt(a, k)' /\ SessionAt(a, k, ns)'
    BY <2>2, <2>5, <2>6 DEF Reached, Clears, AllDone
  <2>8. /\ session' = Home(a) /\ schema'[Home(a)] = a.project.modules
        /\ count'[Home(a)] = Once(Last(a)) /\ extra'[Home(a)] \subseteq {"file"}
    BY <2>2, <2>6, <2>7 DEF AllDone
  <2>9. Home(a) = <<"default", "default">> /\ Last(a) = Versions
    BY <2>2 DEF Home, Last
  <2> QED
    BY <2>2, <2>8, <2>9
<1> QED
  BY <1>1, Invariance, PTL DEF Spec, LoadProjectIsExact

\* A load_manifest that reports no error has every module in effect that
\* nowhere says IF NOT EXISTS, and has run every migration, although it does
\* not empty the database it loads into (lib.rs:556-602).
THEOREM NoErrorIsLoaded == Spec => NoErrorMeansLoaded
<1>1. IInv /\ [Next]_vars =>
        [\A c \in Call :
           Returns(c, "load_manifest") /\ ~errors'[c] =>
             /\ session' = <<args[c].project.ns, args[c].project.db>>
             /\ \A m \in Module : "unless" \notin Written[args[c].project.modules[m]] =>
                  schema'[session'][m] = args[c].project.modules[m]
             /\ \A v \in Version : count'[session'][v] > 0]_vars
  <2> SUFFICES ASSUME IInv, [Next]_vars, NEW c \in Call, Returns(c, "load_manifest"),
                      ~errors'[c]
               PROVE  /\ session' = <<args[c].project.ns, args[c].project.db>>
                      /\ \A m \in Module : "unless" \notin Written[args[c].project.modules[m]] =>
                           schema'[session'][m] = args[c].project.modules[m]
                      /\ \A v \in Version : count'[session'][v] > 0
    OBVIOUS
  <2>1. args[c].tool = "load_manifest" /\ alone[c] /\ at[c] = "running" /\ at'[c] = "ok"
    BY DEF Returns
  <2>2. PICK a \in Applying : a = args[c] /\ a.tool = "load_manifest"
    BY <2>1 DEF IInv, TypeOK, Request, Applying
  <2>3. PICK ns : ns = from[c]
    OBVIOUS
  <2>4. PICK k : k = Len(Script(a)) + 1
    OBVIOUS
  <2>5. Reached(a, k, ns, errors[c])'
    BY <2>1, <2>2, <2>3, <2>4, ReturnsAsItHasTo
  <2>6. AllDone(a, k, ns)'
    BY <2>4, AllWillBeDone
  <2>7. LoadedAt(a, k)' /\ SessionAt(a, k, ns)'
    BY <2>2, <2>5 DEF Reached
  <2>9. /\ session' = Home(a)
        /\ \A m \in Module : "unless" \notin Written[a.project.modules[m]] =>
             schema'[Home(a)][m] = a.project.modules[m]
        /\ \A v \in Version : count'[Home(a)][v] > 0
    BY <2>2, <2>6, <2>7 DEF AllDone
  <2>10. Home(a) = <<a.project.ns, a.project.db>>
    BY <2>2 DEF Home
  <2> QED
    BY <2>2, <2>9, <2>10
<1> QED
  BY <1>1, Invariance, PTL DEF Spec, NoErrorMeansLoaded

\* A rollback that succeeds leaves the modules and exactly the migrations up
\* to its target, provided its REMOVE DATABASE found the project's database
\* (lib.rs:951-1020).
THEOREM RollbackLeavesTarget == Spec => RollbackIsExact
<1>1. IInv /\ [Next]_vars =>
        [\A c \in Call :
           Returns(c, "rollback") /\ FindsDatabase(c) =>
             /\ schema'[session'] = args[c].project.modules
             /\ count'[session'] = Once(args[c].target)
             /\ extra'[session'] = {}]_vars
  <2> SUFFICES ASSUME IInv, [Next]_vars, NEW c \in Call, Returns(c, "rollback"),
                      FindsDatabase(c)
               PROVE  /\ schema'[session'] = args[c].project.modules
                      /\ count'[session'] = Once(args[c].target)
                      /\ extra'[session'] = {}
    OBVIOUS
  <2>1. args[c].tool = "rollback" /\ alone[c] /\ at[c] = "running" /\ at'[c] = "ok"
    BY DEF Returns
  <2>2. PICK a \in Applying : a = args[c] /\ a.tool = "rollback"
    BY <2>1 DEF IInv, TypeOK, Request, Applying
  <2>3. PICK ns : ns = from[c] /\ ns = a.project.ns /\ a.project.db \in PlainName
    BY <2>2 DEF FindsDatabase
  <2>4. PICK k : k = Len(Script(a)) + 1
    OBVIOUS
  <2>5. Reached(a, k, ns, errors[c])'
    BY <2>1, <2>2, <2>3, <2>4, ReturnsAsItHasTo
  <2>6. AllDone(a, k, ns)' /\ AllDone(a, k, ns)
    BY <2>4, AllWillBeDone, AllIsDone
  <2>7. DoneAt(a, k)' /\ SessionAt(a, k, ns)'
    BY <2>2, <2>3, <2>5, <2>6 DEF Reached, Clears, AllDone
  <2>8. /\ session' = Home(a) /\ schema'[Home(a)] = a.project.modules
        /\ count'[Home(a)] = Once(Last(a)) /\ extra'[Home(a)] \subseteq {}
    BY <2>2, <2>6, <2>7 DEF AllDone
  <2>9. Last(a) = a.target
    BY <2>2 DEF Last
  <2> QED
    BY <2>2, <2>8, <2>9
<1> QED
  BY <1>1, Invariance, PTL DEF Spec, RollbackIsExact

\* Wherever such a rollback ends, by success or by the first error, no migration
\* is in effect without the whole schema and the migrations below it
\* (lib.rs:987, 1011).
THEOREM RollbackEndsInOrder == Spec => RollbackStopsAtError
<1>1. IInv /\ [Next]_vars =>
        [\A c \in Call :
           /\ args[c].tool = "rollback" /\ alone[c] /\ FindsDatabase(c)
           /\ at[c] = "running" /\ at'[c] # "running"
           /\ session' = <<args[c].project.ns, args[c].project.db>>
           => \A v \in Version : count'[session'][v] > 0 =>
                /\ schema'[session'] = args[c].project.modules
                /\ \A u \in Version : u < v => count'[session'][u] > 0]_vars
  <2> SUFFICES ASSUME IInv, [Next]_vars, NEW c \in Call,
                      args[c].tool = "rollback", alone[c], FindsDatabase(c),
                      at[c] = "running", at'[c] # "running",
                      session' = <<args[c].project.ns, args[c].project.db>>
               PROVE  \A v \in Version : count'[session'][v] > 0 =>
                        /\ schema'[session'] = args[c].project.modules
                        /\ \A u \in Version : u < v => count'[session'][u] > 0
    OBVIOUS
  <2>1. PICK a \in Applying : a = args[c] /\ a.tool = "rollback"
    BY DEF IInv, TypeOK, Request, Applying
  <2>2. PICK ns : ns = from[c] /\ ns = a.project.ns /\ a.project.db \in PlainName
    BY <2>1 DEF FindsDatabase
  <2>3. PICK k \in Nat : k = Len(Script(a)) + 1
    BY Layout
  <2>4. \/ Reached(a, k, ns, errors[c])'
        \/ StoppedWell(a, ns)'
    BY <2>1, <2>2, <2>3, ReturnsAsItHasTo
  <2>5. StoppedWell(a, ns)'
    <3>1. AllDone(a, k, ns)
      BY <2>3, AllIsDone
    <3>2. Reached(a, k, ns, errors[c])' => DoneAt(a, k)'
      BY <2>1, <2>2, <3>1 DEF Reached, Clears, AllDone
    <3> QED
      BY <2>4, <3>2, DoneWillStopWell
  <2>6. Home(a) = session' /\ Clears(a, ns)
    BY <2>1, <2>2 DEF Home, Clears
  <2> QED
    BY <2>1, <2>5, <2>6 DEF StoppedWell
<1> QED
  BY <1>1, Invariance, PTL DEF Spec, RollbackStopsAtError
=============================================================================
