--------------------------- MODULE McpPlayground ---------------------------
(***************************************************************************)
(* The playground of the MCP server (mcp/src/lib.rs): one in-memory        *)
(* SurrealDB with ONE session, shared by all tool calls.  The calls run    *)
(* concurrently: the RwLock around the handle is only ever taken for       *)
(* reading, so neither the database nor the namespace and database the     *)
(* session points at are protected by it.                                  *)
(*                                                                         *)
(* A tool is the sequence of commands it sends; a command is executed in   *)
(* one step, together with what the code does with its answer.  Every      *)
(* command but "use" runs in whatever database the session points at when  *)
(* it is executed.  Tools that only read (schema, describe, compare, the   *)
(* graph tools, verify with verify_only) send nothing that changes state,  *)
(* and neither do calls that are refused before they send anything: a bad  *)
(* path, a manifest that does not load, names verify does not accept.      *)
(*                                                                         *)
(* The modules of a project define different names.  A module is in effect *)
(* in a database when everything it defines is there as it has it; what is *)
(* left there of another text of the module is counted as extra.           *)
(***************************************************************************)
EXTENDS Integers, Sequences

CONSTANTS
  Call,        \* tool calls that may be running at the same time
  Tools,       \* the tools that are called
  Projects,    \* bound: the project in the files, for each call that is made
  Overlapping, \* bound: only the first so many calls overlap with others
  Namespace,   \* among them "default"
  DbName,      \* among them "default"
  PlainName,   \* the names of databases that need no quotes in a query
  Modules, Versions,  \* how many schema modules and how many migrations
  Content,     \* texts of a schema module
  Written,     \* how the DEFINE statements of a text are written
  Absent,      \* a module that defines nothing
  Mixed,       \* a module of which only some definitions are in effect
  Failing      \* may a statement fail?

\* Both are numbered in the order in which they are applied.
Module == 1..Modules
Version == 1..Versions

\* DEFINE and no more; the same for a kind inject_overwrite does not know;
\* DEFINE .. OVERWRITE; DEFINE .. IF NOT EXISTS.
Way == {"define", "other", "overwrite", "unless"}
ProjectFiles == [ns : Namespace, db : DbName, modules : [Module -> Content]]

ASSUME PlaygroundAssumption ==
  /\ "default" \in Namespace \cap DbName
  /\ "default" \in PlainName
  /\ Written \in [Content -> SUBSET Way]
  /\ Modules \in Nat /\ Versions \in Nat
  /\ Absent \notin Content /\ Mixed \notin Content /\ Absent # Mixed
  /\ Projects \in Seq(ProjectFiles)
  /\ Overlapping \in Nat
  /\ Failing \in BOOLEAN

Database == Namespace \X DbName

VARIABLES
  session,   \* the namespace and database the shared session points at
  schema,    \* what each schema module defines in each database
  count,     \* how often each migration took effect in each database
  extra,     \* what else is in each database
  at,        \* where each call is
  next,      \* which of its commands a running call sends next, from 1
  errors,    \* the call collected, or returned, an error
  report,    \* what verify found
  begun,     \* how many calls were made
  args,      \* tool, project and target of each running call
  from,      \* history: the namespace the session was in when a call began
  alone      \* history: no other call has overlapped with this one

dbVars == <<session, schema, count, extra>>
callVars == <<args, from, alone>>
vars == <<dbVars, at, next, errors, report, begun, callVars>>

-----------------------------------------------------------------------------
\* Commands, and the tools as sequences of them.  On an error a command
\* makes the tool return ("fatal"), is counted ("collect") or passed over.

Use(ns, db) == [op |-> "use", to |-> <<ns, db>>]
RemoveDatabase(db) == [op |-> "remove", db |-> db, quoted |-> FALSE]
RemoveQuoted(db) == [op |-> "remove", db |-> db, quoted |-> TRUE]
ReadFiles == [op |-> "read"]
DefineModule(p, m, overwrite, onError) ==
  [op |-> "define", module |-> m, text |-> p.modules[m], overwrite |-> overwrite,
   onError |-> onError]
RunMigration(v, onError) == [op |-> "migrate", version |-> v, onError |-> onError]
RunQuery(what, onError) == [op |-> "query", what |-> what, onError |-> onError]
CompareWithShadow(p) == [op |-> "compare", project |-> p]

ApplyModules(p, overwrite, onError) ==
  [m \in Module |-> DefineModule(p, m, overwrite, onError)]
RunMigrations(last, onError) == [v \in 1..last |-> RunMigration(v, onError)]

\* exec and load_file: one query.
QueryScript == <<RunQuery("query", "fatal")>>

ResetScript == <<RemoveDatabase("default"), Use("default", "default")>>

\* Faulty variant: the database is not removed.
LoadProjectUncleaned(p, clean) ==
  (IF clean THEN <<Use("default", "default")>> ELSE <<>>)
    \o ApplyModules(p, TRUE, "collect") \o RunMigrations(Versions, "collect")
    \o <<RunQuery("file", "collect"), RunQuery("file", "ignore")>>

\* Schema and function files, migrations, general files, examples.
LoadProjectScript(p, clean) ==
  (IF clean THEN <<Use("default", "default"), RemoveDatabase("default"), Use("default", "default")>>
            ELSE <<>>)
    \o ApplyModules(p, TRUE, "collect") \o RunMigrations(Versions, "collect")
    \o <<RunQuery("file", "collect"), RunQuery("file", "ignore")>>

\* Faulty variant: the responses are not checked.
LoadManifestUnchecked(p) ==
  <<RemoveDatabase("default"), Use(p.ns, p.db), ReadFiles>> \o ApplyModules(p, FALSE, "ignore")
    \o <<ReadFiles>> \o RunMigrations(Versions, "ignore")

LoadManifestScript(p) ==
  <<RemoveDatabase("default"), Use(p.ns, p.db), ReadFiles>> \o ApplyModules(p, FALSE, "collect")
    \o <<ReadFiles>> \o RunMigrations(Versions, "collect")

\* Faulty variant: the database is not removed.
VerifyUncleaned(p) ==
  <<Use(p.ns, p.db)>>
    \o ApplyModules(p, FALSE, "fatal") \o RunMigrations(Versions, "fatal") \o <<CompareWithShadow(p)>>

\* verify: the project goes into the playground and into a fresh in-memory
\* database of its own, and the two are compared.
VerifyScript(p) ==
  <<Use(p.ns, "default"), RemoveQuoted(p.db), Use(p.ns, p.db)>>
    \o ApplyModules(p, FALSE, "fatal") \o RunMigrations(Versions, "fatal") \o <<CompareWithShadow(p)>>

\* Faulty variant: a failed migration does not end the rollback.
RollbackCollects(p, target) ==
  <<RemoveDatabase(p.db), Use(p.ns, p.db), ReadFiles>> \o ApplyModules(p, TRUE, "collect")
    \o <<ReadFiles>> \o RunMigrations(target, "collect")

\* Faulty variant: the target version is left out too.
RollbackBelow(p, target) ==
  <<RemoveDatabase(p.db), Use(p.ns, p.db), ReadFiles>> \o ApplyModules(p, TRUE, "fatal")
    \o <<ReadFiles>> \o RunMigrations(IF target = 0 THEN 0 ELSE target - 1, "fatal")

RollbackScript(p, target) ==
  <<RemoveDatabase(p.db), Use(p.ns, p.db), ReadFiles>> \o ApplyModules(p, TRUE, "fatal")
    \o <<ReadFiles>> \o RunMigrations(target, "fatal")

\* The commands of a call with arguments a.
Script(a) ==
  CASE a.tool = "exec" -> QueryScript
    [] a.tool = "reset" -> ResetScript
    [] a.tool = "load_project" -> LoadProjectScript(a.project, a.clean)
    [] a.tool = "load_manifest" -> LoadManifestScript(a.project)
    [] a.tool = "verify" -> VerifyScript(a.project)
    [] a.tool = "rollback" -> RollbackScript(a.project, a.target)

-----------------------------------------------------------------------------

Empty == [m \in Module |-> Absent]
Never == [v \in Version |-> 0]

Init ==
  /\ session = <<"default", "default">>
  /\ schema = [d \in Database |-> Empty]
  /\ count = [d \in Database |-> Never]
  /\ extra = [d \in Database |-> {}]
  /\ at = [c \in Call |-> "idle"]
  /\ next = [c \in Call |-> 0]
  /\ errors = [c \in Call |-> FALSE]
  /\ report = [c \in Call |-> "none"]
  /\ begun = 0
  /\ args = [c \in Call |-> [tool |-> "none"]]
  /\ from = [c \in Call |-> "default"]
  /\ alone = [c \in Call |-> FALSE]

Running == {c \in Call : at[c] = "running"}

\* A client calls a tool with these arguments.  What earlier calls returned
\* is of no further use.
Begin(c, what) ==
  /\ at[c] # "running" /\ begun < Len(Projects)
  /\ begun < Overlapping \/ Running = {}
  /\ what.tool \in Tools
  /\ begun' = begun + 1
  /\ at' = [d \in Call |-> IF d \in Running \cup {c} THEN "running" ELSE "idle"]
  /\ next' = [next EXCEPT ![c] = 1]
  /\ args' = [args EXCEPT ![c] = what]
  /\ from' = [from EXCEPT ![c] = session[1]]
  /\ alone' = [d \in Call |-> IF d = c THEN Running = {} ELSE alone[d] /\ d \notin Running]
  /\ errors' = [d \in Call |-> d \in Running /\ errors[d]]
  /\ report' = [d \in Call |-> "none"]
  /\ UNCHANGED dbVars

\* The files as the call finds them.
Project == Projects[begun + 1]

Exec(c) == Begin(c, [tool |-> "exec"])
Reset(c) == Begin(c, [tool |-> "reset"])
LoadProject(c) ==
  /\ begun < Len(Projects)
  /\ \E clean \in BOOLEAN :
       Begin(c, [tool |-> "load_project", project |-> Project, clean |-> clean])
LoadManifest(c) ==
  /\ begun < Len(Projects)
  /\ Begin(c, [tool |-> "load_manifest", project |-> Project])
Verify(c) ==
  /\ begun < Len(Projects)
  /\ Begin(c, [tool |-> "verify", project |-> Project])
Rollback(c) ==
  /\ begun < Len(Projects)
  /\ \E target \in 0..Versions :
       Begin(c, [tool |-> "rollback", project |-> Project, target |-> target])

-----------------------------------------------------------------------------
\* One command of a running call.

Sent(c) == Script(args[c])[next[c]]
Sends(c, op) == at[c] = "running" /\ Sent(c).op = op

Return(c, how) ==
  /\ at' = [at EXCEPT ![c] = how]
  /\ args' = [args EXCEPT ![c] = [tool |-> "none"]]
  /\ from' = [from EXCEPT ![c] = "default"]
  /\ alone' = [alone EXCEPT ![c] = FALSE]

\* On to the next command; the tool returns after the last one.
Proceed(c) ==
  IF next[c] < Len(Script(args[c]))
  THEN next' = [next EXCEPT ![c] = @ + 1] /\ UNCHANGED <<at, callVars>>
  ELSE next' = [next EXCEPT ![c] = 0] /\ Return(c, "ok")

\* Faulty variant: the commands that are left are sent all the same.
GiveUpLate(c) ==
  /\ next' = [next EXCEPT ![c] = @ + 1]
  /\ Return(c, "err")
  /\ errors' = [errors EXCEPT ![c] = TRUE]

\* return error_result(..)
GiveUp(c) ==
  /\ next' = [next EXCEPT ![c] = 0]
  /\ Return(c, "err")
  /\ errors' = [errors EXCEPT ![c] = TRUE]

\* What the tool does when the database answers with an error.
HandleError(c) ==
  CASE Sent(c).onError = "fatal" -> GiveUp(c)
    [] Sent(c).onError = "collect" ->
         Proceed(c) /\ errors' = [errors EXCEPT ![c] = TRUE]
    [] Sent(c).onError = "ignore" -> Proceed(c) /\ UNCHANGED errors

\* use_ns(..).use_db(..) is one command and moves the shared session.
DoUse(c) ==
  /\ Sends(c, "use")
  /\ \/ session' = Sent(c).to /\ Proceed(c) /\ UNCHANGED errors
     \/ Failing /\ GiveUp(c) /\ UNCHANGED session
  /\ UNCHANGED <<schema, count, extra, report, begun>>

\* REMOVE DATABASE in the session's namespace; its answer is ignored.  With
\* a name that needs quotes and has none it is not even parsed, and beside
\* another call it may fail for a conflict.
DoRemove(c) ==
  /\ Sends(c, "remove")
  /\ LET d == <<session[1], Sent(c).db>>
         parses == Sent(c).quoted \/ Sent(c).db \in PlainName
     IN  \/ /\ parses
            /\ schema' = [schema EXCEPT ![d] = Empty]
            /\ count' = [count EXCEPT ![d] = Never]
            /\ extra' = [extra EXCEPT ![d] = {}]
         \/ /\ ~parses \/ (Failing /\ Running # {c})
            /\ UNCHANGED <<schema, count, extra>>
  /\ Proceed(c)
  /\ UNCHANGED <<session, errors, report, begun>>

\* load_schema_modules or discover_migrations; no database is involved.
DoRead(c) ==
  /\ Sends(c, "read")
  /\ (Proceed(c) /\ UNCHANGED errors) \/ (Failing /\ GiveUp(c))
  /\ UNCHANGED <<dbVars, report, begun>>

\* Some statement of the module is an error if its name exists: neither
\* the file nor the tool (inject_overwrite) says OVERWRITE.
Clashing(cmd) ==
  Written[cmd.text] \cap (IF cmd.overwrite THEN {"other"} ELSE {"define", "other"}) # {}

\* The DEFINE statements of a module, each by itself.  Another text of it
\* that is there may have defined the same names: then a statement with IF
\* NOT EXISTS keeps them without an error, and one that clashes is an error.
\* The names only that text has stay.
DoDefine(c) ==
  /\ Sends(c, "define")
  /\ LET cmd == Sent(c)
         old == schema[session][cmd.module]
         clashes == old # Absent /\ Clashing(cmd)
         keeps == old \notin {Absent, cmd.text} /\ "unless" \in Written[cmd.text]
         leaves == [extra EXCEPT ![session] = @ \cup {"old"}]
     IN  /\ extra' \in (IF old \in {Absent, cmd.text} THEN {extra} ELSE {extra, leaves})
         /\ \E now \in {old, Mixed, cmd.text} :
              /\ old = cmd.text => now = old
              /\ schema' = [schema EXCEPT ![session][cmd.module] = now]
              /\ \/ /\ now = cmd.text \/ keeps
                    /\ clashes => old # cmd.text
                    /\ Proceed(c)
                    /\ UNCHANGED errors
                 \/ /\ clashes \/ Failing
                    /\ HandleError(c)
  /\ UNCHANGED <<session, count, report, begun>>

\* A migration file, not in a transaction: it may fail and take effect.
DoMigrate(c) ==
  /\ Sends(c, "migrate")
  /\ LET v == Sent(c).version
         ran == [count EXCEPT ![session][v] = @ + 1]
     IN  \/ count' = ran /\ Proceed(c) /\ UNCHANGED errors
         \/ Failing /\ count' \in {count, ran} /\ HandleError(c)
  /\ UNCHANGED <<session, schema, extra, report, begun>>

\* Any other query or file.
DoQuery(c) ==
  /\ Sends(c, "query")
  /\ LET ran == [extra EXCEPT ![session] = @ \cup {Sent(c).what}]
     IN  \/ extra' = ran /\ Proceed(c) /\ UNCHANGED errors
         \/ Failing /\ extra' \in {extra, ran} /\ HandleError(c)
  /\ UNCHANGED <<session, schema, count, report, begun>>

\* INFO FOR DB of the session's database against the shadow database, to
\* which the project was applied by itself.
MatchesShadow(p) ==
  /\ schema[session] = p.modules
  /\ \A v \in Version : count[session][v] > 0
  /\ extra[session] = {}

DoCompare(c) ==
  /\ Sends(c, "compare")
  /\ \/ /\ report' = [report EXCEPT ![c] =
                        IF MatchesShadow(Sent(c).project) THEN "match" ELSE "drift"]
        /\ Proceed(c)
        /\ UNCHANGED errors
     \/ Failing /\ GiveUp(c) /\ UNCHANGED report
  /\ UNCHANGED <<dbVars, begun>>

CallTool(c) ==
  Exec(c) \/ Reset(c) \/ LoadProject(c) \/ LoadManifest(c) \/ Verify(c) \/ Rollback(c)

Command(c) ==
  DoUse(c) \/ DoRemove(c) \/ DoRead(c) \/ DoDefine(c) \/ DoMigrate(c) \/ DoQuery(c)
    \/ DoCompare(c)

Next == \E c \in Call : CallTool(c) \/ Command(c)

Spec == Init /\ [][Next]_vars

-----------------------------------------------------------------------------

Request ==
  [tool : {"exec", "reset"}]
    \cup [tool : {"load_project"}, project : ProjectFiles, clean : BOOLEAN]
    \cup [tool : {"load_manifest", "verify"}, project : ProjectFiles]
    \cup [tool : {"rollback"}, project : ProjectFiles, target : 0..Versions]

\* A running call, and no other, has a command to send next; and no
\* migration took effect more often than there were calls.
TypeOK ==
  /\ session \in Database
  /\ schema \in [Database -> [Module -> Content \cup {Absent, Mixed}]]
  /\ count \in [Database -> [Version -> 0..begun]]
  /\ extra \in [Database -> SUBSET {"query", "file", "old"}]
  /\ at \in [Call -> {"idle", "running", "ok", "err"}]
  /\ errors \in [Call -> BOOLEAN]
  /\ report \in [Call -> {"none", "match", "drift"}]
  /\ begun \in 0..Len(Projects)
  /\ from \in [Call -> Namespace]
  /\ alone \in [Call -> BOOLEAN]
  /\ DOMAIN args = Call /\ DOMAIN next = Call
  /\ \A c \in Call :
       IF at[c] = "running"
       THEN args[c] \in Request /\ next[c] \in 1..Len(Script(args[c]))
       ELSE args[c] = [tool |-> "none"] /\ next[c] = 0

\* Call c, the only one at the time, has just returned success.
Returns(c, tool) ==
  args[c].tool = tool /\ alone[c] /\ at[c] = "running" /\ at'[c] = "ok"
Once(last) == [v \in Version |-> IF v <= last THEN 1 ELSE 0]

\* verify "detects drift between the two environments" (lib.rs:655): called
\* by itself it applies the same project to both and must not see any,
\* whatever earlier calls left in the playground.
NoFalseDrift ==
  [][\A c \in Call : Returns(c, "verify") => report'[c] = "match"]_vars

\* A clean load_project "resets DB first" (lib.rs:214): called by itself and
\* without errors, it leaves its files in the default database, each
\* migration once, and nothing of earlier calls.
LoadProjectIsExact ==
  [][\A c \in Call :
       Returns(c, "load_project") /\ args[c].clean /\ ~errors'[c] =>
         /\ session' = <<"default", "default">>
         /\ schema'[session'] = args[c].project.modules
         /\ count'[session'] = Once(Versions)
         /\ extra'[session'] \subseteq {"file"}]_vars

\* load_manifest called by itself that reports no error: every module of the
\* manifest is in effect in its database, and every migration ran, although
\* what was there before is not removed (lib.rs:556-602).  A module that says
\* IF NOT EXISTS is not promised that: what was there may have stayed.
NoErrorMeansLoaded ==
  [][\A c \in Call :
       Returns(c, "load_manifest") /\ ~errors'[c] =>
         /\ session' = <<args[c].project.ns, args[c].project.db>>
         /\ \A m \in Module : "unless" \notin Written[args[c].project.modules[m]] =>
              schema'[session'][m] = args[c].project.modules[m]
         /\ \A v \in Version : count'[session'][v] > 0]_vars

\* The REMOVE DATABASE of a rollback, the first thing it sends, finds the
\* project's database: the session is in its namespace, and the name needs
\* no quotes (lib.rs:971).
FindsDatabase(c) == from[c] = args[c].project.ns /\ args[c].project.db \in PlainName

\* rollback "re-applies schema modules + migrations up to target_version"
\* (lib.rs:951) from scratch, when it finds the database to remove and no
\* other call interferes.
RollbackIsExact ==
  [][\A c \in Call :
       Returns(c, "rollback") /\ FindsDatabase(c) =>
         /\ schema'[session'] = args[c].project.modules
         /\ count'[session'] = Once(args[c].target)
         /\ extra'[session'] = {}]_vars

\* However such a rollback ends, the migrations in effect are the first
\* ones, on top of the whole schema: nothing runs after a failure
\* (lib.rs:987, 1011).
RollbackStopsAtError ==
  [][\A c \in Call :
       /\ args[c].tool = "rollback" /\ alone[c] /\ FindsDatabase(c)
       /\ at[c] = "running" /\ at'[c] # "running"
       /\ session' = <<args[c].project.ns, args[c].project.db>>
       => \A v \in Version : count'[session'][v] > 0 =>
            /\ schema'[session'] = args[c].project.modules
            /\ \A u \in Version : u < v => count'[session'][u] > 0]_vars

\* "Reset playground: switch to NS/DB then remove+recreate so we rebuild
\* from scratch" (lib.rs:969): called by itself, a rollback leaves no
\* migration above its target.
RollbackRebuilds ==
  [][\A c \in Call :
       Returns(c, "rollback") =>
         \A v \in Version : count'[session'][v] > 0 => v <= args[c].target]_vars
=============================================================================
