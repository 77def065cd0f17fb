# TLA+ models of surql-parser, overshift and their servers

The workspace holds a standalone SurrealQL parser and four programs built on it:
a migration engine (overshift), a language server, an MCP server and query
macros. This directory models two kinds of parts. Some are correct or not by what
happens *between* steps: processes sharing a lock that expires, queries that
fail after taking effect, requests handled at the same time over one session or
one cache. Others are functions that must fit one another, written in different
files: what the parser reads and the printer writes, a merge and the lookups
that rely on it, a traversal and its bounds, a formatter and the lexer whose
tokens it may not change. TLC checks small instances of each model; the safety
properties of the lock, of the migration engine, of both servers' state, of the sort, the
schema graph, the traversals and error recovery, and that every statement is read again as
it was printed, are also proved, for every value of the constants.

Paths are relative to the repository (`src/` in `PROJECT.json`).

- [Inventory](#inventory)
- [Modules and how they correspond to the code](#modules-and-how-they-correspond-to-the-code)
- [Runs](#runs), [what the runs found](#what-the-runs-found)
- [Proofs](#proofs)
- [What is only model-checked, and what is not modelled](#what-is-only-model-checked-and-what-is-not-modelled)
- [Plan](#plan)

## Inventory

| component | state it keeps | operations | hard behaviour | what makes it correct |
|---|---|---|---|---|
| **overshift lock** `overshift/src/lock.rs` | one record `leader_lock:{scope}` (holder, expires_at) in the system database; an instance id per lock value | acquire (a loop of try_acquire and sleeps), is_held, release, force_release | several processes between each other's queries; expiry; lost answers; crashes | at most one running lease; acquire() returns Ok only with one; bounded retries; a crashed holder's lock comes free |
| **overshift plan / apply / rollback** `overshift/src/plan.rs` | migration_lock rows (system database), the application's tables (application database) | plan(), Plan::apply(), rollback() | two databases that are never changed atomically; plans made before the lock is taken; every query may fail | rows never run ahead of the application; Ok means deployed; rows stay a prefix; runs exclude each other |
| **overshift changelog** `changelog.rs` | an append-only table of entries; the latest checksum of each schema module is read back | record_entry, read_schema_checksums | written after the fact, trusted by the next plan() | a logged checksum is what the database has |
| **overshift files** `migration.rs`, `schema.rs`, `manifest.rs` | none (directories and a manifest) | discover, checksum, topological sort, load modules | Kahn's algorithm at its boundaries | dependencies first, every module once, cycles reported |
| **overshift validation, shadow, snapshots, CLI** | files | read, compare, print | none | - |
| **language server state** `lsp/src/server.rs`, `document.rs` | open documents, an overlay per document, one graph per file, the merged schema, the diagnostics sent | initialized, did_open, did_change, did_save, did_close, and read-only requests | up to four handlers interleave at their awaits; files are parsed on another thread | the cache follows the files; a save refreshes everything; a closed document leaves no overlay |
| **language server engine** `lsp/src/embedded_db.rs` | two in-memory databases: the workspace's schema and the hash of each file | start, apply_migrations, reset_workspace | overlapping saves reset and replay the same database; failed queries | nothing the last replay read is missing; a replay alone is exact; a skip is safe |
| **language server symbols** `context.rs`, rename in `server.rs` | none | tokens around a cursor -> table, field, occurrences; edits of a renaming | every search has its own rules of what the words around a token mean | what is found is what was typed; a renaming leaves no name behind |
| **files for editors** `lsp/src/manifest.rs` | the directory `surql-lsp-out` | write_file_manifest, one task for each rebuild of the schema | tasks nobody awaits; each reads the files again, after its schema was merged | by itself a task leaves outputs that agree with the files and with each other |
| **other language server features** `completion.rs`, `hover.rs`, ... | none | document + schema -> text | none | - |
| **MCP playground** `mcp/src/lib.rs` | one in-memory server and *one session* shared by all tools | exec, load_file, reset, load_project, load_manifest, verify, rollback; read-only tools | tools overlap under a read lock; the session's namespace is state that earlier calls left | what a tool leaves does not depend on earlier calls; no error means loaded; verify sees no drift of its own making |
| **MCP file operations** `file_ops.rs`, `validation.rs` | none | path checks, file classification; inserting OVERWRITE, which McpPlayground models | none | - |
| **schema graph** `src/schema_graph.rs` | tables, fields, functions and their references, per file and merged | build, merge, scoped views, lookups, bounded traversals | definitions before, after or in another file than their table; cut-offs by depth and number of nodes | no definition is lost; what a traversal returns is nearest, and complete when nothing was cut |
| **recovery, diff** `src/recovery.rs`, `src/diff.rs` | none | text -> statements and errors; two schemas -> differences | one broken statement among others | the others stay, and none goes unnoticed; every difference is listed |
| **lint, parameters, lookup** | none | statements -> findings | none | - |
| **formatter** `src/formatting.rs`, `lsp/src/formatting.rs` | none | text + rules -> text; the edit that replaces a document | rules edit between tokens that the lexer must find again | tokens and comments stay |
| **lexer** `src/upstream/syn/lexer`, `fmt/escape.rs` | none | text -> tokens; content -> quoted text | escapes, keywords, numbers in keys, suffixes, durations | content and value survive quoting and reading |
| **parser and printer** `src/upstream/syn/parser`, `src/upstream/sql` | none | text -> tree -> text | optional clauses in any or a fixed order; binding powers; four things in braces; three parsers of one syntax | what is printed is read again as the same tree |
| **generated tables, macros, scripts** | none | - | generated, or run once at compile time | - |

How they interact: overshift's processes meet only in the database (the lock
record, migration_lock, the changelog); the MCP server uses overshift's readers
of manifests, modules and migrations but not its engine; the language server
and the MCP server both build schema graphs. The hazards, each at its line, are
in `PROJECT.json`, with the properties that are about them.

## Modules and how they correspond to the code

```
Lease            what the lock promises
  ^ refines
LeaderLock       lock.rs
  ^ extends
Overshift        plan.rs, changelog.rs   OvershiftProofs    (EXTENDS Overshift, Extrema; also about the lock)
                                         Extrema            extrema, induction, folds: what the proofs share
McpPlayground    mcp/src/lib.rs          McpProofs          (EXTENDS McpPlayground, Extrema)
LspServer        lsp/src/server.rs,      LspProofs          (EXTENDS LspServer)
                 document.rs

Repository       one of the following works, the others rest (EXTENDS all of them)
  EmbeddedEngine     lsp/src/embedded_db.rs     SchemaProofs   (EXTENDS the first three, DependencyTree
  TopologicalSort    overshift/src/schema.rs                    and Extrema)
  Derived            what is made of a schema for the user (EXTENDS the next two)
    SchemaGraph        src/schema_graph.rs (build, merge, scopes), src/diff.rs
    ManifestWriter     lsp/src/manifest.rs, the rebuilds of lsp/src/server.rs that spawn it
  RecordLinks        src/schema_graph.rs, tables_reachable_from
    DependencyTree   src/schema_graph.rs, dependency_tree (EXTENDS RecordLinks)
  Recovery           src/recovery.rs            TextProofs    (EXTENDS Recovery, SymbolSearch
  SymbolSearch       lsp/src/context.rs, rename               and Extrema)
  RoundTrip          EXTENDS the next four:     QueryProofs     (EXTENDS RoundTrip, Extrema)
                                                StatementProofs (EXTENDS QueryProofs)
    StatementSyntax    clauses: may, must, one of, repeated
    QueryStatements    SELECT, CREATE, ... RELATE, LIVE, IF, FOR
    SchemaStatements   REMOVE, ALTER, REBUILD, INFO, USE, ...
    DefineStatements   DEFINE of tables, fields, indexes, ...
    AccessStatements   DEFINE USER, ACCESS, API, CONFIG
  TokenText          texts as tokens, trees as nodes, `AndThen` and `Then` to
                     put parsers one after the other; used by the next five
    Expressions        operators and binding powers
    Kinds              types
    Idioms             paths, lookups, recursion
    Values             literals, braces, records, calls, closures
      PlainValues      the value parser and the JSON parser (EXTENDS Values)
  Lexemes            characters, tokens, quoting and escapes
    Numerals           numbers, durations, keys (EXTENDS Lexemes)
    Formatter          src/formatting.rs, lsp/src/formatting.rs (EXTENDS Lexemes)
MC*              the small instances TLC checks; *.cfg give the constants
```

Operators whose comment begins with *Faulty variant* are not part of any
specification. Each is a definition changed the way a plausible bug would change
it, and stands beside the definition it varies; `PROJECT.json` ("mutants") says
which property must catch it. Properties of `Repository` are conjunctions, one
conjunct for each module, and `PROJECT.json` lists one variant for each property. The
others were tried against their conjunct in the same way, each violates it:
`InDegreeOnce` (the sort), `NewInCommon` (the comparison of schemas), `ExpandsBeyond` (the
search along links), `InBinaryWeakerOnly` (parentheses), `ShortWithField` (lookups), `FloatSuffixNone` (numbers), `WriteSetPlain` (values).

### LeaderLock, Lease

One action is one query of `lock.rs`: `Seed` (DEFINE TABLE and CREATE), `CheckHeld`
(the fast path), `Claim`/`ClaimMiss`/`ClaimFails` (the atomic UPDATE), `Wake` (the end
of a retry sleep), `Release`, `ForceRelease`. Other instances act between them, as
they do between queries. The WHERE clauses are the operators `IsHeld`, `Claimable`
and the guard of `ReleaseRow`.

- **Time.** The code only ever compares `expires_at` with `time::now()`, so the
  model keeps the difference, `ttl`, which `Tick` counts down to -1 ("any time
  in the past"). `ttl = 0` is the instant at which the holder no longer
  holds and nobody may claim yet.
- **Failures.** A claim can fail without effect (`ClaimFails`) or take effect
  and lose its answer (`Claim`'s second disjunct). `Faults` says which kinds happen.
- **History.** `left` counts down the lease that the database last granted to
  an instance. No guard reads it.
- `Lease` is the abstract specification: one owner, granted only when there is
  none, ending by return, expiry or revocation. `ImplementsLease` is refinement
  under the mapping "the owner is the holder while `ttl > 0`".

### Overshift

A run is one process executing `rollback()`, or `plan()` and then `apply()`.
`conf` is what it was started with (job, files, target), `at` where it is; `Acquire`,
`AcquireStep`, `Release` and `Crash` of LeaderLock are conjoined with the run's own
variables, so the composition is by EXTENDS with shared actions.

| code | action |
|---|---|
| `plan()` steps 1-5, `read_applied` | `ReadApplied` |
| `plan()` step 6, `read_schema_checksums` | `ReadChecksums` |
| `apply()` before the lock | `SkipApply`, `BeginApply` |
| `apply_inner`, the migration loop | `RunMigration`, `RecordMigration`, `LogMigration`, `LogFailed` |
| `apply_inner`, schema modules | `ApplyModule`, `LogModule` |
| `validate_functions` | `Validate` |
| release and return | `Finish`, `NoLock` |
| `rollback()` | `BeginRollback`, `SkipDown`, `RunDown`, `DeleteRow`, `LogRollback` |

`count` and `schema` are the application database, `rows` and `recorded` the system
database. A query's outcome is `done`, `failed`, `lost` (took effect, the answer is
lost) or, where the code drops the response without `check()`, `unchecked` (the
statement failed and the code does not notice). `?` is two different things and is
modelled as such: in `apply_inner` it still reaches the release (`Break`), in
the loop of `rollback()` it returns with the lock held (`Abandon`).

Simplifications: a session switch belongs to the query that follows it; a file's
checksum is its content (SHA-256 taken to be injective); modules are numbered in
dependency order; changelog entries about migrations are steps that may fail,
but are not kept, since no code reads them; shadow verification is left out. A
process that restarts is another run, because its `instance_id` is a new uuid.

### McpPlayground

A tool is the sequence of commands it sends (`LoadProjectScript`, `RollbackScript`,
...) and one command is executed per step, in whatever database the shared
session points at *then*; `next` is the number of the command a call sends next. Schema modules and
migrations are numbered in the order in which they are applied, and `Modules` and `Versions` say
how many there are. Each command says what the tool does with an error:
return (`fatal`), count it and go on (`collect`), or nothing (`ignore`). The RwLock
around the handle is only taken for reading, so calls overlap freely.

Properties are about a call that nothing overlaps with (history variable `alone`):
the code promises nothing for overlapping ones. Calls before it may have overlapped,
so it starts from whatever state two interleaved tools can leave behind.

What a module leaves over an earlier text of itself depends on how its DEFINE statements are
written (`Written`): a plain one of a name that is there is an error, unless `inject_overwrite`
knows its kind and the tool uses it (`Clashing`); OVERWRITE replaces it; IF NOT EXISTS keeps it
without an error. So a module can be loaded, kept, half loaded (`Mixed`) or refused, and the names
that only the earlier text has stay (`extra`). `load_project` and `rollback` insert OVERWRITE,
`load_manifest` and `verify` do not. The answer of a REMOVE DATABASE is dropped (`DoRemove`).
`verify` quotes the name, `rollback` does not, so there it fails for every name that is not
in `PlainName`; beside another call it may fail for a conflict.

Simplifications: function files are merged with schema files, general and example
files are one command each; a module keeps to its own names; a USE statement
inside a user's query is not modelled; read-only tools change nothing and are left
out, as are `verify_only` and the checks of paths and identifiers.

### LspServer

One action is what a handler does between two awaits. `spawn_blocking` and messages
to the editor always let other handlers run; the await of an uncontended lock may,
when tokio's cooperative budget is spent, so `MergeRead`/`MergeWrite` and
`Judge`/`Send` are separate steps. `did_change` edits the document and stores its
overlay without an await in between, and so does the model (`PublishFirst`). The thread that
parses may panic: the scan then changes nothing (`ScanStore`), nor does the rebuild of a saved file
(`ParseFails`), and the handler goes on to the diagnostics. `failed` is history: the files whose
latest such rebuild did that.

A graph *is* the text it was extracted from, the merged schema is the function from
files to graphs, and a set of diagnostics is the pair of text and schema it was
computed from. "The diagnostics are up to date" is then an equation between
states. The editor writes the file first (`WriteFile`) and sends didSave afterwards.

Left out: namespace and database scoping of overlays, the files that detached
tasks write (see ManifestWriter), Rust documents, the embedded engine, requests that only
read, files deleted behind the server's back, initialize and shutdown.

### EmbeddedEngine

One action is one query of `embedded_db.rs`, or the reading of one file; calls of
`apply_migrations` overlap, since the engine's lock is only taken for reading.
`disk` is the workspace, `workspace` the names defined in the in-memory database,
`meta` the hash in each file's row, `call` where each call is and what it read. A
text is the set of names it defines, or `Broken`; a hash stands for its text (FNV-1a is
taken to be injective). Queries of the meta database and the session switch may fail;
the code goes on or returns, and so does the model. A text that is replayed may fail wholly or in
any of its statements (`ReplayFile`), also one that parses; the file is marked as applied all the
same, with the status "error" (`erroneous`), and returned among the `errors` of the call. The two queries that
mark it may both fail, or the second alone (`MarkFileApplied`). `replayed`, `refused` and
`settled` are history: what the call that reset last had read, the names whose DEFINE failed
since, and whether the last replay was alone and is what the rows say.

### TopologicalSort, SchemaGraph, RecordLinks, DependencyTree, Recovery

Each is an algorithm of the code with its loop as the action, or as one step
where nothing can come between, and a definition of its result beside it.

- `TopologicalSort`: the counts, the dependents and the queue of Kahn's
  algorithm, for every list of modules: duplicate names, a dependency listed twice,
  on itself or on a module that does not exist.
- `SchemaGraph`: `FromDefinitions` goes through the definitions of a file one kind after
  the other, all under the scope in which the file's USE statements leave it, each of which changes the
  namespace, the database or both; files are merged one by one, in any order; a view
  keeps one scope; `compare_schemas` lists what differs. What a graph knows (`Known`) is compared
  with what the graphs of the files know, and what a comparison reports (`Explains`) with the
  names on both sides and whether tables are SCHEMAFULL; no property is about the changed fields it lists, and
  params it does not compare at all.
- `RecordLinks` is the breadth-first search with its queue, one step per table taken
  from it. `DependencyTree` is the recursion that makes a tree, cut at a depth and at a number
  of nodes: one step is one call, which takes the next node off `waiting` and puts its children
  before the rest, the order of the calls in the code; when the cap is reached, all loops over
  children break, and nothing waits any more. A node is the walk that leads to it, and its
  ancestors, the `visited` of the code, are the tables on that walk.
- `Recovery`: the text as tokens (words, a bad token, semicolons, braces, and the three words of an
  IF: `IfThen` for "IF c THEN", `Otherwise` for "ELSE" or "ELSE IF c THEN", `EndIf`; a string
  or a comment is one token of the lexer and stands for a word or for nothing), cut into
  pieces, each parsed alone, compared with where the statements are. The code cuts at every
  semicolon that is in no braces (`Cuts`). The parser takes one after each branch of an IF (`IfsParse`),
  so it ends statements at fewer (`StatementsOf`).

### Statements: StatementSyntax to RoundTrip

A statement is a table of stages, `Syntax[s]`: which clauses may or must come, in which
order, how often, and what each stores. That is the shape of the functions in
`syn/parser/stmt`, where a stage is an `if self.eat(..)`, a `match` or a loop of one.
A text is the sequence of clauses the user typed; an argument is a placeholder where
the statement only passes it on, and modelled where it does more with it
(permissions, table types, access types, index parameters, IF bodies). `…Text`
operators are the printers in `sql/statements`. `RoundTrip` types a statement clause by
clause, parses, prints and parses again. The library's folds read and write a text
(`ReadAll`, `ShowAll`), since nothing can be proved of recursive operators.

### Expressions: TokenText, Expressions, Kinds, Idioms, Values, PlainValues

A text is a sequence of tokens, a tree a node with children (`Node(kind, op, args)`).
Each module has the parser as operators that return a tree and where they stopped
(`Parsed`, `Failed`), and the printer as an operator from trees to texts. States are
texts a user types, put into one another; a second action formats the text. Names and
operands are one letter each. `Expressions` has the binding powers and parentheses
(a tree of operators over operands), `Kinds` the types and `record_links` of a field's
type, `Idioms` the parts of a path, lookups with their subjects and clauses, and
recursion, `Values` what is below the operators. `PlainValues` are the parsers of
`upstream/syn/parser/value.rs`, which read values without expressions.

### Lexemes, Numerals, Formatter

A text is a sequence of characters, where the model has one member for each class of
characters the code distinguishes, and some words ("select", "where", "explain") are
one character, since the code compares them as a whole. `Lexemes` is the lexer and
the functions of `fmt/escape.rs`; `Numerals` adds numbers, with digits and a power of
ten in place of binary floats, durations, whose units have smaller sizes that
also divide each other, and keys. `Formatter` applies each rule of `formatting.rs` to
every text that can be typed from a few pieces. What a text says (`Says`) are its tokens, and
its `Comments` are what is between them and not blank. `MeetsComment` tells of which texts a rule
loses a comment, or puts what follows into it; `FormatKeepsTokens` says that these are all, and that
nothing else is lost.

### SymbolSearch

A text is a sequence of the lexer's tokens, each typed in a role: as a table, as a field of
a table, or neither. The functions of `context.rs` see the words only, up to capitals, as in
the code; the properties compare what they find with the roles. `TakesTable`,
`OnTakesTable` and `Occurs` are the rules by which a word is a table, `Classify` is
`classify_symbol_at_position`, `TableContext` `table_context_at_position`, and
`RenameTable` is the request that puts a new name in place of every occurrence.

The statements a user types are forms (`SearchedStatements`): words, with the symbols T and U for
tables, F for a field of T, and P for a path that begins with T. The names come later, any
names, also of a table called like a field or like the keyword EVENT. A form may be any sequence of
words that ends at its only semicolon. `Stands` tells the forms the searches know from the others, and each
token remembers which its statement has (`form`). The properties are about the tokens of statements
of known forms, in texts where any others stand among them.

### ManifestWriter

`initialize`, `rebuild_schema` and `rebuild_file_schema` each spawn a task that writes the
outputs of `surql-lsp-out`. A task is given a copy of the merged schema; it then lists the
directory (`ListFiles`), reads the files for schema.md (`ReadDefinitions`), reads them again for
diagnostics.md (`CheckFiles`) and writes one output per step (`WriteOutput`), each of which may
fail. Up to `Writer` tasks overlap, with saves and with deletions that the server is not told of.
A rebuild is one step, since `LspServer` has its interleavings, and so is a pass over the
files. A text is the tables it defines, their links, and the tables its
statements are about; beside the tables it defines, which the parser finds, `lines` are those
a line of it begins to define, which is all that schema.md goes by: a definition over two lines is in
the first only, a line of a comment may be in the second only. `relations` stands for all outputs that are made of the schema alone; the
list of migrations is left out. `alone` is history: nothing happened beside the task.

## Runs

| run | module, cfg | properties | states | shows |
|---|---|---|---|---|
| `leader_lock` | MCLeaderLock | LockTypeOK, LeaseAgrees, AcquiredIsLeased, ImplementsLease, CrashedHolderExpires, AcquireReturns | 48,796 | the lock record implements a lease, whatever fails or crashes; acquire() returns; a dead holder's lock comes free |
| `apply` | MCOvershift, MCApply | TypeOK, CriticalExclusive, RowsAreApplied, RowsArePrefix, OkMeansDeployed, RecordedIsDeployed | 795,603 | bookkeeping never runs ahead of the application database |
| `rollback` | MCOvershift, MCRollback | RowsAreApplied, RollbackRemoves, RunsEnd, LockComesFree | 234,832 | a clean rollback removed what it saw; every run ends; a lock left behind comes free |
| `mcp` | MCMcpPlayground | TypeOK, NoFalseDrift, LoadProjectIsExact, NoErrorMeansLoaded, RollbackIsExact, RollbackStopsAtError | 506,349 | an undisturbed tool call does not depend on what was there before |
| `lsp` | MCLspServer | ServerTypeOK, ClosedHasNoOverlay, CacheFollowsDisk, AloneSaveRefreshes | 2,496,849 | a closed document stays without overlay; an undisturbed save refreshes everything |
| `repository` | MCRepository | NothingIsLost, AloneReplayIsExact, SkipIsSafe, SortIsRight, GraphIsComplete, DerivedIsExact, TraversalsAreComplete, RecoveryIsComplete, RoundTrip, PrintedIsReadAgain, ParsersOfOneTextAgree, TokensAreKept, FormattingIsSafe, SymbolsAreFound | 966,965 | the parts that share no state, one at a time |
| `one_shot`, `unrecorded`, `stale_skip` | MCOvershift | one each | 866 to 2,201 until the counterexample | see below |
| `mcp_rollback`, `lsp_stale` | MCMcpPlayground, MCLspServer | one each | about 19,000 and 10,000 | see below |
| `rename_missed` | MCSearch | RenamedEverywhere | about 250 | see below |

### Bounds, and why they are enough

- `leader_lock`: three instances, so that a third can come between a holder and
  its successor. A lease of 3 ticks and a retry of 1: leases end before, during and
  after a waiter's sleep. `MaxRetries` 3 has a first, a middle and a last attempt.
- `apply`: two runs (every property is about a pair), two versions (an order to
  keep), two schema modules (one applied and the other not), three releases:
  a base, one with another schema, one in which a recorded migration was edited.
  The lease is one tick, the shortest that can expire between two queries. Failed
  queries, lost answers and crashes all happen.
- `rollback`: two runs, each an apply or a rollback, over a deployed database; one
  schema module, since a rollback does not touch the schema; a release whose second
  version has no way down. Failed queries, lost answers and crashes all happen. Liveness is checked
  here, hence no symmetry.
- `mcp`: three calls, of which the first two overlap, over a project that is edited
  before each call (x, y, x), and for the second call has a database named my-db, which `RollbackScript`
  cannot remove. That is the smallest history in which leftovers
  of two interleaved calls meet a later call by itself. Statements may fail. Of the two texts
  of the module, one is written with plain DEFINE statements that `inject_overwrite` knows, the other
  with some that it does not and some with IF NOT EXISTS (`WaysOfTexts`).
  CHECK_DEADLOCK FALSE because the calls are bounded.
- `lsp`: two handlers (the server allows four; every hazard listed is about a pair),
  two files, texts with and without definitions, six requests:
  initialized, two opens, a change, and two saves, or any other such sequence.
  CHECK_DEADLOCK FALSE because requests are bounded.
- `repository`: the parts share no state, so one state is at work on one of them
  and its number of states is their sum. CHECK_DEADLOCK FALSE because a text that was
  typed and a result that was computed stay. For each part:
  - *embedded engine*: two calls of `apply_migrations` that overlap, two files that
    are there at first, one save or deletion, two texts, one of which
    does not parse. Calls that overlap, a replay after a deletion and a second replay
    over what a first one left all fit, with every outcome of each text.
  - *sort*: every list of up to three modules over three names, hence all cycles up to
    length three, two modules of one name, a dependency listed twice, a module that depends
    on itself, and one that does not exist.
  - *graph*: five files that define, define again and partly define three tables, with
    USE between definitions, merged in every order, seen through four scopes. *Links*: each of
    three tables undefined or with one of eight sets of links, hence loops, diamonds, tables
    linking to themselves and links to no table; every depth to 3, which is beyond the
    longest path without a loop, and a node cap of 7, which some trees exceed and
    others do not.
  - *recovery*: every text of up to five of the eight tokens: three pieces, a block in one of them, or an IF
    with one branch whose body ends in a semicolon, and a token before or behind it.
  - *statements*: all statements, with up to six of their optional clauses at a time, which
    exceeds the number of clauses whose effects depend on one another; up to two
    bodies of an IF and two actions of an API; arguments as `MCArguments` lists them.
  - *expressions, types, idioms, values*: texts a reader would write to tell the
    cases of the parsers apart, put into one another. Operands hold one operator each
    and are combined by every operator, so each pair of binding powers meets on
    both sides; a type has one or two alternatives inside another; an idiom has two
    parts; a value is in two frames.
  - *lexer, numbers*: every text of three word pieces or four number pieces, a member
    of each class of characters the lexer distinguishes. *Formatter*: every text
    of four pieces, among them a line comment and a block comment, under four configurations that
    between them turn on every rule, with and without the others.
  - *search*: every text of one or two out of seventeen statements, two of them in forms that
    the searches do not know, in which tables are called
    like a name, a keyword or a name in backticks and fields like the table or a keyword,
    and a renaming from every token.
  - *files for editors*: two files; three texts, of which one defines a table, one links to
    it and one only uses it, with a line that begins like its definition; at first the first two, or the third and no other file; two tasks that may overlap and one save
    or deletion. The task of `initialize`, that of `initialized` and that of a save may
    all meet, and every write may fail.
- SYMMETRY is used in safety runs only, on runs, calls, handlers and files, none
  of which the specifications single out.

### Fairness

`FairLockSpec` and `FairSpec` assume that time passes (`Tick`, `Pass`), and, for each
instance or run, weak fairness of its steps once it was started (`AcquireStep`,
`RunStep`). This is what the code gives: a started future awaits only queries,
which the database answers or fails, and timers, and the runtime polls a task whose
timer is due. Nothing is assumed about starting, releasing, force-releasing or
crashing. Only weak fairness is needed since a run that waits for the lock is
not blocked: its attempts fail and are counted.

Without `"overrun"` in `Faults`, `Pass` does not let a run's lease end inside its
critical section. This is an assumption about durations the code does **not** enforce:
the lease is 60 s, never renewed, and a migration may take longer. It is stated as a
hypothesis of the theorems that need it.

## What the runs found

Each is a run whose one property quotes the repository, with TLC's counterexample.

| run | where | what happens |
|---|---|---|
| `one_shot` | `plan.rs:510` | pending migrations are computed before the lock is taken and not again under it. Two processes that start together both execute all of them, with no fault at all (`lib.rs:4`: "one-shot") |
| `unrecorded` | `plan.rs:353` | the CREATE of a migration's row is awaited but not checked: when the statement fails, apply() returns Ok and the migration will run again |
| `stale_skip` | `plan.rs:521` | module checksums are logged only after all modules were applied. A release whose apply failed in between leaves the old checksums: redeploying the old release skips its schema while the database has the newer one |
| `mcp_rollback` | `mcp/src/lib.rs:972` | rollback removes the manifest's database *before* switching to the manifest's namespace; migrations above the target survive |
| `rename_missed` | `lsp/src/context.rs:428` | only the name right behind `RECORD<` is found: the second one of RECORD<u \| t> keeps its old name |
| `lsp_stale` | `lsp/src/server.rs:195` | of two saves of a file, or of the initial scan and a save, the one whose parse ends last wins, even with an older text |

*Rollbacks* (`overshift/src/plan.rs:586`) are stale in the same way as `one_shot`: rollback() reads the applied
versions before it waits for the lock, and leaves those that an apply recorded meanwhile, although it
reports success (plan.rs:556 "Finds all applied migrations"). `RollbackRemoves` is about those it saw.

The MCP model shows relatives of `mcp_rollback` that have no run of their own. The rollback puts the database's
name into its REMOVE unquoted and unchecked and drops the error (`lib.rs:971`): of a database named my-db nothing
is ever removed, in any namespace, though verify() accepts such names and quotes them
(686, 699); that is why the properties of a rollback ask whether it `FindsDatabase`. And
`reset` and `load_manifest` also remove the database "default" in the session's
current namespace before they switch, and `load_manifest` never removes a database
with another name, so its plain DEFINE statements fail on a second load (it reports
these errors), and those with IF NOT EXISTS keep what an older text defined (it reports nothing).

Modelling the other parts showed more, described here at the line where it
happens. Most of these have no run of their own: the properties of `repository` are stated so that
they leave these cases out, by name where they are losses of a printer (`Kept` and
`Unreadable` of `RoundTrip`, their like in other modules), by a hypothesis elsewhere.

*Embedded engine* (`lsp/src/embedded_db.rs`). A deleted file leaves its row, so: one file is
deleted, another saved (the workspace is reset and replayed), the first one restored
with its old text; its hash matches its row and its definitions are missing. A row that
`failed` to be written is stale in the same way. A session switch that fails after the
REMOVE leaves an empty workspace, which later calls skip. Of two overlapping calls the
older may reset last, and its older texts stay until the next change. A text that fails for a
passing reason is marked and not tried again until some file changes.

*Printing loses what was parsed* (`tests/roundtrip.rs:1` promises parse, print, parse).
Not printed: SELECT's TEMPFILES, REMOVE's EXPUNGE, ENFORCED of ALTER TABLE, DELETE FULL
of table and ALTER FIELD permissions, the case of roles, the JWT of BEARER access, the issuer's
algorithm of a URL JWT, durations that are the default. Printed and not readable: access without a TYPE not on
a database, FLEXIBLE left from a type given earlier. Read and dropped: VERSION of
CREATE and INSERT, UNIQUE of RELATE, FROM of DELETE, TRANSACTION. In expressions,
`a - (b - c)` is printed `a - b - c`, `-(1..2)` as `-1..2`, `+(1)` as `1`, and
`->(edge LIMIT 1)` as `->edge`. The error branches for `1..2..3` in
`expression.rs:442-460` are never reached: the text is accepted.

*Lexer, types.* A name `explain`, and `access` at the start of a statement, is printed bare and not
read again as a name. `person:+1` does not parse, since its digits are looked at and not taken
(`record_id.rs:190-221`). `person:-1a` is read as the key `-1` and the letter is gone; `-1_1` is a number as a
key and `1_1` a text. A link to a table in backticks is recorded with the
backticks, and a string literal that contains `record<x>` counts as a link.

*Formatter* (`formatting.rs:3` "Preserves comments, strings, and document structure").
Starting a new line before WHERE, SET or FROM drops what was between the tokens: a comment there is lost
(183). Collapsing blank lines drops what is behind the last line break it keeps, comments and the end
of a comment's line: the next token becomes part of the comment (205). `MeetsComment` says when a rule does this, and
`FormattingIsSafe` that exactly then something is lost.
`trailing_semicolon` appends to a trailing comment, or does nothing after a final line
end (221-241); `newline_after_semicolon` does not see CRLF (149-154); formatting twice may differ from
formatting once (`; where`).

*Recovery* (`recovery.rs:94`). The text is cut at every semicolon outside braces, but `parse_if_stmt` takes one
behind each branch of an IF with words (`if.rs:18`, 45, 49): IF a THEN b; END is valid, and both halves are reported as
broken. `RecoveryIsComplete` says so: of such a statement each piece is reported.

*Search and rename* (`lsp/src/context.rs`, rename at `server.rs:1225`). A renaming misses the
table of `DEFINE TABLE OVERWRITE t` or `IF NOT EXISTS t`, of REMOVE and ALTER TABLE and of
RELATE, the second table of `FROM a, b`, the second alternative of `record<a | t>`, and a record id
`t:1` that is the first or second token. It renames the keys of objects called like the table,
and the field after ON DUPLICATE KEY UPDATE; it takes spellings that differ in case for one
table, drops backticks, counts columns in bytes where the protocol counts UTF-16 units, and
does not refuse the name of a table that exists. The diagnostics warn about a table FROM
after `DELETE FROM t`; in `FOR update WHERE` completion takes WHERE for the table.

*Files for editors* (`lsp/src/server.rs:529`, `manifest.rs`). `initialize` has the outputs written
for an empty schema, in a task that may write after that of the scan: relations.md then tells of no
table until the next save. A scan that fails to read the directory does the same. The outputs of two tasks
that overlap may be of two schemas. A deleted file is gone from files.json and schema.md
at the next write, and stays in the cache and so in relations.md.

*Values.* `{ 1 2 }` is a block without a semicolon (`object.rs:60-82`). The value
parser refuses `{1, 1}` (`value.rs:384-406`), reads `..{}..`, and groups chained ranges to the
right where the expression parser groups them to the left. When a table's name cannot be
JSON, the JSON parser looks for it after the tokens it has consumed (`value.rs:330-345`):
`foo` is refused and `x y z` is the table `z`. `Literal`'s comparison has no arm
for unbounded ranges (`literal.rs:41-64`).

## Proofs

`tlapm` proves 23,254 obligations: `Extrema` 271, `OvershiftProofs` 1,503, `LspProofs` 838,
`McpProofs` 2,380, `SchemaProofs` 4,527 (the embedded engine, the sort, the schema graph and the
traversals), `TextProofs` 5,436 (recovery and the search for symbols), `QueryProofs` 3,463, `StatementProofs` 4,836. The theorems hold for every value of the constants that satisfies the assumption beside
their declaration (`LockAssumption`, `OvershiftAssumption`, `EngineAssumption`,
`LspAssumption`, `SortAssumption`, `PlaygroundAssumption`, `GraphAssumption`, `ManifestAssumption`,
`LinksAssumption`, `NodeCapAssumption`, `RecoveryAssumption`, `StatementsAssumption`,
`ArgumentsAssumption`, `SearchAssumption`): any set of instances, runs, calls, handlers or tasks, any lease and retry
policy, any versions, modules, files, definitions and texts, any links, depth and cap, sources of
any length, statements of any length with any arguments, and texts of any number of statements. Up to the last three, the assumptions
say no more than that the constants have their types, that what the code sorts or counts is finite,
and that marker values are distinct from contents. Those of the statements, in full:
`StatementsAssumption` says that the kinds of statements are kinds of statements; `ArgumentsAssumption`
that the six arguments that are read further are what the parser of their clause can have seen.
A body of an IF is a block or a value, FLEXIBLE was said or not, an index, an access type and an action
of an API have their fields (M of an HNSW index is a number or was not given). Two parts are more than types: NONE and FULL
are said of all permissions of a field at once and stand alone (`parse_permission` returns at
once after either), and the algorithm of an issuer without WITH ISSUER is empty (`parse_jwt` has
nothing to set it). All other arguments may be anything whatever.

`SearchAssumption` is about what is typed. Each form of a statement ends at its only semicolon. No table
is called like a word by which the searches go, nor, without its backticks, like one that the code takes for
no table (`is_surql_builtin_table`: NONE, TRUE, ...); no field like such a word or FIELD, INDEX or EVENT; and
the new name of a renaming is not in the text. The forms themselves are any.

What `SymbolsAreFound` says of a token depends on the form of its statement, since the searches go by the
words around a token and are right only where these tell. A form is known (`Stands`) if a keyword that takes a table
(FROM, INTO, UPDATE, ...) is followed by it, but for DELETE FROM and the UPDATE of ON DUPLICATE KEY, and there is one
of them; DEFINE comes first, with a table, or with FIELD, INDEX or EVENT and ON a table; a linked table is the first
in `record<...>` or stands before a colon; a field stands behind a dot, behind SELECT or FIELDS, as what is
defined, or behind the table of its statement; what stands bare and is called like a field is a word the code
passes over (`is_dml_keyword`); and no other word behind an ON is called like a table. Of tokens in statements
of other forms nothing is said, but that such statements do no harm to those around them: the list of what
the searches miss, above, is of these. In known forms, two kinds of fields are taken for a table (`Mistaken`):
the key of an object that is called like it, and the first field behind ON DUPLICATE KEY UPDATE.

| theorem | statement | further hypotheses |
|---|---|---|
| `LockTypeCorrect` | `LockSpec => []LockTypeOK` | |
| `LeasesAgree` | `LockSpec => []LeaseAgrees` | |
| `AcquiredLeased` | `LockSpec => AcquiredIsLeased` | |
| `LockImplementsLease` | `LockSpec => ImplementsLease` | |
| `TypeCorrect` | `Spec => []TypeOK` | |
| `CriticalSectionsExclude` | `Spec => []CriticalExclusive` | no overrun |
| `RowsTellTheTruth` | `Spec => []RowsAreApplied` | no overrun, no unchecked failure |
| `RowsStayPrefix` | `Spec => []RowsArePrefix` | applies only, no unchecked failure, `GaplessStart` |
| `RecordedDeployed` | `Spec => RecordedIsDeployed` | no overrun |
| `OkIsDeployed` | `Spec => OkMeansDeployed` | applies only, no overrun, no unchecked failure |
| `RollbacksRemove` | `Spec => RollbackRemoves` | no overrun, no unchecked failure |
| `EngineTypeCorrect` | `EngineSpec => []EngineTypeOK` | |
| `ReplaysLoseNothing` | `EngineSpec => []NothingIsLost` | |
| `AloneReplaysAreExact` | `EngineSpec => AloneReplayIsExact` | |
| `SkipsAreSafe` | `EngineSpec => SkipIsSafe` | |
| `ServerTypeCorrect` | `Spec => []ServerTypeOK` | |
| `ClosedStaysBare` | `Spec => []ClosedHasNoOverlay` | |
| `CacheFollows` | `Spec => []CacheFollowsDisk` | |
| `AloneSavesRefresh` | `Spec => AloneSaveRefreshes` | |
| `SortsRight` | `SortSpec => []SortIsRight` | |
| `TypeCorrect` (McpProofs) | `Spec => []TypeOK` (McpPlayground) | |
| `VerifySeesNoDrift` | `Spec => NoFalseDrift` | |
| `CleanLoadIsExact` | `Spec => LoadProjectIsExact` | |
| `NoErrorIsLoaded` | `Spec => NoErrorMeansLoaded` | |
| `RollbackLeavesTarget` | `Spec => RollbackIsExact` | |
| `RollbackEndsInOrder` | `Spec => RollbackStopsAtError` | |
| `GraphCompleteness` | `GraphSpec => []GraphIsComplete` | |
| `ComparisonIsExact` | `GraphSpec => CompareIsExact` | |
| `LoneManifest` | `ManifestSpec => AloneManifestIsExact` | |
| `DerivedExactly` | `GraphSpec /\ ManifestSpec => DerivedIsExact` | |
| `ReachableAreNearest` | `LinksSpec => []ReachableIsNearest` | |
| `LinksTypeCorrect` | `LinksSpec => []LinksTypeOK` | |
| `TraversalCompleteness` | `TreeSpec => []TraversalsAreComplete` | |
| `RecoveryCompleteness` | `RecoverySpec => []RecoveryIsComplete` | |
| `RecoveryTypeCorrect` | `RecoverySpec => []RecoveryTypeOK` | |
| `SymbolsFound` | `SearchSpec => []SymbolsAreFound` | |
| `TextsStaySound` | `SearchSpec => []SearchInv` | |
| `StatementsReturn` | `StatementSpec => []RoundTrip` | |
| `StatementsStaySound` | `StatementSpec => []StatementInv` | |
| `StatementTypesAreKept` | `StatementSpec => []StatementTypeOK` | |

The hypotheses are sharp. With `"unchecked"`, a DELETE that fails unnoticed leaves
a row behind without its migration; with `"overrun"`, two runs are in their
critical sections together. "Applies only" is `Jobs = {"apply"}`: a rollback passes over a
version without a way down, keeps its row and removes those below it, so it can leave
rows that are no prefix, and it may take away what a deployment that just ended
had deployed. `GaplessStart` says that the database a run starts from has no such gap.

### The argument

*The lock.* `LockTypeOK` is not inductive: `Wake` increments `attempt`, and only
"an instance sleeps before an attempt that it still has" (`SleepersMayRetry`) keeps it
within `MaxRetries`. `LeaseAgrees` needs that a record which was never created has
no holder (`NoRecordNoHolder`), else a release, which only changes an existing
record, could leave a lease behind that its owner has given up. With
`LockInv == LockTypeOK /\ SleepersMayRetry /\ NoRecordNoHolder` inductive, a claim
is possible only when every granted lease has run out, which gives `LeaseAgrees`; the
fast path sees `ttl > 0` and `LeaseAgrees` turns it into `left > 0`, which gives
`AcquiredIsLeased`. In the refinement every step is mapped to the abstract step of the
same meaning: `Claim` to `Grant`, `Tick` to `Elapse` or, when the last tick is used
up, `Expire`, the release of a running lease to `Return`, the forced one to `Revoke`,
and all others to stuttering.

*Runs and the lock.* `RunsUseLock` (`Spec => LockSpec`) shows that the engine uses the
lock only through its operations, so every theorem about the lock holds of the engine.

*Types of the engine.* `recorded` and `rows` are written from the run's files, so
their typing needs to know that the version or module at hand is one of these files':
`RunInv == RunTypeOK /\ JobMatches /\ WorkLeft`, where `JobMatches` says a run is only
where its job takes it and `WorkLeft` that `pending` and `todo` are parts of its
files, and not empty where the code takes their first element. `Extrema` proves
that the first and the last element exist, from the well-foundedness of `<` on
the naturals; `OvershiftProofs` cites it at each `NextUp`, `NextDown` and `NextModule`.

*Exclusion.* `LeaseHeld`: a run in its critical section is the record's holder, with
`ttl = left >= 0`. It enters with a running lease (`AcquiredIsLeased`), nobody takes it
away (the engine never calls force_release, and a claim needs `ttl < 0`), and `Pass`
leaves at least the last instant of it. `LeaseAgrees` alone does not suffice, since it
says nothing at that instant. Two runs in their critical sections are both the holder,
hence the same.

*Rows.* `RowInv == RowsBacked /\ RecordBacked`: a recorded version is in effect, except
while, or after, a rollback stopped between undoing it and deleting its row; and a run
about to record a version has just executed it and nobody has undone it since. The
second part needs exclusion: only one run at a time is between these two steps. It is
preserved under failures, lost answers and crashes.

*A prefix of rows.* `PlanInv`: a version that an apply has behind it has its row, and one that is
past the loop of migrations has none left or an error to report. `apply_inner` takes the
least version it has left (`NextUpIsFirst`), so a version that every release contains
has its row before any later one is written, and among deployments rows are never taken away
(`RowsOnlyGrow`). Exclusion is not needed, so this holds of runs that outlive their lease too.

*Ok, checksums and rollbacks.* Each relates what a run has done to the database as it still is when the
run ends, which needs exclusion: `LaidHeld` says that the modules a run has laid are in the
database while the run holds the lock, `UndoneHeld` that the rows of the versions it has
undone are gone. Both are stated with the invariant of exclusion (`LeaseHeld`), since at
every step of another run one has to show that it is not in its critical section.

*The embedded engine.* `LostInv`: what the latest resetting call read is in the workspace or still ahead of
it, or its own definition failed since (`refused`), and of the calls that reset before, nothing removes it,
since only a reset removes anything. `AloneInv`: a call marked as alone is the only one active, and the workspace is
what it has replayed. `SettledInv` carries the last such replay to the next call:
the rows whose status is good (not in `erroneous`) name texts whose definitions are in the workspace.

*The language server.* `ServerTypeOK` is inductive, and so is `ClosedHasNoOverlay`: the model has
no await between seeing a document open and storing its overlay, as the code has none, and the proof shows
that this is all it takes. `CacheFresh`, for the cache: of a file whose rebuilds did not overlap, the
entry is the file's graph, or the one rebuild on its way carries it or has still to
read the file, or the editor owes a save, or the latest rebuild failed: a save takes the file out of `failed`, and
from then on only its own rebuild can put it back. `AloneAt`, for saves: at each step of a save
that is alone, what was brought up to date so far is, and no other handler is at work.

*The sort.* `SortInv`: the count of a name is the number of its entries that wait for a module
that is not placed (entries, not names: a dependency listed twice counts twice and is
subtracted twice); a name is in the queue or placed exactly when its count is zero, and
never both or twice; every placed name has its dependencies before it. A result as long as the
list then has all modules, since an injection between finite sets of one size is onto, and the
names that are left when the queue is empty each wait for another one of them.

*Induction and folds.* The library's induction theorems take an operator, which none of the
installed provers instantiates. `Extrema` goes around that: a set of naturals with 0 and
closed under successor is all of them (`EveryNatural`, by its least counterexample), and the sets
to which it is applied are written where they are needed. `FoldLeft` of the community modules
chooses a function that satisfies an equation; `FoldExists` shows that there is one and
`FoldInduction` that what holds at first and is kept by each element holds of the result.

*The MCP server.* `IInv == TypeOK /\ CountsInv /\ AloneInv`. `TypeOK` bounds how often
a migration took effect by the number of calls made, which is not inductive: `CountsInv`
adds the calls that have still to send that migration. `Reached(a, k, ns, failed)` says what a call
with arguments `a` that nobody overlaps has done before it sends command `k`: where the session
points, and, once it emptied its database and as long as nothing failed, that the modules
and migrations sent so far are exactly what is there (`DoneAt`); for load_manifest, which does not
empty it, at least that (`LoadedAt`). There is one lemma per kind of command (`UseGoesOn`, ...,
`CompareGoesOn`), and each says that the call reaches the next command (`GoesOn`) or stops in good
order (`StoppedWell`). A rollback empties its database only if that has a plain name and is the session's namespace's
(`Clears`, `RemoveGoesOn`), and of any other rollback `Reached` says only where the session is; a module of load_manifest is there after its DEFINE reported nothing, unless it says IF NOT EXISTS
(`DefineGoesOn` goes through the cases of `Clashing`). That a call was alone is enough: nothing is assumed about what earlier calls
left, nor about which of their statements failed.

*The schema graph.* `GraphIInv`: the graph is well formed, its index is the one rebuilt from its
tables, and it knows exactly what the files merged into it do. What `from_definitions` leaves is
typed by `FoldInduction`. That merging loses nothing is set algebra over `Known`, once
`NewNames` is known to be the elements of a list whose names are not taken, no more and no less. The
comparison then needs no invariant but that names are names: `Explains` holds of any two graphs.

*The files for editors.* `LoneTask`: a task marked `alone` is the only one at work, was given the
schema merged of the cache, which is the files' as they are where it read them, and wrote each
output it is past.

*The traversals.* `LinksIInv`, for the search: what is in the queue is in the order of distance, and no
two depths in it differ by more than one; what was found is at its distance (`IsAt`) with a path that leads there;
and of every table that was seen, the links were followed unless it is still in the queue or is too far away.
`NearIsVisited` is the induction over distances: while nothing nearer than N waits, all that is within N
hops was seen. That makes a table new exactly when it is one hop further (`VisitKeeps`), and everything seen when
the queue is empty (`FoundIsNearest`). `TreeIInv`, for the tree: what is made is below its parent, what waits
is distinct, not made and has its parent made, and either the cap is reached or every walk is made or
begins with a node that waits. A whole tree and the search agree, since along a shortest walk every table is at
its own distance, so that the cycle check never cuts it (`NearestExists`). `Within` is a recursive function:
`IterationExists` (in `Extrema`) shows that it is one.

*Recovery.* `PiecesCover` and `ParsedCover`: of every source, each token that was passed is in a
piece, and each piece that was parsed is in the statements or reported. `Exactly`, for a source whose
braces balance: the depth the lexer counted is the number of braces open, so that the pieces are
the stretches between the semicolons outside braces (`Whole`), up to where the lexer is, and the pieces that
parse are the statements. These semicolons need not end a statement, since an IF has some of its own;
`WholeStatements` says that in a source whose IFs parse, a piece parses by itself exactly when it is a statement of the
whole source, so that only an IF with a semicolon of its own is reported in pieces. That braces balance is
needed, since a closing brace too many is passed over (`saturating_sub`) and the depth is then not the number
of open braces.

*The search for symbols.* `SymbolsAreFound` is not inductive: a text that is searched rightly
could have been anything. `SearchInv`: the text ends at a semicolon, and every token whose statement has a known form
stands in a `Block`, a statement of that form with a table for each T, another for each U, one path and one field,
behind nothing or a semicolon. Statements of other forms may hold anything. A renaming keeps
that, with the new name in place of the table, although it gives the new name to `Mistaken` fields too and to no
path; so a path may still begin with the table's old name. What a search does at a token is then read
off the form, whatever stands before and behind the statement: `TableWordHere` and `DefinesOnHere` say
what is found behind a keyword, `TakenFrom` and `OnTakenFrom` that a search which begins in an earlier statement
stops at its semicolon (`SkipInside`). `OccursForm` lists all that can occur as a
table, and leaves tables, mistaken fields, FROM and a word behind ON. `ClassifiedBy` and `ContextBy`
are about the last word before a cursor that tells. The searches are written with the least and the
greatest of a set of positions, of which `Extrema` knows what it needs.

*Statements.* `RoundTrip` is not inductive: it says nothing of a statement that may not end yet.
`StatementInv` says what the parser has stored by then, one conjunct for each kind of statement
(`PlainSound`, ..., `IfSound`). Most are made of `Sound`: the tree has the keys that have a default, every other key is of a
stage the parser has reached, and each stage behind it that must not be skipped left one (`Held`);
and it has not two keys of which the text has one (`Compatible`). What a clause holds is a conjunct of
its own where the parser does more with it than keep it: permissions are a function of the four operations, the
tables of a relation are lists, a type of an access has no issuer but one its parser can make.

The proof that a statement returns has three parts, the first two for any kind at once. First, where a
text leads: `LeadsTo(s, P, text, Q)` gives the parsers after each clause, `ReadAllLeads` ties it to the
fold that `ReadAll` is, and `LeadsThrough` and `FlattenedLeads` put texts one after the other. Second,
order: the words of `Text[s]` are in the order of the stages that take them (`Fits`, a finite fact of each
pair of `Syntax[s]` and `Text[s]`), so each clause that is written is taken by its stage
(`TakenInOrder`), and after the last one the statement may end (`EndsInOrder`). Third, content: from the
defaults on, each clause makes the part of the tree it stands for what it was and leaves the other
parts, so that the last tree is the one that was written (`OrderedReread`, `ShownReread`). This is
where the losses are. Permissions are grouped by equal values, and the last group that names an operation
counts; SCHEMAFULL may change the type of a table, and does not where the printer puts TYPE
first; the parts of a JWT are read over defaults that depend on one another. The
bodies of an IF and the actions of an API are led through one by one, since one keyword
stands for many clauses.

## What is only model-checked, and what is not modelled

Liveness (`CrashedHolderExpires`, `AcquireReturns`, `RunsEnd`, `LockComesFree`) is out
of this prover's reach and stays with TLC. So do `PrintedIsReadAgain`, `ParsersOfOneTextAgree`,
`TokensAreKept` and `FormattingIsSafe`: the parsers and printers below statements, and the lexer, are recursive operators,
which the provers cannot use, and no claim is made about longer texts than those above. (The parser of
statements is a loop, which the models have as a fold; the proofs about it reach any length.)

Not modelled, and why:

- *Generated and static tables* (`builtins_generated.rs`, `doc_urls.rs`, `keywords.rs`):
  data without behaviour.
- *What only reads and writes text for a person*: the texts of completion, hover, signature help,
  semantic tokens, the extraction of queries from Rust, lint, parameters, documentation, the
  CLIs. They are functions of one document and one schema, and no state follows from them.
- *Files and directories*: discovery, manifests, snapshots, the path checks of the MCP
  server, `.env`. The models take their results as constants (`Manifest`, `Deployed`,
  `FileText`).
- *Shadow verification and function validation* of overshift: an optional comparison after an
  apply, and one step of `Overshift` that may fail.
- *Macros, scripts, tools*: they run once, at compile time or by hand, over constant input.
- *In the parser*: geometries, files, regular expressions, scripts, byte strings, datetimes, record
  ids of UUIDs, the limits on nesting, and the streaming entry point. Arguments of
  statements that are only passed on are placeholders; so is the action of an API, which `api.rs:75` prints without
  parentheses.
- *In the language server*: namespaces of overlays, Rust documents, files deleted
  behind its back. `EmbeddedEngine` is not composed with `LspServer`: the engine's
  `apply_migrations` is called between `MergeWrite` and `Republish`, and neither reads
  what the other wrote but for the files on disk.

## Plan

Done, in this order, the most consequential behaviour first:

1. `Lease`, `LeaderLock`: the lock, its abstract specification and refinement.
2. `Overshift`: plan, apply and rollback over the lock; violations of what the
   documentation says.
3. `Extrema`, `OvershiftProofs`: the lock, types, exclusion, rows.
4. `McpPlayground`: tools as command sequences over a shared session.
5. `LspServer`: handlers, overlays, cache, schema, diagnostics.
6. `EmbeddedEngine`, and its theorems, now in `SchemaProofs`.
7. `TopologicalSort`, `SchemaGraph`, `RecordLinks`, `DependencyTree`, `Recovery`.
8. The statements, expressions, types, idioms, values, lexer and formatter of the parser,
   as parser and printer of one another, and `Repository`, which checks them together.
9. The rest of `Overshift`'s properties, in `OvershiftProofs`.
10. `LspProofs`: the properties of `LspServer`.
11. Kahn's algorithm for every list of modules, now in `SchemaProofs`.
12. `SymbolSearch`: what the language server finds without a parser.
13. `ManifestWriter`: the files for editors, written by tasks in the background.
14. `McpProofs`: the properties of `McpPlayground`.
15. `SchemaProofs`, recovery in `TextProofs`: the schema graph, comparisons, traversals, the files for
    editors, and error recovery, for files and sources of any size.
16. `QueryProofs`, `StatementProofs`: every statement returns, for all kinds and any length.
17. The search for symbols in `TextProofs`, and `Stands`, which says in which forms of statements it is right.
18. Answers that fail: a parse task, a replayed file, a rollback's REMOVE; definitions that say OVERWRITE or
    IF NOT EXISTS; the semicolons of an IF; comments in the formatter; forms in which the searches err.

Left:

- The parser's lookahead (`parser/mod.rs`, `token_buffer.rs`): a ring of tokens that implements a
  queue, speculation that backs up the lexer, and compound tokens, which may only be
  lexed when nothing was peeked beyond their first token.
