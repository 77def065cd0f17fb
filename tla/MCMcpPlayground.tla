-------------------------- MODULE MCMcpPlayground --------------------------
EXTENDS McpPlayground, TLC

CONSTANTS c1, c2, x, y

\* Modules of which one says nothing and the other IF NOT EXISTS, the latter
\* with a statement of a kind that does not get OVERWRITE.
WaysOfTexts == (x :> {"define"}) @@ (y :> {"other", "unless"})

\* A project whose schema module is edited between the calls, and back.
Files(db, text) == [ns |-> "app", db |-> db, modules |-> [m \in Module |-> text]]
EditedProject == <<Files("main", x), Files("main", y), Files("main", x)>>

\* One whose manifest is edited too: for one of the calls it names a database
\* that needs quotes.
RenamedProject == <<Files("main", x), Files("my-db", y), Files("main", x)>>

Interchangeable == Permutations(Call)
=============================================================================
