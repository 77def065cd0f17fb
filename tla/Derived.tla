------------------------------ MODULE Derived ------------------------------
(***************************************************************************)
(* What is made of the schema and shown to the user: the comparison of two *)
(* schemas (src/diff.rs) and the files written for editors                 *)
(* (lsp/src/manifest.rs).                                                  *)
(***************************************************************************)
EXTENDS SchemaGraph, ManifestWriter

\* What is derived from the schema and shown to the user is exact: a comparison
\* of two schemas lists every difference (diff.rs), and outputs that a task
\* wrote by itself agree with the files and each other (manifest.rs).
DerivedIsExact == CompareIsExact /\ AloneManifestIsExact
=============================================================================
