---------------------------- MODULE MCLspServer ----------------------------
EXTENDS LspServer, TLC

CONSTANTS f1, f2, h1, h2, h3, good, better, bad

Interchangeable == Permutations(File) \cup Permutations(Handler)
=============================================================================
