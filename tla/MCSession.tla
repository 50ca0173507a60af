----------------------------- MODULE MCSession -----------------------------
EXTENDS Session, TLC

CONSTANTS j1, j2
MCLength == (j1 :> 1020) @@ (j2 :> 0)
Symmetry == Permutations(Addr) \union Permutations(Clients)
=============================================================================
