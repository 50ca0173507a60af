----------------------------- MODULE MCLoginDB -----------------------------
EXTENDS LoginDB, TLC

CONSTANTS fits, wraps
MCCreds == {fits, wraps}
MCLines == (fits :> 1) @@ (wraps :> 2)
Symmetry == Permutations(Addr)
=============================================================================
