----------------------------- MODULE MCWebLogin -----------------------------
(* Small instances of WebLogin for TLC.                                    *)
EXTENDS WebLogin, TLC

\* Tabs and tokens are interchangeable (safety only).
Symmetry == Permutations(Tab) \cup Permutations(Jti)
=============================================================================
