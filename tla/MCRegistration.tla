--------------------------- MODULE MCRegistration ---------------------------
(* Small instances of Registration for TLC.                                *)
EXTENDS Registration, TLC

\* E-mails, organizations and requests are interchangeable (safety only).
Symmetry == Permutations(Email) \cup Permutations(Org) \cup Permutations(Req)
=============================================================================
