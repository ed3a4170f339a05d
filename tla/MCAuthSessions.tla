--------------------------- MODULE MCAuthSessions ---------------------------
(* Small instances of AuthSessions for TLC.                                *)
EXTENDS AuthSessions, TLC

\* Accounts, tokens and requests are interchangeable (safety runs only).
Symmetry == Permutations(User) \cup Permutations(Jti) \cup Permutations(Req)
=============================================================================
