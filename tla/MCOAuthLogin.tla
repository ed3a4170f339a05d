---------------------------- MODULE MCOAuthLogin ----------------------------
(* Small instances of OAuthLogin for TLC.                                  *)
EXTENDS OAuthLogin, TLC

\* States, accounts, tokens and callbacks are interchangeable (safety only).
Symmetry == Permutations(State) \cup Permutations(User) \cup Permutations(Jti)
              \cup Permutations(Req)
=============================================================================
