---------------------------- MODULE MCApiProcess ----------------------------
(* Small instances of ApiProcess for TLC.                                  *)
EXTENDS ApiProcess

Configured == [s \in Setting |-> "good"]

\* Everything that has a default is left out.
Bare == [Configured EXCEPT !["API_PORT"] = "unset", !["CORS_ORIGINS"] = "unset",
                           !["API_DOCS_ENABLED"] = "unset", !["JWT_EXPIRATION"] = "unset"]

\* The bare environment, and every one that a single setting spoils.
MCEnv == {Bare} \cup {e \in {[Configured EXCEPT ![s] = v] : s \in Setting, v \in Value} :
                        \E s \in Setting : Rejected(s, e[s])}
=============================================================================
