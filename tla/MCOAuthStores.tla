---------------------------- MODULE MCOAuthStores ----------------------------
(* OAuthLogin with each of the stores that keep their states, in one run.   *)
EXTENDS OAuthLogin

VARIABLE inProcess   \* whether the states are kept in the process

Memory == INSTANCE OAuthLogin WITH Store <- "memory"

allVars == <<vars, inProcess>>

BothInit == Init /\ inProcess \in BOOLEAN
BothNext == \/ ~inProcess /\ Next /\ UNCHANGED inProcess
            \/ inProcess /\ Memory!Next /\ UNCHANGED inProcess

\* The fairness of OAuthLogin, for the store in use.
BothSpec ==
  /\ BothInit /\ [][BothNext]_allVars
  /\ \A r \in Req : WF_vars(IF inProcess THEN Memory!Step(r) ELSE Step(r))
  /\ \A s \in State : WF_vars(~inProcess /\ (StoreState(s) \/ StoreFails(s)))
=============================================================================
