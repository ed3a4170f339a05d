-------------------------- MODULE AccountContract --------------------------
(***************************************************************************)
(* What registration promises, with no queries and no process: an e-mail   *)
(* belongs to at most one account at a time, it is given away in one step, *)
(* a request that is told "created" took it in that step, and a request    *)
(* that is told "taken" came when it was taken.  A request that failed may *)
(* have been carried out all the same, at any later time.                  *)
(***************************************************************************)
CONSTANTS Email, Org, Req, NoOrg

VARIABLES user,   \* [Email -> the organization of the account, or NoOrg]
          ask     \* [Req -> the e-mail asked for and the verdict]

vars == <<user, ask>>

Verdict == {"pending", "created", "taken", "failed"}
NoAsk   == [email |-> NoOrg, org |-> NoOrg, verdict |-> "idle"]

Free(e)   == user[e] = NoOrg
Tell(r, v) == ask' = [ask EXCEPT ![r].verdict = v]

Init == /\ user \in [Email -> Org \cup {NoOrg}]
        /\ ask = [r \in Req |-> NoAsk]

Ask(r, e, o) == /\ ask[r] = NoAsk
                /\ ask' = [ask EXCEPT ![r] = [email |-> e, org |-> o, verdict |-> "pending"]]
                /\ UNCHANGED user

Create(r) == /\ ask[r].verdict = "pending" /\ Free(ask[r].email)
             /\ user' = [user EXCEPT ![ask[r].email] = ask[r].org]
             /\ Tell(r, "created")

Refuse(r) == /\ ask[r].verdict = "pending" /\ ~Free(ask[r].email)
             /\ Tell(r, "taken")
             /\ UNCHANGED user

Fail(r) == /\ ask[r].verdict = "pending"
           /\ Tell(r, "failed")
           /\ UNCHANGED user

\* An account appears on behalf of a request that is told it failed or is told
\* nothing.
Appear(e, o) == /\ Free(e)
                /\ user' = [user EXCEPT ![e] = o]
                /\ \/ UNCHANGED ask
                   \/ \E r \in Req : /\ ask[r] = [email |-> e, org |-> o, verdict |-> "pending"]
                                     /\ Tell(r, "failed")

Disappear(e) == /\ ~Free(e)
                /\ user' = [user EXCEPT ![e] = NoOrg]
                /\ UNCHANGED ask

Release(R) == /\ ask' = [r \in Req |-> IF r \in R THEN NoAsk ELSE ask[r]]
              /\ UNCHANGED user

Next == \/ \E r \in Req, e \in Email, o \in Org : Ask(r, e, o)
        \/ \E r \in Req : Create(r) \/ Refuse(r) \/ Fail(r)
        \/ \E e \in Email, o \in Org : Appear(e, o)
        \/ \E e \in Email : Disappear(e)
        \/ \E R \in SUBSET Req : Release(R)

Spec == Init /\ [][Next]_vars
=============================================================================
