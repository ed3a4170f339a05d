-------------------------- MODULE StateStoreContract --------------------------
(***************************************************************************)
(* What an OAuthStateStore promises the callbacks of Google logins: a      *)
(* state is consumed in one step, by one of the callbacks that present it, *)
(* and only while it is stored and within its time to live.  A state may   *)
(* be lost, for instance with the process; it never comes back.            *)
(***************************************************************************)
CONSTANTS State, Req, NoState

VARIABLES life,   \* [State -> what has become of the state]
          ask     \* [Req -> the state a callback presents and the verdict]

vars == <<life, ask>>

\* handed: given to a browser, not stored yet.
Life  == {"unused", "handed", "valid", "expired", "gone"}
NoAsk == [state |-> NoState, verdict |-> "idle"]

Tell(r, v) == ask' = [ask EXCEPT ![r].verdict = v]

Init == life = [s \in State |-> "unused"] /\ ask = [r \in Req |-> NoAsk]

\* Expired states may be cleaned up on this occasion.
HandOut(s) ==
  /\ life[s] = "unused"
  /\ life' \in [State -> Life]
  /\ life'[s] \in {"handed", "valid"}
  /\ \A x \in State \ {s} : life'[x] = life[x] \/ (life[x] = "expired" /\ life'[x] = "gone")
  /\ UNCHANGED ask

Keep(s)   == life[s] = "handed" /\ life' = [life EXCEPT ![s] = "valid"] /\ UNCHANGED ask
Expire(s) == life[s] = "valid" /\ life' = [life EXCEPT ![s] = "expired"] /\ UNCHANGED ask

Present(r, s) == /\ ask[r] = NoAsk /\ life[s] # "unused"
                 /\ ask' = [ask EXCEPT ![r] = [state |-> s, verdict |-> "asking"]]
                 /\ UNCHANGED life

Consume(r) == /\ ask[r].verdict = "asking" /\ life[ask[r].state] = "valid"
              /\ life' = [life EXCEPT ![ask[r].state] = "gone"]
              /\ Tell(r, "granted")

\* An expired state is removed; a valid one may be if the answer is lost.
Refuse(r) == /\ ask[r].verdict = "asking"
             /\ \/ UNCHANGED life
                \/ /\ life[ask[r].state] \in {"valid", "expired"}
                   /\ life' = [life EXCEPT ![ask[r].state] = "gone"]
             /\ Tell(r, "over")

\* A callback that was let through fails later on.
Fail(r) == ask[r].verdict = "granted" /\ Tell(r, "over") /\ UNCHANGED life

Release(r) == /\ ask[r].verdict \in {"granted", "over"}
              /\ ask' = [ask EXCEPT ![r] = NoAsk]
              /\ UNCHANGED life

\* The process ends: what was on its way is stored or not, the rest may be lost.
Restart == /\ life' \in [State -> Life]
           /\ \A s \in State : \/ life'[s] = life[s]
                               \/ life[s] # "unused" /\ life'[s] = "gone"
                               \/ life[s] = "handed" /\ life'[s] = "valid"
           /\ ask' = [r \in Req |-> NoAsk]

Next == \/ \E s \in State : HandOut(s) \/ Keep(s) \/ Expire(s)
        \/ \E r \in Req : \/ \E s \in State : Present(r, s)
                          \/ Consume(r) \/ Refuse(r) \/ Fail(r) \/ Release(r)
        \/ Restart
Spec == Init /\ [][Next]_vars
=============================================================================
