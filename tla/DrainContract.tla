---------------------------- MODULE DrainContract ----------------------------
(***************************************************************************)
(* What a process promises its clients when it shuts down gracefully: from *)
(* the moment it starts to drain it accepts no connection, it never opens  *)
(* its server again, and it ends drained only when the last request it had *)
(* let in is over and the last connection closed.  Until then a connection *)
(* that is kept alive may bring a further request.  The process may also   *)
(* end by force at any time, which cuts off whatever is in flight; nothing *)
(* happens after the end.                                                  *)
(***************************************************************************)
CONSTANTS Request    \* requests; a connection has the name of the last one on it

VARIABLES server,    \* the server
          inflight,  \* requests let in and neither answered nor given up
          idle,      \* connections without a request that are kept alive
          end        \* how the process ended

vars == <<server, inflight, idle, end>>

Server == {"unbound", "open", "draining", "closed"}
End    == {"none", "drained", "forced"}

Init == server = "unbound" /\ inflight = {} /\ idle = {} /\ end = "none"

Bind == /\ server = "unbound" /\ server' = "open"
        /\ UNCHANGED <<inflight, idle, end>>

\* A request comes on a new connection, or on one that is kept alive.
Enter(r) == /\ r \notin inflight /\ inflight' = inflight \cup {r}
            /\ \/ server = "open" /\ UNCHANGED idle
               \/ \E k \in idle : idle' = idle \ {k}
            /\ UNCHANGED <<server, end>>

\* The request is answered, fails, or its client leaves; an answer may keep the
\* connection alive.
Over(r) == /\ server # "closed" /\ r \in inflight
           /\ inflight' = inflight \ {r} /\ idle' \in {idle, idle \cup {r}}
           /\ UNCHANGED <<server, end>>

Hangup(r) == /\ r \in idle /\ idle' = idle \ {r}
             /\ UNCHANGED <<server, inflight, end>>

\* The connections that are idle need not be waited for.
Drain == /\ server = "open" /\ server' = "draining"
         /\ idle' \in {idle, {}}
         /\ UNCHANGED <<inflight, end>>

\* A process that never listened has nothing to drain.
EndDrained == /\ server \in {"unbound", "draining"} /\ inflight = {} /\ idle = {}
              /\ server' = "closed" /\ end' = "drained"
              /\ UNCHANGED <<inflight, idle>>

EndForced == /\ server # "closed"
             /\ server' = "closed" /\ end' = "forced" /\ inflight' = {} /\ idle' = {}

Next == \/ Bind \/ Drain \/ EndDrained \/ EndForced
        \/ \E r \in Request : Enter(r) \/ Over(r) \/ Hangup(r)
Spec == Init /\ [][Next]_vars
=============================================================================
