--------------------------- MODULE WorkerLifecycle ---------------------------
(***************************************************************************)
(* The worker process: start-up, the workers it registers, the health      *)
(* probes it answers, and the shutdown a signal begins, which waits for    *)
(* the HTTP server, the workers and Redis in turn under a hard deadline.   *)
(*                                                                         *)
(* Redis may go away and come back at any time; the client queues commands *)
(* meanwhile, so a ping or a quit may never be answered.                   *)
(***************************************************************************)
EXTENDS FiniteSets

CONSTANTS Queue,             \* names of queues
          Probe,             \* requests to the health server
          Sig                \* signals; each is delivered at most once

VARIABLES proc,      \* the process
          http,      \* the health server
          redis,     \* whether Redis answers
          stage,     \* [Sig -> how far the shutdown() it invoked has come]
          worker,    \* [Queue -> its BullMQ worker]
          listed,    \* queues in the map of the WorkerManager
          busy,      \* queues whose worker is processing a job
          awaited,   \* queues whose close() the manager waits for
          late,      \* queues registered after the manager listed its workers
          probe,     \* [Probe -> the request]
          pings,     \* probes whose ping Redis has not answered yet
          timers,    \* probes whose ping timeout is armed
          early,     \* probes whose handler ran before any signal
          kept       \* probes that are answered and whose connection is kept alive

manager == <<worker, listed, busy, awaited, late>>
health  == <<probe, pings, timers, early, kept>>
vars    == <<proc, http, redis, stage, manager, health>>

-----------------------------------------------------------------------------
\* exit0: process.exit(0); exit1: a failed start-up or the deadline.
Proc   == {"starting", "up", "exit0", "exit1"}
\* closing: no new connection is accepted, those in use are waited for.
Http   == {"unbound", "bound", "closing"}
Stage  == {"none", "ignored", "server", "closed", "workers", "quit"}
Worker == {"absent", "running", "closing", "closed", "failed"}
\* open: connected, the request not complete; pinging: in getHealth.
Phase  == {"none", "open", "pinging", "200", "503", "left"}
InUse  == {"open", "pinging"}

shuttingDown == \E s \in Sig : stage[s] # "none"
Goto(s, st)  == stage' = [stage EXCEPT ![s] = st]
Reply(p, st) == probe' = [probe EXCEPT ![p] = st]

\* An answer leaves the connection open for a further request, or not.
Answered(p, st) == Reply(p, st) /\ kept' \in {kept, kept \cup {p}}

Init == /\ proc = "starting" /\ http = "unbound" /\ redis \in {"up", "down"}
        /\ stage = [s \in Sig |-> "none"]
        /\ worker = [q \in Queue |-> "absent"]
        /\ listed = {} /\ busy = {} /\ awaited = {} /\ late = {}
        /\ probe = [p \in Probe |-> "none"]
        /\ pings = {} /\ timers = {} /\ early = {} /\ kept = {}

-----------------------------------------------------------------------------
(* Start-up and the world outside                                          *)

\* An invalid port ends the process; a port in use does not: Express hands the
\* error to the callback, which takes it for success.
Start == /\ proc = "starting"
         /\ \/ proc' = "up" /\ http' \in {"bound", "unbound"}
            \/ proc' = "exit1" /\ UNCHANGED http
         /\ UNCHANGED <<redis, stage, manager, health>>

RedisFails   == /\ proc = "up" /\ redis = "up" /\ redis' = "down"
                /\ UNCHANGED <<proc, http, stage, manager, health>>
RedisReturns == /\ proc = "up" /\ redis = "down" /\ redis' = "up"
                /\ UNCHANGED <<proc, http, stage, manager, health>>

\* A queue that is listed throws and changes nothing.  Nothing keeps a worker
\* from being registered during a shutdown.  A queue has one worker here.
Register(q) == /\ proc = "up"
               /\ q \notin listed /\ worker[q] = "absent"
               /\ worker' = [worker EXCEPT ![q] = "running"]
               /\ listed' = listed \cup {q}
               /\ late' = IF \E s \in Sig : stage[s] \in {"workers", "quit"}
                            THEN late \cup {q} ELSE late
               /\ UNCHANGED <<proc, http, redis, stage, busy, awaited, health>>

TakeJob(q) == /\ proc = "up" /\ redis = "up" /\ worker[q] = "running" /\ q \notin busy
              /\ busy' = busy \cup {q}
              /\ UNCHANGED <<proc, http, redis, stage, worker, listed, awaited, late, health>>

FinishJob(q) == /\ proc = "up" /\ q \in busy
                /\ busy' = busy \ {q}
                /\ UNCHANGED <<proc, http, redis, stage, worker, listed, awaited, late, health>>

-----------------------------------------------------------------------------
(* Health probes                                                           *)

\* A probe opens a connection, or comes on one that is kept alive, which a
\* server that no longer listens still serves.
Connect(p) == /\ proc = "up" /\ probe[p] = "none"
              /\ \/ http = "bound" /\ UNCHANGED kept
                 \/ \E k \in kept : kept' = kept \ {k}
              /\ Reply(p, "open")
              /\ UNCHANGED <<proc, http, redis, stage, manager, pings, timers, early>>

\* A connection that is kept alive is closed by the client or by its timeout.
Hangup(p) == /\ proc = "up" /\ p \in kept /\ kept' = kept \ {p}
             /\ UNCHANGED <<proc, http, redis, stage, manager, probe, pings, timers, early>>

Leave(p) == /\ proc = "up" /\ probe[p] \in InUse
            /\ Reply(p, "left")
            /\ UNCHANGED <<proc, http, redis, stage, manager, pings, timers, early, kept>>

Live(p) == /\ proc = "up" /\ probe[p] = "open"
           /\ Answered(p, "200")
           /\ UNCHANGED <<proc, http, redis, stage, manager, pings, timers, early>>

\* Faulty variant of Ready: the ping is awaited without a timeout.
ReadyUntimed(p) ==
  /\ proc = "up" /\ probe[p] = "open"
  /\ Reply(p, "pinging")
  /\ pings' = pings \cup {p}
  /\ early' = IF shuttingDown THEN early ELSE early \cup {p}
  /\ UNCHANGED <<proc, http, redis, stage, manager, timers, kept>>

\* getHealth: a ping is sent and races a timer of two seconds.
Ready(p) == /\ proc = "up" /\ probe[p] = "open"
            /\ Reply(p, "pinging")
            /\ pings' = pings \cup {p}
            /\ timers' = timers \cup {p}
            /\ early' = IF shuttingDown THEN early ELSE early \cup {p}
            /\ UNCHANGED <<proc, http, redis, stage, manager, kept>>

\* Faulty variant of Settle: the body's status is sent for the HTTP status.
SettleBody(p, st) ==
  IF probe[p] = "pinging"
    THEN Answered(p, IF st = "200" THEN "healthy" ELSE "unhealthy")
    ELSE UNCHANGED <<probe, kept>>

\* What the race settles first decides; what comes later is dropped.
Settle(p, st) ==
  IF probe[p] = "pinging" THEN Answered(p, st) ELSE UNCHANGED <<probe, kept>>

Pong(p) == /\ proc = "up" /\ p \in pings /\ redis = "up"
           /\ Settle(p, "200") /\ pings' = pings \ {p}
           /\ UNCHANGED <<proc, http, redis, stage, manager, timers, early>>

PingFails(p) == /\ proc = "up" /\ p \in pings /\ redis = "down"
                /\ Settle(p, "503") /\ pings' = pings \ {p}
                /\ UNCHANGED <<proc, http, redis, stage, manager, timers, early>>

PingTimeout(p) == /\ proc = "up" /\ p \in timers
                  /\ Settle(p, "503") /\ timers' = timers \ {p}
                  /\ UNCHANGED <<proc, http, redis, stage, manager, pings, early>>

-----------------------------------------------------------------------------
(* Shutdown                                                                *)

\* Faulty variant of Signal: every signal runs the sequence.
SignalAgain(s) ==
  /\ proc = "up" /\ stage[s] = "none"
  /\ Goto(s, IF http = "bound" THEN "server" ELSE "closed")
  /\ http' = IF http = "bound" THEN "closing" ELSE http
  /\ kept' = {}
  /\ UNCHANGED <<proc, redis, manager, probe, pings, timers, early>>

\* Faulty variant of Signal: the server is left listening.
SignalListening(s) ==
  /\ proc = "up" /\ stage[s] = "none"
  /\ Goto(s, IF shuttingDown THEN "ignored" ELSE "server")
  /\ UNCHANGED <<proc, http, redis, manager, health>>

\* The first signal arms the deadline and closes the server with the connections
\* that are idle; closing a server that is not listening fails at once, which is
\* logged.
Signal(s) ==
  /\ proc = "up" /\ stage[s] = "none"
  /\ IF shuttingDown
       THEN Goto(s, "ignored") /\ UNCHANGED <<http, kept>>
       ELSE /\ Goto(s, IF http = "bound" THEN "server" ELSE "closed")
            /\ http' = IF http = "bound" THEN "closing" ELSE http
            /\ kept' = {}
  /\ UNCHANGED <<proc, redis, manager, probe, pings, timers, early>>

ServerClosed(s) == /\ proc = "up" /\ stage[s] = "server"
                   /\ kept = {} /\ \A p \in Probe : probe[p] \notin InUse
                   /\ Goto(s, "closed")
                   /\ UNCHANGED <<proc, http, redis, manager, health>>

\* Faulty variant of CloseWorkers: the map is cleared before it is read.
CloseWorkersCleared(s) ==
  /\ proc = "up" /\ stage[s] = "closed"
  /\ Goto(s, "workers")
  /\ listed' = {} /\ awaited' = {}
  /\ UNCHANGED <<proc, http, redis, worker, busy, late, health>>

\* close() is called on every worker in the map; the manager waits for those.
CloseWorkers(s) ==
  /\ proc = "up" /\ stage[s] = "closed"
  /\ Goto(s, "workers")
  /\ awaited' = listed
  /\ worker' = [q \in Queue |-> IF q \in listed /\ worker[q] = "running"
                                  THEN "closing" ELSE worker[q]]
  /\ UNCHANGED <<proc, http, redis, listed, busy, late, health>>

\* A worker is closed when the job it was processing has ended.
WorkerClosed(q) == /\ proc = "up" /\ worker[q] = "closing" /\ q \notin busy
                   /\ worker' = [worker EXCEPT ![q] = "closed"]
                   /\ UNCHANGED <<proc, http, redis, stage, listed, busy, awaited, late, health>>

WorkerCloseFails(q) ==
  /\ proc = "up" /\ worker[q] = "closing"
  /\ worker' = [worker EXCEPT ![q] = "failed"]
  /\ UNCHANGED <<proc, http, redis, stage, listed, busy, awaited, late, health>>

\* All have settled: the map is cleared, whatever it holds, and Redis is told
\* to quit.
WorkersSettled(s) ==
  /\ proc = "up" /\ stage[s] = "workers"
  /\ \A q \in awaited : worker[q] # "closing"
  /\ Goto(s, "quit")
  /\ listed' = {}
  /\ UNCHANGED <<proc, http, redis, worker, busy, awaited, late, health>>

\* quit() is answered, or fails; either way the finally exits with 0.
Quit(s) == /\ proc = "up" /\ stage[s] = "quit"
           /\ proc' = "exit0"
           /\ UNCHANGED <<http, redis, stage, manager, health>>

\* Faulty variant of Deadline: it is armed for the HTTP server only.
DeadlineOfServer == /\ proc = "up" /\ \E s \in Sig : stage[s] = "server"
                    /\ timers \cap early = {}
                    /\ proc' = "exit1"
                    /\ UNCHANGED <<http, redis, stage, manager, health>>

\* Ten seconds after the signal.  The timers of two seconds armed before the
\* signal are due earlier, and Node runs timers in the order they are due.
Deadline == /\ proc = "up" /\ shuttingDown
            /\ timers \cap early = {}
            /\ proc' = "exit1"
            /\ UNCHANGED <<http, redis, stage, manager, health>>
-----------------------------------------------------------------------------
Outside == \/ Start \/ RedisFails \/ RedisReturns
           \/ \E q \in Queue : Register(q) \/ TakeJob(q) \/ FinishJob(q)
Health  == \E p \in Probe : \/ Connect(p) \/ Hangup(p) \/ Leave(p) \/ Live(p) \/ Ready(p)
                           \/ Pong(p) \/ PingFails(p) \/ PingTimeout(p)
Shutdown == \/ \E s \in Sig : \/ Signal(s) \/ ServerClosed(s) \/ CloseWorkers(s)
                              \/ WorkersSettled(s) \/ Quit(s)
            \/ \E q \in Queue : WorkerClosed(q) \/ WorkerCloseFails(q)
            \/ Deadline

Next == Outside \/ Health \/ Shutdown
Spec == Init /\ [][Next]_vars

\* Timers fire.  Nothing is assumed of Redis, of jobs or of clients.
FairSpec == Spec /\ WF_vars(Deadline) /\ \A p \in Probe : WF_vars(PingTimeout(p))

-----------------------------------------------------------------------------
(* Properties                                                              *)

TypeOK ==
  /\ proc \in Proc /\ http \in Http /\ redis \in {"up", "down"}
  /\ stage \in [Sig -> Stage] /\ worker \in [Queue -> Worker]
  /\ listed \subseteq Queue /\ busy \subseteq Queue /\ awaited \subseteq Queue
  /\ late \subseteq Queue
  /\ probe \in [Probe -> Phase]
  /\ pings \subseteq Probe /\ timers \subseteq Probe
  /\ early \subseteq Probe /\ kept \subseteq Probe

\* A readiness probe that was accepted before the signal is answered before
\* the process ends, even if the deadline ends it and Redis never answers.
EarlyProbesAnswered ==
  proc \in {"exit0", "exit1"} => \A p \in early : probe[p] # "pinging"

\* Exit code 0 means that the server drained and that the close() of every
\* worker the manager knew has settled, however many signals came: no job of a
\* worker that closed is cut off, only one whose close() failed can be.
CleanExit ==
  proc = "exit0" =>
    /\ \A p \in Probe : probe[p] \notin InUse
    /\ \A q \in awaited : worker[q] = "failed" \/ (worker[q] = "closed" /\ q \notin busy)

\* shutdown() of the manager closes every worker registered before it lists
\* them, during the shutdown too: only one registered while it waits for the
\* others still takes jobs when the process ends with 0.
NoWorkerLeftBehind ==
  proc = "exit0" => \A q \in Queue : worker[q] = "running" => q \in late

\* A signal ends the process, whatever hangs.
Terminates == shuttingDown ~> proc \in {"exit0", "exit1"}

-----------------------------------------------------------------------------
(* The worker implements DrainContract: exit code 0 is what it promises to *)
(* be drained, exit code 1 the force.                                      *)

serverView == IF proc \in {"exit0", "exit1"} THEN "closed"
              ELSE CASE http = "bound"   -> "open"
                     [] http = "closing" -> "draining"
                     [] OTHER            -> "unbound"
inflightView == {p \in Probe : proc = "up" /\ probe[p] \in InUse}
idleView     == {p \in kept : proc = "up"}
endView == CASE proc = "exit0" -> "drained" [] proc = "exit1" -> "forced" [] OTHER -> "none"

Contract == INSTANCE DrainContract
              WITH Request <- Probe, server <- serverView, inflight <- inflightView,
                   idle <- idleView, end <- endView

\* From the first signal on no connection is accepted, whatever other signals
\* come, and an exit with 0 cuts no probe off, not even one that comes late on a
\* connection kept alive.
ImplementsDrain == Contract!Spec
=============================================================================
