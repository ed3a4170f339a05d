------------------------ MODULE WorkerLifecycleProofs ------------------------
(***************************************************************************)
(* Proofs about WorkerLifecycle for any queues, probes and signals.        *)
(***************************************************************************)
EXTENDS WorkerLifecycle, TLAPS

-----------------------------------------------------------------------------
(* The inductive invariant                                                 *)

InShutdown(s) == stage[s] \notin {"none", "ignored"}

\* One signal runs the sequence.
OneShutdown == \A s1, s2 \in Sig : InShutdown(s1) /\ InShutdown(s2) => s1 = s2

\* A ping that was sent before the signal and is awaited has its timer.
EarlyTimed == \A p \in early : probe[p] = "pinging" => p \in timers

NoConnection == kept = {} /\ \A p \in Probe : probe[p] \notin InUse

\* Once the server has closed, no connection is left and none can come.
Drained ==
  /\ proc = "starting" => http = "unbound" /\ early = {} /\ ~shuttingDown
  /\ http = "unbound" => NoConnection
  /\ http = "closing" => shuttingDown
  /\ \A s \in Sig : /\ stage[s] = "server" => http = "closing"
                    /\ stage[s] \in {"closed", "workers", "quit"} =>
                         http # "bound" /\ NoConnection

\* The workers waited for are closing, and have stopped when Redis is next.
Stopped ==
  /\ \A q \in Queue : worker[q] = "closed" => q \notin busy
  /\ \A q \in listed : worker[q] # "absent"
  /\ \A s \in Sig : /\ stage[s] \in {"workers", "quit"} =>
                         \A q \in awaited : worker[q] \in {"closing", "closed", "failed"}
                    /\ stage[s] = "quit" => \A q \in awaited : worker[q] # "closing"

\* But for late ones, the map holds every running worker until all are closed.
Known ==
  \A q \in Queue : worker[q] = "running" /\ q \notin late =>
    q \in listed /\ \A s \in Sig : stage[s] \notin {"workers", "quit"}

Lifecycle == OneShutdown /\ EarlyTimed /\ Drained /\ Stopped
IInv      == TypeOK /\ Lifecycle /\ EarlyProbesAnswered /\ CleanExit

-----------------------------------------------------------------------------
(* What an action does                                                     *)

ManagerActions == \E q \in Queue : \/ Register(q) \/ TakeJob(q) \/ FinishJob(q)
                                   \/ WorkerClosed(q) \/ WorkerCloseFails(q)

LEMMA TypeStep ==
  ASSUME TypeOK, [Next]_vars
  PROVE  TypeOK'
<1> USE DEF TypeOK
<1>1. CASE Start \/ RedisFails \/ RedisReturns \/ Deadline
  BY <1>1 DEF Start, RedisFails, RedisReturns, Deadline, manager, health, Proc, Http
<1>2. CASE ManagerActions
  BY <1>2 DEF ManagerActions, Register, TakeJob, FinishJob, WorkerClosed, WorkerCloseFails,
              manager, health, Worker
<1>3. CASE Health
  BY <1>3 DEF Health, Connect, Hangup, Leave, Live, Ready, Pong, PingFails, PingTimeout, Reply,
              Settle, Answered, manager, health, Phase
<1>4. ASSUME NEW s \in Sig, Signal(s) \/ ServerClosed(s) \/ WorkersSettled(s) \/ Quit(s)
      PROVE  TypeOK'
  BY <1>4 DEF Signal, ServerClosed, WorkersSettled, Quit, Goto, manager, health, Proc, Http,
              Stage
<1>5. ASSUME NEW s \in Sig, CloseWorkers(s) PROVE TypeOK'
  BY <1>5 DEF CloseWorkers, Goto, health, Stage, Worker
<1>6. CASE UNCHANGED vars
  BY <1>6 DEF vars, manager, health
<1> QED
  BY <1>1, <1>2, <1>3, <1>4, <1>5, <1>6 DEF Next, Outside, Shutdown, ManagerActions

-----------------------------------------------------------------------------
(* The parts of the invariant                                              *)

\* Only a signal that finds no shutdown starts one.
LEMMA OneShutdownStep ==
  ASSUME TypeOK, OneShutdown, [Next]_vars
  PROVE  OneShutdown'
<1> USE DEF TypeOK, OneShutdown, InShutdown
<1>1. ASSUME NEW s \in Sig, Signal(s) PROVE OneShutdown'
  BY <1>1 DEF Signal, Goto, shuttingDown
<1>2. ASSUME NEW s \in Sig, ServerClosed(s) \/ CloseWorkers(s) \/ WorkersSettled(s)
      PROVE  OneShutdown'
  BY <1>2 DEF ServerClosed, CloseWorkers, WorkersSettled, Goto
<1>3. ASSUME NEW s \in Sig, Quit(s) PROVE UNCHANGED stage
  BY <1>3 DEF Quit
<1>4. CASE Start \/ RedisFails \/ RedisReturns \/ Deadline \/ ManagerActions \/ Health
  BY <1>4 DEF Start, RedisFails, RedisReturns, Deadline, ManagerActions, Register, TakeJob,
              FinishJob, WorkerClosed, WorkerCloseFails, Health, Connect, Hangup, Leave, Live, Ready,
              Pong, PingFails, PingTimeout
<1>5. CASE UNCHANGED vars
  BY <1>5 DEF vars
<1> QED
  BY <1>1, <1>2, <1>3, <1>4, <1>5 DEF Next, Outside, Shutdown, ManagerActions

\* A timer ends only with the ping it was armed for.
LEMMA EarlyTimedStep ==
  ASSUME TypeOK, EarlyTimed, [Next]_vars
  PROVE  EarlyTimed'
<1> USE DEF TypeOK, EarlyTimed
<1>1. CASE Health
  BY <1>1 DEF Health, Connect, Hangup, Leave, Live, Ready, Pong, PingFails, PingTimeout, Reply,
              Settle, Answered
<1>2. CASE Outside \/ Shutdown \/ UNCHANGED vars
  BY <1>2 DEF Outside, Start, RedisFails, RedisReturns, Register, TakeJob, FinishJob,
              Shutdown, Signal, ServerClosed, CloseWorkers, WorkersSettled, Quit,
              WorkerClosed, WorkerCloseFails, Deadline, vars, health
<1> QED
  BY <1>1, <1>2 DEF Next

LEMMA DrainedStep ==
  ASSUME TypeOK, OneShutdown, Drained, [Next]_vars
  PROVE  Drained'
<1> USE DEF TypeOK, Drained, NoConnection, InUse
<1>1. CASE Start
  <2>1. /\ proc = "starting" /\ stage' = stage /\ UNCHANGED <<probe, early, kept>>
        /\ proc' # "starting" /\ http' \in {"bound", "unbound"}
    BY <1>1 DEF Start, health
  <2>2. \A s \in Sig : stage[s] \notin {"server", "closed", "workers", "quit"}
    BY <2>1 DEF shuttingDown
  <2> QED
    BY <2>1, <2>2 DEF shuttingDown
<1>2. CASE RedisFails \/ RedisReturns \/ Deadline \/ ManagerActions \/ UNCHANGED vars
  BY <1>2 DEF RedisFails, RedisReturns, Deadline, ManagerActions, Register, TakeJob,
              FinishJob, WorkerClosed, WorkerCloseFails, vars, manager, health, shuttingDown
<1>3. ASSUME NEW p \in Probe, Connect(p) PROVE Drained'
  BY <1>3 DEF Connect, Reply, shuttingDown
<1>4. ASSUME NEW p \in Probe, Hangup(p) \/ Leave(p) \/ Live(p) PROVE Drained'
  BY <1>4 DEF Hangup, Leave, Live, Answered, Reply, shuttingDown
<1>5. ASSUME NEW p \in Probe, Ready(p) PROVE Drained'
  BY <1>5 DEF Ready, Reply, shuttingDown
<1>6. ASSUME NEW p \in Probe, Pong(p) \/ PingFails(p) \/ PingTimeout(p) PROVE Drained'
  BY <1>6 DEF Pong, PingFails, PingTimeout, Settle, Answered, Reply, shuttingDown
<1>7. ASSUME NEW s \in Sig, Signal(s) PROVE Drained'
  <2>1. CASE shuttingDown
    BY <1>7, <2>1 DEF Signal, Goto, shuttingDown
  <2>2. CASE ~shuttingDown
    <3>1. \A x \in Sig : stage[x] = "none"
      BY <2>2 DEF shuttingDown
    <3>2. stage'[s] # "none" /\ \A x \in Sig \ {s} : stage'[x] = "none"
      BY <1>7, <2>2, <3>1 DEF Signal, Goto
    <3>3. shuttingDown'
      BY <3>2 DEF shuttingDown
    <3>4. proc' = proc /\ probe' = probe /\ early' = early /\ proc = "up" /\ kept' = {}
      BY <1>7, <2>2 DEF Signal
    <3>5. CASE http = "bound"
      <4>1. http' = "closing" /\ stage'[s] = "server"
        BY <1>7, <2>2, <3>5 DEF Signal, Goto
      <4>2. \A x \in Sig : stage'[x] \in {"none", "server"}
        BY <3>2, <4>1
      <4> QED
        BY <3>3, <3>4, <4>1, <4>2
    <3>6. CASE http # "bound"
      <4>1. http' = http /\ http = "unbound" /\ stage'[s] = "closed"
        BY <1>7, <2>2, <3>6 DEF Signal, Goto, Http
      <4> QED
        BY <3>2, <3>3, <3>4, <4>1
    <3> QED
      BY <3>5, <3>6
  <2> QED
    BY <2>1, <2>2
<1>8. ASSUME NEW s \in Sig, ServerClosed(s) PROVE Drained'
  BY <1>8 DEF ServerClosed, Goto, health, shuttingDown
<1>9. ASSUME NEW s \in Sig, CloseWorkers(s) \/ WorkersSettled(s) PROVE Drained'
  BY <1>9 DEF CloseWorkers, WorkersSettled, Goto, health, shuttingDown
<1>10. ASSUME NEW s \in Sig, Quit(s) PROVE Drained'
  BY <1>10 DEF Quit, health, shuttingDown
<1> QED
  BY <1>1, <1>2, <1>3, <1>4, <1>5, <1>6, <1>7, <1>8, <1>9, <1>10
     DEF Next, Outside, Health, Shutdown, ManagerActions

LEMMA StoppedStep ==
  ASSUME TypeOK, OneShutdown, Stopped, [Next]_vars
  PROVE  Stopped'
<1> USE DEF TypeOK, Stopped
<1>1. CASE Start \/ RedisFails \/ RedisReturns \/ Deadline \/ Health \/ UNCHANGED vars
  BY <1>1 DEF Start, RedisFails, RedisReturns, Deadline, Health, Connect, Hangup, Leave, Live, Ready,
              Pong, PingFails, PingTimeout, vars, manager
<1>2. ASSUME NEW q \in Queue, Register(q) PROVE Stopped'
  BY <1>2 DEF Register
<1>3. ASSUME NEW q \in Queue, TakeJob(q) \/ FinishJob(q) PROVE Stopped'
  BY <1>3 DEF TakeJob, FinishJob
<1>4. ASSUME NEW q \in Queue, WorkerClosed(q) \/ WorkerCloseFails(q) PROVE Stopped'
  BY <1>4 DEF WorkerClosed, WorkerCloseFails
<1>5. ASSUME NEW s \in Sig, Signal(s) \/ ServerClosed(s) PROVE Stopped'
  BY <1>5 DEF Signal, ServerClosed, Goto, manager
<1>6. ASSUME NEW s \in Sig, CloseWorkers(s) PROVE Stopped'
  <2>1. /\ stage[s] = "closed" /\ stage' = [stage EXCEPT ![s] = "workers"]
        /\ awaited' = listed /\ listed' = listed /\ busy' = busy
        /\ worker' = [q \in Queue |-> IF q \in listed /\ worker[q] = "running"
                                        THEN "closing" ELSE worker[q]]
    BY <1>6 DEF CloseWorkers, Goto
  <2>2. \A x \in Sig : stage'[x] # "quit"
    BY <2>1 DEF OneShutdown, InShutdown
  <2>3. \A q \in listed : worker'[q] \in {"closing", "closed", "failed"}
    BY <2>1 DEF Worker
  <2>4. \A q \in Queue : worker'[q] = "closed" => worker[q] = "closed"
    BY <2>1
  <2> QED
    BY <2>1, <2>2, <2>3, <2>4
<1>7. ASSUME NEW s \in Sig, WorkersSettled(s) PROVE Stopped'
  BY <1>7 DEF WorkersSettled, Goto, OneShutdown, InShutdown
<1>8. ASSUME NEW s \in Sig, Quit(s) PROVE Stopped'
  BY <1>8 DEF Quit, manager
<1> QED
  BY <1>1, <1>2, <1>3, <1>4, <1>5, <1>6, <1>7, <1>8 DEF Next, Outside, Shutdown

\* The ways the process ends.
LEMMA ExitStep ==
  ASSUME TypeOK, Lifecycle, EarlyProbesAnswered, CleanExit, [Next]_vars
  PROVE  EarlyProbesAnswered' /\ CleanExit'
<1> USE DEF TypeOK, EarlyProbesAnswered, CleanExit
<1>1. CASE Start
  BY <1>1 DEF Start, health, Lifecycle, Drained
<1>2. ASSUME NEW s \in Sig, Quit(s)
      PROVE  EarlyProbesAnswered' /\ CleanExit'
  <2>1. \A p \in Probe : probe[p] \notin InUse
    BY <1>2 DEF Quit, Lifecycle, Drained, NoConnection
  <2>2. \A q \in awaited : worker[q] = "failed" \/ (worker[q] = "closed" /\ q \notin busy)
    BY <1>2 DEF Quit, Lifecycle, Stopped
  <2> QED
    BY <1>2, <2>1, <2>2 DEF Quit, manager, health, InUse
<1>3. CASE Deadline
  BY <1>3 DEF Deadline, manager, health, Lifecycle, EarlyTimed
<1>4. CASE UNCHANGED vars
  BY <1>4 DEF vars, manager, health
<1>5. CASE ~(Start \/ Deadline \/ UNCHANGED vars \/ \E s \in Sig : Quit(s))
  <2>1. proc = "up" /\ proc' = proc
    BY <1>5 DEF Next, Outside, RedisFails, RedisReturns, Register, TakeJob, FinishJob,
                Health, Connect, Hangup, Leave, Live, Ready, Pong, PingFails, PingTimeout,
                Shutdown, Signal, ServerClosed, CloseWorkers, WorkersSettled,
                WorkerClosed, WorkerCloseFails
  <2> QED
    BY <2>1
<1> QED
  BY <1>1, <1>2, <1>3, <1>4, <1>5

LEMMA KnownStep ==
  ASSUME TypeOK, Known, [Next]_vars
  PROVE  Known'
<1> USE DEF TypeOK, Known
<1>1. CASE Start \/ RedisFails \/ RedisReturns \/ Deadline \/ Health \/ UNCHANGED vars
  BY <1>1 DEF Start, RedisFails, RedisReturns, Deadline, Health, Connect, Hangup, Leave, Live, Ready,
              Pong, PingFails, PingTimeout, vars, manager
<1>2. ASSUME NEW q \in Queue, Register(q) PROVE Known'
  BY <1>2 DEF Register
<1>3. ASSUME NEW q \in Queue, TakeJob(q) \/ FinishJob(q) PROVE Known'
  BY <1>3 DEF TakeJob, FinishJob
<1>4. ASSUME NEW q \in Queue, WorkerClosed(q) \/ WorkerCloseFails(q) PROVE Known'
  BY <1>4 DEF WorkerClosed, WorkerCloseFails
<1>5. ASSUME NEW s \in Sig, Signal(s) \/ ServerClosed(s) PROVE Known'
  BY <1>5 DEF Signal, ServerClosed, Goto, manager
<1>6. ASSUME NEW s \in Sig, CloseWorkers(s) PROVE Known'
  BY <1>6 DEF CloseWorkers, Goto
<1>7. ASSUME NEW s \in Sig, WorkersSettled(s) PROVE Known'
  BY <1>7 DEF WorkersSettled, Goto
<1>8. ASSUME NEW s \in Sig, Quit(s) PROVE Known'
  BY <1>8 DEF Quit, manager
<1> QED
  BY <1>1, <1>2, <1>3, <1>4, <1>5, <1>6, <1>7, <1>8 DEF Next, Outside, Shutdown

LEMMA Invariance == Spec => []IInv
<1>1. Init => IInv
  BY DEF Init, IInv, TypeOK, Lifecycle, OneShutdown, InShutdown, EarlyTimed, Drained, NoConnection,
         Stopped, EarlyProbesAnswered, CleanExit, Proc, Http, Stage, Worker, Phase, InUse,
         shuttingDown
<1>2. IInv /\ [Next]_vars => IInv'
  BY TypeStep, OneShutdownStep, EarlyTimedStep, DrainedStep, StoppedStep, ExitStep
     DEF IInv, Lifecycle
<1> QED
  BY <1>1, <1>2, PTL DEF Spec

-----------------------------------------------------------------------------
(* The worker implements DrainContract                                     *)

LEMMA ViewsKept ==
  ASSUME UNCHANGED <<proc, http, probe, kept>>
  PROVE  UNCHANGED Contract!vars
BY DEF Contract!vars, serverView, inflightView, idleView, endView

\* A process that is up has not ended, and its views are those of http and probe.
LEMMA ViewsUp ==
  ASSUME proc = "up"
  PROVE  /\ endView = "none" /\ serverView # "closed"
         /\ inflightView = {p \in Probe : probe[p] \in InUse} /\ idleView = kept
         /\ serverView = CASE http = "bound" -> "open" [] http = "closing" -> "draining"
                           [] OTHER -> "unbound"
BY DEF serverView, inflightView, idleView, endView

\* What happens to one probe lets it in, ends it, closes its connection, or
\* changes nothing.
LEMMA ProbeImplements ==
  ASSUME IInv, Health
  PROVE  [Contract!Next]_(Contract!vars)
<1> USE DEF IInv, TypeOK
<1>1. PICK p \in Probe : \/ Connect(p) \/ Hangup(p) \/ Leave(p) \/ Live(p) \/ Ready(p)
                         \/ Pong(p) \/ PingFails(p) \/ PingTimeout(p)
  BY DEF Health
<1>2. /\ proc = "up" /\ proc' = proc /\ http' = http
      /\ \A x \in Probe \ {p} : probe'[x] = probe[x]
  BY <1>1 DEF Connect, Hangup, Leave, Live, Ready, Pong, PingFails, PingTimeout, Reply, Settle,
              Answered
<1>3. serverView' = serverView /\ endView' = endView /\ serverView # "closed"
  BY <1>2, ViewsUp DEF serverView, endView
<1>4. /\ inflightView  = {x \in Probe : probe[x] \in InUse}
      /\ inflightView' = {x \in Probe : probe'[x] \in InUse}
      /\ idleView = kept /\ idleView' = kept'
  BY <1>2 DEF inflightView, idleView
<1>5. CASE Connect(p)
  <2>1. probe[p] = "none" /\ probe'[p] = "open"
    BY <1>5 DEF Connect, Reply
  <2>2. \/ serverView = "open" /\ idleView' = idleView
        \/ \E k \in idleView : idleView' = idleView \ {k}
    BY <1>2, <1>4, <1>5, ViewsUp DEF Connect
  <2>3. p \notin inflightView /\ inflightView' = inflightView \cup {p}
    BY <1>2, <1>4, <2>1 DEF InUse
  <2>4. Contract!Enter(p)
    BY <1>3, <2>2, <2>3 DEF Contract!Enter
  <2> QED
    BY <2>4 DEF Contract!Next
<1>6. CASE Hangup(p)
  <2>1. inflightView' = inflightView /\ p \in idleView /\ idleView' = idleView \ {p}
    BY <1>4, <1>6 DEF Hangup
  <2>2. Contract!Hangup(p)
    BY <1>3, <2>1 DEF Contract!Hangup
  <2> QED
    BY <2>2 DEF Contract!Next
<1>7. CASE probe[p] \in InUse /\ probe'[p] \notin InUse
  <2>1. p \in inflightView /\ inflightView' = inflightView \ {p}
    BY <1>2, <1>4, <1>7
  <2>2. idleView' \in {idleView, idleView \cup {p}}
    BY <1>1, <1>4, <1>7
       DEF Connect, Hangup, Leave, Live, Ready, Pong, PingFails, PingTimeout, Reply, Settle,
           Answered, InUse
  <2>3. Contract!Over(p)
    BY <1>3, <2>1, <2>2 DEF Contract!Over
  <2> QED
    BY <2>3 DEF Contract!Next
<1>8. CASE Leave(p) \/ Live(p)
  <2>1. probe[p] \in InUse /\ probe'[p] \notin InUse
    BY <1>8 DEF Leave, Live, Answered, Reply, InUse
  <2> QED
    BY <1>7, <2>1
<1>9. CASE Ready(p)
  <2>1. inflightView' = inflightView /\ idleView' = idleView
    BY <1>2, <1>4, <1>9 DEF Ready, Reply, InUse
  <2> QED
    BY <1>3, <2>1 DEF Contract!vars
<1>10. CASE Pong(p) \/ PingFails(p) \/ PingTimeout(p)
  <2>1. CASE probe[p] = "pinging"
    <3>1. probe'[p] \in {"200", "503"}
      BY <1>10, <2>1 DEF Pong, PingFails, PingTimeout, Settle, Answered, Reply
    <3> QED
      BY <1>7, <2>1, <3>1 DEF InUse
  <2>2. CASE probe[p] # "pinging"
    <3>1. UNCHANGED <<probe, kept>>
      BY <1>10, <2>2 DEF Pong, PingFails, PingTimeout, Settle
    <3> QED
      BY <1>2, <3>1, ViewsKept
  <2> QED
    BY <2>1, <2>2
<1> QED
  BY <1>1, <1>5, <1>6, <1>8, <1>9, <1>10

LEMMA DrainStep ==
  ASSUME IInv, [Next]_vars
  PROVE  [Contract!Next]_(Contract!vars)
<1> USE DEF IInv, TypeOK
<1>1. CASE Start
  <2>1. /\ proc = "starting" /\ probe' = probe /\ kept' = kept /\ http = "unbound"
        /\ NoConnection
    BY <1>1 DEF Start, health, Lifecycle, Drained
  <2>2. serverView = "unbound" /\ inflightView = {} /\ idleView = {} /\ endView = "none"
    BY <2>1 DEF serverView, inflightView, idleView, endView, NoConnection
  <2>3. inflightView' = {} /\ idleView' = {}
    BY <2>1 DEF inflightView, idleView, NoConnection
  <2>4. CASE proc' = "up" /\ http' = "bound"
    <3>1. serverView' = "open" /\ endView' = "none"
      BY <2>4 DEF serverView, endView
    <3>2. Contract!Bind
      BY <2>2, <2>3, <3>1 DEF Contract!Bind
    <3> QED
      BY <3>2 DEF Contract!Next
  <2>5. CASE proc' = "up" /\ http' = "unbound"
    <3>1. serverView' = "unbound" /\ endView' = "none"
      BY <2>5 DEF serverView, endView
    <3> QED
      BY <2>2, <2>3, <3>1 DEF Contract!vars
  <2>6. CASE proc' = "exit1"
    <3>1. serverView' = "closed" /\ endView' = "forced"
      BY <2>6 DEF serverView, endView
    <3>2. Contract!EndForced
      BY <2>2, <2>3, <3>1 DEF Contract!EndForced
    <3> QED
      BY <3>2 DEF Contract!Next
  <2> QED
    BY <1>1, <2>4, <2>5, <2>6 DEF Start
<1>2. CASE Health
  BY <1>2, ProbeImplements
<1>3. ASSUME NEW s \in Sig, Signal(s) PROVE [Contract!Next]_(Contract!vars)
  <2>1. CASE http' = http
    <3>1. proc = "up" /\ UNCHANGED <<proc, http, probe>>
      BY <1>3, <2>1 DEF Signal
    <3>2. kept' = kept
      BY <1>3, <2>1 DEF Signal, Lifecycle, Drained, NoConnection, Http
    <3> QED
      BY <3>1, <3>2, ViewsKept
  <2>2. CASE http' # http
    <3>1. /\ proc = "up" /\ proc' = "up" /\ probe' = probe /\ kept' = {}
          /\ http = "bound" /\ http' = "closing"
      BY <1>3, <2>2 DEF Signal
    <3>2. serverView = "open" /\ serverView' = "draining"
      BY <3>1 DEF serverView
    <3>3. inflightView' = inflightView /\ idleView' = {} /\ endView' = endView
      BY <3>1 DEF inflightView, idleView, endView
    <3>4. Contract!Drain
      BY <3>2, <3>3 DEF Contract!Drain
    <3> QED
      BY <3>4 DEF Contract!Next
  <2> QED
    BY <2>1, <2>2
<1>4. ASSUME NEW s \in Sig, Quit(s) PROVE [Contract!Next]_(Contract!vars)
  <2>1. /\ proc = "up" /\ proc' = "exit0"
        /\ http # "bound" /\ NoConnection
    BY <1>4 DEF Quit, Lifecycle, Drained
  <2>2. serverView \in {"unbound", "draining"} /\ inflightView = {} /\ idleView = {}
    BY <2>1 DEF serverView, inflightView, idleView, NoConnection
  <2>3. serverView' = "closed" /\ endView' = "drained" /\ inflightView' = {} /\ idleView' = {}
    BY <2>1 DEF serverView, endView, inflightView, idleView
  <2>4. Contract!EndDrained
    BY <2>2, <2>3 DEF Contract!EndDrained
  <2> QED
    BY <2>4 DEF Contract!Next
<1>5. CASE Deadline
  <2>1. proc = "up" /\ proc' = "exit1"
    BY <1>5 DEF Deadline
  <2>2. serverView # "closed" /\ serverView' = "closed" /\ endView' = "forced"
    BY <2>1, ViewsUp DEF serverView, endView
  <2>3. inflightView' = {} /\ idleView' = {}
    BY <2>1 DEF inflightView, idleView
  <2>4. Contract!EndForced
    BY <2>2, <2>3 DEF Contract!EndForced
  <2> QED
    BY <2>4 DEF Contract!Next
<1>6. CASE RedisFails \/ RedisReturns \/ ManagerActions \/ UNCHANGED vars
  BY <1>6, ViewsKept
     DEF RedisFails, RedisReturns, ManagerActions, Register, TakeJob, FinishJob, WorkerClosed,
         WorkerCloseFails, vars, health
<1>7. ASSUME NEW s \in Sig, ServerClosed(s) \/ CloseWorkers(s) \/ WorkersSettled(s)
      PROVE  [Contract!Next]_(Contract!vars)
  BY <1>7, ViewsKept DEF ServerClosed, CloseWorkers, WorkersSettled, health
<1> QED
  BY <1>1, <1>2, <1>3, <1>4, <1>5, <1>6, <1>7 DEF Next, Outside, Shutdown, ManagerActions

-----------------------------------------------------------------------------
(* Theorems                                                                *)

\* The process, its workers and its probes keep their types.
THEOREM TypeCorrect == Spec => []TypeOK
<1>1. IInv => TypeOK
  BY DEF IInv
<1> QED
  BY <1>1, Invariance, PTL

\* Neither the deadline nor the end of a shutdown leaves a readiness probe
\* unanswered that was accepted before the signal.
THEOREM EarlyProbes == Spec => []EarlyProbesAnswered
<1>1. IInv => EarlyProbesAnswered
  BY DEF IInv
<1> QED
  BY <1>1, Invariance, PTL

\* Exit code 0 follows a shutdown that went through, with any signals.
THEOREM ExitIsClean == Spec => []CleanExit
<1>1. IInv => CleanExit
  BY DEF IInv
<1> QED
  BY <1>1, Invariance, PTL

\* Every worker registered before the manager lists them is closed.
THEOREM AllWorkersClosed == Spec => []NoWorkerLeftBehind
<1>1. Init => Known /\ NoWorkerLeftBehind
  BY DEF Init, Known, NoWorkerLeftBehind
<1>2. IInv /\ Known /\ NoWorkerLeftBehind /\ [Next]_vars
        => (Known /\ NoWorkerLeftBehind)'
  <2> SUFFICES ASSUME IInv, Known, NoWorkerLeftBehind, [Next]_vars PROVE Known' /\ NoWorkerLeftBehind'
    OBVIOUS
  <2>1. Known'
    BY KnownStep DEF IInv
  <2>2. ASSUME NEW s \in Sig, Quit(s) PROVE NoWorkerLeftBehind'
    BY <2>2 DEF Quit, manager, Known, NoWorkerLeftBehind
  <2>3. ASSUME UNCHANGED vars PROVE NoWorkerLeftBehind'
    BY <2>3 DEF vars, manager, NoWorkerLeftBehind
  <2>4. ASSUME ~(UNCHANGED vars \/ \E s \in Sig : Quit(s))
        PROVE  NoWorkerLeftBehind'
    <3>1. proc' # "exit0"
      BY <2>4 DEF Next, Outside, Start, RedisFails, RedisReturns, Register, TakeJob,
                  FinishJob, Health, Connect, Hangup, Leave, Live, Ready, Pong, PingFails,
                  PingTimeout, Shutdown, Signal, ServerClosed, CloseWorkers, WorkersSettled,
                  WorkerClosed, WorkerCloseFails, Deadline
    <3> QED
      BY <3>1 DEF NoWorkerLeftBehind
  <2> QED
    BY <2>1, <2>2, <2>3, <2>4
<1> QED
  BY <1>1, <1>2, Invariance, PTL DEF Spec

\* The worker drains as DrainContract promises, for any queues, probes and signals.
THEOREM WorkerDrains == Spec => ImplementsDrain
<1>1. Init => Contract!Init
  BY DEF Init, Contract!Init, serverView, inflightView, idleView, endView
<1>2. IInv /\ [Next]_vars => [Contract!Next]_(Contract!vars)
  BY DrainStep
<1> QED
  BY <1>1, <1>2, Invariance, PTL DEF Spec, Contract!Spec, ImplementsDrain
=============================================================================
