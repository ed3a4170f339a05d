-------------------------- MODULE ApiProcessProofs --------------------------
(***************************************************************************)
(* Proofs about ApiProcess for any environments, probes, views and limit.  *)
(***************************************************************************)
EXTENDS ApiProcess, TLAPS

-----------------------------------------------------------------------------
(* The inductive invariant                                                 *)

\* A view whose request is in flight while the database is up has seen it up.
InFlightServed == \A v \in View : phase[v] \in InUse /\ database = "up" => v \in served

\* So has a view that was answered 200, and the page that shows it.
ViewsServed == \A v \in View : phase[v] \in {"200", "healthy"} => v \in served

IInv == TypeOK /\ InFlightServed /\ ViewsServed

\* The steps that leave the requests alone, but for those that end the process.
Quiet == UNCHANGED <<phase, served, database>>

LEMMA EndType ==
  ASSUME TypeOK, NEW p \in Proc, End(p)
  PROVE  TypeOK'
<1>1. hits' \in [(Probe \cup {Web}) \X Route -> 0..Limit]
  BY LimitAssumption DEF TypeOK, End
<1> QED
  BY <1>1 DEF TypeOK, End, Http, Phase, InUse

LEMMA BootType ==
  ASSUME TypeOK, NEW p \in Proc, BootTo(p)
  PROVE  TypeOK'
BY DEF TypeOK, BootTo, requests

LEMMA GotoType ==
  ASSUME TypeOK, NEW r \in Request, NEW ph \in Phase, Goto(r, ph)
  PROVE  phase' \in [Request -> Phase]
BY DEF TypeOK, Goto

LEMMA AnsweredType ==
  ASSUME TypeOK, NEW r \in Request, NEW st \in Status, Answered(r, st)
  PROVE  phase' \in [Request -> Phase] /\ kept' \subseteq Request
BY GotoType DEF TypeOK, Answered, Phase

LEMMA ConnectedType ==
  ASSUME TypeOK, NEW r \in Request, NEW rt \in Route, Connected(r, rt),
         r \in View => rt = "ready"
  PROVE  TypeOK'
<1>1. phase' \in [Request -> Phase]
  BY GotoType DEF Connected, Phase, InUse
<1>2. /\ route' \in [Request -> Route] /\ \A v \in View : route'[v] = "ready"
      /\ served' \subseteq View /\ kept' \subseteq Request
  BY DEF TypeOK, Connected, Request
<1> QED
  BY <1>1, <1>2 DEF TypeOK, Connected, process

LEMMA TypeStep ==
  ASSUME TypeOK, [Next]_vars
  PROVE  TypeOK'
<1>1. CASE Boot
  <2>1. CASE Configure
    BY <1>1, <2>1, EndType, BootType DEF Configure, Proc
  <2>2. CASE ConnectDatabase
    BY <1>1, <2>2, BootType DEF ConnectDatabase, Proc
  <2>3. CASE Listen
    <3>1. CASE port = "taken"
      BY <2>3, <3>1, EndType DEF Listen, Proc
    <3>2. CASE port # "taken"
      BY <2>3, <3>2 DEF TypeOK, Listen, requests, Proc, Http
    <3> QED
      BY <3>1, <3>2
  <2> QED
    BY <1>1, <2>1, <2>2, <2>3 DEF Boot
<1>2. CASE Signal
  <2>1. CASE proc = "boot"
    BY <1>2, <2>1, EndType DEF Signal, Proc
  <2>2. CASE proc # "boot"
    BY <1>2, <2>2 DEF TypeOK, Signal, requests, Stop
  <2> QED
    BY <2>1, <2>2
<1>3. CASE Disconnect \/ CloseServer
  <2>1. CASE End("exit1")
    BY <2>1, EndType DEF Proc
  <2>2. CASE ~End("exit1")
    BY <1>3, <2>2 DEF TypeOK, Disconnect, CloseServer, requests, Stop, Http
  <2> QED
    BY <2>1, <2>2
<1>4. CASE Exit
  BY <1>4, EndType DEF Exit, Proc
<1>5. CASE DatabaseFails \/ DatabaseReturns
  BY <1>5 DEF TypeOK, DatabaseFails, DatabaseReturns, process, requests
<1>6. CASE MinuteEnds
  BY <1>6, LimitAssumption DEF TypeOK, MinuteEnds, process
<1>7. ASSUME NEW p \in Probe, NEW rt \in Route, Connect(p, rt) PROVE TypeOK'
  BY <1>7, ConnectedType, WebAssumption DEF Connect, Request
<1>8. ASSUME NEW v \in View, LoadPage(v) PROVE TypeOK'
  <2>1. CASE Connected(v, "ready")
    BY <2>1, ConnectedType DEF Route, Request
  <2>2. CASE ~Connected(v, "ready")
    <3>1. phase' \in [Request -> Phase]
      BY <1>8, <2>2, GotoType DEF LoadPage, Phase, Request
    <3> QED
      BY <1>8, <2>2, <3>1 DEF TypeOK, LoadPage, process
  <2> QED
    BY <2>1, <2>2
<1>9. ASSUME NEW v \in View, Render(v) PROVE TypeOK'
  <2>1. PageStatus(phase[v]) \in Phase
    BY DEF PageStatus, Phase, Label
  <2>2. phase' \in [Request -> Phase]
    BY <1>9, <2>1, GotoType DEF Render, Request
  <2> QED
    BY <1>9, <2>2 DEF TypeOK, Render, process
<1>10. ASSUME NEW r \in Request, Handle(r) PROVE TypeOK'
  <2>1. Client(r) \in Probe \cup {Web} /\ route[r] \in Route
    BY DEF TypeOK, Client, Request
  <2>2. hits' \in [(Probe \cup {Web}) \X Route -> 0..Limit]
    BY <1>10, <2>1, LimitAssumption DEF TypeOK, Handle
  <2>3. phase' \in [Request -> Phase] /\ kept' \subseteq Request
    BY <1>10, GotoType, AnsweredType DEF Handle, Check, TypeOK, Phase, InUse, Status
  <2> QED
    BY <1>10, <2>2, <2>3 DEF TypeOK, Handle, process
<1>11. ASSUME NEW r \in Request, Answer(r) \/ AnswerDown(r) \/ Drop(r) PROVE TypeOK'
  <2>1. phase' \in [Request -> Phase] /\ kept' \subseteq Request
    BY <1>11, AnsweredType DEF TypeOK, Answer, AnswerDown, Drop, Status
  <2> QED
    BY <1>11, <2>1 DEF TypeOK, Answer, AnswerDown, Drop, process
<1>13. ASSUME NEW r \in Request, Leave(r) \/ Finish(r) PROVE TypeOK'
  <2>1. /\ phase' \in [Request -> Phase] /\ route' \in [Request -> Route]
        /\ \A v \in View : route'[v] = "ready"
    BY <1>13, GotoType DEF TypeOK, Leave, Finish, Phase, Route, Request
  <2> QED
    BY <1>13, <2>1 DEF TypeOK, Leave, Finish, process
<1>12. CASE UNCHANGED vars
  BY <1>12 DEF TypeOK, vars, process, requests
<1> QED
  BY <1>1, <1>2, <1>3, <1>4, <1>5, <1>6, <1>7, <1>8, <1>9, <1>10, <1>11, <1>12,
     <1>13 DEF Next, Shutdown, Reply

-----------------------------------------------------------------------------
(* What the requests have seen of the database                             *)

LEMMA EndServed ==
  ASSUME IInv, NEW p \in Proc, End(p)
  PROVE  InFlightServed' /\ ViewsServed'
BY DEF IInv, TypeOK, InFlightServed, ViewsServed, End, InUse, Request

LEMMA ConnectedServed ==
  ASSUME IInv, NEW r \in Request, NEW rt \in Route, Connected(r, rt)
  PROVE  InFlightServed' /\ ViewsServed'
BY DEF IInv, TypeOK, InFlightServed, ViewsServed, Connected, Goto, InUse, Request

LEMMA QuietServed ==
  ASSUME IInv, Quiet
  PROVE  InFlightServed' /\ ViewsServed'
BY DEF IInv, InFlightServed, ViewsServed, Quiet

\* A request goes on: it is not taken for served by that.
LEMMA GotoServed ==
  ASSUME IInv, NEW r \in Request, NEW ph \in Phase, Goto(r, ph),
         UNCHANGED <<database, served>>,
         ph \in InUse => phase[r] \in InUse,
         ph \in {"200", "healthy"} /\ r \in View => r \in served
  PROVE  InFlightServed' /\ ViewsServed'
BY DEF IInv, TypeOK, InFlightServed, ViewsServed, Goto, Request

LEMMA ServedStep ==
  ASSUME IInv, [Next]_vars
  PROVE  InFlightServed' /\ ViewsServed'
<1> USE DEF Request
<1>1. CASE Boot \/ Signal \/ Disconnect \/ CloseServer \/ Exit \/ UNCHANGED vars
  <2>1. Quiet \/ \E p \in Proc : End(p)
    BY <1>1 DEF Boot, Configure, ConnectDatabase, Listen, BootTo, Signal, Disconnect,
                CloseServer, Exit, vars, requests, Quiet, Proc
  <2> QED
    BY <2>1, EndServed, QuietServed
<1>2. CASE DatabaseFails \/ DatabaseReturns
  BY <1>2 DEF IInv, InFlightServed, ViewsServed, DatabaseFails, DatabaseReturns, requests
<1>3. CASE MinuteEnds
  BY <1>3 DEF IInv, InFlightServed, ViewsServed, MinuteEnds
<1>4. ASSUME NEW p \in Probe, NEW rt \in Route, Connect(p, rt)
      PROVE  InFlightServed' /\ ViewsServed'
  BY <1>4, ConnectedServed DEF Connect
<1>5. ASSUME NEW v \in View, LoadPage(v)
      PROVE  InFlightServed' /\ ViewsServed'
  <2>1. CASE Connected(v, "ready")
    BY <2>1, ConnectedServed DEF Route
  <2>2. CASE ~Connected(v, "ready")
    BY <1>5, <2>2, GotoServed DEF LoadPage, Phase, InUse
  <2> QED
    BY <2>1, <2>2
<1>6. ASSUME NEW v \in View, Render(v)
      PROVE  InFlightServed' /\ ViewsServed'
  <2>1. PageStatus(phase[v]) \in Label /\ PageStatus(phase[v]) = "healthy" => phase[v] = "200"
    BY DEF PageStatus, Label
  <2>2. PageStatus(phase[v]) \in Phase \ (InUse \cup {"200"})
    BY DEF PageStatus, Phase, InUse, Label
  <2>3. phase[v] = "200" => v \in served
    BY DEF IInv, ViewsServed
  <2> QED
    BY <1>6, <2>1, <2>2, <2>3, GotoServed DEF Render, PageStatus
<1>7. ASSUME NEW r \in Request, Handle(r)
      PROVE  InFlightServed' /\ ViewsServed'
  <2>1. r \in View => route[r] = "ready"
    BY DEF IInv, TypeOK
  <2> QED
    BY <1>7, <2>1, GotoServed DEF Handle, Check, Answered, Phase, InUse, Status
<1>8. ASSUME NEW r \in Request, Answer(r)
      PROVE  InFlightServed' /\ ViewsServed'
  <2>1. r \in View => r \in served
    BY <1>8 DEF IInv, InFlightServed, Answer, InUse
  <2> QED
    BY <1>8, <2>1, GotoServed DEF Answer, Answered, Phase, InUse, Status
<1>9. ASSUME NEW r \in Request, AnswerDown(r) \/ Leave(r)
      PROVE  InFlightServed' /\ ViewsServed'
  BY <1>9, GotoServed DEF AnswerDown, Answered, Leave, Phase, InUse, Status
<1>10. ASSUME NEW r \in Request, Finish(r)
       PROVE  InFlightServed' /\ ViewsServed'
  BY <1>10 DEF IInv, TypeOK, InFlightServed, ViewsServed, Finish, Goto, InUse
<1>11. ASSUME NEW r \in Request, Drop(r)
       PROVE  InFlightServed' /\ ViewsServed'
  BY <1>11 DEF IInv, InFlightServed, ViewsServed, Drop
<1> QED
  BY <1>1, <1>2, <1>3, <1>4, <1>5, <1>6, <1>7, <1>8, <1>9, <1>10, <1>11
     DEF Next, Shutdown, Reply

LEMMA Invariance == Spec => []IInv
<1>1. Init => IInv
  BY LimitAssumption
     DEF Init, IInv, TypeOK, InFlightServed, ViewsServed, Proc, Http, Stop, Phase, Route,
         Request, InUse
<1>2. IInv /\ [Next]_vars => IInv'
  BY TypeStep, ServedStep DEF IInv
<1> QED
  BY <1>1, <1>2, PTL DEF Spec

-----------------------------------------------------------------------------
(* The API implements DrainContract                                        *)

inflightView == {r \in Request : phase[r] \in InUse}

\* The server listens while the process is up, is closing only by the shutdown
\* that will end it, and has requests only between its start and the end.
Serving ==
  /\ http # "unbound" <=> proc = "up"
  /\ Running => (stop = "closing" <=> http = "closing")
  /\ http = "unbound" => kept = {} /\ \A r \in Request : phase[r] \notin InUse

\* The steps of the requests and of the world leave the process alone.
LEMMA ProcessKept ==
  ASSUME [Next]_vars, ~(Boot \/ Signal \/ Shutdown)
  PROVE  UNCHANGED process
BY DEF Next, Boot, Shutdown, DatabaseFails, DatabaseReturns, MinuteEnds, Connect, LoadPage,
       Connected, Render, Reply, Handle, Answer, AnswerDown, Drop, Leave, Finish, vars, process

\* What a step of one request does to its connection: the request is let in, is
\* over, or goes on, and an idle connection may be closed.
Moves(r) ==
  /\ \A x \in Request \ {r} : phase'[x] = phase[x]
  /\ \/ /\ phase[r] \notin InUse /\ phase'[r] \in InUse
        /\ Reachable(r) /\ kept' = kept \ {r}
     \/ /\ phase[r] \in InUse /\ phase'[r] \notin InUse
        /\ kept' \in {kept, kept \cup {r}}
     \/ /\ phase[r] \in InUse <=> phase'[r] \in InUse
        /\ kept' \in {kept, kept \ {r}}

LEMMA AnsweredMoves ==
  ASSUME TypeOK, NEW r \in Request, NEW st \in Status, Answered(r, st), phase[r] \in InUse
  PROVE  Moves(r)
<1>1. phase'[r] \notin InUse /\ \A x \in Request \ {r} : phase'[x] = phase[x]
  BY DEF TypeOK, Answered, Goto, Status, InUse
<1>2. kept' \in {kept, kept \cup {r}}
  <2>1. {r} \cap KeepAlive = {r} \/ {r} \cap KeepAlive = {}
    OBVIOUS
  <2> QED
    BY <2>1 DEF Answered
<1> QED
  BY <1>1, <1>2 DEF Moves

\* A request goes on to another phase, and its connection stays what it is.
LEMMA GotoMoves ==
  ASSUME TypeOK, NEW r \in Request, NEW ph, Goto(r, ph), kept' = kept,
         ph \in InUse => phase[r] \in InUse
  PROVE  Moves(r)
BY DEF TypeOK, Goto, Moves

LEMMA ConnectedMoves ==
  ASSUME TypeOK, NEW r \in Request, NEW rt, Connected(r, rt), Reachable(r), phase[r] = "none"
  PROVE  Moves(r)
BY DEF TypeOK, Connected, Goto, Moves, InUse

\* Every step of a request or of the world is one of those, or leaves the
\* requests alone.
LEMMA OneMoves ==
  ASSUME TypeOK, [Next]_vars, ~(Boot \/ Signal \/ Shutdown)
  PROVE  UNCHANGED <<phase, kept>> \/ \E r \in Request : Moves(r)
<1>1. ASSUME NEW p \in Probe, NEW rt \in Route, Connect(p, rt) PROVE Moves(p)
  BY <1>1, ConnectedMoves DEF Connect, Request
<1>2. ASSUME NEW v \in View, LoadPage(v) PROVE Moves(v)
  BY <1>2, ConnectedMoves, GotoMoves DEF LoadPage, InUse, Request
<1>3. ASSUME NEW v \in View, Render(v) PROVE Moves(v)
  <2>1. PageStatus(phase[v]) \notin InUse
    BY DEF PageStatus, InUse
  <2> QED
    BY <1>3, <2>1, GotoMoves DEF Render, Request
<1>4. ASSUME NEW r \in Request, Handle(r) PROVE Moves(r)
  BY <1>4, AnsweredMoves, GotoMoves DEF Handle, Check, InUse, Status
<1>5. ASSUME NEW r \in Request, Answer(r) \/ AnswerDown(r) PROVE Moves(r)
  BY <1>5, AnsweredMoves DEF Answer, AnswerDown, InUse, Status
<1>6. ASSUME NEW r \in Request, Drop(r) PROVE Moves(r)
  BY <1>6 DEF Drop, Moves
<1>7. ASSUME NEW r \in Request, Leave(r) \/ Finish(r) PROVE Moves(r)
  BY <1>7, GotoMoves DEF Leave, Finish, InUse
<1>8. CASE DatabaseFails \/ DatabaseReturns \/ MinuteEnds \/ UNCHANGED vars
  BY <1>8 DEF DatabaseFails, DatabaseReturns, MinuteEnds, vars, requests
<1> QED
  BY <1>1, <1>2, <1>3, <1>4, <1>5, <1>6, <1>7, <1>8 DEF Next, Reply, Request

LEMMA ServingStep ==
  ASSUME TypeOK, Serving, [Next]_vars
  PROVE  Serving'
<1> USE DEF TypeOK, Serving, Running
<1>1. ASSUME NEW p \in {"stopped", "exit1"}, End(p) PROVE Serving'
  BY <1>1 DEF End, InUse
<1>2. CASE Boot
  BY <1>1, <1>2 DEF Boot, Configure, ConnectDatabase, Listen, BootTo, requests, Http
<1>3. CASE Signal
  <2>1. CASE proc = "boot"
    BY <1>1, <1>3, <2>1 DEF Signal
  <2>2. CASE proc # "boot"
    BY <1>3, <2>2 DEF Signal, requests
  <2> QED
    BY <2>1, <2>2
<1>4. CASE Shutdown
  BY <1>1, <1>4 DEF Shutdown, Disconnect, CloseServer, Exit, requests, Http
<1>5. CASE ~(Boot \/ Signal \/ Shutdown)
  <2>1. UNCHANGED process
    BY <1>5, ProcessKept
  <2>2. http = "unbound" => kept' = {} /\ \A r \in Request : phase'[r] \notin InUse
    <3>1. CASE UNCHANGED <<phase, kept>>
      BY <3>1
    <3>2. ASSUME NEW r \in Request, Moves(r), http = "unbound"
          PROVE  kept' = {} /\ \A x \in Request : phase'[x] \notin InUse
      BY <3>2 DEF Moves, Reachable
    <3> QED
      BY <1>5, <3>1, <3>2, OneMoves
  <2> QED
    BY <2>1, <2>2 DEF process
<1> QED
  BY <1>2, <1>3, <1>4, <1>5

\* However the process ends, the contract allows it.
LEMMA EndImplements ==
  ASSUME TypeOK, Serving, Running, NEW p \in {"stopped", "exit1"}, End(p),
         stop = "closing" => inflightView = {} /\ kept = {}
  PROVE  Contract!EndDrained \/ Contract!EndForced
<1> USE DEF Serving
<1>1. serverView # "closed" /\ serverView' = "closed"
  BY DEF End, serverView, Running
<1>2. inflightView' = {} /\ kept' = {}
  BY DEF End, inflightView, InUse, TypeOK
<1>3. CASE stop = "closing"
  <2>1. serverView = "draining" /\ endView' = "drained"
    BY <1>3 DEF End, serverView, endView, Running
  <2> QED
    BY <1>1, <1>2, <1>3, <2>1 DEF Contract!EndDrained, inflightView
<1>4. CASE stop # "closing"
  <2>1. endView' = "forced"
    BY <1>4 DEF End, endView, Running
  <2> QED
    BY <1>1, <1>2, <2>1 DEF Contract!EndForced, inflightView
<1> QED
  BY <1>3, <1>4

\* What a request does to its connection is a step of the contract.
LEMMA RequestImplements ==
  ASSUME TypeOK, Serving, UNCHANGED process, NEW r \in Request, Moves(r)
  PROVE  [Contract!Next]_(Contract!vars)
<1>1. serverView' = serverView /\ endView' = endView
  BY DEF process, serverView, endView, Running
<1>2. CASE phase[r] \notin InUse /\ phase'[r] \in InUse
  <2>1. \/ serverView = "open" /\ kept' = kept
        \/ r \in kept /\ kept' = kept \ {r}
    BY <1>2 DEF serverView, Moves, Reachable
  <2>2. r \notin inflightView /\ inflightView' = inflightView \cup {r}
    BY <1>2 DEF inflightView, Moves
  <2> QED
    BY <1>1, <2>1, <2>2 DEF Contract!Next, Contract!Enter, inflightView
<1>3. CASE phase[r] \in InUse /\ phase'[r] \notin InUse
  <2>1. serverView # "closed" /\ kept' \in {kept, kept \cup {r}}
    BY <1>3 DEF serverView, Serving, Running, Moves
  <2>2. r \in inflightView /\ inflightView' = inflightView \ {r}
    BY <1>3 DEF inflightView, Moves
  <2> QED
    BY <1>1, <2>1, <2>2 DEF Contract!Next, Contract!Over, inflightView
<1>4. CASE phase[r] \in InUse <=> phase'[r] \in InUse
  <2>1. inflightView' = inflightView /\ kept' \in {kept, kept \ {r}}
    BY <1>4 DEF inflightView, Moves
  <2>2. CASE kept' = kept
    BY <1>1, <2>1, <2>2 DEF Contract!vars, inflightView
  <2>3. CASE kept' # kept
    <3>1. r \in kept /\ kept' = kept \ {r}
      BY <2>1, <2>3
    <3> QED
      BY <1>1, <2>1, <3>1 DEF Contract!Next, Contract!Hangup, inflightView
  <2> QED
    BY <2>2, <2>3
<1> QED
  BY <1>2, <1>3, <1>4

LEMMA DrainStep ==
  ASSUME TypeOK, Serving, [Next]_vars
  PROVE  [Contract!Next]_(Contract!vars)
<1>1. ASSUME UNCHANGED <<http, phase, kept>>, Running, Running', stop' = "closing" <=> stop = "closing"
      PROVE  UNCHANGED Contract!vars
  BY <1>1 DEF Contract!vars, serverView, endView
<1>2. ASSUME Running, NEW p \in {"stopped", "exit1"}, End(p),
             stop = "closing" => inflightView = {} /\ kept = {}
      PROVE  Contract!Next
  BY <1>2, EndImplements DEF Contract!Next
<1>3. CASE Configure \/ ConnectDatabase
  <2>1. Running /\ stop # "closing"
    BY <1>3 DEF Configure, ConnectDatabase, Running, Serving
  <2>2. CASE End("exit1")
    BY <1>2, <2>1, <2>2
  <2>3. CASE BootTo("connect") \/ BootTo("listen")
    BY <1>1, <2>1, <2>3 DEF BootTo, requests, Running
  <2> QED
    BY <1>3, <2>2, <2>3 DEF Configure, ConnectDatabase
<1>4. CASE Listen
  <2>1. Running /\ stop # "closing" /\ http = "unbound"
    BY <1>4 DEF Listen, Running, Serving, TypeOK, Http
  <2>2. CASE End("exit1")
    BY <1>2, <2>1, <2>2
  <2>3. CASE ~End("exit1")
    <3>1. /\ proc' = "up" /\ http' = "bound" /\ stop' = stop
          /\ phase' = phase /\ kept' = kept
      BY <1>4, <2>3 DEF Listen, requests
    <3>2. serverView = "unbound" /\ serverView' = "open" /\ endView' = endView
      BY <2>1, <3>1 DEF serverView, endView, Running
    <3> QED
      BY <3>1, <3>2 DEF Contract!Next, Contract!Bind
  <2> QED
    BY <2>2, <2>3
<1>5. CASE Signal
  <2>1. CASE proc = "boot"
    BY <1>2, <1>5, <2>1 DEF Signal
  <2>2. CASE proc # "boot"
    BY <1>1, <1>5, <2>2 DEF Signal, requests, Running
  <2> QED
    BY <2>1, <2>2
<1>6. CASE Disconnect
  <2>1. CASE End("exit1")
    BY <1>2, <1>6, <2>1 DEF Disconnect
  <2>2. CASE ~End("exit1")
    BY <1>1, <1>6, <2>2 DEF Disconnect, requests, Running
  <2> QED
    BY <2>1, <2>2
<1>7. CASE CloseServer
  <2>1. CASE http = "bound"
    <3>1. serverView = "open" /\ serverView' = "draining" /\ endView' = endView
      BY <1>7, <2>1 DEF CloseServer, serverView, endView, Running
    <3>2. kept' = {} /\ inflightView' = inflightView
      BY <1>7, <2>1 DEF CloseServer, inflightView
    <3> QED
      BY <3>1, <3>2 DEF Contract!Next, Contract!Drain, inflightView
  <2>2. CASE http # "bound"
    BY <1>1, <1>7, <2>2 DEF CloseServer, requests, Running
  <2> QED
    BY <2>1, <2>2
<1>8. CASE Exit
  BY <1>2, <1>8 DEF Exit, inflightView
<1>9. CASE ~(Boot \/ Signal \/ Shutdown)
  <2>1. UNCHANGED process
    BY <1>9, ProcessKept
  <2>2. CASE UNCHANGED <<phase, kept>>
    BY <2>1, <2>2 DEF Contract!vars, serverView, endView, process, Running
  <2>3. CASE \E r \in Request : Moves(r)
    BY <2>1, <2>3, RequestImplements
  <2> QED
    BY <1>9, <2>2, <2>3, OneMoves
<1> QED
  BY <1>3, <1>4, <1>5, <1>6, <1>7, <1>8, <1>9 DEF Boot, Shutdown

-----------------------------------------------------------------------------
(* Theorems                                                                *)

\* The process, the throttler's counts and the requests keep their types.
THEOREM TypeCorrect == Spec => []TypeOK
<1>1. IInv => TypeOK
  BY DEF IInv
<1> QED
  BY <1>1, Invariance, PTL

\* No view of the health page is told "healthy" of a database that has been
\* down since it was asked for.
THEOREM PageCurrent == Spec => []PageIsCurrent
<1>1. IInv => PageIsCurrent
  BY DEF IInv, ViewsServed, PageIsCurrent
<1> QED
  BY <1>1, Invariance, PTL

\* The shutdown of the API drains as DrainContract promises, whenever signals
\* come and whatever the database does.
THEOREM ApiDrains == Spec => ImplementsDrain
<1>1. Init => Contract!Init
  BY DEF Init, Contract!Init, serverView, endView, Running, InUse
<1>2. Init => Serving
  BY DEF Init, Serving, Running, InUse
<1>3. TypeOK /\ Serving /\ [Next]_vars => Serving' /\ [Contract!Next]_(Contract!vars)
  BY ServingStep, DrainStep
<1> QED
  BY <1>1, <1>2, <1>3, TypeCorrect, PTL DEF Spec, Contract!Spec, ImplementsDrain
=============================================================================
