------------------------------ MODULE ApiProcess ------------------------------
(***************************************************************************)
(* The API process: the environment it is configured from, its start-up    *)
(* with or without a database, the health probes behind the throttler, the *)
(* health page of the web application that asks one of them, and the       *)
(* shutdown Nest performs at a signal.                                     *)
(***************************************************************************)
EXTENDS Naturals

CONSTANTS Env,        \* environments the process may be started in
          Probe,      \* probes sent directly; each is a client to the throttler
          View,       \* views of the health page of the web application
          Web,        \* the Next.js server, the one client behind all views
          KeepAlive,  \* requests whose client keeps its connection alive
          Limit       \* requests a minute the throttler allows a client on a route

\* empty: also origins that are only commas and spaces.  bad: does not parse.
Setting == {"API_PORT", "CORS_ORIGINS", "API_DOCS_ENABLED", "JWT_SECRET",
            "JWT_EXPIRATION", "JWT_ISSUER", "JWT_AUDIENCE", "DATABASE_URL"}
Value   == {"unset", "empty", "bad", "good"}

ASSUME EnvAssumption   == Env \subseteq [Setting -> Value]
ASSUME LimitAssumption == Limit \in Nat \ {0}
ASSUME WebAssumption   == Web \notin Probe /\ Probe \cap View = {}

VARIABLES env,       \* the environment
          port,      \* whether the port is free
          database,  \* whether the database answers
          proc,      \* how far the process has come
          http,      \* its server
          stop,      \* how far its shutdown has come
          hits,      \* [client, route -> requests counted in this minute]
          phase,     \* [request -> where it is]
          route,     \* [request -> the route it asks for]
          served,    \* views since whose request the database has been up
          kept       \* requests that are answered and whose connection is kept alive

process  == <<proc, http, stop>>
requests == <<hits, phase, route, served, kept>>
vars     == <<env, port, database, process, requests>>

-----------------------------------------------------------------------------
Request == Probe \cup View
Route   == {"live", "ready"}
Proc    == {"boot", "connect", "listen", "up", "stopped", "exit1"}
Http    == {"unbound", "bound", "closing"}
\* closed: the server was not listening when it was closed.
Stop    == {"none", "disconnect", "close", "closing", "closed"}
Status  == {"200", "429", "503"}
Label   == {"healthy", "degraded", "unavailable"}
InUse   == {"open", "query"}
Phase   == {"none", "lost"} \cup InUse \cup Status \cup Label

Running == proc \in {"boot", "connect", "listen", "up"}
Goto(r, ph) == phase' = [phase EXCEPT ![r] = ph]
Client(r)   == IF r \in View THEN Web ELSE r

\* An answer leaves the connection open for a further request, or not.
Answered(r, st) == Goto(r, st) /\ kept' \in {kept, kept \cup ({r} \cap KeepAlive)}

Init == /\ env \in Env /\ port \in {"free", "taken"} /\ database \in {"up", "down"}
        /\ proc = "boot" /\ http = "unbound" /\ stop = "none"
        /\ hits = [c \in (Probe \cup {Web}) \X Route |-> 0]
        /\ phase = [r \in Request |-> "none"]
        /\ route = [r \in Request |-> "ready"]
        /\ served = {} /\ kept = {}

-----------------------------------------------------------------------------
(* Start-up                                                                *)

\* What parsePort, parseOrigins, parseBoolean, requireString, the constructor
\* of JwtService and requireEnv throw at.
Rejected(s, v) ==
  CASE s \in {"API_PORT", "API_DOCS_ENABLED"}    -> v \in {"empty", "bad"}
    [] s \in {"CORS_ORIGINS", "JWT_EXPIRATION"}  -> v = "empty"
    [] OTHER                                     -> v \in {"unset", "empty"}
Misconfigured == \E s \in Setting : Rejected(s, env[s])

\* The process ends, with whatever requests it still has and with its counts.
End(p) == /\ proc' = p /\ http' = "unbound"
          /\ hits' = [c \in DOMAIN hits |-> 0]
          /\ phase' = [r \in Request |-> IF phase[r] \in InUse THEN "lost" ELSE phase[r]]
          /\ kept' = {}
          /\ UNCHANGED <<env, port, database, stop, route, served>>

BootTo(p) == proc' = p /\ UNCHANGED <<env, port, database, http, stop, requests>>

Configure == /\ proc = "boot"
             /\ IF Misconfigured THEN End("exit1") ELSE BootTo("connect")

\* Faulty variant of ConnectDatabase: the failure of $connect is not caught.
ConnectOrExit == /\ proc = "connect"
                 /\ IF database = "down" THEN End("exit1") ELSE BootTo("listen")

\* onModuleInit: $connect succeeds or fails, which is caught.
ConnectDatabase == proc = "connect" /\ BootTo("listen")

Listen == /\ proc = "listen"
          /\ IF port = "taken" THEN End("exit1")
             ELSE /\ proc' = "up" /\ http' = "bound"
                  /\ UNCHANGED <<env, port, database, stop, requests>>

-----------------------------------------------------------------------------
(* Shutdown: Nest runs onModuleDestroy, closes the server and repeats the   *)
(* signal.  Whatever one of these throws ends the process with code 1.     *)

\* Before enableShutdownHooks a signal ends the process at once.
Signal == /\ Running /\ stop = "none"
          /\ IF proc = "boot" THEN End("stopped")
             ELSE /\ stop' = "disconnect"
                  /\ UNCHANGED <<env, port, database, proc, http, requests>>

\* onModuleDestroy: $disconnect succeeds, or fails, which is not caught.
Disconnect == /\ Running /\ stop = "disconnect"
              /\ \/ /\ stop' = "close"
                    /\ UNCHANGED <<env, port, database, proc, http, requests>>
                 \/ End("exit1")

\* Faulty variant of CloseServer: the close is waited for and the server goes
\* on listening.
CloseServerListening == /\ Running /\ stop = "close"
                        /\ stop' = IF http = "bound" THEN "closing" ELSE "closed"
                        /\ UNCHANGED <<env, port, database, proc, http, requests>>

\* The server stops listening and closes the connections that are idle.
CloseServer == /\ Running /\ stop = "close"
               /\ IF http = "bound" THEN stop' = "closing" /\ http' = "closing" /\ kept' = {}
                                    ELSE stop' = "closed" /\ UNCHANGED <<http, kept>>
               /\ UNCHANGED <<env, port, database, proc, hits, phase, route, served>>

\* Faulty variant of Exit: the connections are not waited for.
ExitAtOnce == Running /\ stop \in {"closed", "closing"} /\ End("stopped")

Exit == /\ Running
        /\ \/ stop = "closed"
           \/ stop = "closing" /\ kept = {} /\ \A r \in Request : phase[r] \notin InUse
        /\ End("stopped")

-----------------------------------------------------------------------------
(* The database                                                            *)

DatabaseFails == /\ database = "up" /\ database' = "down"
                 /\ UNCHANGED <<env, port, process, requests>>

DatabaseReturns == /\ database = "down" /\ database' = "up"
                   /\ served' = {v \in View : phase[v] \in InUse} \cup served
                   /\ UNCHANGED <<env, port, process, hits, phase, route, kept>>

-----------------------------------------------------------------------------
(* Health probes and the health page                                       *)

\* A server that no longer listens still serves the connections it has.
Reachable(r) == http = "bound" \/ r \in kept

Connected(r, rt) ==
  /\ Goto(r, "open") /\ kept' = kept \ {r}
  /\ route' = [route EXCEPT ![r] = rt]
  /\ served' = IF database = "up" /\ r \in View THEN served \cup {r} ELSE served
  /\ UNCHANGED <<env, port, database, process, hits>>

Connect(p, rt) == Reachable(p) /\ phase[p] = "none" /\ Connected(p, rt)

\* Faulty variant of LoadPage: the answer of an earlier fetch is used again.
LoadPageCached(v) ==
  /\ phase[v] = "none"
  /\ \/ /\ Reachable(v) /\ \A w \in View : phase[w] # "healthy"
        /\ Connected(v, "ready")
     \/ /\ \E w \in View : phase[w] = "healthy"
        /\ Goto(v, "healthy")
        /\ served' = IF database = "up" THEN served \cup {v} ELSE served
        /\ UNCHANGED <<env, port, database, process, hits, route, kept>>

\* fetchHealth asks the API for every view (revalidate: 0).
LoadPage(v) ==
  /\ phase[v] = "none"
  /\ \/ Reachable(v) /\ Connected(v, "ready")
     \/ /\ ~Reachable(v) /\ Goto(v, "lost")
        /\ UNCHANGED <<env, port, database, process, hits, route, served, kept>>

\* live has nothing to check, ready sends SELECT 1.
Check(r) == IF route[r] = "live" THEN Answered(r, "200") ELSE Goto(r, "query") /\ UNCHANGED kept

\* Faulty variant of Handle: requests are counted and not limited.
HandleUnlimited(r) ==
  /\ phase[r] = "open"
  /\ Check(r)
  /\ hits' = [hits EXCEPT ![<<Client(r), route[r]>>] = @ + 1]
  /\ UNCHANGED <<env, port, database, process, route, served>>

\* ThrottlerGuard counts a request for its client and route, health included.
Handle(r) ==
  LET c == <<Client(r), route[r]>> IN
  /\ phase[r] = "open"
  /\ IF hits[c] = Limit
       THEN Answered(r, "429") /\ UNCHANGED hits
       ELSE Check(r) /\ hits' = [hits EXCEPT ![c] = @ + 1]
  /\ UNCHANGED <<env, port, database, process, route, served>>

Answer(r) == /\ phase[r] = "query" /\ database = "up"
             /\ Answered(r, "200")
             /\ UNCHANGED <<env, port, database, process, hits, route, served>>

\* A query that fails, at whatever time, is caught and answered as "down".
AnswerDown(r) == /\ phase[r] = "query"
                 /\ Answered(r, "503")
                 /\ UNCHANGED <<env, port, database, process, hits, route, served>>

\* An idle connection is closed by the client or by the server's timeout.
Drop(r) == /\ r \in kept /\ kept' = kept \ {r}
           /\ UNCHANGED <<env, port, database, process, hits, phase, route, served>>

PageStatus(ph) == CASE ph = "200" -> "healthy" [] ph = "lost" -> "unavailable"
                    [] OTHER -> "degraded"

Render(v) == /\ phase[v] \in Status \cup {"lost"}
             /\ Goto(v, PageStatus(phase[v]))
             /\ UNCHANGED <<env, port, database, process, hits, route, served, kept>>

Leave(r) == /\ phase[r] \in InUse
            /\ Goto(r, "lost")
            /\ UNCHANGED <<env, port, database, process, hits, route, served, kept>>

Finish(r) == /\ phase[r] \in IF r \in View THEN Label ELSE Status \cup {"lost"}
             /\ Goto(r, "none")
             /\ served' = served \ {r} /\ route' = [route EXCEPT ![r] = "ready"]
             /\ UNCHANGED <<env, port, database, process, hits, kept>>

MinuteEnds == /\ hits' = [c \in DOMAIN hits |-> 0] /\ hits' # hits
              /\ UNCHANGED <<env, port, database, process, phase, route, served, kept>>

-----------------------------------------------------------------------------
Reply(r) == Handle(r) \/ Answer(r) \/ AnswerDown(r)
Boot     == Configure \/ ConnectDatabase \/ Listen
Shutdown == Disconnect \/ CloseServer \/ Exit

Next == \/ Boot \/ Signal \/ Shutdown \/ DatabaseFails \/ DatabaseReturns \/ MinuteEnds
        \/ \E p \in Probe : \E rt \in Route : Connect(p, rt)
        \/ \E v \in View : LoadPage(v) \/ Render(v)
        \/ \E r \in Request : Reply(r) \/ Drop(r) \/ Leave(r) \/ Finish(r)
Spec == Init /\ [][Next]_vars

\* The process runs.  Nothing is assumed of the queries, of the clients, or of
\* the disconnecting: SELECT 1 has no timeout, a request may never be complete,
\* and a connection that is kept alive may go on asking.
FairSpec == Spec /\ WF_vars(Boot) /\ WF_vars(CloseServer \/ Exit)

-----------------------------------------------------------------------------
(* Properties                                                              *)

TypeOK == /\ env \in Env /\ port \in {"free", "taken"} /\ database \in {"up", "down"}
          /\ proc \in Proc /\ http \in Http /\ stop \in Stop
          /\ hits \in [(Probe \cup {Web}) \X Route -> 0..Limit]
          /\ phase \in [Request -> Phase] /\ route \in [Request -> Route]
          /\ \A v \in View : route[v] = "ready"
          /\ served \subseteq View /\ kept \subseteq Request

\* The health page says "healthy" only if the database has been up at some
\* time since the page was asked for, whatever other views were told.
PageIsCurrent == \A v \in View : phase[v] = "healthy" => v \in served

\* "Do not throw here so the process stays alive when the database is
\* temporarily unavailable": with an environment that parses and a free port
\* the API starts, unless it is stopped, whatever the database does.
Boots == proc = "boot" /\ ~Misconfigured /\ port = "free"
           ~> proc = "up" \/ stop # "none" \/ proc = "stopped"

\* The disconnecting settles, and every connection is closed once in a while.
DisconnectSettles == []<>(stop # "disconnect" \/ ~Running)
ConnectionsEnd    == \A r \in Request : []<>(phase[r] \notin InUse /\ r \notin kept)

\* Only a $disconnect that hangs or a connection that never ends can keep the
\* process alive after a signal: no sequence of new clients, failures or
\* further requests does.
Stops == DisconnectSettles /\ ConnectionsEnd => (stop # "none" ~> ~Running)

-----------------------------------------------------------------------------
(* The API implements DrainContract: it is drained when its shutdown found *)
(* a server to close; a signal that comes before the server listens ends   *)
(* it by force.                                                            *)

serverView == CASE http = "bound"   -> "open"
                [] http = "closing" -> "draining"
                [] OTHER            -> IF Running THEN "unbound" ELSE "closed"
endView    == IF Running THEN "none" ELSE IF stop = "closing" THEN "drained" ELSE "forced"

Contract == INSTANCE DrainContract
              WITH server <- serverView, end <- endView,
                   inflight <- {r \in Request : phase[r] \in InUse}, idle <- kept

\* The shutdown of a listening API accepts no connection and cuts off no
\* request, not even one that comes late on a connection kept alive.
ImplementsDrain == Contract!Spec
=============================================================================
