----------------------------- MODULE OAuthLogin -----------------------------
(***************************************************************************)
(* Login with Google: GET /auth/google/login hands out a one-time state    *)
(* and redirects to Google; GET /auth/google/callback consumes the state,  *)
(* asks Google for the verified identity, resolves it to an existing       *)
(* account, refuses an account that is not ACTIVE, and stores the session  *)
(* and the time of the login in one transaction before it sets the cookie. *)
(*                                                                         *)
(* Callbacks run concurrently, also for the same state (a browser that     *)
(* repeats the request), while administrators block, activate and delete   *)
(* accounts.                                                               *)
(***************************************************************************)
EXTENDS FiniteSets

CONSTANTS State,   \* OAuth states: bounds how many logins are started
          User,    \* accounts, each linked to one Google identity
          Jti,     \* token identifiers: bounds how many callbacks succeed
          Req,     \* callbacks in flight: bounds the concurrency
          NoState, NoUser, NoJti,
          Store    \* how OAuthStateStore.set reaches its storage

(***************************************************************************)
(* "memory": InMemoryOAuthStateStore, a map in the process, the default of *)
(* OAuthService.  "eager" and "lazy": DbOAuthStateStore, which calls       *)
(* oAuthState.create() and does not await the result; "eager" if the call  *)
(* itself starts the query, "lazy" if only awaiting its result does, as    *)
(* AuthService relies on when it passes un-awaited calls to $transaction.  *)
(***************************************************************************)
ASSUME StoreAssumption == Store \in {"memory", "eager", "lazy"}
ASSUME NoneAssumption ==
  NoState \notin State /\ NoUser \notin User /\ NoJti \notin Jti

VARIABLES states,    \* [State -> the stored state]
          account,   \* [User -> its accountStatus, or deleted]
          touched,   \* accounts whose connection has a lastUsedAt
          loggedIn,  \* accounts whose lastLoginAt is set
          minted,    \* [Jti -> for whom and from which callback it was signed]
          row,       \* tokens with a row in auth_tokens
          held,      \* tokens some browser has received in its cookie
          adrift,    \* transactions (by token) nobody waits for
          pc,        \* [Req -> where the callback is]
          call       \* [Req -> its arguments and local variables]

db   == <<account, touched, loggedIn, row>>
vars == <<states, account, touched, loggedIn, minted, row, held, adrift, pc, call>>

-----------------------------------------------------------------------------
\* sending: handed out, its insert not executed; stale: past its TTL, still
\* stored; gone: consumed, cleaned up or never stored.
StateStatus == {"unused", "sending", "stored", "stale", "gone"}
Status      == {"active", "blocked", "deleted"}    \* blocked: LOCKED, SUSPENDED
Reply       == {"302", "403", "500"}
Querying    == {"consume", "google", "resolve", "touch", "commit"}
Phase       == {"idle"} \cup Querying \cup Reply

\* eligible is a history variable: the account was active at some instant
\* since the callback arrived.
Call   == [state : State \cup {NoState}, user : User \cup {NoUser},
           tok : Jti \cup {NoJti}, seen : Status, eligible : BOOLEAN]
Origin == [state : State \cup {NoState}, user : User \cup {NoUser}, eligible : BOOLEAN]

NoCall   == [state |-> NoState, user |-> NoUser, tok |-> NoJti,
             seen |-> "deleted", eligible |-> FALSE]
NoOrigin == [state |-> NoState, user |-> NoUser, eligible |-> FALSE]

Exists(u) == u \in User /\ account[u] # "deleted"
Goto(r, phase) == pc' = [pc EXCEPT ![r] = phase]

Init == /\ states = [s \in State |-> "unused"]
        /\ account \in [User -> {"active", "blocked"}]
        /\ touched = {} /\ loggedIn = {} /\ row = {} /\ held = {} /\ adrift = {}
        /\ minted = [t \in Jti |-> NoOrigin]
        /\ pc = [r \in Req |-> "idle"]
        /\ call = [r \in Req |-> NoCall]

-----------------------------------------------------------------------------
(* GET /auth/google/login                                                  *)

\* The memory store also drops the states that are past their TTL.
Issue(s) ==
  /\ states[s] = "unused"
  /\ states' = IF Store = "memory"
                 THEN [x \in State |-> CASE x = s -> "stored"
                                         [] states[x] = "stale" -> "gone"
                                         [] OTHER -> states[x]]
                 ELSE [states EXCEPT ![s] = "sending"]
  /\ UNCHANGED <<db, minted, held, adrift, pc, call>>

\* The insert nobody waits for is executed, if it was ever started.
StoreState(s) == /\ states[s] = "sending" /\ Store = "eager"
                 /\ states' = [states EXCEPT ![s] = "stored"]
                 /\ UNCHANGED <<db, minted, held, adrift, pc, call>>

Age(s) == /\ states[s] = "stored"
          /\ states' = [states EXCEPT ![s] = "stale"]
          /\ UNCHANGED <<db, minted, held, adrift, pc, call>>

-----------------------------------------------------------------------------
(* GET /auth/google/callback                                               *)

\* A browser comes back with a state it was given and the code of the Google
\* identity of u, or of an identity no account is linked to.
Callback(r, s, u) ==
  /\ pc[r] = "idle"
  /\ states[s] # "unused"
  /\ Goto(r, "consume")
  /\ call' = [call EXCEPT ![r] = [NoCall EXCEPT !.state = s, !.user = u,
                !.eligible = (Exists(u) /\ account[u] = "active")]]
  /\ UNCHANGED <<states, db, minted, held, adrift>>

\* Faulty variant of Consume: the state is read and not deleted.
ConsumeKeeping(r) ==
  /\ pc[r] = "consume"
  /\ Goto(r, IF states[call[r].state] = "stored" THEN "google" ELSE "500")
  /\ UNCHANGED <<states, db, minted, held, adrift, call>>

\* Faulty variant of Consume: the time to live is not looked at.
ConsumeStale(r) ==
  /\ pc[r] = "consume"
  /\ Goto(r, IF states[call[r].state] \in {"stored", "stale"} THEN "google" ELSE "500")
  /\ states' = [states EXCEPT ![call[r].state] =
                  IF @ \in {"stored", "stale"} THEN "gone" ELSE @]
  /\ UNCHANGED <<db, minted, held, adrift, call>>

\* Delete-and-return: the state is gone whether it was still valid or not.
Consume(r) ==
  /\ pc[r] = "consume"
  /\ Goto(r, IF states[call[r].state] = "stored" THEN "google" ELSE "500")
  /\ states' = [states EXCEPT ![call[r].state] =
                  IF @ \in {"stored", "stale"} THEN "gone" ELSE @]
  /\ UNCHANGED <<db, minted, held, adrift, call>>

\* The delete is executed and its acknowledgement is lost.
ConsumeUnacked(r) ==
  /\ pc[r] = "consume"
  /\ Store # "memory"
  /\ Goto(r, "500")
  /\ states' = [states EXCEPT ![call[r].state] =
                  IF @ \in {"stored", "stale"} THEN "gone" ELSE @]
  /\ UNCHANGED <<db, minted, held, adrift, call>>

\* Google exchanges the code and returns a profile with a verified e-mail.
Google(r) == /\ pc[r] = "google"
             /\ Goto(r, "resolve")
             /\ UNCHANGED <<states, db, minted, held, adrift, call>>

\* The connection is found with its account, whose status is kept for later.
Resolve(r) == /\ pc[r] = "resolve"
              /\ IF Exists(call[r].user)
                   THEN /\ call' = [call EXCEPT ![r].seen = account[call[r].user]]
                        /\ Goto(r, "touch")
                   ELSE /\ Goto(r, "500")
                        /\ UNCHANGED call
              /\ UNCHANGED <<states, db, minted, held, adrift>>

\* lastUsedAt is updated before the status is looked at.
Touch(r) == /\ Exists(call[r].user)
            /\ touched' = touched \cup {call[r].user}

\* Faulty variant of TouchActive: the status is not looked at.
TouchAny(r, t) ==
  /\ pc[r] = "touch"
  /\ Touch(r)
  /\ minted[t] = NoOrigin
  /\ minted' = [minted EXCEPT ![t] = [state |-> call[r].state, user |-> call[r].user,
                                      eligible |-> call[r].eligible]]
  /\ call' = [call EXCEPT ![r].tok = t]
  /\ Goto(r, "commit")
  /\ UNCHANGED <<states, account, loggedIn, row, held, adrift>>

\* The account was ACTIVE when it was read: a token with a fresh jti is signed
\* and the transaction sent.
TouchActive(r, t) ==
  /\ pc[r] = "touch"
  /\ call[r].seen = "active"
  /\ Touch(r)
  /\ minted[t] = NoOrigin
  /\ minted' = [minted EXCEPT ![t] = [state |-> call[r].state, user |-> call[r].user,
                                      eligible |-> call[r].eligible]]
  /\ call' = [call EXCEPT ![r].tok = t]
  /\ Goto(r, "commit")
  /\ UNCHANGED <<states, account, loggedIn, row, held, adrift>>

TouchBlocked(r) == /\ pc[r] = "touch"
                   /\ call[r].seen = "blocked"
                   /\ Touch(r)
                   /\ Goto(r, "403")
                   /\ UNCHANGED <<states, account, loggedIn, minted, row, held, adrift, call>>

\* The connection was deleted with its account: the update fails.
TouchMissing(r) == /\ pc[r] = "touch"
                   /\ ~Exists(call[r].user)
                   /\ Goto(r, "500")
                   /\ UNCHANGED <<states, db, minted, held, adrift, call>>

\* Faulty variant of CanCommit: auth_tokens without the foreign key to users.
CanCommitAnyway(t) == minted[t] # NoOrigin

\* The account still exists.
CanCommit(t) == Exists(minted[t].user)

\* Faulty variant of Transaction: the two writes are not one transaction, and
\* the second one may fail.
TransactionSplit(t) == /\ row' = row \cup {t}
                       /\ loggedIn' \in {loggedIn, loggedIn \cup {minted[t].user}}
                       /\ UNCHANGED <<account, touched>>

\* The transaction: the session's row and the account's lastLoginAt, or none.
Transaction(t) == /\ row' = row \cup {t}
                  /\ loggedIn' = loggedIn \cup {minted[t].user}
                  /\ UNCHANGED <<account, touched>>

Commit(r) == /\ pc[r] = "commit"
             /\ IF CanCommit(call[r].tok)
                  THEN Transaction(call[r].tok) /\ Goto(r, "302")
                  ELSE UNCHANGED db /\ Goto(r, "500")
             /\ UNCHANGED <<states, minted, held, adrift, call>>

-----------------------------------------------------------------------------
(* Failures                                                                *)

\* Faulty variant of StepFails: Google may keep a callback waiting for ever.
StepFailsUntimed(r) == /\ pc[r] \in Querying \ {"google"}
                       /\ Goto(r, "500")
                       /\ UNCHANGED <<states, db, minted, held, adrift, call>>

\* A query fails; Google refuses the code, does not answer within 10 seconds,
\* or does not vouch for the e-mail.
StepFails(r) == /\ pc[r] \in Querying
                /\ Goto(r, "500")
                /\ UNCHANGED <<states, db, minted, held, adrift, call>>

AckLost(r) == /\ pc[r] = "commit"
              /\ adrift' = adrift \cup {call[r].tok}
              /\ Goto(r, "500")
              /\ UNCHANGED <<states, db, minted, held, call>>

\* What became of a transaction nobody waits for.
Settle(t) == /\ t \in adrift
             /\ adrift' = adrift \ {t}
             /\ \/ CanCommit(t) /\ Transaction(t)
                \/ UNCHANGED db
             /\ UNCHANGED <<states, minted, held, pc, call>>

Free(r) == /\ Goto(r, "idle")
           /\ call' = [call EXCEPT ![r] = NoCall]

\* Faulty variants of Deliver: the cookie is set on an error as well, with the
\* token if there is one; with or without one.
DeliverAlways(r) == /\ pc[r] \in Reply
                    /\ held' = held \cup ({call[r].tok} \ {NoJti})
                    /\ Free(r)
                    /\ UNCHANGED <<states, db, minted, adrift>>

DeliverBlank(r) == /\ pc[r] \in Reply
                   /\ held' = held \cup {call[r].tok}
                   /\ Free(r)
                   /\ UNCHANGED <<states, db, minted, adrift>>

\* The browser receives the reply; the redirect sets the jwt cookie.
Deliver(r) == /\ pc[r] \in Reply
              /\ held' = IF pc[r] = "302" THEN held \cup {call[r].tok} ELSE held
              /\ Free(r)
              /\ UNCHANGED <<states, db, minted, adrift>>

LoseReply(r) == /\ pc[r] \in Reply
                /\ Free(r)
                /\ UNCHANGED <<states, db, minted, held, adrift>>

\* Every callback vanishes.  A transaction in flight is adrift; an insert of a
\* state may still be executed if it was started; the memory store is lost.
AfterCrash(s) ==
  CASE states[s] = "sending" -> IF Store = "eager" THEN {"stored", "gone"} ELSE {"gone"}
    [] states[s] \in {"stored", "stale"} /\ Store = "memory" -> {"gone"}
    [] OTHER -> {states[s]}

Stop == /\ states' \in {f \in [State -> StateStatus] : \A s \in State : f[s] \in AfterCrash(s)}
        /\ adrift' = adrift \cup {call[r].tok : r \in {q \in Req : pc[q] = "commit"}}
        /\ pc' = [r \in Req |-> "idle"]
        /\ call' = [r \in Req |-> NoCall]
        /\ UNCHANGED <<db, minted, held>>

Crash == /\ \/ \E r \in Req : pc[r] # "idle"
            \/ \E s \in State : states[s] \in {"sending", "stored", "stale"}
         /\ Stop

\* The insert of a state fails: nothing handles the rejection of the promise
\* that was dropped, which ends the process.
StoreFails(s) == /\ states[s] = "sending" /\ Store = "eager"
                 /\ Stop
                 /\ states'[s] = "gone"

-----------------------------------------------------------------------------
(* Administrators                                                          *)

\* The status is set; callbacks in flight for the account become eligible if
\* it is activated.
SetStatus(u, status) ==
  /\ Exists(u) /\ account[u] # status
  /\ account' = [account EXCEPT ![u] = status]
  /\ call' = [r \in Req |-> IF call[r].user = u /\ status = "active"
                              THEN [call[r] EXCEPT !.eligible = TRUE] ELSE call[r]]
  /\ UNCHANGED <<states, touched, loggedIn, minted, row, held, adrift, pc>>

\* ON DELETE CASCADE takes the connection and the rows of the tokens.
DeleteUser(u) == /\ Exists(u)
                 /\ account' = [account EXCEPT ![u] = "deleted"]
                 /\ touched' = touched \ {u}
                 /\ loggedIn' = loggedIn \ {u}
                 /\ row' = {t \in row : minted[t].user # u}
                 /\ UNCHANGED <<states, minted, held, adrift, pc, call>>

-----------------------------------------------------------------------------
\* The steps of the process and of the database for one callback.
Step(r) == \/ Consume(r) \/ ConsumeUnacked(r) \/ Resolve(r)
           \/ (\E t \in Jti : TouchActive(r, t)) \/ TouchBlocked(r) \/ TouchMissing(r)
           \/ Commit(r) \/ StepFails(r) \/ AckLost(r) \/ Deliver(r) \/ LoseReply(r)

Next == \/ \E s \in State : Issue(s) \/ StoreState(s) \/ StoreFails(s) \/ Age(s)
        \/ \E r \in Req, s \in State, u \in User \cup {NoUser} : Callback(r, s, u)
        \/ \E r \in Req : Step(r) \/ Google(r)
        \/ \E t \in Jti : Settle(t)
        \/ \E u \in User : DeleteUser(u) \/ SetStatus(u, "active") \/ SetStatus(u, "blocked")
        \/ Crash

Spec == Init /\ [][Next]_vars

\* The event loop, the database and the timeouts on Google get to every
\* callback in the end, and the database to every insert that was started.
\* Google itself may never answer.
FairSpec == /\ Spec
            /\ \A r \in Req : WF_vars(Step(r))
            /\ \A s \in State : WF_vars(StoreState(s) \/ StoreFails(s))

-----------------------------------------------------------------------------
(* Properties                                                              *)

\* The types of the stores, the browsers and the callbacks' local variables.
TypeOK == /\ states \in [State -> StateStatus]
          /\ account \in [User -> Status]
          /\ touched \subseteq User /\ loggedIn \subseteq User
          /\ minted \in [Jti -> Origin]
          /\ row \subseteq Jti /\ held \subseteq Jti /\ adrift \subseteq Jti
          /\ pc \in [Req -> Phase]
          /\ call \in [Req -> Call]

\* One handed-out state yields at most one token, whatever the number of
\* concurrent or repeated callbacks, failures and restarts: repeating a
\* callback after any outcome never logs in a second time.
OneLoginPerState ==
  \A t1, t2 \in Jti : t1 # t2 /\ minted[t1] # NoOrigin => minted[t1].state # minted[t2].state

\* A token is signed only for an account that was ACTIVE at some instant of
\* its callback.  The status is read two queries before the session is stored,
\* so it need not be ACTIVE any more at that point.
OnlyActiveAccounts == \A t \in Jti : minted[t] # NoOrigin => minted[t].eligible

\* A browser that holds a session cookie from Google belongs to an account
\* that recorded the login and can revoke the session, unless it is deleted:
\* no failure leaves one of the two without the other.
CookieIsBacked ==
  \A t \in held : Exists(minted[t].user) => t \in row /\ minted[t].user \in loggedIn

\* A session and the record of its login stand together also when no browser
\* ever received the cookie.
TransactionIsAtomic == \A t \in row : minted[t].user \in loggedIn

\* Every callback is answered or abandoned in the end.
Answered == \A r \in Req : pc[r] # "idle" ~> pc[r] = "idle"

\* "Fire-and-forget -- callers don't await set()": the insert of a state that
\* was handed out is executed, or fails, in the end.
IssuedIsStored == \A s \in State : states[s] = "sending" ~> states[s] # "sending"

-----------------------------------------------------------------------------
(* The store inside OAuthLogin implements StateStoreContract.              *)

StoreLife(st) == CASE st = "sending" -> "handed" [] st = "stored" -> "valid"
                   [] st = "stale" -> "expired" [] OTHER -> st

verdict(r)   == CASE pc[r] = "idle" -> "idle" [] pc[r] = "consume" -> "asking"
                  [] pc[r] = "500" -> "over" [] OTHER -> "granted"
Presented(r) == [state |-> call[r].state, verdict |-> verdict(r)]

lifeView == [s \in State |-> StoreLife(states[s])]
askView  == [r \in Req |-> Presented(r)]

StoreContract == INSTANCE StateStoreContract WITH life <- lifeView, ask <- askView

\* OAuthStateStore: consume() is atomic, lets one callback through and enforces
\* the time to live, with any number of callbacks of one state, lost answers,
\* clean-ups and restarts.
ImplementsStore == StoreContract!Spec

-----------------------------------------------------------------------------
(* Its sessions implement SessionContract, the one the password sessions   *)
(* implement.  The callback presents no session and closes none.           *)

SessionOf(t) == IF t \in row THEN "open"
                ELSE IF minted[t] # NoOrigin /\ ~Exists(minted[t].user) THEN "orphan"
                ELSE "none"
sessionView == [t \in Jti |-> SessionOf(t)]

Sessions == INSTANCE SessionContract
              WITH session <- sessionView, closing <- {},
                   ask <- [r \in Req |-> [tok |-> NoJti, verdict |-> "idle"]]

\* A session of a Google login opens once, only while its account exists, and
\* ends with the account: no transaction that is late, lost or repeated opens
\* one for an account that was deleted in between.
ImplementsSessions == Sessions!Spec
=============================================================================
