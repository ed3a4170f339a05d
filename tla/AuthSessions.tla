---------------------------- MODULE AuthSessions ----------------------------
(***************************************************************************)
(* Password sessions of the API: POST /auth/login mints a token and stores *)
(* its row in auth_tokens, the global AuthGuard verifies the token of      *)
(* every other request and looks its row up, GET /auth/me reads the        *)
(* account, POST /auth/logout revokes the row.                             *)
(*                                                                         *)
(* Requests run concurrently in one Node process: a handler runs without   *)
(* interruption from one await to the next, so a phase below is "query     *)
(* sent, not yet executed by the database" or "reply written, not yet      *)
(* received".  Every query may fail, every reply may be lost, the          *)
(* acknowledgement of a write may be lost while the write is still under   *)
(* way, and the process may crash between any two steps.                   *)
(***************************************************************************)
EXTENDS FiniteSets

CONSTANTS User,    \* accounts (rows of users)
          Jti,     \* token identifiers: bounds how many logins succeed
          Req,     \* requests in flight: bounds the concurrency
          NoUser,  \* no account
          NoJti    \* no token

ASSUME NullAssumption == NoUser \notin User /\ NoJti \notin Jti

VARIABLES users,   \* the accounts that still exist
          owner,   \* [Jti -> the sub claim of the token, NoUser if not minted]
          row,     \* [Jti -> its row in auth_tokens]
          expired, \* tokens past their exp claim
          held,    \* tokens some client has received
          adrift,  \* writes the process no longer waits for
          pc,      \* [Req -> where its handler is]
          call     \* [Req -> its arguments and local variables]

vars == <<users, owner, row, expired, held, adrift, pc, call>>

-----------------------------------------------------------------------------
(* How a request carries its token.  "plain": the jwt cookie, or the header *)
(* with one space.  "padded": the header with more than one space after     *)
(* Bearer.  "unusable": no credential, both at once, or one that does not   *)
(* verify.                                                                  *)
Form     == {"plain", "padded", "unusable"}
RowState == {"none", "active", "revoked"}
Reply    == {"200", "204", "401", "404", "500"}
Querying == {"findUser", "insert", "lookup", "readUser", "revoke"}
Writing  == {"insert", "revoke"}
Phase    == {"idle", "verify", "guard", "looked"} \cup Querying \cup Reply

\* late is a history variable: the row was already revoked at arrival.
Call  == [op   : {"none", "login", "me", "logout"},
          user : User \cup {NoUser},
          tok  : Jti \cup {NoJti},
          form : Form,
          seen : RowState \cup {"unread"},
          late : BOOLEAN]
Write == [kind : Writing, jti : Jti]

NoCall == [op |-> "none", user |-> NoUser, tok |-> NoJti, form |-> "plain",
           seen |-> "unread", late |-> FALSE]

Gone(t)  == owner[t] \notin users    \* the account of a minted token is deleted
Goto(r, phase) == pc' = [pc EXCEPT ![r] = phase]

Init == /\ users = User
        /\ owner = [t \in Jti |-> NoUser]
        /\ row = [t \in Jti |-> "none"]
        /\ expired = {} /\ held = {} /\ adrift = {}
        /\ pc = [r \in Req |-> "idle"]
        /\ call = [r \in Req |-> NoCall]

-----------------------------------------------------------------------------
(* POST /auth/login                                                        *)

\* The e-mail of u is posted; u may be deleted, the password may be wrong.
Login(r, u) == /\ pc[r] = "idle"
               /\ Goto(r, "findUser")
               /\ call' = [call EXCEPT ![r] = [NoCall EXCEPT !.op = "login", !.user = u]]
               /\ UNCHANGED <<users, owner, row, expired, held, adrift>>

FindUser(r) == /\ pc[r] = "findUser"
               /\ Goto(r, "verify")
               /\ call' = [call EXCEPT ![r].user = IF @ \in users THEN @ ELSE NoUser]
               /\ UNCHANGED <<users, owner, row, expired, held, adrift>>

\* The hash of an unknown account is compared all the same, with no effect.
RejectPassword(r) == /\ pc[r] = "verify"
                     /\ Goto(r, "401")
                     /\ UNCHANGED <<users, owner, row, expired, held, adrift, call>>

\* Faulty variant of Mint: the insert of the row is not awaited.
MintUnawaited(r, t) == /\ pc[r] = "verify"
                       /\ call[r].user # NoUser
                       /\ owner[t] = NoUser
                       /\ owner' = [owner EXCEPT ![t] = call[r].user]
                       /\ call' = [call EXCEPT ![r].tok = t]
                       /\ adrift' = adrift \cup {[kind |-> "insert", jti |-> t]}
                       /\ Goto(r, "200")
                       /\ UNCHANGED <<users, row, expired, held>>

\* The password matches: a token with a fresh jti is signed, its row is sent.
Mint(r, t) == /\ pc[r] = "verify"
              /\ call[r].user # NoUser
              /\ owner[t] = NoUser
              /\ owner' = [owner EXCEPT ![t] = call[r].user]
              /\ call' = [call EXCEPT ![r].tok = t]
              /\ Goto(r, "insert")
              /\ UNCHANGED <<users, row, expired, held, adrift>>

\* The foreign key to users and the unique jti decide whether it is accepted.
CanInsert(t) == ~Gone(t) /\ row[t] = "none"

Insert(r) == /\ pc[r] = "insert"
             /\ IF CanInsert(call[r].tok)
                  THEN /\ row' = [row EXCEPT ![call[r].tok] = "active"]
                       /\ Goto(r, "200")
                  ELSE /\ Goto(r, "500")
                       /\ UNCHANGED row
             /\ UNCHANGED <<users, owner, expired, held, adrift, call>>

-----------------------------------------------------------------------------
(* AuthGuard.canActivate, for GET /auth/me and POST /auth/logout           *)

Arrive(r, op, t, form) ==
  /\ pc[r] = "idle"
  /\ t \in held
  /\ Goto(r, "guard")
  /\ call' = [call EXCEPT ![r] = [NoCall EXCEPT !.op = op, !.tok = t, !.form = form,
                                                !.late = (row[t] = "revoked")]]
  /\ UNCHANGED <<users, owner, row, expired, held, adrift>>

\* Faulty variant of Verify: a token that does not verify gets no answer.
VerifySilent(r) == /\ pc[r] = "guard"
                   /\ call[r].form # "unusable" /\ call[r].tok \notin expired
                   /\ Goto(r, "lookup")
                   /\ UNCHANGED <<users, owner, row, expired, held, adrift, call>>

Verify(r) == /\ pc[r] = "guard"
             /\ Goto(r, IF call[r].form = "unusable" \/ call[r].tok \in expired
                          THEN "401" ELSE "lookup")
             /\ UNCHANGED <<users, owner, row, expired, held, adrift, call>>

\* The database answers findByJti: a snapshot that may be stale when used.
Lookup(r) == /\ pc[r] = "lookup"
             /\ call' = [call EXCEPT ![r].seen = row[call[r].tok]]
             /\ Goto(r, "looked")
             /\ UNCHANGED <<users, owner, row, expired, held, adrift>>

\* An admitted request runs its handler up to its next query.  The logout
\* handler takes the token from the header without trimming it: a padded one
\* does not decode, nothing is revoked, and the reply is written at once.
Handler(c) == CASE c.op = "me" -> "readUser"
                [] c.op = "logout" /\ c.form = "plain" -> "revoke"
                [] OTHER -> "204"

\* Faulty variants of Resume: the record is not looked at; the revocation is
\* not awaited.
ResumeUnchecked(r) == /\ pc[r] = "looked"
                      /\ Goto(r, Handler(call[r]))
                      /\ UNCHANGED <<users, owner, row, expired, held, adrift, call>>

ResumeUnawaited(r) ==
  /\ pc[r] = "looked"
  /\ LET next == IF call[r].seen = "revoked" THEN "401" ELSE Handler(call[r])
     IN  IF next = "revoke"
           THEN /\ Goto(r, "204")
                /\ adrift' = adrift \cup {[kind |-> "revoke", jti |-> call[r].tok]}
           ELSE Goto(r, next) /\ UNCHANGED adrift
  /\ UNCHANGED <<users, owner, row, expired, held, call>>

\* Only a record that is revoked stops the request, a missing one does not.
Resume(r) == /\ pc[r] = "looked"
             /\ Goto(r, IF call[r].seen = "revoked" THEN "401" ELSE Handler(call[r]))
             /\ UNCHANGED <<users, owner, row, expired, held, adrift, call>>

ReadUser(r) == /\ pc[r] = "readUser"
               /\ Goto(r, IF Gone(call[r].tok) THEN "404" ELSE "200")
               /\ UNCHANGED <<users, owner, row, expired, held, adrift, call>>

\* Faulty variant of Revoke: every token of the account is revoked.
RevokeAll(r) == /\ pc[r] = "revoke"
                /\ row' = [t \in Jti |-> IF owner[t] = owner[call[r].tok] /\ row[t] # "none"
                                          THEN "revoked" ELSE row[t]]
                /\ Goto(r, "204")
                /\ UNCHANGED <<users, owner, expired, held, adrift, call>>

\* An update of a row that does not exist is an error (P2025).
Revoke(r) == /\ pc[r] = "revoke"
             /\ IF row[call[r].tok] = "none"
                  THEN /\ Goto(r, "500")
                       /\ UNCHANGED row
                  ELSE /\ row' = [row EXCEPT ![call[r].tok] = "revoked"]
                       /\ Goto(r, "204")
             /\ UNCHANGED <<users, owner, expired, held, adrift, call>>

-----------------------------------------------------------------------------
(* Failures of the database, the network and the process                   *)

QueryFails(r) == /\ pc[r] \in Querying
                 /\ Goto(r, "500")
                 /\ UNCHANGED <<users, owner, row, expired, held, adrift, call>>

WriteOf(r) == [kind |-> pc[r], jti |-> call[r].tok]

\* The connection breaks under a write: the client sees a 500 while the
\* database may still commit.
AckLost(r) == /\ pc[r] \in Writing
              /\ adrift' = adrift \cup {WriteOf(r)}
              /\ Goto(r, "500")
              /\ UNCHANGED <<users, owner, row, expired, held, call>>

\* What became of a write nobody waits for.
Commit(w) == /\ w \in adrift
             /\ adrift' = adrift \ {w}
             /\ \/ /\ w.kind = "insert" /\ CanInsert(w.jti)
                   /\ row' = [row EXCEPT ![w.jti] = "active"]
                \/ /\ w.kind = "revoke" /\ row[w.jti] # "none"
                   /\ row' = [row EXCEPT ![w.jti] = "revoked"]
             /\ UNCHANGED <<users, owner, expired, held, pc, call>>

Vanish(w) == /\ w \in adrift
             /\ adrift' = adrift \ {w}
             /\ UNCHANGED <<users, owner, row, expired, held, pc, call>>

Free(r) == /\ Goto(r, "idle")
           /\ call' = [call EXCEPT ![r] = NoCall]

\* Faulty variant of Deliver: the client keeps a token of every login reply.
DeliverAny(r) == /\ pc[r] \in Reply
                 /\ held' = IF call[r].op = "login"
                              THEN held \cup {call[r].tok} ELSE held
                 /\ Free(r)
                 /\ UNCHANGED <<users, owner, row, expired, adrift>>

\* The client receives the reply; a login's reply carries the token.
Deliver(r) == /\ pc[r] \in Reply
              /\ held' = IF call[r].op = "login" /\ pc[r] = "200"
                           THEN held \cup {call[r].tok} ELSE held
              /\ Free(r)
              /\ UNCHANGED <<users, owner, row, expired, adrift>>

\* The client has gone: the handler was not stopped, its reply is lost.
LoseReply(r) == /\ pc[r] \in Reply
                /\ Free(r)
                /\ UNCHANGED <<users, owner, row, expired, held, adrift>>

Crash == /\ \E r \in Req : pc[r] # "idle"
         /\ adrift' = adrift \cup {WriteOf(r) : r \in {q \in Req : pc[q] \in Writing}}
         /\ pc' = [r \in Req |-> "idle"]
         /\ call' = [r \in Req |-> NoCall]
         /\ UNCHANGED <<users, owner, row, expired, held>>

-----------------------------------------------------------------------------
(* The environment                                                         *)

Expire(t) == /\ t \in held \ expired
             /\ expired' = expired \cup {t}
             /\ UNCHANGED <<users, owner, row, held, adrift, pc, call>>

\* An administrator deletes an account: ON DELETE CASCADE takes its rows.
DeleteUser(u) == /\ u \in users
                 /\ users' = users \ {u}
                 /\ row' = [t \in Jti |-> IF owner[t] = u THEN "none" ELSE row[t]]
                 /\ UNCHANGED <<owner, expired, held, adrift, pc, call>>

-----------------------------------------------------------------------------
\* The steps of the process and of the database for one request.
Step(r) == \/ FindUser(r) \/ RejectPassword(r) \/ (\E t \in Jti : Mint(r, t))
           \/ Insert(r) \/ Verify(r) \/ Lookup(r) \/ Resume(r)
           \/ ReadUser(r) \/ Revoke(r) \/ QueryFails(r) \/ AckLost(r)
           \/ Deliver(r) \/ LoseReply(r)

Next == \/ \E r \in Req, u \in User : Login(r, u)
        \/ \E r \in Req, op \in {"me", "logout"}, t \in Jti, form \in Form :
             Arrive(r, op, t, form)
        \/ \E r \in Req : Step(r)
        \/ \E w \in Write : Commit(w) \/ Vanish(w)
        \/ \E t \in Jti : Expire(t)
        \/ \E u \in User : DeleteUser(u)
        \/ Crash

Spec == Init /\ [][Next]_vars

\* The event loop and the database get to every request in the end, with an
\* answer or an error; clients, crashes, expiry and deletion are not fair.
FairSpec == Spec /\ \A r \in Req : WF_vars(Step(r))

-----------------------------------------------------------------------------
(* Properties                                                              *)

\* The types of the database, the clients and the handlers' local variables.
TypeOK == /\ users \subseteq User
          /\ owner \in [Jti -> User \cup {NoUser}]
          /\ row \in [Jti -> RowState]
          /\ expired \subseteq Jti
          /\ held \subseteq Jti
          /\ adrift \subseteq Write
          /\ pc \in [Req -> Phase]
          /\ call \in [Req -> Call]

\* A client never holds a token the server cannot revoke: login answers only
\* after the row is stored, so a received token has its row for as long as the
\* account exists.  This is what makes it safe that AuthGuard lets a token
\* without a row pass.
HeldIsRevocable == \A t \in held : row[t] = "none" => Gone(t)

\* The request passed AuthGuard.
Admitted(r) == /\ call[r].op \in {"me", "logout"}
               /\ \/ pc[r] \in {"readUser", "revoke", "200", "204", "404"}
                  \/ pc[r] = "500" /\ call[r].seen # "unread"

\* A request that arrives after its token was revoked is never admitted,
\* whatever the crashes, lost acknowledgements and concurrent logouts in
\* between, unless the account (and with it the row) is deleted.
LateNeverAdmitted == \A r \in Req : Admitted(r) /\ call[r].late => Gone(call[r].tok)

\* A logout that answers 204 has revoked the token it was sent with, if that
\* token came as a cookie or as a header with one space: the answer never
\* runs ahead of the write.
LogoutRevokes ==
  \A r \in Req : pc[r] = "204" /\ call[r].form = "plain" =>
    row[call[r].tok] = "revoked" \/ Gone(call[r].tok)

\* What the API documentation says of POST /auth/logout, "Revoke the current
\* session token and clear the cookie": every 204, however the token was sent.
LogoutAlwaysRevokes ==
  \A r \in Req : pc[r] = "204" =>
    row[call[r].tok] = "revoked" \/ Gone(call[r].tok)

\* Every request is answered or abandoned in the end: no failure of a query,
\* of a reply or of the process leaves a handler waiting for ever.
Answered == \A r \in Req : pc[r] # "idle" ~> pc[r] = "idle"

-----------------------------------------------------------------------------
(* The sessions implement SessionContract.  A session is its row, an orphan *)
(* once the account is gone; a verdict is fixed by the row the database     *)
(* returned, and confirmed when a logout is acknowledged.                   *)
SessionOf(t) == IF owner[t] # NoUser /\ Gone(t) THEN "orphan"
                ELSE CASE row[t] = "none" -> "none"
                       [] row[t] = "active" -> "open"
                       [] OTHER -> "closed"
sessionView == [t \in Jti |-> SessionOf(t)]

verdictView(r) ==
  CASE pc[r] \in {"guard", "lookup"} -> "pending"
    [] pc[r] = "401" -> "refuse"
    [] pc[r] = "looked" /\ call[r].seen = "revoked" -> "refuse"
    [] pc[r] = "500" /\ call[r].seen = "unread" -> "refuse"
    [] pc[r] = "204" /\ call[r].form = "plain" -> "confirmed"
    [] OTHER -> "accept"

NoAskView == [tok |-> NoJti, verdict |-> "idle"]
AskOf(r) == IF call[r].op \in {"me", "logout"}
              THEN [tok |-> call[r].tok, verdict |-> verdictView(r)]
              ELSE NoAskView
askView == [r \in Req |-> AskOf(r)]

closingView == {call[r].tok : r \in {q \in Req : pc[q] = "revoke"}}
                 \cup {w.jti : w \in {x \in adrift : x.kind = "revoke"}}

Contract == INSTANCE SessionContract
              WITH session <- sessionView, ask <- askView, closing <- closingView

\* Seen from outside, sessions open once, admit a request only while live,
\* close only for an admitted logout and only the session it was sent with,
\* and confirm a logout only when it has happened.
ImplementsContract == Contract!Spec
=============================================================================
