----------------------- MODULE AuthSessionsRefinement -----------------------
(***************************************************************************)
(* AuthSessions implements SessionContract, for any number of accounts,    *)
(* tokens and requests: every step of a handler, of the database or of the *)
(* environment is a step of the contract or leaves its state unchanged.    *)
(***************************************************************************)
EXTENDS AuthSessionsProofs

\* The state of the contract that a state of AuthSessions stands for.
View == <<sessionView, askView, closingView>>

\* Only request r takes a step; what it presents stays what it was.
Moves(r) == \A q \in Req \ {r} : pc'[q] = pc[q] /\ call'[q] = call[q]

-----------------------------------------------------------------------------
(* How a step shows in each part of the view                               *)

\* A session changes only with its owner, its row or the existence of its owner.
LEMMA SessionKept ==
  ASSUME NEW t, owner'[t] = owner[t], row'[t] = row[t],
         (owner[t] \in users') <=> (owner[t] \in users)
  PROVE  SessionOf(t)' = SessionOf(t)
  BY DEF SessionOf, Gone

\* A step that leaves the tables alone changes no session.
LEMMA SessionSame == UNCHANGED <<users, owner, row>> => sessionView' = sessionView
  BY DEF sessionView, SessionOf, Gone

\* A step that writes one row changes one session.
LEMMA SessionChanges ==
  ASSUME NEW t \in Jti, UNCHANGED <<users, owner>>,
         \A q \in Jti \ {t} : row'[q] = row[q]
  PROVE  sessionView' = [sessionView EXCEPT ![t] = SessionOf(t)']
<1>1. ASSUME NEW q \in Jti \ {t} PROVE SessionOf(q)' = SessionOf(q)
  BY <1>1, SessionKept
<1> QED
  BY <1>1 DEF sessionView

\* A step of one request that keeps its verdict changes no request's.
LEMMA AskSame ==
  ASSUME NEW r \in Req, Moves(r), AskOf(r)' = AskOf(r)
  PROVE  askView' = askView
<1>1. ASSUME NEW q \in Req PROVE AskOf(q)' = AskOf(q)
  BY <1>1 DEF Moves, AskOf, verdictView
<1> QED
  BY <1>1 DEF askView

\* A step of one request changes the view of that request only.
LEMMA AskChanges ==
  ASSUME NEW r \in Req, Moves(r)
  PROVE  askView' = [askView EXCEPT ![r] = AskOf(r)']
<1>1. ASSUME NEW q \in Req \ {r} PROVE AskOf(q)' = AskOf(q)
  BY <1>1 DEF Moves, AskOf, verdictView
<1> QED
  BY <1>1 DEF askView

\* A step of an authenticated request changes at most its verdict.
LEMMA VerdictChanges ==
  ASSUME NEW r \in Req, Moves(r), call[r].op \in {"me", "logout"},
         call'[r].op = call[r].op, call'[r].tok = call[r].tok
  PROVE  /\ askView[r] = [tok |-> call[r].tok, verdict |-> verdictView(r)]
         /\ askView' = [askView EXCEPT ![r].verdict = verdictView(r)']
<1>1. AskOf(r) = [tok |-> call[r].tok, verdict |-> verdictView(r)]
  BY DEF AskOf
<1>2. AskOf(r)' = [tok |-> call[r].tok, verdict |-> verdictView(r)']
  BY DEF AskOf
<1>3. askView[r] = [tok |-> call[r].tok, verdict |-> verdictView(r)]
  BY <1>1 DEF askView
<1>4. askView' = [askView EXCEPT ![r] = AskOf(r)']
  BY AskChanges
<1>5. [askView[r] EXCEPT !.verdict = verdictView(r)'] = AskOf(r)'
  BY <1>2, <1>3
<1> QED
  BY <1>3, <1>4, <1>5

\* A session is closing when a logout, waited for or adrift, revokes it.
LEMMA ClosingMember ==
  ASSUME NEW t
  PROVE  t \in closingView <=>
           \/ \E q \in Req : pc[q] = "revoke" /\ call[q].tok = t
           \/ \E w \in adrift : w.kind = "revoke" /\ w.jti = t
  BY DEF closingView

\* A request that is not at its revoke query closes nothing.
LEMMA ClosingSame ==
  ASSUME NEW r \in Req, Moves(r), UNCHANGED adrift,
         pc[r] # "revoke", pc'[r] # "revoke"
  PROVE  closingView' = closingView
  BY DEF Moves, closingView

\* A request that leaves the guard's pending phases with a verdict is judged.
LEMMA JudgeRefines ==
  ASSUME TypeOK, NEW r \in Req, Moves(r), UNCHANGED <<users, owner, row, adrift>>,
         pc[r] # "revoke", pc'[r] # "revoke",
         call[r].op \in {"me", "logout"},
         call'[r].op = call[r].op, call'[r].tok = call[r].tok,
         verdictView(r) = "pending", verdictView(r)' \in {"accept", "refuse"},
         verdictView(r)' = "accept" => Contract!Live(call[r].tok)
  PROVE  Contract!Judge(r)
<1>1. sessionView' = sessionView /\ closingView' = closingView
  BY SessionSame, ClosingSame
<1>2. /\ askView[r] = [tok |-> call[r].tok, verdict |-> "pending"]
      /\ askView' = [askView EXCEPT ![r].verdict = verdictView(r)']
  BY VerdictChanges
<1>3. askView[r].verdict = "pending" /\ askView[r].tok = call[r].tok
  BY <1>2
<1>4. CASE verdictView(r)' = "accept"
  BY <1>1, <1>2, <1>3, <1>4 DEF Contract!Judge
<1>5. CASE verdictView(r)' = "refuse"
  BY <1>1, <1>2, <1>3, <1>5 DEF Contract!Judge
<1> QED
  BY <1>4, <1>5

\* A step that touches no table and no verdict is a stutter.
LEMMA VerdictSame ==
  ASSUME NEW r \in Req, Moves(r), UNCHANGED <<users, owner, row, adrift>>,
         pc[r] # "revoke", pc'[r] # "revoke", AskOf(r)' = AskOf(r)
  PROVE  UNCHANGED View
  BY SessionSame, ClosingSame, AskSame DEF View

-----------------------------------------------------------------------------
(* Steps of the guard and the handlers                                     *)

\* The synchronous part of the guard refuses or goes on.
LEMMA VerifyRefines ==
  ASSUME IInv, NEW r \in Req, Verify(r)
  PROVE  Contract!Judge(r) \/ UNCHANGED View
<1> USE DEF IInv, TypeOK, Shape, Verify, Goto, Moves
<1>1. CASE pc'[r] = "401"
  <2>1. verdictView(r) = "pending" /\ verdictView(r)' = "refuse"
    BY <1>1 DEF verdictView
  <2> QED
    BY <1>1, <2>1, JudgeRefines
<1>2. CASE pc'[r] = "lookup"
  <2>1. AskOf(r)' = AskOf(r)
    BY <1>2 DEF AskOf, verdictView
  <2> QED
    BY <1>2, <2>1, VerdictSame
<1> QED
  BY <1>1, <1>2

\* The row the database returns decides: a session that is not revoked is live
\* at that instant, because a held token without a row is an orphan.
LEMMA LookupRefines ==
  ASSUME IInv, NEW r \in Req, Lookup(r)
  PROVE  Contract!Judge(r)
<1> USE NullAssumption DEF IInv, TypeOK, Shape, Lookup, Goto, Moves
<1> DEFINE t == call[r].tok
<1>1. t \in held /\ owner[t] # NoUser /\ call[r].op \in {"me", "logout"}
  BY DEF AskerHolds, MintedOnly
<1>2. verdictView(r) = "pending"
  BY DEF verdictView
<1>3. call'[r].op = call[r].op /\ call'[r].tok = t /\ call'[r].seen = row[t]
  BY DEF Call
<1>4. verdictView(r)' = IF row[t] = "revoked" THEN "refuse" ELSE "accept"
  BY <1>3 DEF verdictView
<1>5. row[t] # "revoked" => Contract!Live(t)
  BY <1>1 DEF Contract!Live, sessionView, SessionOf, HeldIsRevocable, RowOwned,
          RowState
<1> QED
  BY <1>1, <1>2, <1>3, <1>4, <1>5, JudgeRefines

\* A failed query refuses, forgets a close, or changes nothing that shows.
LEMMA QueryFailsRefines ==
  ASSUME IInv, NEW r \in Req, QueryFails(r)
  PROVE  \/ Contract!Judge(r)
         \/ pc[r] = "revoke" /\ Contract!Forget(call[r].tok)
         \/ UNCHANGED View
<1> USE DEF IInv, TypeOK, Shape, QueryFails, Querying, Goto, Moves
<1>1. CASE pc[r] = "lookup"
  <2>1. verdictView(r) = "pending" /\ verdictView(r)' = "refuse"
    BY <1>1 DEF verdictView
  <2> QED
    BY <1>1, <2>1, JudgeRefines
<1>2. CASE pc[r] = "revoke"
  <2>1. AskOf(r)' = AskOf(r)
    BY <1>2 DEF AskOf, verdictView
  <2>2. sessionView' = sessionView /\ askView' = askView
    BY <2>1, SessionSame, AskSame
  <2>3. call[r].tok \in closingView
    BY <1>2, ClosingMember
  <2>4. closingView' = closingView \/ closingView' = closingView \ {call[r].tok}
    BY <1>2 DEF closingView
  <2> QED
    BY <1>2, <2>2, <2>3, <2>4 DEF View, Contract!Forget
<1>3. CASE pc[r] \in {"findUser", "insert", "readUser"}
  <2>1. AskOf(r)' = AskOf(r)
    BY <1>3 DEF AskOf, verdictView
  <2> QED
    BY <1>3, <2>1, VerdictSame
<1> QED
  BY <1>1, <1>2, <1>3

\* A revoked row closes the session and confirms the logout together.
LEMMA RevokeRefines ==
  ASSUME IInv, NEW r \in Req, Revoke(r)
  PROVE  \/ Contract!Confirm(r) \/ Contract!Forget(call[r].tok)
         \/ UNCHANGED View
<1> USE NullAssumption DEF IInv, TypeOK, Shape, Revoke, Goto, Moves
<1> DEFINE t == call[r].tok
<1>1. t \in closingView
  BY ClosingMember
<1>2. closingView' = closingView \/ closingView' = closingView \ {t}
  BY DEF closingView
<1>3. CASE row[t] = "none"
  <2>1. AskOf(r)' = AskOf(r)
    BY <1>3 DEF AskOf, verdictView
  <2>2. sessionView' = sessionView /\ askView' = askView
    BY <1>3, <2>1, SessionSame, AskSame
  <2> QED
    BY <1>1, <1>2, <2>2 DEF View, Contract!Forget
<1>4. CASE row[t] # "none"
  <2>1. sessionView[t] \in {"open", "closed"}
    BY <1>4 DEF sessionView, SessionOf, RowOwned, RowState
  <2>2. SessionOf(t)' = "closed"
    BY <1>4 DEF SessionOf, RowOwned, Gone
  <2>3. verdictView(r) = "accept" /\ verdictView(r)' = "confirmed"
    BY <1>4 DEF verdictView
  <2>4. /\ askView[r] = [tok |-> t, verdict |-> "accept"]
        /\ askView' = [askView EXCEPT ![r].verdict = "confirmed"]
    BY <2>3, VerdictChanges
  <2>5. sessionView' = [sessionView EXCEPT ![t] = "closed"]
    BY <1>4, <2>2, SessionChanges
  <2> QED
    BY <1>1, <1>2, <2>1, <2>4, <2>5 DEF Contract!Confirm, Contract!CloseOf
<1> QED
  BY <1>3, <1>4

\* A lost acknowledgement leaves the close undecided.
LEMMA AckLostRefines ==
  ASSUME IInv, NEW r \in Req, AckLost(r)
  PROVE  UNCHANGED View
<1> USE DEF IInv, TypeOK, Shape, AckLost, WriteOf, Writing, Goto, Moves
<1>1. AskOf(r)' = AskOf(r)
  BY DEF AskOf, verdictView
<1>2. sessionView' = sessionView /\ askView' = askView
  BY <1>1, SessionSame, AskSame
<1>3. CASE pc[r] = "insert"
  <2>1. closingView' = closingView
    BY <1>3 DEF closingView
  <2> QED
    BY <1>2, <2>1 DEF View
<1>4. CASE pc[r] = "revoke"
  <2> DEFINE w == [kind |-> "revoke", jti |-> call[r].tok]
  <2>1. adrift' = adrift \cup {w} /\ w.kind = "revoke" /\ w.jti = call[r].tok
    BY <1>4
  <2>2. ASSUME NEW t \in closingView PROVE t \in closingView'
    <3>1. CASE t = call[r].tok
      BY <2>1, <3>1 DEF closingView
    <3>2. CASE t # call[r].tok
      BY <2>1, <2>2, <3>2 DEF closingView
    <3> QED
      BY <3>1, <3>2
  <2>3. ASSUME NEW t \in closingView' PROVE t \in closingView
    BY <1>4, <2>1, <2>3 DEF closingView
  <2>4. closingView' = closingView
    BY <2>2, <2>3
  <2> QED
    BY <1>2, <2>4 DEF View
<1> QED
  BY <1>3, <1>4

\* An accepted row opens the session.
LEMMA InsertRefines ==
  ASSUME IInv, NEW r \in Req, Insert(r)
  PROVE  Contract!Open(call[r].tok) \/ UNCHANGED View
<1> USE DEF IInv, TypeOK, Shape, Insert, Goto, Moves
<1>1. AskOf(r)' = AskOf(r)
  BY DEF AskOf
<1>2. askView' = askView /\ closingView' = closingView
  BY <1>1, AskSame, ClosingSame
<1>3. CASE CanInsert(call[r].tok)
  <2>1. sessionView[call[r].tok] = "none"
    BY <1>3 DEF CanInsert, sessionView, SessionOf, Gone
  <2>2. SessionOf(call[r].tok)' = "open"
    BY <1>3 DEF CanInsert, SessionOf, Gone
  <2>3. sessionView' = [sessionView EXCEPT ![call[r].tok] = "open"]
    BY <1>3, <2>2, SessionChanges
  <2> QED
    BY <1>2, <2>1, <2>3 DEF Contract!Open
<1>4. CASE ~CanInsert(call[r].tok)
  BY <1>2, <1>4, SessionSame DEF View
<1> QED
  BY <1>3, <1>4

\* A client presents only sessions that exist: those it was told of.
LEMMA ArriveRefines ==
  ASSUME IInv, NEW r \in Req, NEW op \in {"me", "logout"}, NEW t \in Jti,
         NEW form \in Form, Arrive(r, op, t, form)
  PROVE  Contract!Present(r, t)
<1> USE NullAssumption DEF IInv, TypeOK, Shape, Arrive, NoCall, Goto, Moves
<1>1. sessionView' = sessionView /\ closingView' = closingView
  BY SessionSame, ClosingSame
<1>2. askView[r] = Contract!NoAsk
  BY DEF askView, AskOf, NoAskView, Contract!NoAsk
<1>3. AskOf(r)' = [tok |-> t, verdict |-> "pending"]
  BY DEF AskOf, verdictView
<1>4. askView' = [askView EXCEPT ![r] = [tok |-> t, verdict |-> "pending"]]
  BY <1>3, AskChanges
<1>5. sessionView[t] # "none"
  BY DEF sessionView, SessionOf, HeldIsRevocable, MintedOnly, RowState
<1> QED
  BY <1>1, <1>2, <1>4, <1>5 DEF Contract!Present

\* Handler steps that neither judge nor write do not show.
LEMMA LocalRefines ==
  ASSUME IInv, NEW r \in Req, RejectPassword(r) \/ ReadUser(r) \/ FindUser(r)
  PROVE  UNCHANGED View
<1> USE DEF IInv, TypeOK, Shape, Goto, Moves
<1>1. CASE RejectPassword(r)
  BY <1>1, VerdictSame DEF RejectPassword, AskOf
<1>2. CASE ReadUser(r)
  BY <1>2, VerdictSame DEF ReadUser, AskOf, verdictView
<1>3. CASE FindUser(r)
  <2>1. AskOf(r)' = AskOf(r)
    BY <1>3 DEF FindUser, AskOf, Call
  <2>2. Moves(r)
    BY <1>3 DEF FindUser
  <2> QED
    BY <1>3, <2>1, <2>2, VerdictSame DEF FindUser
<1> QED
  BY <1>1, <1>2, <1>3

\* The guard acts on the verdict it read, even if stale by now.
LEMMA ResumeRefines ==
  ASSUME IInv, NEW r \in Req, Resume(r)
  PROVE  Contract!AskClose(r) \/ UNCHANGED View
<1> USE DEF IInv, TypeOK, Shape, Resume, Goto, Moves, Handler
<1>1. AskOf(r)' = AskOf(r)
  BY DEF AskOf, verdictView
<1>2. CASE pc'[r] = "revoke"
  <2>1. sessionView' = sessionView /\ askView' = askView
    BY <1>1, SessionSame, AskSame
  <2>2. askView[r].verdict = "accept" /\ askView[r].tok = call[r].tok
    BY <1>2 DEF askView, AskOf, verdictView
  <2>3. closingView' = closingView \cup {call[r].tok}
    BY <1>2 DEF closingView
  <2> QED
    BY <2>1, <2>2, <2>3 DEF Contract!AskClose
<1>3. CASE pc'[r] # "revoke"
  BY <1>1, <1>3, VerdictSame
<1> QED
  BY <1>2, <1>3

\* A reply received or lost releases the request.
LEMMA ReleaseRefines ==
  ASSUME IInv, NEW r \in Req, Deliver(r) \/ LoseReply(r)
  PROVE  Contract!Release({r})
<1> USE DEF IInv, TypeOK, Shape, Deliver, LoseReply, Free, Reply, Goto, Moves
<1>1. sessionView' = sessionView /\ closingView' = closingView
  BY SessionSame, ClosingSame
<1>2. AskOf(r)' = Contract!NoAsk
  BY DEF AskOf, NoCall, NoAskView, Contract!NoAsk
<1>3. askView' = [askView EXCEPT ![r] = Contract!NoAsk]
  BY <1>2, AskChanges
<1> QED
  BY <1>1, <1>3 DEF Contract!Release, askView

\* A token minted for an account deleted meanwhile is an orphan at once.
LEMMA MintRefines ==
  ASSUME IInv, NEW r \in Req, NEW t \in Jti, Mint(r, t)
  PROVE  Contract!Orphan({t}) \/ UNCHANGED View
<1> USE NullAssumption DEF IInv, TypeOK, Shape, Mint, Goto, Moves
<1>1. AskOf(r)' = AskOf(r)
  BY DEF AskOf
<1>2. askView' = askView /\ closingView' = closingView
  BY <1>1, AskSame, ClosingSame
<1>3. ASSUME NEW q \in Jti \ {t} PROVE SessionOf(q)' = SessionOf(q)
  BY <1>3, SessionKept
<1>4. row[t] = "none" /\ SessionOf(t) = "none" /\ SessionOf(t)' \in {"none", "orphan"}
  BY DEF SessionOf, MintedOnly
<1>5. CASE SessionOf(t)' = "orphan"
  BY <1>2, <1>3, <1>5 DEF Contract!Orphan, sessionView
<1>6. CASE SessionOf(t)' = "none"
  BY <1>2, <1>3, <1>4, <1>6 DEF View, sessionView
<1> QED
  BY <1>4, <1>5, <1>6

-----------------------------------------------------------------------------
(* Steps of clients, of writes adrift and of the environment               *)

\* A login in flight presents no session.
LEMMA LoginRefines ==
  ASSUME IInv, NEW r \in Req, NEW u \in User, Login(r, u)
  PROVE  UNCHANGED View
<1> USE DEF IInv, TypeOK, Shape, Login, NoCall, Goto, Moves
<1>1. AskOf(r)' = AskOf(r)
  BY DEF AskOf
<1> QED
  BY <1>1, VerdictSame

\* A write adrift that is decided is the last trace of its close, or not.
LEMMA ClosingShrinks ==
  ASSUME NEW w \in adrift, adrift' = adrift \ {w}, UNCHANGED <<pc, call>>
  PROVE  /\ w.kind # "revoke" => closingView' = closingView
         /\ w.kind = "revoke" => w.jti \in closingView
         /\ closingView' \in {closingView, closingView \ {w.jti}}
  BY DEF closingView

\* A write nobody waits for still opens or closes its session.
LEMMA CommitRefines ==
  ASSUME IInv, NEW w \in Write, Commit(w)
  PROVE  Contract!Open(w.jti) \/ Contract!Close(w.jti)
<1> USE NullAssumption DEF IInv, TypeOK, Commit, Write
<1>1. askView' = askView
  BY DEF askView, AskOf, verdictView
<1>2. CASE w.kind = "insert"
  <2>1. CanInsert(w.jti) /\ row' = [row EXCEPT ![w.jti] = "active"]
    BY <1>2
  <2>2. SessionOf(w.jti) = "none" /\ SessionOf(w.jti)' = "open"
    BY <2>1 DEF CanInsert, SessionOf, Gone
  <2>3. sessionView' = [sessionView EXCEPT ![w.jti] = "open"]
    BY <2>1, <2>2, SessionChanges
  <2>4. closingView' = closingView
    BY <1>2, ClosingShrinks
  <2> QED
    BY <1>1, <2>2, <2>3, <2>4 DEF Contract!Open, sessionView
<1>3. CASE w.kind = "revoke"
  <2>1. row[w.jti] # "none" /\ row' = [row EXCEPT ![w.jti] = "revoked"]
    BY <1>3
  <2>2. SessionOf(w.jti) \in {"open", "closed"} /\ SessionOf(w.jti)' = "closed"
    BY <2>1 DEF RowOwned, RowState, SessionOf, Gone
  <2>3. sessionView' = [sessionView EXCEPT ![w.jti] = "closed"]
    BY <2>1, <2>2, SessionChanges
  <2> QED
    BY <1>1, <1>3, <2>2, <2>3, ClosingShrinks
    DEF Contract!Close, Contract!CloseOf, sessionView
<1> QED
  BY <1>2, <1>3 DEF Writing

\* A write that was lost is forgotten.
LEMMA VanishRefines ==
  ASSUME IInv, NEW w \in Write, Vanish(w)
  PROVE  Contract!Forget(w.jti) \/ UNCHANGED View
<1>1. sessionView' = sessionView /\ askView' = askView
  BY SessionSame DEF Vanish, askView, AskOf, verdictView
<1> QED
  BY <1>1, ClosingShrinks DEF Vanish, View, Contract!Forget

\* The deletion of an account orphans exactly its sessions.
LEMMA DeleteUserRefines ==
  ASSUME IInv, NEW u \in User, DeleteUser(u)
  PROVE  Contract!Orphan({t \in Jti : owner[t] = u})
<1> USE NullAssumption DEF IInv, TypeOK, DeleteUser
<1>1. askView' = askView /\ closingView' = closingView
  BY DEF askView, AskOf, verdictView, closingView
<1>2. ASSUME NEW t \in Jti, owner[t] = u PROVE SessionOf(t)' = "orphan"
  BY <1>2 DEF SessionOf, Gone
<1>3. ASSUME NEW t \in Jti, owner[t] # u PROVE SessionOf(t)' = SessionOf(t)
  BY <1>3, SessionKept
<1> QED
  BY <1>1, <1>2, <1>3 DEF Contract!Orphan, sessionView

\* A crash releases every request; its closes stay undecided.
LEMMA CrashRefines ==
  ASSUME IInv, Crash
  PROVE  Contract!Release(Req)
<1> USE DEF IInv, TypeOK, Crash
<1>1. sessionView' = sessionView
  BY SessionSame
<1>2. askView' = [r \in Req |-> Contract!NoAsk]
  BY DEF askView, AskOf, NoCall, NoAskView, Contract!NoAsk
<1>3. ASSUME NEW t \in closingView PROVE t \in closingView'
  <2>1. CASE \E r \in Req : pc[r] = "revoke" /\ call[r].tok = t
    <3>1. PICK r \in Req : pc[r] = "revoke" /\ call[r].tok = t
      BY <2>1
    <3>2. WriteOf(r) \in adrift' /\ WriteOf(r).kind = "revoke" /\ WriteOf(r).jti = t
      BY <3>1 DEF WriteOf, Writing
    <3> QED
      BY <3>2 DEF closingView
  <2>2. CASE \E w \in adrift : w.kind = "revoke" /\ w.jti = t
    BY <2>2 DEF closingView
  <2> QED
    BY <1>3, <2>1, <2>2, ClosingMember
<1>4. ASSUME NEW t \in closingView' PROVE t \in closingView
  <2>1. PICK w \in adrift' : w.kind = "revoke" /\ w.jti = t
    BY <1>4 DEF closingView
  <2>2. CASE w \in adrift
    BY <2>1, <2>2 DEF closingView
  <2>3. CASE \E r \in Req : pc[r] \in Writing /\ w = WriteOf(r)
    BY <2>1, <2>3 DEF closingView, WriteOf
  <2> QED
    BY <2>1, <2>2, <2>3
<1>5. closingView' = closingView
  BY <1>3, <1>4
<1> QED
  BY <1>1, <1>2, <1>5 DEF Contract!Release

-----------------------------------------------------------------------------
(* Theorem                                                                 *)

\* No session, no request, nothing closing.
LEMMA InitRefines == Init => Contract!Init
  BY DEF Init, Contract!Init, Contract!NoAsk, NoCall, NoAskView, sessionView,
         SessionOf, askView, AskOf, closingView

\* The view depends on the state only.
LEMMA StutterRefines == UNCHANGED vars => UNCHANGED View
  BY DEF vars, View, sessionView, SessionOf, Gone, askView, AskOf, verdictView,
         closingView

\* Every step shows as a step of the contract, or does not show.
LEMMA StepRefines == IInv /\ [Next]_vars => Contract!Next \/ UNCHANGED View
<1> SUFFICES ASSUME IInv, [Next]_vars PROVE Contract!Next \/ UNCHANGED View
  OBVIOUS
<1>1. ASSUME NEW r \in Req, Step(r) PROVE Contract!Next \/ UNCHANGED View
  <2>1. CASE FindUser(r) \/ RejectPassword(r) \/ ReadUser(r)
    BY <2>1, LocalRefines
  <2>2. ASSUME NEW t \in Jti, Mint(r, t) PROVE Contract!Next \/ UNCHANGED View
    BY <2>2, MintRefines DEF Contract!Next
  <2>3. CASE Insert(r)
    <3>1. call[r].tok \in Jti
      BY <2>3 DEF Insert, IInv, Shape
    <3> QED
      BY <2>3, <3>1, InsertRefines DEF Contract!Next
  <2>4. CASE Verify(r)
    BY <2>4, VerifyRefines DEF Contract!Next
  <2>5. CASE Lookup(r)
    BY <2>5, LookupRefines DEF Contract!Next
  <2>6. CASE Resume(r)
    BY <2>6, ResumeRefines DEF Contract!Next
  <2>7. CASE Revoke(r)
    <3>1. call[r].tok \in Jti
      BY <2>7 DEF Revoke, IInv, Shape
    <3> QED
      BY <2>7, <3>1, RevokeRefines DEF Contract!Next
  <2>8. CASE QueryFails(r)
    <3>1. call[r].tok \in Jti \/ pc[r] # "revoke"
      BY DEF IInv, Shape
    <3> QED
      BY <2>8, <3>1, QueryFailsRefines DEF Contract!Next
  <2>9. CASE AckLost(r)
    BY <2>9, AckLostRefines
  <2>10. CASE Deliver(r) \/ LoseReply(r)
    BY <2>10, ReleaseRefines DEF Contract!Next
  <2> QED
    BY <1>1, <2>1, <2>2, <2>3, <2>4, <2>5, <2>6, <2>7, <2>8, <2>9, <2>10 DEF Step
<1>2. ASSUME NEW r \in Req, NEW u \in User, Login(r, u) PROVE UNCHANGED View
  BY <1>2, LoginRefines
<1>3. ASSUME NEW r \in Req, NEW op \in {"me", "logout"}, NEW t \in Jti,
             NEW form \in Form, Arrive(r, op, t, form)
      PROVE  Contract!Next
  BY <1>3, ArriveRefines DEF Contract!Next
<1>4. ASSUME NEW w \in Write, Commit(w) \/ Vanish(w)
      PROVE  Contract!Next \/ UNCHANGED View
  <2>1. w.jti \in Jti
    BY DEF Write
  <2> QED
    BY <1>4, <2>1, CommitRefines, VanishRefines DEF Contract!Next
<1>5. ASSUME NEW t \in Jti, Expire(t) PROVE UNCHANGED View
  BY <1>5 DEF Expire, View, sessionView, SessionOf, Gone, askView, AskOf,
           verdictView, closingView
<1>6. ASSUME NEW u \in User, DeleteUser(u) PROVE Contract!Next
  BY <1>6, DeleteUserRefines DEF Contract!Next
<1>7. CASE Crash
  BY <1>7, CrashRefines DEF Contract!Next
<1>8. CASE UNCHANGED vars
  BY <1>8, StutterRefines
<1> QED
  BY <1>1, <1>2, <1>3, <1>4, <1>5, <1>6, <1>7, <1>8 DEF Next

\* Password sessions keep what SessionContract promises: a request is admitted
\* only if its session is live at some instant while it is in flight, a session
\* is closed only by an admitted logout of that very session, a logout is
\* confirmed only when it has happened, and a closed session stays closed until
\* its account is deleted.
THEOREM SessionsImplementContract == Spec => ImplementsContract
<1>1. UNCHANGED View => UNCHANGED Contract!vars
  BY DEF View, Contract!vars
<1>2. IInv /\ [Next]_vars => [Contract!Next]_(Contract!vars)
  BY <1>1, StepRefines
<1> QED
  BY <1>2, InitRefines, Inductive, PTL DEF Spec, ImplementsContract, Contract!Spec
=============================================================================
