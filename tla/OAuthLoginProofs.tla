-------------------------- MODULE OAuthLoginProofs --------------------------
(***************************************************************************)
(* Proofs about OAuthLogin for any number of states, accounts, tokens and  *)
(* callbacks, and for each of the three stores.                            *)
(***************************************************************************)
EXTENDS OAuthLogin, Naturals, TLAPS

-----------------------------------------------------------------------------
(* The inductive invariant                                                 *)

\* A callback that has consumed its state and not signed a token yet.
Pending(r) == pc[r] \in {"google", "resolve", "touch"}
Minted(t)  == minted[t] # NoOrigin

\* What the local variables of a callback and the tokens can be.
CallShape ==
  \A r \in Req :
    /\ pc[r] # "idle" => call[r].state \in State
    /\ pc[r] = "idle" => call[r] = NoCall
    /\ pc[r] = "touch" => call[r].user \in User
    /\ pc[r] \in {"commit", "302"} => call[r].tok \in Jti
    /\ call[r].tok \in Jti => Minted(call[r].tok)
OriginShape ==
  \A t \in Jti : Minted(t) => minted[t].state \in State /\ minted[t].user \in User
TableShape == \A t \in row \cup held \cup adrift : Minted(t)
Shape == CallShape /\ OriginShape /\ TableShape

\* A state that let a callback through, or a token be signed, is gone.
Spent ==
  /\ \A r \in Req : Pending(r) => states[call[r].state] = "gone"
  /\ \A t \in Jti : Minted(t) => states[minted[t].state] = "gone"

\* It let one callback through, and that callback signs one token.
Apart ==
  /\ \A r, q \in Req : r # q /\ Pending(r) /\ Pending(q) => call[r].state # call[q].state
  /\ \A r \in Req, t \in Jti : Pending(r) /\ Minted(t) => call[r].state # minted[t].state
  /\ OneLoginPerState

\* An account that is active, or was when the callback read it, makes the
\* callback eligible.
Eligible ==
  /\ \A r \in Req : Exists(call[r].user) /\ account[call[r].user] = "active" => call[r].eligible
  /\ \A r \in Req : pc[r] = "touch" /\ call[r].seen = "active" => call[r].eligible
  /\ OnlyActiveAccounts

\* A redirect follows the transaction.
Backed ==
  /\ \A r \in Req : pc[r] = "302" /\ Exists(minted[call[r].tok].user) => call[r].tok \in row
  /\ TransactionIsAtomic
  /\ CookieIsBacked

IInv == TypeOK /\ Shape /\ Spent /\ Apart /\ Eligible /\ Backed

-----------------------------------------------------------------------------
(* Facts about steps                                                       *)

\* What a successful touch leaves in the local variables and in minted.
LEMMA MintFacts ==
  ASSUME TypeOK, Shape, NEW r \in Req, NEW t \in Jti, TouchActive(r, t)
  PROVE  /\ pc[r] = "touch" /\ pc' = [pc EXCEPT ![r] = "commit"]
         /\ call[r].user \in User /\ call[r].state \in State
         /\ \A q \in Req \ {r} : call'[q] = call[q]
         /\ call'[r].state = call[r].state /\ call'[r].user = call[r].user
         /\ call'[r].seen = call[r].seen /\ call'[r].eligible = call[r].eligible
         /\ call'[r].tok = t
         /\ ~Minted(t) /\ minted'[t] # NoOrigin
         /\ \A x \in Jti \ {t} : minted'[x] = minted[x]
         /\ minted'[t].state = call[r].state /\ minted'[t].user = call[r].user
         /\ minted'[t].eligible = call[r].eligible
<1> USE NoneAssumption DEF TypeOK, Shape, CallShape, TouchActive, Goto
<1>1. call[r].user \in User /\ call[r].state \in State
  OBVIOUS
<1>2. call'[r] = [call[r] EXCEPT !.tok = t] /\ \A q \in Req \ {r} : call'[q] = call[q]
  OBVIOUS
<1>3. /\ call'[r].state = call[r].state /\ call'[r].user = call[r].user
      /\ call'[r].seen = call[r].seen /\ call'[r].eligible = call[r].eligible
      /\ call'[r].tok = t
  BY <1>2 DEF Call
<1>4. minted'[t] = [state |-> call[r].state, user |-> call[r].user,
                    eligible |-> call[r].eligible]
  OBVIOUS
<1>5. minted'[t] # NoOrigin
  BY <1>1, <1>4 DEF NoOrigin
<1> QED
  BY <1>1, <1>2, <1>3, <1>4, <1>5 DEF Minted

\* Signing a token keeps the local variables and the tokens in shape.
LEMMA MintShape ==
  ASSUME TypeOK, Shape, NEW r \in Req, NEW t \in Jti, TouchActive(r, t)
  PROVE  Shape'
<1>1. /\ pc[r] = "touch" /\ pc' = [pc EXCEPT ![r] = "commit"]
      /\ call[r].state \in State /\ call[r].user \in User
      /\ \A q \in Req \ {r} : call'[q] = call[q]
      /\ call'[r].state = call[r].state /\ call'[r].tok = t
      /\ \A x \in Jti \ {t} : minted'[x] = minted[x]
      /\ minted'[t].state = call[r].state /\ minted'[t].user = call[r].user
  BY MintFacts
<1>2. \A x \in Jti : Minted(x) => Minted(x)'
  BY <1>1, MintFacts DEF Minted
<1>3. Minted(t)'
  BY MintFacts DEF Minted
<1>4. CallShape'
  <2>1. ASSUME NEW q \in Req \ {r} PROVE pc'[q] = pc[q] /\ call'[q] = call[q]
    BY <1>1, <2>1 DEF TypeOK
  <2>2. pc'[r] = "commit"
    BY <1>1 DEF TypeOK
  <2> QED
    BY <1>1, <1>2, <1>3, <2>1, <2>2 DEF Shape, CallShape
<1>5. OriginShape'
  <2>1. ASSUME NEW x \in Jti \ {t} PROVE Minted(x)' <=> Minted(x)
    BY <1>1, <2>1 DEF Minted
  <2> QED
    BY <1>1, <2>1 DEF Shape, OriginShape
<1>6. TableShape'
  BY <1>2 DEF Shape, TableShape, TouchActive, TypeOK
<1> QED
  BY <1>4, <1>5, <1>6 DEF Shape

\* A pending callback's state belongs to it alone, so the token it signs has
\* the state to itself.
LEMMA MintApart ==
  ASSUME TypeOK, Shape, Apart, NEW r \in Req, NEW t \in Jti, TouchActive(r, t)
  PROVE  Apart'
<1>1. /\ pc[r] = "touch" /\ pc' = [pc EXCEPT ![r] = "commit"]
      /\ \A q \in Req \ {r} : call'[q] = call[q]
      /\ \A x \in Jti \ {t} : minted'[x] = minted[x]
      /\ minted'[t].state = call[r].state
  BY MintFacts
<1>2. ASSUME NEW q \in Req, Pending(q)'
      PROVE  q # r /\ Pending(q) /\ call'[q] = call[q] /\ call[q].state # call[r].state
  BY <1>1, <1>2 DEF Pending, TypeOK, Apart
<1>3. ASSUME NEW x \in Jti \ {t}, Minted(x)'
      PROVE  Minted(x) /\ minted'[x] = minted[x] /\ minted[x].state # call[r].state
  BY <1>1, <1>3 DEF Minted, Pending, Apart
<1>4. minted'[t].state \in State /\ minted[t] = NoOrigin
  BY <1>1, MintFacts DEF Minted
<1>5. OneLoginPerState'
  <2> SUFFICES ASSUME NEW t1 \in Jti, NEW t2 \in Jti, t1 # t2, Minted(t1)'
               PROVE  minted'[t1].state # minted'[t2].state
    BY DEF OneLoginPerState, Minted
  <2>1. CASE t1 # t /\ t2 # t
    BY <1>1, <2>1 DEF Apart, OneLoginPerState, Minted
  <2>2. CASE t2 = t
    BY <1>1, <1>3, <2>2
  <2>3. CASE t1 = t /\ Minted(t2)'
    BY <1>1, <1>3, <2>3
  <2>4. CASE t1 = t /\ ~Minted(t2)'
    BY <1>4, <2>4, NoneAssumption DEF Minted, NoOrigin
  <2> QED
    BY <2>1, <2>2, <2>3, <2>4
<1>6. \A q \in Req, x \in Jti : Pending(q)' /\ Minted(x)' => call'[q].state # minted'[x].state
  BY <1>1, <1>2, <1>3 DEF Apart
<1>7. \A p, q \in Req : p # q /\ Pending(p)' /\ Pending(q)' => call'[p].state # call'[q].state
  BY <1>2 DEF Apart
<1> QED
  BY <1>5, <1>6, <1>7 DEF Apart

\* A freshly signed token has no row and no browser holds it.
LEMMA MintBacked ==
  ASSUME TypeOK, Shape, Backed, NEW r \in Req, NEW t \in Jti, TouchActive(r, t)
  PROVE  Backed'
<1>1. /\ pc' = [pc EXCEPT ![r] = "commit"]
      /\ \A q \in Req \ {r} : call'[q] = call[q]
      /\ \A x \in Jti \ {t} : minted'[x] = minted[x]
      /\ ~Minted(t)
  BY MintFacts
<1>2. UNCHANGED <<account, loggedIn, row, held>>
  BY DEF TouchActive
<1>3. \A x \in row \cup held : minted'[x] = minted[x]
  BY <1>1 DEF Shape, TableShape, TypeOK
<1>4. TransactionIsAtomic' /\ CookieIsBacked'
  BY <1>2, <1>3 DEF Backed, TransactionIsAtomic, CookieIsBacked, Exists
<1>5. ASSUME NEW q \in Req, pc'[q] = "302"
      PROVE  /\ pc[q] = "302" /\ call'[q] = call[q]
             /\ minted'[call[q].tok] = minted[call[q].tok]
  <2>1. q # r /\ pc[q] = "302" /\ call'[q] = call[q]
    BY <1>1, <1>5 DEF TypeOK
  <2>2. call[q].tok \in Jti /\ Minted(call[q].tok)
    BY <2>1 DEF Shape, CallShape
  <2> QED
    BY <1>1, <2>1, <2>2
<1> QED
  BY <1>2, <1>4, <1>5 DEF Backed, Exists

\* What a found account leaves in the local variables.
LEMMA ResolveFacts ==
  ASSUME TypeOK, Shape, NEW r \in Req, Resolve(r), Exists(call[r].user)
  PROVE  /\ pc[r] = "resolve" /\ pc'[r] = "touch"
         /\ \A q \in Req \ {r} : pc'[q] = pc[q]
         /\ call[r].user \in User /\ account[call[r].user] \in {"active", "blocked"}
         /\ \A q \in Req \ {r} : call'[q] = call[q]
         /\ call'[r] = [call[r] EXCEPT !.seen = account[call[r].user]]
         /\ call'[r].state = call[r].state /\ call'[r].user = call[r].user
         /\ call'[r].tok = call[r].tok /\ call'[r].eligible = call[r].eligible
         /\ call'[r].seen = account[call[r].user]
  BY DEF TypeOK, Resolve, Goto, Exists, Call, Status

\* Keeping the status of the account that was found fits the types.
LEMMA ResolveType ==
  ASSUME TypeOK, Shape, NEW r \in Req, Resolve(r)
  PROVE  TypeOK'
<1>1. CASE Exists(call[r].user)
  <2>1. call' = [call EXCEPT ![r] = [call[r] EXCEPT !.seen = account[call[r].user]]]
    BY <1>1 DEF Resolve
  <2>2. [call[r] EXCEPT !.seen = account[call[r].user]] \in Call
    BY <1>1 DEF TypeOK, Call, Exists
  <2>3. call' \in [Req -> Call]
    BY <2>1, <2>2 DEF TypeOK
  <2>4. pc' = [pc EXCEPT ![r] = "touch"] /\ UNCHANGED <<states, db, minted, held, adrift>>
    BY <1>1 DEF Resolve, Goto
  <2>5. pc' \in [Req -> Phase]
    BY <2>4 DEF TypeOK, Phase, Querying
  <2> QED
    BY <2>3, <2>4, <2>5 DEF TypeOK, db
<1>2. CASE ~Exists(call[r].user)
  BY <1>2 DEF TypeOK, Resolve, Goto, Phase, Reply, db
<1> QED
  BY <1>1, <1>2

\* A callback that goes on to touch the connection has an account.
LEMMA ResolveShape ==
  ASSUME TypeOK, Shape, NEW r \in Req, Resolve(r)
  PROVE  Shape'
<1>1. UNCHANGED <<minted, row, held, adrift>>
  BY DEF Resolve, db
<1>2. OriginShape' /\ TableShape'
  BY <1>1 DEF Shape, OriginShape, TableShape, Minted
<1>3. \A t : Minted(t)' <=> Minted(t)
  BY <1>1 DEF Minted
<1>4. CASE Exists(call[r].user)
  <2>1. /\ \A q \in Req \ {r} : pc'[q] = pc[q]
        /\ \A q \in Req \ {r} : call'[q] = call[q]
    BY <1>4, ResolveFacts
  <2>2. /\ pc[r] = "resolve" /\ pc'[r] = "touch" /\ call[r].user \in User
        /\ call'[r].state = call[r].state /\ call'[r].user = call[r].user
        /\ call'[r].tok = call[r].tok
    BY <1>4, ResolveFacts
  <2> QED
    BY <1>2, <1>3, <2>1, <2>2 DEF Shape, CallShape
<1>5. CASE ~Exists(call[r].user)
  <2>1. CallShape'
    BY <1>3, <1>5 DEF Resolve, Goto, TypeOK, Shape, CallShape
  <2> QED
    BY <1>2, <2>1 DEF Shape
<1> QED
  BY <1>4, <1>5

\* A callback that reads ACTIVE is eligible.
LEMMA ResolveEligible ==
  ASSUME TypeOK, Shape, Eligible, NEW r \in Req, Resolve(r)
  PROVE  Eligible'
<1>1. UNCHANGED <<account, minted>>
  BY DEF Resolve, db
<1>2. OnlyActiveAccounts'
  BY <1>1 DEF Eligible, OnlyActiveAccounts
<1>3. CASE Exists(call[r].user)
  <2>1. /\ \A q \in Req \ {r} : pc'[q] = pc[q]
        /\ \A q \in Req \ {r} : call'[q] = call[q]
    BY <1>3, ResolveFacts
  <2>2. /\ call'[r].user = call[r].user /\ call'[r].eligible = call[r].eligible
        /\ call'[r].seen = account[call[r].user]
    BY <1>3, ResolveFacts
  <2> QED
    BY <1>1, <1>2, <1>3, <2>1, <2>2 DEF Eligible, Exists
<1>4. CASE ~Exists(call[r].user)
  BY <1>1, <1>2, <1>4 DEF Resolve, Goto, TypeOK, Eligible, Exists
<1> QED
  BY <1>3, <1>4

\* A change of a status reaches a callback's eligibility only.
LEMMA SetStatusFacts ==
  ASSUME TypeOK, NEW u \in User, NEW status \in {"active", "blocked"},
         SetStatus(u, status), NEW r \in Req
  PROVE  /\ call'[r] \in Call
         /\ call'[r].state = call[r].state /\ call'[r].user = call[r].user
         /\ call'[r].tok = call[r].tok
         /\ call[r].user # u => call'[r] = call[r]
<1>1. call[r] \in Call
  BY DEF TypeOK
<1>2. call'[r] = IF call[r].user = u /\ status = "active"
                   THEN [call[r] EXCEPT !.eligible = TRUE] ELSE call[r]
  BY DEF SetStatus
<1>3. CASE call[r].user = u /\ status = "active"
  BY <1>1, <1>2, <1>3 DEF Call
<1>4. CASE ~(call[r].user = u /\ status = "active")
  BY <1>1, <1>2, <1>4
<1> QED
  BY <1>3, <1>4

\* A change of status fits the types.
LEMMA SetStatusType ==
  ASSUME TypeOK, NEW u \in User, NEW status \in {"active", "blocked"}, SetStatus(u, status)
  PROVE  TypeOK'
<1>1. \A r \in Req : call'[r] \in Call
  BY SetStatusFacts
<1>2. call' = [r \in Req |-> call'[r]]
  BY DEF SetStatus
<1>3. call' \in [Req -> Call]
  BY <1>1, <1>2
<1> QED
  BY <1>3 DEF SetStatus, TypeOK, Status

\* It leaves idle callbacks blank.
LEMMA SetStatusShape ==
  ASSUME TypeOK, Shape, NEW u \in User, NEW status \in {"active", "blocked"},
         SetStatus(u, status)
  PROVE  Shape'
<1>1. UNCHANGED <<minted, row, held, adrift, pc>>
  BY DEF SetStatus
<1>2. OriginShape' /\ TableShape'
  BY <1>1 DEF Shape, OriginShape, TableShape, Minted
<1>3. \A t : Minted(t)' <=> Minted(t)
  BY <1>1 DEF Minted
<1>4. ASSUME NEW r \in Req, pc[r] = "idle" PROVE call'[r] = NoCall
  <2>1. call[r] = NoCall
    BY <1>4 DEF Shape, CallShape
  <2>2. call[r].user # u
    BY <2>1, NoneAssumption DEF NoCall
  <2> QED
    BY <2>1, <2>2, SetStatusFacts
<1>5. \A r \in Req : /\ call'[r].state = call[r].state /\ call'[r].user = call[r].user
                     /\ call'[r].tok = call[r].tok
  BY SetStatusFacts
<1>6. CallShape'
  BY <1>1, <1>3, <1>4, <1>5 DEF Shape, CallShape
<1> QED
  BY <1>2, <1>6 DEF Shape

-----------------------------------------------------------------------------
(* The steps preserve each part                                            *)

\* A step changes no variable out of its type.
LEMMA TypeStep == TypeOK /\ Shape /\ [Next]_vars => TypeOK'
<1> USE NoneAssumption, StoreAssumption DEF Goto, db, StateStatus, Status,
      Reply, Querying, Phase, Call, Origin, NoCall, NoOrigin, Exists
<1> SUFFICES ASSUME TypeOK, Shape, [Next]_vars PROVE TypeOK'
  OBVIOUS
<1>1. ASSUME NEW s \in State, Issue(s) PROVE TypeOK'
  BY <1>1 DEF Issue, TypeOK
<1>2. ASSUME NEW s \in State, StoreState(s) PROVE TypeOK'
  BY <1>2 DEF StoreState, TypeOK
<1>3. ASSUME NEW s \in State, Age(s) PROVE TypeOK'
  BY <1>3 DEF Age, TypeOK
<1>4. ASSUME NEW r \in Req, NEW s \in State, NEW u \in User \cup {NoUser},
             Callback(r, s, u) PROVE TypeOK'
  BY <1>4 DEF Callback, TypeOK
<1>5. ASSUME NEW r \in Req, Consume(r) PROVE TypeOK'
  BY <1>5 DEF Consume, TypeOK
<1>6. ASSUME NEW r \in Req, ConsumeUnacked(r) PROVE TypeOK'
  BY <1>6 DEF ConsumeUnacked, TypeOK
<1>7. ASSUME NEW r \in Req, Google(r) PROVE TypeOK'
  BY <1>7 DEF Google, TypeOK
<1>8. ASSUME NEW r \in Req, Resolve(r) PROVE TypeOK'
  BY <1>8, ResolveType
<1>9. ASSUME NEW r \in Req, NEW t \in Jti, TouchActive(r, t) PROVE TypeOK'
  BY <1>9 DEF TouchActive, Touch, TypeOK
<1>10. ASSUME NEW r \in Req, TouchBlocked(r) PROVE TypeOK'
  BY <1>10 DEF TouchBlocked, Touch, TypeOK
<1>11. ASSUME NEW r \in Req, TouchMissing(r) PROVE TypeOK'
  BY <1>11 DEF TouchMissing, TypeOK
<1>12. ASSUME NEW r \in Req, Commit(r) PROVE TypeOK'
  BY <1>12 DEF Commit, CanCommit, Transaction, TypeOK, Shape, CallShape
<1>13. ASSUME NEW r \in Req, StepFails(r) PROVE TypeOK'
  BY <1>13 DEF StepFails, TypeOK
<1>14. ASSUME NEW r \in Req, AckLost(r) PROVE TypeOK'
  BY <1>14 DEF AckLost, TypeOK, Shape, CallShape
<1>15. ASSUME NEW t \in Jti, Settle(t) PROVE TypeOK'
  BY <1>15 DEF Settle, CanCommit, Transaction, TypeOK
<1>16. ASSUME NEW r \in Req, Deliver(r) PROVE TypeOK'
  BY <1>16 DEF Deliver, Free, TypeOK, Shape, CallShape
<1>17. ASSUME NEW r \in Req, LoseReply(r) PROVE TypeOK'
  BY <1>17 DEF LoseReply, Free, TypeOK
<1>18. ASSUME Stop PROVE TypeOK'
  BY <1>18 DEF Stop, TypeOK, Shape, CallShape
<1>19. ASSUME NEW u \in User, NEW status \in {"active", "blocked"}, SetStatus(u, status)
      PROVE  TypeOK'
  BY <1>19, SetStatusType
<1>20. ASSUME NEW u \in User, DeleteUser(u) PROVE TypeOK'
  BY <1>20 DEF DeleteUser, TypeOK
<1>21. CASE UNCHANGED vars
  BY <1>21 DEF vars, TypeOK
<1> QED
  BY <1>1, <1>2, <1>3, <1>4, <1>5, <1>6, <1>7, <1>8, <1>9, <1>10, <1>11,
     <1>12, <1>13, <1>14, <1>15, <1>16, <1>17, <1>18, <1>19, <1>20, <1>21
  DEF Next, Step, StoreFails, Crash

\* The local variables fit the phase; a token signed is never signed again.
LEMMA ShapeStep == TypeOK /\ Shape /\ [Next]_vars => Shape'
<1> USE NoneAssumption, StoreAssumption DEF Goto, db, Reply, Querying,
      Status, Call, Origin, NoCall, NoOrigin, Exists, Minted
<1> SUFFICES ASSUME TypeOK, Shape, [Next]_vars PROVE Shape'
  OBVIOUS
<1>1. ASSUME NEW s \in State, Issue(s) PROVE Shape'
  BY <1>1 DEF Issue, Shape, CallShape, OriginShape, TableShape
<1>2. ASSUME NEW s \in State, StoreState(s) PROVE Shape'
  BY <1>2 DEF StoreState, Shape, CallShape, OriginShape, TableShape
<1>3. ASSUME NEW s \in State, Age(s) PROVE Shape'
  BY <1>3 DEF Age, Shape, CallShape, OriginShape, TableShape
<1>4. ASSUME NEW r \in Req, NEW s \in State, NEW u \in User \cup {NoUser},
             Callback(r, s, u) PROVE Shape'
  BY <1>4 DEF Callback, TypeOK, Shape, CallShape, OriginShape, TableShape
<1>5. ASSUME NEW r \in Req, Consume(r) PROVE Shape'
  BY <1>5 DEF Consume, TypeOK, Shape, CallShape, OriginShape, TableShape
<1>6. ASSUME NEW r \in Req, ConsumeUnacked(r) PROVE Shape'
  BY <1>6 DEF ConsumeUnacked, TypeOK, Shape, CallShape, OriginShape,
        TableShape
<1>7. ASSUME NEW r \in Req, Google(r) PROVE Shape'
  BY <1>7 DEF Google, TypeOK, Shape, CallShape, OriginShape, TableShape
<1>8. ASSUME NEW r \in Req, Resolve(r) PROVE Shape'
  BY <1>8, ResolveShape
<1>9. ASSUME NEW r \in Req, NEW t \in Jti, TouchActive(r, t) PROVE Shape'
  BY <1>9, MintShape
<1>10. ASSUME NEW r \in Req, TouchBlocked(r) PROVE Shape'
  BY <1>10 DEF TouchBlocked, TypeOK, Shape, CallShape, OriginShape, TableShape
<1>11. ASSUME NEW r \in Req, TouchMissing(r) PROVE Shape'
  BY <1>11 DEF TouchMissing, TypeOK, Shape, CallShape, OriginShape, TableShape
<1>12. ASSUME NEW r \in Req, Commit(r) PROVE Shape'
  <2>1. CallShape' /\ OriginShape'
    BY <1>12 DEF Commit, Shape, CallShape, OriginShape, TypeOK
  <2>2. call[r].tok \in Jti /\ Minted(call[r].tok)
    BY <1>12 DEF Commit, Shape, CallShape
  <2>3. TableShape'
    BY <1>12, <2>2 DEF Commit, Transaction, Shape, TableShape
  <2> QED
    BY <2>1, <2>3 DEF Shape
<1>13. ASSUME NEW r \in Req, StepFails(r) PROVE Shape'
  BY <1>13 DEF StepFails, TypeOK, Shape, CallShape, OriginShape, TableShape
<1>14. ASSUME NEW r \in Req, AckLost(r) PROVE Shape'
  BY <1>14 DEF AckLost, TypeOK, Shape, CallShape, OriginShape, TableShape
<1>15. ASSUME NEW t \in Jti, Settle(t) PROVE Shape'
  BY <1>15 DEF Settle, Transaction, Shape, CallShape, OriginShape, TableShape
<1>16. ASSUME NEW r \in Req, Deliver(r) PROVE Shape'
  BY <1>16 DEF Deliver, Free, TypeOK, Shape, CallShape, OriginShape,
        TableShape
<1>17. ASSUME NEW r \in Req, LoseReply(r) PROVE Shape'
  BY <1>17 DEF LoseReply, Free, TypeOK, Shape, CallShape, OriginShape,
        TableShape
<1>18. ASSUME Stop PROVE Shape'
  <2>1. CallShape' /\ OriginShape'
    BY <1>18 DEF Stop, Shape, CallShape, OriginShape
  <2>2. ASSUME NEW q \in Req, pc[q] = "commit" PROVE Minted(call[q].tok)
    BY <2>2 DEF Shape, CallShape
  <2>3. TableShape'
    BY <1>18, <2>2 DEF Stop, Shape, TableShape
  <2> QED
    BY <2>1, <2>3 DEF Shape
<1>19. ASSUME NEW u \in User, NEW status \in {"active", "blocked"}, SetStatus(u, status)
      PROVE  Shape'
  BY <1>19, SetStatusShape
<1>20. ASSUME NEW u \in User, DeleteUser(u) PROVE Shape'
  BY <1>20 DEF DeleteUser, Shape, CallShape, OriginShape, TableShape
<1>21. CASE UNCHANGED vars
  BY <1>21 DEF vars, Shape, CallShape, OriginShape, TableShape
<1> QED
  BY <1>1, <1>2, <1>3, <1>4, <1>5, <1>6, <1>7, <1>8, <1>9, <1>10, <1>11,
     <1>12, <1>13, <1>14, <1>15, <1>16, <1>17, <1>18, <1>19, <1>20, <1>21
  DEF Next, Step, StoreFails, Crash

\* Consuming a state removes it, and nothing brings it back.
LEMMA SpentStep == TypeOK /\ Shape /\ Spent /\ [Next]_vars => Spent'
<1> USE NoneAssumption, StoreAssumption DEF Goto, db, Reply, Querying, Call,
      Origin, NoCall, NoOrigin, Pending, Minted
<1> SUFFICES ASSUME TypeOK, Shape, Spent, [Next]_vars PROVE Spent'
  OBVIOUS
<1>1. ASSUME NEW s \in State, Issue(s) PROVE Spent'
  BY <1>1 DEF Issue, TypeOK, Shape, CallShape, OriginShape, Spent
<1>2. ASSUME NEW s \in State, StoreState(s) PROVE Spent'
  BY <1>2 DEF StoreState, TypeOK, Spent
<1>3. ASSUME NEW s \in State, Age(s) PROVE Spent'
  BY <1>3 DEF Age, TypeOK, Spent
<1>4. ASSUME NEW r \in Req, NEW s \in State, NEW u \in User \cup {NoUser},
             Callback(r, s, u) PROVE Spent'
  BY <1>4 DEF Callback, TypeOK, Spent
<1>5. ASSUME NEW r \in Req, Consume(r) PROVE Spent'
  BY <1>5 DEF Consume, TypeOK, Shape, CallShape, Spent
<1>6. ASSUME NEW r \in Req, ConsumeUnacked(r) PROVE Spent'
  BY <1>6 DEF ConsumeUnacked, TypeOK, Spent
<1>7. ASSUME NEW r \in Req, Google(r) PROVE Spent'
  BY <1>7 DEF Google, TypeOK, Spent
<1>8. ASSUME NEW r \in Req, Resolve(r) PROVE Spent'
  BY <1>8 DEF Resolve, TypeOK, Spent
<1>9. ASSUME NEW r \in Req, NEW t \in Jti, TouchActive(r, t) PROVE Spent'
  BY <1>9 DEF TouchActive, Spent
<1>10. ASSUME NEW r \in Req, TouchBlocked(r) PROVE Spent'
  BY <1>10 DEF TouchBlocked, TypeOK, Spent
<1>11. ASSUME NEW r \in Req, TouchMissing(r) PROVE Spent'
  BY <1>11 DEF TouchMissing, TypeOK, Spent
<1>12. ASSUME NEW r \in Req, Commit(r) PROVE Spent'
  BY <1>12 DEF Commit, TypeOK, Spent
<1>13. ASSUME NEW r \in Req, StepFails(r) PROVE Spent'
  BY <1>13 DEF StepFails, TypeOK, Spent
<1>14. ASSUME NEW r \in Req, AckLost(r) PROVE Spent'
  BY <1>14 DEF AckLost, TypeOK, Spent
<1>15. ASSUME NEW t \in Jti, Settle(t) PROVE Spent'
  BY <1>15 DEF Settle, Spent
<1>16. ASSUME NEW r \in Req, Deliver(r) PROVE Spent'
  BY <1>16 DEF Deliver, Free, TypeOK, Spent
<1>17. ASSUME NEW r \in Req, LoseReply(r) PROVE Spent'
  BY <1>17 DEF LoseReply, Free, TypeOK, Spent
<1>18. ASSUME Stop PROVE Spent'
  BY <1>18 DEF Stop, AfterCrash, Shape, OriginShape, Spent
<1>19. ASSUME NEW u \in User, NEW status \in {"active", "blocked"}, SetStatus(u, status)
      PROVE  Spent'
  BY <1>19 DEF SetStatus, TypeOK, Spent
<1>20. ASSUME NEW u \in User, DeleteUser(u) PROVE Spent'
  BY <1>20 DEF DeleteUser, Spent
<1>21. CASE UNCHANGED vars
  BY <1>21 DEF vars, Spent
<1> QED
  BY <1>1, <1>2, <1>3, <1>4, <1>5, <1>6, <1>7, <1>8, <1>9, <1>10, <1>11,
     <1>12, <1>13, <1>14, <1>15, <1>16, <1>17, <1>18, <1>19, <1>20, <1>21
  DEF Next, Step, StoreFails, Crash

\* The delete lets one of the concurrent callbacks of a state through, and none
\* after it.
LEMMA ApartStep == TypeOK /\ Shape /\ Spent /\ Apart /\ [Next]_vars => Apart'
<1> USE NoneAssumption, StoreAssumption DEF Goto, db, Reply, Querying, Call,
      Origin, NoCall, NoOrigin, Pending, Minted
<1> SUFFICES ASSUME TypeOK, Shape, Spent, Apart, [Next]_vars PROVE Apart'
  OBVIOUS
<1>1. ASSUME NEW s \in State, Issue(s) PROVE Apart'
  BY <1>1 DEF Issue, Apart, OneLoginPerState
<1>2. ASSUME NEW s \in State, StoreState(s) PROVE Apart'
  BY <1>2 DEF StoreState, Apart, OneLoginPerState
<1>3. ASSUME NEW s \in State, Age(s) PROVE Apart'
  BY <1>3 DEF Age, Apart, OneLoginPerState
<1>4. ASSUME NEW r \in Req, NEW s \in State, NEW u \in User \cup {NoUser},
             Callback(r, s, u) PROVE Apart'
  BY <1>4 DEF Callback, TypeOK, Apart, OneLoginPerState
<1>5. ASSUME NEW r \in Req, Consume(r) PROVE Apart'
  BY <1>5 DEF Consume, TypeOK, Spent, Apart, OneLoginPerState
<1>6. ASSUME NEW r \in Req, ConsumeUnacked(r) PROVE Apart'
  BY <1>6 DEF ConsumeUnacked, TypeOK, Apart, OneLoginPerState
<1>7. ASSUME NEW r \in Req, Google(r) PROVE Apart'
  BY <1>7 DEF Google, TypeOK, Apart, OneLoginPerState
<1>8. ASSUME NEW r \in Req, Resolve(r) PROVE Apart'
  BY <1>8 DEF Resolve, TypeOK, Apart, OneLoginPerState
<1>9. ASSUME NEW r \in Req, NEW t \in Jti, TouchActive(r, t) PROVE Apart'
  BY <1>9, MintApart
<1>10. ASSUME NEW r \in Req, TouchBlocked(r) PROVE Apart'
  BY <1>10 DEF TouchBlocked, TypeOK, Apart, OneLoginPerState
<1>11. ASSUME NEW r \in Req, TouchMissing(r) PROVE Apart'
  BY <1>11 DEF TouchMissing, TypeOK, Apart, OneLoginPerState
<1>12. ASSUME NEW r \in Req, Commit(r) PROVE Apart'
  BY <1>12 DEF Commit, Transaction, TypeOK, TableShape, Spent, Apart,
        OneLoginPerState
<1>13. ASSUME NEW r \in Req, StepFails(r) PROVE Apart'
  BY <1>13 DEF StepFails, TypeOK, Apart, OneLoginPerState
<1>14. ASSUME NEW r \in Req, AckLost(r) PROVE Apart'
  BY <1>14 DEF AckLost, TypeOK, Apart, OneLoginPerState
<1>15. ASSUME NEW t \in Jti, Settle(t) PROVE Apart'
  BY <1>15 DEF Settle, Apart, OneLoginPerState
<1>16. ASSUME NEW r \in Req, Deliver(r) PROVE Apart'
  BY <1>16 DEF Deliver, Free, TypeOK, Apart, OneLoginPerState
<1>17. ASSUME NEW r \in Req, LoseReply(r) PROVE Apart'
  BY <1>17 DEF LoseReply, Free, TypeOK, Apart, OneLoginPerState
<1>18. ASSUME Stop PROVE Apart'
  BY <1>18 DEF Stop, Apart, OneLoginPerState
<1>19. ASSUME NEW u \in User, NEW status \in {"active", "blocked"}, SetStatus(u, status)
      PROVE  Apart'
  BY <1>19 DEF SetStatus, TypeOK, Apart, OneLoginPerState
<1>20. ASSUME NEW u \in User, DeleteUser(u) PROVE Apart'
  BY <1>20 DEF DeleteUser, Apart, OneLoginPerState
<1>21. CASE UNCHANGED vars
  BY <1>21 DEF vars, Apart, OneLoginPerState
<1> QED
  BY <1>1, <1>2, <1>3, <1>4, <1>5, <1>6, <1>7, <1>8, <1>9, <1>10, <1>11,
     <1>12, <1>13, <1>14, <1>15, <1>16, <1>17, <1>18, <1>19, <1>20, <1>21
  DEF Next, Step, StoreFails, Crash

\* The status is read while the callback is in flight.
LEMMA EligibleStep == TypeOK /\ Shape /\ Eligible /\ [Next]_vars => Eligible'
<1> USE NoneAssumption, StoreAssumption DEF Goto, db, Reply, Querying,
      Status, Call, Origin, NoCall, NoOrigin, Exists, Minted
<1> SUFFICES ASSUME TypeOK, Shape, Eligible, [Next]_vars PROVE Eligible'
  OBVIOUS
<1>1. ASSUME NEW s \in State, Issue(s) PROVE Eligible'
  BY <1>1 DEF Issue, Eligible, OnlyActiveAccounts
<1>2. ASSUME NEW s \in State, StoreState(s) PROVE Eligible'
  BY <1>2 DEF StoreState, Eligible, OnlyActiveAccounts
<1>3. ASSUME NEW s \in State, Age(s) PROVE Eligible'
  BY <1>3 DEF Age, Eligible, OnlyActiveAccounts
<1>4. ASSUME NEW r \in Req, NEW s \in State, NEW u \in User \cup {NoUser},
             Callback(r, s, u) PROVE Eligible'
  BY <1>4 DEF Callback, TypeOK, OriginShape, Eligible, OnlyActiveAccounts
<1>5. ASSUME NEW r \in Req, Consume(r) PROVE Eligible'
  BY <1>5 DEF Consume, TypeOK, Eligible, OnlyActiveAccounts
<1>6. ASSUME NEW r \in Req, ConsumeUnacked(r) PROVE Eligible'
  BY <1>6 DEF ConsumeUnacked, TypeOK, Eligible, OnlyActiveAccounts
<1>7. ASSUME NEW r \in Req, Google(r) PROVE Eligible'
  BY <1>7 DEF Google, TypeOK, Eligible, OnlyActiveAccounts
<1>8. ASSUME NEW r \in Req, Resolve(r) PROVE Eligible'
  BY <1>8, ResolveEligible
<1>9. ASSUME NEW r \in Req, NEW t \in Jti, TouchActive(r, t) PROVE Eligible'
  <2>1. call[r].eligible
    BY <1>9 DEF TouchActive, Eligible
  <2>2. OnlyActiveAccounts'
    BY <1>9, <2>1, MintFacts DEF Eligible, OnlyActiveAccounts
  <2>3. UNCHANGED account
    BY <1>9 DEF TouchActive
  <2> QED
    BY <1>9, <2>2, <2>3, MintFacts DEF Eligible, TypeOK
<1>10. ASSUME NEW r \in Req, TouchBlocked(r) PROVE Eligible'
  BY <1>10 DEF TouchBlocked, TypeOK, Eligible, OnlyActiveAccounts
<1>11. ASSUME NEW r \in Req, TouchMissing(r) PROVE Eligible'
  BY <1>11 DEF TouchMissing, TypeOK, Eligible, OnlyActiveAccounts
<1>12. ASSUME NEW r \in Req, Commit(r) PROVE Eligible'
  BY <1>12 DEF Commit, Transaction, TypeOK, Eligible, OnlyActiveAccounts
<1>13. ASSUME NEW r \in Req, StepFails(r) PROVE Eligible'
  BY <1>13 DEF StepFails, TypeOK, Eligible, OnlyActiveAccounts
<1>14. ASSUME NEW r \in Req, AckLost(r) PROVE Eligible'
  BY <1>14 DEF AckLost, TypeOK, Eligible, OnlyActiveAccounts
<1>15. ASSUME NEW t \in Jti, Settle(t) PROVE Eligible'
  BY <1>15 DEF Settle, Transaction, Eligible, OnlyActiveAccounts
<1>16. ASSUME NEW r \in Req, Deliver(r) PROVE Eligible'
  BY <1>16 DEF Deliver, Free, TypeOK, Eligible, OnlyActiveAccounts
<1>17. ASSUME NEW r \in Req, LoseReply(r) PROVE Eligible'
  BY <1>17 DEF LoseReply, Free, TypeOK, Eligible, OnlyActiveAccounts
<1>18. ASSUME Stop PROVE Eligible'
  BY <1>18 DEF Stop, Eligible, OnlyActiveAccounts
<1>19. ASSUME NEW u \in User, NEW status \in {"active", "blocked"}, SetStatus(u, status)
      PROVE  Eligible'
  BY <1>19 DEF SetStatus, TypeOK, Eligible, OnlyActiveAccounts
<1>20. ASSUME NEW u \in User, DeleteUser(u) PROVE Eligible'
  BY <1>20 DEF DeleteUser, TypeOK, Eligible, OnlyActiveAccounts
<1>21. CASE UNCHANGED vars
  BY <1>21 DEF vars, Eligible, OnlyActiveAccounts
<1> QED
  BY <1>1, <1>2, <1>3, <1>4, <1>5, <1>6, <1>7, <1>8, <1>9, <1>10, <1>11,
     <1>12, <1>13, <1>14, <1>15, <1>16, <1>17, <1>18, <1>19, <1>20, <1>21
  DEF Next, Step, StoreFails, Crash

\* The transaction writes both tables, and the deletion of the account clears
\* both.
LEMMA BackedStep == TypeOK /\ Shape /\ Backed /\ [Next]_vars => Backed'
<1> USE NoneAssumption, StoreAssumption DEF Goto, db, Reply, Querying,
      Status, Call, Origin, NoCall, NoOrigin, Exists, Minted
<1> SUFFICES ASSUME TypeOK, Shape, Backed, [Next]_vars PROVE Backed'
  OBVIOUS
<1>1. ASSUME NEW s \in State, Issue(s) PROVE Backed'
  BY <1>1 DEF Issue, Backed, TransactionIsAtomic, CookieIsBacked
<1>2. ASSUME NEW s \in State, StoreState(s) PROVE Backed'
  BY <1>2 DEF StoreState, Backed, TransactionIsAtomic, CookieIsBacked
<1>3. ASSUME NEW s \in State, Age(s) PROVE Backed'
  BY <1>3 DEF Age, Backed, TransactionIsAtomic, CookieIsBacked
<1>4. ASSUME NEW r \in Req, NEW s \in State, NEW u \in User \cup {NoUser},
             Callback(r, s, u) PROVE Backed'
  BY <1>4 DEF Callback, Backed, TransactionIsAtomic, CookieIsBacked
<1>5. ASSUME NEW r \in Req, Consume(r) PROVE Backed'
  BY <1>5 DEF Consume, Backed, TransactionIsAtomic, CookieIsBacked
<1>6. ASSUME NEW r \in Req, ConsumeUnacked(r) PROVE Backed'
  BY <1>6 DEF ConsumeUnacked, Backed, TransactionIsAtomic, CookieIsBacked
<1>7. ASSUME NEW r \in Req, Google(r) PROVE Backed'
  BY <1>7 DEF Google, Backed, TransactionIsAtomic, CookieIsBacked
<1>8. ASSUME NEW r \in Req, Resolve(r) PROVE Backed'
  BY <1>8 DEF Resolve, TypeOK, Backed, TransactionIsAtomic, CookieIsBacked
<1>9. ASSUME NEW r \in Req, NEW t \in Jti, TouchActive(r, t) PROVE Backed'
  BY <1>9, MintBacked
<1>10. ASSUME NEW r \in Req, TouchBlocked(r) PROVE Backed'
  BY <1>10 DEF TouchBlocked, Backed, TransactionIsAtomic, CookieIsBacked
<1>11. ASSUME NEW r \in Req, TouchMissing(r) PROVE Backed'
  BY <1>11 DEF TouchMissing, Backed, TransactionIsAtomic, CookieIsBacked
<1>12. ASSUME NEW r \in Req, Commit(r) PROVE Backed'
  BY <1>12 DEF Commit, Transaction, TypeOK, Backed, TransactionIsAtomic,
        CookieIsBacked
<1>13. ASSUME NEW r \in Req, StepFails(r) PROVE Backed'
  BY <1>13 DEF StepFails, Backed, TransactionIsAtomic, CookieIsBacked
<1>14. ASSUME NEW r \in Req, AckLost(r) PROVE Backed'
  BY <1>14 DEF AckLost, Backed, TransactionIsAtomic, CookieIsBacked
<1>15. ASSUME NEW t \in Jti, Settle(t) PROVE Backed'
  BY <1>15 DEF Settle, Transaction, Backed, TransactionIsAtomic,
        CookieIsBacked
<1>16. ASSUME NEW r \in Req, Deliver(r) PROVE Backed'
  BY <1>16 DEF Deliver, Free, TypeOK, Backed, TransactionIsAtomic,
        CookieIsBacked
<1>17. ASSUME NEW r \in Req, LoseReply(r) PROVE Backed'
  BY <1>17 DEF LoseReply, Free, TypeOK, Backed, TransactionIsAtomic,
        CookieIsBacked
<1>18. ASSUME Stop PROVE Backed'
  BY <1>18 DEF Stop, Backed, TransactionIsAtomic, CookieIsBacked
<1>19. ASSUME NEW u \in User, NEW status \in {"active", "blocked"}, SetStatus(u, status)
      PROVE  Backed'
  BY <1>19 DEF SetStatus, Backed, TransactionIsAtomic, CookieIsBacked
<1>20. ASSUME NEW u \in User, DeleteUser(u) PROVE Backed'
  BY <1>20 DEF DeleteUser, TypeOK, Backed, TransactionIsAtomic, CookieIsBacked
<1>21. CASE UNCHANGED vars
  BY <1>21 DEF vars, Backed, TransactionIsAtomic, CookieIsBacked
<1> QED
  BY <1>1, <1>2, <1>3, <1>4, <1>5, <1>6, <1>7, <1>8, <1>9, <1>10, <1>11,
     <1>12, <1>13, <1>14, <1>15, <1>16, <1>17, <1>18, <1>19, <1>20, <1>21
  DEF Next, Step, StoreFails, Crash

-----------------------------------------------------------------------------
(* Theorems                                                                *)

\* The inductive invariant holds of every reachable state.
THEOREM Inductive == Spec => []IInv
<1>1. Init => IInv
  BY NoneAssumption DEF Init, IInv, TypeOK, Shape, CallShape, OriginShape,
     TableShape, Spent, Apart, Eligible, Backed,
     OneLoginPerState, OnlyActiveAccounts, TransactionIsAtomic, CookieIsBacked,
     Pending, Minted, Exists, NoCall, NoOrigin, Call, Origin, Status,
     StateStatus, Phase
<1>2. IInv /\ [Next]_vars => IInv'
  BY TypeStep, ShapeStep, SpentStep, ApartStep, EligibleStep, BackedStep DEF IInv
<1> QED
  BY <1>1, <1>2, PTL DEF Spec

\* The types of the stores, the browsers and the callbacks.
THEOREM TypeCorrect == Spec => []TypeOK
<1>1. IInv => TypeOK
  BY DEF IInv
<1> QED
  BY <1>1, Inductive, PTL

\* A state handed out by GET /auth/google/login yields at most one session,
\* with each store and however many callbacks repeat it.
THEOREM StateSingleUse == Spec => []OneLoginPerState
<1>1. IInv => OneLoginPerState
  BY DEF IInv, Apart
<1> QED
  BY <1>1, Inductive, PTL

\* No session for an account that was not ACTIVE at any instant of its callback.
THEOREM InactiveStaysOut == Spec => []OnlyActiveAccounts
<1>1. IInv => OnlyActiveAccounts
  BY DEF IInv, Eligible
<1> QED
  BY <1>1, Inductive, PTL

\* A cookie a browser received is backed by a stored session and a recorded
\* login for as long as its account exists.
THEOREM CookieBacked == Spec => []CookieIsBacked
<1>1. IInv => CookieIsBacked
  BY DEF IInv, Backed
<1> QED
  BY <1>1, Inductive, PTL

\* A stored session and the record of its login stand together.
THEOREM LoginAtomic == Spec => []TransactionIsAtomic
<1>1. IInv => TransactionIsAtomic
  BY DEF IInv, Backed
<1> QED
  BY <1>1, Inductive, PTL

-----------------------------------------------------------------------------
(* The refinement of StateStoreContract                                    *)

View == <<lifeView, askView>>

\* Only callback r takes a step; it keeps its state.
Moves(r, ph) == /\ \A q \in Req \ {r} : pc'[q] = pc[q] /\ call'[q].state = call[q].state
                /\ pc'[r] = ph

LEMMA VerdictIs ==
  ASSUME NEW r \in Req, pc[r] # "idle"
  PROVE  /\ pc[r] = "consume" => verdict(r) = "asking"
         /\ pc[r] = "500" => verdict(r) = "over"
         /\ pc[r] \notin {"consume", "500"} => verdict(r) = "granted"
BY DEF verdict

LEMMA AskChanges ==
  ASSUME NEW r \in Req, NEW ph \in Phase \ {"idle"}, Moves(r, ph), call'[r].state = call[r].state
  PROVE  /\ askView[r] = [state |-> call[r].state, verdict |-> verdict(r)]
         /\ askView' = [askView EXCEPT ![r].verdict = verdict(r)']
         /\ ph = "500" => verdict(r)' = "over"
         /\ ph \notin {"consume", "500"} => verdict(r)' = "granted"
<1>1. askView[r] = [state |-> call[r].state, verdict |-> verdict(r)]
  BY DEF askView, Presented
<1>2. Presented(r)' = [askView[r] EXCEPT !.verdict = verdict(r)']
  BY <1>1 DEF Presented
<1>3. ASSUME NEW q \in Req \ {r} PROVE Presented(q)' = Presented(q)
  BY <1>3 DEF Presented, verdict, Moves
<1>4. askView' = [askView EXCEPT ![r].verdict = verdict(r)']
  BY <1>1, <1>2, <1>3 DEF askView
<1> QED
  BY <1>1, <1>4 DEF verdict, Moves

\* A step that keeps the verdicts and the states the callbacks came with.
LEMMA AskSame ==
  ASSUME \A r \in Req : verdict(r)' = verdict(r) /\ call'[r].state = call[r].state
  PROVE  askView' = askView
BY DEF askView, Presented

\* A state that is consumed is gone, and no other changes.
LEMMA LifeGone ==
  ASSUME TypeOK, NEW s \in State,
         states' = [states EXCEPT ![s] = IF @ \in {"stored", "stale"} THEN "gone" ELSE @]
  PROVE  /\ states[s] \in {"stored", "stale"} => lifeView' = [lifeView EXCEPT ![s] = "gone"]
         /\ states[s] \notin {"stored", "stale"} => lifeView' = lifeView
         /\ states[s] = "stored" <=> lifeView[s] = "valid"
         /\ states[s] = "stale" <=> lifeView[s] = "expired"
BY DEF TypeOK, StateStatus, lifeView, StoreLife

LEMMA ConsumeRefines ==
  ASSUME TypeOK, Shape, NEW r \in Req, Consume(r) \/ ConsumeUnacked(r)
  PROVE  StoreContract!Consume(r) \/ StoreContract!Refuse(r)
<1> DEFINE s == call[r].state
<1>1. PICK ph \in {"google", "500"} :
        /\ pc[r] = "consume" /\ Moves(r, ph) /\ call' = call
        /\ ph = "google" => states[s] = "stored"
  BY DEF Consume, ConsumeUnacked, Moves, Goto, TypeOK
<1>2. /\ s \in State
      /\ states' = [states EXCEPT ![s] = IF @ \in {"stored", "stale"} THEN "gone" ELSE @]
  BY <1>1 DEF Consume, ConsumeUnacked, Shape, CallShape
<1>3. /\ askView[r] = [state |-> s, verdict |-> "asking"]
      /\ askView' = [askView EXCEPT ![r].verdict = verdict(r)']
      /\ verdict(r)' = IF ph = "google" THEN "granted" ELSE "over"
  BY <1>1, VerdictIs, AskChanges DEF Phase, Querying, Reply
<1>4. /\ states[s] \in {"stored", "stale"} => lifeView' = [lifeView EXCEPT ![s] = "gone"]
      /\ states[s] \notin {"stored", "stale"} => lifeView' = lifeView
      /\ states[s] = "stored" <=> lifeView[s] = "valid"
      /\ states[s] = "stale" <=> lifeView[s] = "expired"
  BY <1>2, LifeGone
<1>5. CASE ph = "google"
  BY <1>1, <1>3, <1>4, <1>5 DEF StoreContract!Consume, StoreContract!Tell
<1>6. CASE ph = "500"
  <2>1. StoreContract!Tell(r, "over")
    BY <1>3, <1>6 DEF StoreContract!Tell
  <2> QED
    BY <1>3, <1>4, <2>1 DEF StoreContract!Refuse
<1> QED
  BY <1>5, <1>6

\* The steps of a callback after the state was consumed.
LEMMA ProceedRefines ==
  ASSUME TypeOK, Shape, NEW r \in Req, NEW ph \in Phase \ {"idle", "consume"},
         Moves(r, ph), pc[r] \notin {"idle", "500"},
         pc[r] = "consume" => ph = "500",
         call'[r].state = call[r].state, states' = states
  PROVE  StoreContract!Refuse(r) \/ StoreContract!Fail(r) \/ UNCHANGED View
<1>1. /\ askView[r] = [state |-> call[r].state, verdict |-> verdict(r)]
      /\ askView' = [askView EXCEPT ![r].verdict = verdict(r)']
      /\ verdict(r)' = IF ph = "500" THEN "over" ELSE "granted"
      /\ verdict(r) = IF pc[r] = "consume" THEN "asking" ELSE "granted"
  BY AskChanges, VerdictIs
<1>2. lifeView' = lifeView
  BY DEF lifeView
<1>3. CASE ph # "500"
  <2>1. \A q \in Req : verdict(q)' = verdict(q) /\ call'[q].state = call[q].state
    BY <1>1, <1>3 DEF Moves, verdict
  <2> QED
    BY <1>2, <2>1, AskSame DEF View
<1>4. CASE ph = "500" /\ pc[r] = "consume"
  BY <1>1, <1>2, <1>4 DEF StoreContract!Refuse, StoreContract!Tell
<1>5. CASE ph = "500" /\ pc[r] # "consume"
  BY <1>1, <1>2, <1>5 DEF StoreContract!Fail, StoreContract!Tell
<1> QED
  BY <1>3, <1>4, <1>5

LEMMA StepRefines ==
  ASSUME TypeOK, Shape, NEW r \in Req, Step(r) \/ Google(r)
  PROVE  \/ StoreContract!Consume(r) \/ StoreContract!Refuse(r) \/ StoreContract!Fail(r)
         \/ StoreContract!Release(r) \/ UNCHANGED View
<1>1. CASE Consume(r) \/ ConsumeUnacked(r)
  BY <1>1, ConsumeRefines
<1>2. CASE Deliver(r) \/ LoseReply(r)
  <2>1. /\ pc[r] \in Reply /\ Moves(r, "idle") /\ call'[r] = NoCall /\ states' = states
    BY <1>2 DEF Deliver, LoseReply, Free, Goto, Moves, TypeOK
  <2>2. Presented(r)' = StoreContract!NoAsk
    BY <2>1 DEF Moves, Presented, verdict, NoCall, StoreContract!NoAsk
  <2>3. ASSUME NEW q \in Req \ {r} PROVE Presented(q)' = Presented(q)
    BY <2>1, <2>3 DEF Presented, verdict, Moves
  <2>4. askView' = [askView EXCEPT ![r] = StoreContract!NoAsk]
    BY <2>2, <2>3 DEF askView
  <2>5. verdict(r) \in {"granted", "over"}
    BY <2>1, VerdictIs DEF Reply
  <2>6. askView[r].verdict = verdict(r)
    BY DEF askView, Presented
  <2> QED
    BY <2>1, <2>4, <2>5, <2>6 DEF StoreContract!Release, lifeView
<1>3. CASE StepFails(r) \/ AckLost(r) \/ Google(r) \/ TouchBlocked(r) \/ TouchMissing(r)
           \/ Commit(r)
  <2>1. PICK ph \in {"500", "resolve", "403", "302"} :
          /\ Moves(r, ph) /\ call' = call /\ states' = states
          /\ pc[r] \in Querying /\ (pc[r] = "consume" => ph = "500")
    BY <1>3 DEF StepFails, AckLost, Google, TouchBlocked, TouchMissing, Commit, Goto, Moves,
                TypeOK, Querying, db
  <2> QED
    BY <2>1, ProceedRefines DEF Phase, Querying, Reply
<1>4. CASE Resolve(r)
  <2>1. /\ pc[r] = "resolve" /\ states' = states
        /\ Moves(r, "touch") \/ Moves(r, "500")
        /\ call'[r].state = call[r].state
    BY <1>4 DEF Resolve, Goto, Moves, TypeOK, Call
  <2> QED
    BY <2>1, ProceedRefines DEF Phase, Querying, Reply
<1>5. ASSUME NEW t \in Jti, TouchActive(r, t) PROVE UNCHANGED View
  <2>1. /\ pc[r] = "touch" /\ pc' = [pc EXCEPT ![r] = "commit"]
        /\ \A q \in Req : call'[q].state = call[q].state
    BY <1>5, MintFacts
  <2>2. states' = states
    BY <1>5 DEF TouchActive
  <2>3. \A q \in Req : verdict(q)' = verdict(q)
    BY <2>1 DEF TypeOK, verdict
  <2> QED
    BY <2>1, <2>2, <2>3, AskSame DEF View, lifeView
<1> QED
  BY <1>1, <1>2, <1>3, <1>4, <1>5 DEF Step

\* A callback that comes back from Google.
LEMMA CallbackRefines ==
  ASSUME TypeOK, Shape, NEW r \in Req, NEW s \in State, NEW u \in User \cup {NoUser},
         Callback(r, s, u)
  PROVE  StoreContract!Present(r, s)
<1>1. pc[r] = "idle" /\ call[r] = NoCall /\ states[s] # "unused" /\ states' = states
  BY DEF Callback, Shape, CallShape
<1>2. Moves(r, "consume") /\ call'[r].state = s
  BY DEF Callback, Goto, Moves, TypeOK, NoCall
<1>3. askView[r] = StoreContract!NoAsk
  BY <1>1 DEF askView, Presented, verdict, NoCall, StoreContract!NoAsk
<1>4. Presented(r)' = [state |-> s, verdict |-> "asking"]
  BY <1>2 DEF Moves, Presented, verdict
<1>5. ASSUME NEW q \in Req \ {r} PROVE Presented(q)' = Presented(q)
  BY <1>2, <1>5 DEF Presented, verdict, Moves
<1>6. askView' = [askView EXCEPT ![r] = [state |-> s, verdict |-> "asking"]]
  BY <1>4, <1>5 DEF askView
<1>7. lifeView[s] # "unused" /\ lifeView' = lifeView
  BY <1>1 DEF lifeView, StoreLife, TypeOK, StateStatus
<1> QED
  BY <1>3, <1>6, <1>7 DEF StoreContract!Present

\* The stores themselves.
LEMMA StoreRefines ==
  ASSUME TypeOK, TypeOK', NEW s \in State, Issue(s) \/ StoreState(s) \/ Age(s)
  PROVE  StoreContract!HandOut(s) \/ StoreContract!Keep(s) \/ StoreContract!Expire(s)
<1>1. askView' = askView
  BY AskSame DEF Issue, StoreState, Age, verdict
<1>2. lifeView' \in [State -> StoreContract!Life]
  BY DEF TypeOK, lifeView, StoreLife, StateStatus, StoreContract!Life
<1>3. CASE Issue(s)
  <2>1. states[s] = "unused" /\ states'[s] \in {"stored", "sending"}
    BY <1>3 DEF Issue, TypeOK
  <2>2. ASSUME NEW x \in State \ {s}
        PROVE  states'[x] = states[x] \/ (states[x] = "stale" /\ states'[x] = "gone")
    BY <1>3, <2>2 DEF Issue, TypeOK
  <2>3. lifeView[s] = "unused" /\ lifeView'[s] \in {"handed", "valid"}
    BY <2>1 DEF lifeView, StoreLife
  <2>4. ASSUME NEW x \in State \ {s}
        PROVE  \/ lifeView'[x] = lifeView[x]
               \/ lifeView[x] = "expired" /\ lifeView'[x] = "gone"
    BY <2>2, <2>4 DEF lifeView, StoreLife
  <2> QED
    BY <1>1, <1>2, <2>3, <2>4 DEF StoreContract!HandOut
<1>4. CASE StoreState(s)
  BY <1>1, <1>4 DEF StoreState, TypeOK, lifeView, StoreLife, StoreContract!Keep
<1>5. CASE Age(s)
  BY <1>1, <1>5 DEF Age, TypeOK, lifeView, StoreLife, StoreContract!Expire
<1> QED
  BY <1>3, <1>4, <1>5

\* The process ends: some of its states are lost.
LEMMA StopRefines ==
  ASSUME TypeOK, Stop
  PROVE  StoreContract!Restart
<1>1. \A s \in State : states'[s] \in AfterCrash(s)
  BY DEF Stop
<1>2. ASSUME NEW s \in State
      PROVE  /\ lifeView'[s] \in StoreContract!Life
             /\ \/ lifeView'[s] = lifeView[s]
                \/ lifeView[s] # "unused" /\ lifeView'[s] = "gone"
                \/ lifeView[s] = "handed" /\ lifeView'[s] = "valid"
  BY <1>1, <1>2 DEF AfterCrash, TypeOK, StateStatus, lifeView, StoreLife, StoreContract!Life
<1>3. lifeView' \in [State -> StoreContract!Life]
  BY <1>2 DEF lifeView
<1>4. ASSUME NEW r \in Req PROVE Presented(r)' = StoreContract!NoAsk
  BY <1>4 DEF Stop, Presented, verdict, NoCall, StoreContract!NoAsk
<1>5. askView' = [r \in Req |-> StoreContract!NoAsk]
  BY <1>4 DEF askView
<1> QED
  BY <1>2, <1>3, <1>5 DEF StoreContract!Restart

\* What happens to accounts and transactions does not concern the store.
LEMMA AccountsStutter ==
  ASSUME TypeOK, \/ \E t \in Jti : Settle(t)
                 \/ \E u \in User : \/ DeleteUser(u) \/ SetStatus(u, "active")
                                    \/ SetStatus(u, "blocked")
  PROVE  UNCHANGED View
<1>1. pc' = pc /\ states' = states /\ \A r \in Req : call'[r].state = call[r].state
  BY DEF Settle, DeleteUser, SetStatus, TypeOK, Call
<1> QED
  BY <1>1, AskSame DEF View, lifeView, verdict

\* The store of OAuthService, for each of the three ways it is reached, keeps
\* its contract: a state is consumed once, within its time to live.
THEOREM StoreKept == Spec => ImplementsStore
<1>1. Init => StoreContract!Init
  BY DEF Init, StoreContract!Init, lifeView, StoreLife, askView, Presented, verdict, NoCall,
         StoreContract!NoAsk
<1>2. IInv /\ IInv' /\ [Next]_vars => [StoreContract!Next]_(StoreContract!vars)
  <2> SUFFICES ASSUME IInv, IInv', [Next]_vars
               PROVE  StoreContract!Next \/ UNCHANGED View
    BY DEF View, StoreContract!vars
  <2> USE DEF IInv
  <2>1. CASE UNCHANGED vars
    BY <2>1, AskSame DEF vars, View, lifeView, verdict
  <2>2. ASSUME NEW s \in State, Issue(s) \/ StoreState(s) \/ Age(s) PROVE StoreContract!Next
    BY <2>2, StoreRefines DEF StoreContract!Next
  <2>3. ASSUME Crash \/ \E s \in State : StoreFails(s) PROVE StoreContract!Next
    BY <2>3, StopRefines DEF Crash, StoreFails, StoreContract!Next
  <2>4. ASSUME NEW r \in Req, NEW s \in State, NEW u \in User \cup {NoUser}, Callback(r, s, u)
        PROVE  StoreContract!Next
    BY <2>4, CallbackRefines DEF StoreContract!Next
  <2>5. ASSUME NEW r \in Req, Step(r) \/ Google(r)
        PROVE  StoreContract!Next \/ UNCHANGED View
    BY <2>5, StepRefines DEF StoreContract!Next
  <2> QED
    BY <2>1, <2>2, <2>3, <2>4, <2>5, AccountsStutter DEF Next
<1> QED
  BY <1>1, <1>2, Inductive, PTL DEF Spec, ImplementsStore, StoreContract!Spec

-----------------------------------------------------------------------------
(* The refinement of SessionContract                                       *)

LEMMA SessionSame ==
  ASSUME UNCHANGED <<row, minted, account>>
  PROVE  UNCHANGED Sessions!vars
BY DEF Sessions!vars, sessionView, SessionOf, Exists

\* The transaction of a token opens its session, unless it is open.
LEMMA TransactionOpens ==
  ASSUME TypeOK, NEW t \in Jti, CanCommit(t), Transaction(t), minted' = minted
  PROVE  Sessions!Open(t) \/ UNCHANGED Sessions!vars
<1>1. SessionOf(t) = IF t \in row THEN "open" ELSE "none"
  BY DEF SessionOf, CanCommit
<1>2. SessionOf(t)' = "open"
  BY DEF SessionOf, Transaction
<1>3. ASSUME NEW x \in Jti \ {t} PROVE SessionOf(x)' = SessionOf(x)
  BY <1>3 DEF SessionOf, Transaction, Exists
<1>4. sessionView' = [sessionView EXCEPT ![t] = "open"]
  BY <1>2, <1>3 DEF sessionView
<1>5. CASE t \in row
  <2>1. sessionView' = sessionView
    BY <1>1, <1>2, <1>3, <1>5 DEF sessionView
  <2> QED
    BY <2>1 DEF Sessions!vars
<1>6. CASE t \notin row
  <2>1. sessionView[t] = "none"
    BY <1>1, <1>6 DEF sessionView
  <2> QED
    BY <1>4, <2>1 DEF Sessions!Open
<1> QED
  BY <1>5, <1>6

\* The cascade leaves an orphan where a token was signed.
LEMMA DeletionOrphans ==
  ASSUME TypeOK, NEW u \in User, DeleteUser(u)
  PROVE  Sessions!Orphan({t \in Jti : minted[t].user = u})
<1> DEFINE T == {t \in Jti : minted[t].user = u}
<1>1. /\ account' = [account EXCEPT ![u] = "deleted"] /\ minted' = minted
      /\ row' = {t \in row : minted[t].user # u}
  BY DEF DeleteUser
<1>2. ASSUME NEW t \in T PROVE SessionOf(t)' = "orphan"
  <2>1. minted[t] # NoOrigin
    BY NoneAssumption DEF NoOrigin
  <2>2. t \notin row' /\ ~Exists(minted[t].user)'
    BY <1>1 DEF Exists, TypeOK
  <2> QED
    BY <1>1, <2>1, <2>2 DEF SessionOf
<1>3. ASSUME NEW t \in Jti \ T PROVE SessionOf(t)' = SessionOf(t)
  <2>1. t \in row' <=> t \in row
    BY <1>1
  <2>2. Exists(minted[t].user)' <=> Exists(minted[t].user)
    BY <1>1 DEF Exists, TypeOK
  <2> QED
    BY <1>1, <2>1, <2>2 DEF SessionOf
<1> QED
  BY <1>2, <1>3 DEF Sessions!Orphan, sessionView

\* A token that is signed has no session yet, and its account still exists.
LEMMA SigningIsSilent ==
  ASSUME TypeOK, Shape, NEW r \in Req, NEW t \in Jti, TouchActive(r, t)
  PROVE  UNCHANGED Sessions!vars
<1>1. /\ ~Minted(t) /\ minted'[t].user = call[r].user
      /\ \A x \in Jti \ {t} : minted'[x] = minted[x]
  BY MintFacts
<1>2. Exists(call[r].user) /\ account' = account /\ row' = row
  BY DEF TouchActive, Touch
<1>3. t \notin row
  BY <1>1 DEF Shape, TableShape
<1>4. SessionOf(t) = "none" /\ SessionOf(t)' = "none"
  BY <1>1, <1>2, <1>3 DEF SessionOf, Minted, Exists
<1>5. ASSUME NEW x \in Jti \ {t} PROVE SessionOf(x)' = SessionOf(x)
  BY <1>1, <1>2, <1>5 DEF SessionOf, Exists
<1>6. sessionView' = sessionView
  BY <1>4, <1>5 DEF sessionView
<1> QED
  BY <1>6 DEF Sessions!vars

LEMMA SessionStep ==
  ASSUME TypeOK, Shape, [Next]_vars
  PROVE  [Sessions!Next]_(Sessions!vars)
<1>1. ASSUME NEW s \in State, Issue(s) \/ StoreState(s) \/ StoreFails(s) \/ Age(s)
      PROVE  UNCHANGED Sessions!vars
  BY <1>1, SessionSame DEF Issue, StoreState, StoreFails, Stop, Age, db
<1>2. ASSUME NEW r \in Req, NEW s \in State, NEW u \in User \cup {NoUser}, Callback(r, s, u)
      PROVE  UNCHANGED Sessions!vars
  BY <1>2, SessionSame DEF Callback, db
<1>3. ASSUME NEW r \in Req, Google(r) \/ Consume(r) \/ ConsumeUnacked(r) \/ Resolve(r)
                              \/ TouchBlocked(r) \/ TouchMissing(r) \/ StepFails(r)
                              \/ AckLost(r) \/ Deliver(r) \/ LoseReply(r)
      PROVE  UNCHANGED Sessions!vars
  BY <1>3, SessionSame
     DEF Google, Consume, ConsumeUnacked, Resolve, TouchBlocked, TouchMissing, Touch, StepFails,
         AckLost, Deliver, LoseReply, db
<1>4. ASSUME NEW r \in Req, NEW t \in Jti, TouchActive(r, t) PROVE UNCHANGED Sessions!vars
  BY <1>4, SigningIsSilent
<1>5. ASSUME NEW r \in Req, Commit(r) PROVE [Sessions!Next]_(Sessions!vars)
  <2>1. call[r].tok \in Jti /\ minted' = minted
    BY <1>5 DEF Commit, Shape, CallShape
  <2>2. CASE CanCommit(call[r].tok)
    BY <1>5, <2>1, <2>2, TransactionOpens DEF Commit, Sessions!Next
  <2>3. CASE ~CanCommit(call[r].tok)
    BY <1>5, <2>3, SessionSame DEF Commit, db
  <2> QED
    BY <2>2, <2>3
<1>6. ASSUME NEW t \in Jti, Settle(t) PROVE [Sessions!Next]_(Sessions!vars)
  <2>1. CASE CanCommit(t) /\ Transaction(t)
    BY <1>6, <2>1, TransactionOpens DEF Settle, Sessions!Next
  <2>2. CASE UNCHANGED db
    BY <1>6, <2>2, SessionSame DEF Settle, db
  <2> QED
    BY <1>6, <2>1, <2>2 DEF Settle
<1>7. ASSUME NEW u \in User, DeleteUser(u) PROVE Sessions!Next
  BY <1>7, DeletionOrphans DEF Sessions!Next
<1>8. ASSUME NEW u \in User, NEW st \in {"active", "blocked"}, SetStatus(u, st)
      PROVE  UNCHANGED Sessions!vars
  <2>1. /\ row' = row /\ minted' = minted
        /\ \A x : Exists(x)' <=> Exists(x)
    BY <1>8 DEF SetStatus, Exists, TypeOK
  <2>2. \A t \in Jti : SessionOf(t)' = SessionOf(t)
    BY <2>1 DEF SessionOf
  <2> QED
    BY <2>2 DEF Sessions!vars, sessionView
<1>9. CASE Crash \/ UNCHANGED vars
  BY <1>9, SessionSame DEF Crash, Stop, vars, db
<1> QED
  BY <1>1, <1>2, <1>3, <1>4, <1>5, <1>6, <1>7, <1>8, <1>9 DEF Next, Step

\* Google logins open and end their sessions as SessionContract allows.
THEOREM GoogleSessionsKept == Spec => ImplementsSessions
<1>1. Init => Sessions!Init
  BY DEF Init, Sessions!Init, Sessions!NoAsk, sessionView, SessionOf, NoOrigin
<1>2. IInv /\ [Next]_vars => [Sessions!Next]_(Sessions!vars)
  BY SessionStep DEF IInv
<1> QED
  BY <1>1, <1>2, Inductive, PTL DEF Spec, ImplementsSessions, Sessions!Spec

-----------------------------------------------------------------------------
(* A callback moves forward only                                           *)

\* How many steps a callback is away from its end.
StepsLeft(phase) == CASE phase = "idle" -> 0
                      [] phase \in Reply -> 1
                      [] phase = "commit" -> 2
                      [] phase = "touch" -> 3
                      [] phase = "resolve" -> 4
                      [] phase = "google" -> 5
                      [] phase = "consume" -> 6

\* Why Answered holds: each of its steps, Google's answer among them, brings it
\* nearer to its end, none is ever repeated (a code of Google is good once),
\* and no other callback, administrator or late write sends it back.
NeverSentBack ==
  [][\A r \in Req : pc[r] # "idle" =>
       IF Step(r) \/ Google(r) THEN StepsLeft(pc'[r]) < StepsLeft(pc[r])
                               ELSE pc'[r] \in {pc[r], "idle"}]_vars

LEMMA StepAdvances ==
  ASSUME IInv, NEW r \in Req, Step(r) \/ Google(r)
  PROVE  StepsLeft(pc'[r]) < StepsLeft(pc[r])
<1> USE DEF IInv, TypeOK, Goto, StepsLeft, Reply
<1>1. CASE Consume(r) \/ ConsumeUnacked(r) \/ Google(r)
  BY <1>1 DEF Consume, ConsumeUnacked, Google
<1>2. CASE Resolve(r)
  BY <1>2 DEF Resolve
<1>3. CASE (\E t \in Jti : TouchActive(r, t)) \/ TouchBlocked(r) \/ TouchMissing(r)
  BY <1>3 DEF TouchActive, TouchBlocked, TouchMissing
<1>4. CASE Commit(r) \/ AckLost(r)
  BY <1>4 DEF Commit, AckLost
<1>5. CASE StepFails(r)
  BY <1>5 DEF StepFails, Querying
<1>6. CASE Deliver(r) \/ LoseReply(r)
  BY <1>6 DEF Deliver, LoseReply, Free
<1> QED
  BY <1>1, <1>2, <1>3, <1>4, <1>5, <1>6 DEF Step

\* The steps of the other callbacks, the stores, the browsers and the
\* administrators leave a callback where it is, or end it with the process.
LEMMA OthersLeaveIt ==
  ASSUME IInv, [Next]_vars, NEW r \in Req, pc[r] # "idle", ~(Step(r) \/ Google(r))
  PROVE  pc'[r] \in {pc[r], "idle"}
<1> USE DEF IInv, TypeOK, Goto
<1>1. ASSUME NEW q \in Req, q # r, Step(q) \/ Google(q) PROVE pc'[r] = pc[r]
  BY <1>1 DEF Step, Consume, ConsumeUnacked, Google, Resolve, TouchActive, TouchBlocked,
              TouchMissing, Commit, StepFails, AckLost, Deliver, LoseReply, Free
<1>2. ASSUME NEW q \in Req, NEW s \in State, NEW u \in User \cup {NoUser}, Callback(q, s, u)
      PROVE  pc'[r] = pc[r]
  BY <1>2 DEF Callback
<1>3. CASE Crash \/ \E s \in State : StoreFails(s)
  BY <1>3 DEF Crash, StoreFails, Stop
<1>4. CASE \/ \E s \in State : Issue(s) \/ StoreState(s) \/ Age(s)
           \/ \E t \in Jti : Settle(t)
           \/ \E u \in User : DeleteUser(u) \/ SetStatus(u, "active") \/ SetStatus(u, "blocked")
           \/ UNCHANGED vars
  BY <1>4 DEF Issue, StoreState, Age, Settle, DeleteUser, SetStatus, vars
<1> QED
  BY <1>1, <1>2, <1>3, <1>4 DEF Next

\* A callback is over after at most six steps, with each of the stores, however
\* many others are in flight and whatever fails.
THEOREM CallbacksAdvance == Spec => NeverSentBack
<1>1. IInv /\ [Next]_vars =>
        \A r \in Req : pc[r] # "idle" =>
          IF Step(r) \/ Google(r) THEN StepsLeft(pc'[r]) < StepsLeft(pc[r])
                                  ELSE pc'[r] \in {pc[r], "idle"}
  BY StepAdvances, OthersLeaveIt
<1> QED
  BY <1>1, Inductive, PTL DEF Spec, NeverSentBack
=============================================================================
