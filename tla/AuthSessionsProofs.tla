------------------------- MODULE AuthSessionsProofs -------------------------
(***************************************************************************)
(* Proofs about AuthSessions for any number of accounts, tokens and        *)
(* requests: the types, and the safety properties of the sessions from one *)
(* inductive invariant.                                                    *)
(***************************************************************************)
EXTENDS AuthSessions, Naturals, TLAPS

-----------------------------------------------------------------------------
(* The inductive invariant                                                 *)

\* Whatever refers to a token, that token was minted.  Gone(t) also holds of
\* a token not minted yet, so the other parts need this one.
MintedOnly ==
  /\ \A t \in Jti : owner[t] = NoUser => row[t] = "none" /\ t \notin held
  /\ \A w \in adrift : owner[w.jti] # NoUser
  /\ \A r \in Req : call[r].tok # NoJti => owner[call[r].tok] # NoUser

\* What the local variables of a handler can be in each phase.
Shape ==
  \A r \in Req :
    /\ pc[r] \in {"insert", "guard", "lookup", "looked", "readUser", "revoke",
                   "204"}
         => call[r].tok \in Jti
    /\ pc[r] \in {"guard", "lookup", "looked", "readUser", "revoke"}
         => call[r].op \in {"me", "logout"}
    /\ pc[r] \in {"findUser", "verify", "insert"} => call[r].op = "login"
    /\ pc[r] \in {"guard", "lookup"} => call[r].seen = "unread"
    /\ pc[r] \in {"looked", "readUser", "revoke"} => call[r].seen # "unread"
    /\ pc[r] \in {"findUser", "verify"} => call[r].tok = NoJti
    /\ pc[r] = "idle" => call[r] = NoCall
    /\ pc[r] = "200" => call[r].tok \in Jti
    /\ pc[r] = "revoke" => call[r].form = "plain"
    /\ call[r].tok = NoJti => call[r].op \in {"none", "login"}
    /\ call[r].op \in {"none", "login"} => ~call[r].late

\* A row belongs to an account that exists (the foreign key).
RowOwned == \A t \in Jti : row[t] # "none" => ~Gone(t)

\* A request past its arrival presents a token that a client holds.
AskerHolds == \A r \in Req : call[r].op \in {"me", "logout"} =>
                call[r].tok \in held

\* The row is stored before a login answers 200.
Acknowledged ==
  \A r \in Req : call[r].op = "login" /\ pc[r] = "200" =>
    row[call[r].tok] # "none" \/ Gone(call[r].tok)

\* The row of a token that was revoked when its request arrived stays revoked.
LateStaysRevoked ==
  \A r \in Req : call[r].late =>
    row[call[r].tok] = "revoked" \/ Gone(call[r].tok)

\* ... so that is what the guard reads for such a request.
LateIsSeen ==
  \A r \in Req : call[r].late /\ call[r].seen # "unread" =>
    call[r].seen = "revoked" \/ Gone(call[r].tok)

IInv == /\ TypeOK /\ MintedOnly /\ Shape /\ RowOwned /\ AskerHolds
        /\ Acknowledged /\ LateStaysRevoked /\ LateIsSeen
        /\ HeldIsRevocable /\ LateNeverAdmitted /\ LogoutRevokes

-----------------------------------------------------------------------------
(* The steps preserve each part                                            *)

\* A step changes no variable out of its type.
LEMMA TypeStep ==
  TypeOK /\ Shape /\ [Next]_vars => TypeOK'
<1> USE NullAssumption DEF Goto, Phase, Querying, Reply, Writing, RowState,
      Call, NoCall, Form
<1> SUFFICES ASSUME TypeOK, Shape, [Next]_vars PROVE TypeOK'
  OBVIOUS
<1>1. ASSUME NEW r \in Req, RejectPassword(r) PROVE TypeOK'
  BY <1>1 DEF RejectPassword, TypeOK
<1>2. ASSUME NEW r \in Req, Verify(r) PROVE TypeOK'
  BY <1>2 DEF Verify, TypeOK
<1>3. ASSUME NEW r \in Req, ReadUser(r) PROVE TypeOK'
  BY <1>3 DEF ReadUser, TypeOK
<1>4. ASSUME NEW r \in Req, QueryFails(r) PROVE TypeOK'
  BY <1>4 DEF QueryFails, TypeOK
<1>5. ASSUME NEW r \in Req, FindUser(r) PROVE TypeOK'
  BY <1>5 DEF FindUser, TypeOK
<1>6. ASSUME NEW r \in Req, Lookup(r) PROVE TypeOK'
  BY <1>6 DEF Lookup, TypeOK, Shape
<1>7. ASSUME NEW r \in Req, Resume(r) PROVE TypeOK'
  BY <1>7 DEF Resume, Handler, TypeOK
<1>8. ASSUME NEW r \in Req, Insert(r) PROVE TypeOK'
  BY <1>8 DEF Insert, TypeOK
<1>9. ASSUME NEW r \in Req, Revoke(r) PROVE TypeOK'
  BY <1>9 DEF Revoke, TypeOK
<1>10. ASSUME NEW r \in Req, AckLost(r) PROVE TypeOK'
  BY <1>10 DEF AckLost, WriteOf, Write, TypeOK, Shape
<1>11. ASSUME NEW r \in Req, Deliver(r) PROVE TypeOK'
  BY <1>11 DEF Deliver, Free, TypeOK, Shape
<1>12. ASSUME NEW r \in Req, LoseReply(r) PROVE TypeOK'
  BY <1>12 DEF LoseReply, Free, TypeOK
<1>13. ASSUME NEW r \in Req, NEW u \in User, Login(r, u) PROVE TypeOK'
  BY <1>13 DEF Login, TypeOK
<1>14. ASSUME NEW r \in Req, NEW op \in {"me", "logout"}, NEW t \in Jti,
             NEW form \in Form, Arrive(r, op, t, form) PROVE TypeOK'
  BY <1>14 DEF Arrive, TypeOK
<1>15. ASSUME NEW r \in Req, NEW t \in Jti, Mint(r, t) PROVE TypeOK'
  BY <1>15 DEF Mint, TypeOK
<1>16. ASSUME NEW w \in Write, Commit(w) PROVE TypeOK'
  BY <1>16 DEF Commit, TypeOK
<1>17. ASSUME NEW w \in Write, Vanish(w) PROVE TypeOK'
  BY <1>17 DEF Vanish, TypeOK
<1>18. ASSUME NEW t \in Jti, Expire(t) PROVE TypeOK'
  BY <1>18 DEF Expire, TypeOK
<1>19. ASSUME NEW u \in User, DeleteUser(u) PROVE TypeOK'
  BY <1>19 DEF DeleteUser, TypeOK
<1>20. ASSUME Crash PROVE TypeOK'
  BY <1>20 DEF Crash, WriteOf, Write, TypeOK, Shape
<1>21. CASE UNCHANGED vars
  BY <1>21 DEF vars, TypeOK
<1> QED
  BY <1>1, <1>2, <1>3, <1>4, <1>5, <1>6, <1>7, <1>8, <1>9, <1>10, <1>11,
     <1>12, <1>13, <1>14, <1>15, <1>16, <1>17, <1>18, <1>19, <1>20, <1>21
     DEF Next, Step

\* The local variables of a handler fit the phase it enters.
LEMMA ShapeStep ==
  TypeOK /\ Shape /\ [Next]_vars => Shape'
<1> USE NullAssumption DEF Goto, Phase, Querying, Reply, Writing, RowState,
      Call, NoCall
<1> SUFFICES ASSUME TypeOK, Shape, [Next]_vars PROVE Shape'
  OBVIOUS
<1>1. ASSUME NEW r \in Req, RejectPassword(r) PROVE Shape'
  BY <1>1 DEF RejectPassword, TypeOK, Shape
<1>2. ASSUME NEW r \in Req, Verify(r) PROVE Shape'
  BY <1>2 DEF Verify, TypeOK, Shape
<1>3. ASSUME NEW r \in Req, ReadUser(r) PROVE Shape'
  BY <1>3 DEF ReadUser, TypeOK, Shape
<1>4. ASSUME NEW r \in Req, QueryFails(r) PROVE Shape'
  BY <1>4 DEF QueryFails, TypeOK, Shape
<1>5. ASSUME NEW r \in Req, FindUser(r) PROVE Shape'
  BY <1>5 DEF FindUser, TypeOK, Shape
<1>6. ASSUME NEW r \in Req, Lookup(r) PROVE Shape'
  BY <1>6 DEF Lookup, TypeOK, Shape
<1>7. ASSUME NEW r \in Req, Resume(r) PROVE Shape'
  BY <1>7 DEF Resume, Handler, TypeOK, Shape
<1>8. ASSUME NEW r \in Req, Insert(r) PROVE Shape'
  BY <1>8 DEF Insert, TypeOK, Shape
<1>9. ASSUME NEW r \in Req, Revoke(r) PROVE Shape'
  BY <1>9 DEF Revoke, TypeOK, Shape
<1>10. ASSUME NEW r \in Req, AckLost(r) PROVE Shape'
  BY <1>10 DEF AckLost, TypeOK, Shape
<1>11. ASSUME NEW r \in Req, Deliver(r) PROVE Shape'
  BY <1>11 DEF Deliver, Free, TypeOK, Shape
<1>12. ASSUME NEW r \in Req, LoseReply(r) PROVE Shape'
  BY <1>12 DEF LoseReply, Free, TypeOK, Shape
<1>13. ASSUME NEW r \in Req, NEW u \in User, Login(r, u) PROVE Shape'
  BY <1>13 DEF Login, TypeOK, Shape
<1>14. ASSUME NEW r \in Req, NEW op \in {"me", "logout"}, NEW t \in Jti,
             NEW form \in Form, Arrive(r, op, t, form) PROVE Shape'
  BY <1>14 DEF Arrive, TypeOK, Shape
<1>15. ASSUME NEW r \in Req, NEW t \in Jti, Mint(r, t) PROVE Shape'
  BY <1>15 DEF Mint, TypeOK, Shape
<1>16. ASSUME NEW w \in Write, Commit(w) PROVE Shape'
  BY <1>16 DEF Commit, Shape
<1>17. ASSUME NEW w \in Write, Vanish(w) PROVE Shape'
  BY <1>17 DEF Vanish, Shape
<1>18. ASSUME NEW t \in Jti, Expire(t) PROVE Shape'
  BY <1>18 DEF Expire, Shape
<1>19. ASSUME NEW u \in User, DeleteUser(u) PROVE Shape'
  BY <1>19 DEF DeleteUser, Shape
<1>20. ASSUME Crash PROVE Shape'
  BY <1>20 DEF Crash, Shape
<1>21. CASE UNCHANGED vars
  BY <1>21 DEF vars, Shape
<1> QED
  BY <1>1, <1>2, <1>3, <1>4, <1>5, <1>6, <1>7, <1>8, <1>9, <1>10, <1>11,
     <1>12, <1>13, <1>14, <1>15, <1>16, <1>17, <1>18, <1>19, <1>20, <1>21
     DEF Next, Step

\* Only Mint introduces a token, and it gives it an owner for good.
LEMMA MintedStep ==
  TypeOK /\ Shape /\ MintedOnly /\ [Next]_vars => MintedOnly'
<1> USE NullAssumption DEF Goto, Reply, Writing, Call, NoCall
<1> SUFFICES ASSUME TypeOK, Shape, MintedOnly, [Next]_vars PROVE MintedOnly'
  OBVIOUS
<1>1. ASSUME NEW r \in Req, RejectPassword(r) \/ Verify(r) \/ ReadUser(r)
      PROVE MintedOnly'
  BY <1>1 DEF RejectPassword, Verify, ReadUser, MintedOnly
<1>2. ASSUME NEW r \in Req, QueryFails(r) PROVE MintedOnly'
  BY <1>2 DEF QueryFails, MintedOnly
<1>3. ASSUME NEW r \in Req, FindUser(r) PROVE MintedOnly'
  BY <1>3 DEF FindUser, MintedOnly
<1>4. ASSUME NEW r \in Req, Lookup(r) PROVE MintedOnly'
  BY <1>4 DEF Lookup, MintedOnly
<1>5. ASSUME NEW r \in Req, Resume(r) PROVE MintedOnly'
  BY <1>5 DEF Resume, MintedOnly
<1>6. ASSUME NEW r \in Req, Insert(r) \/ Revoke(r)
      PROVE MintedOnly'
  BY <1>6 DEF Insert, Revoke, TypeOK, MintedOnly
<1>7. ASSUME NEW r \in Req, AckLost(r) PROVE MintedOnly'
  BY <1>7 DEF AckLost, WriteOf, Shape, MintedOnly
<1>8. ASSUME NEW r \in Req, Deliver(r) \/ LoseReply(r)
      PROVE MintedOnly'
  BY <1>8 DEF Deliver, Free, LoseReply, TypeOK, Shape, MintedOnly
<1>9. ASSUME NEW r \in Req, NEW u \in User, Login(r, u) PROVE MintedOnly'
  BY <1>9 DEF Login, MintedOnly
<1>10. ASSUME NEW r \in Req, NEW op \in {"me", "logout"}, NEW t \in Jti,
             NEW form \in Form, Arrive(r, op, t, form) PROVE MintedOnly'
  BY <1>10 DEF Arrive, MintedOnly
<1>11. ASSUME NEW r \in Req, NEW t \in Jti, Mint(r, t) PROVE MintedOnly'
  BY <1>11 DEF Mint, TypeOK, MintedOnly
<1>12. ASSUME NEW w \in Write, Commit(w) PROVE MintedOnly'
  BY <1>12 DEF Commit, TypeOK, MintedOnly
<1>13. ASSUME NEW w \in Write, Vanish(w) PROVE MintedOnly'
  BY <1>13 DEF Vanish, MintedOnly
<1>14. ASSUME NEW t \in Jti, Expire(t) PROVE MintedOnly'
  BY <1>14 DEF Expire, MintedOnly
<1>15. ASSUME NEW u \in User, DeleteUser(u) PROVE MintedOnly'
  BY <1>15 DEF DeleteUser, MintedOnly
<1>16. ASSUME Crash PROVE MintedOnly'
  BY <1>16 DEF Crash, WriteOf, Shape, MintedOnly
<1>17. CASE UNCHANGED vars
  BY <1>17 DEF vars, MintedOnly
<1> QED
  BY <1>1, <1>2, <1>3, <1>4, <1>5, <1>6, <1>7, <1>8, <1>9, <1>10, <1>11,
     <1>12, <1>13, <1>14, <1>15, <1>16, <1>17 DEF Next, Step

\* Rows are inserted for existing accounts and deleted with them; tokens are
\* presented only by clients that hold them.
LEMMA RowStep ==
  TypeOK /\ Shape /\ MintedOnly /\ RowOwned /\ AskerHolds /\ [Next]_vars
    => (RowOwned /\ AskerHolds)'
<1> USE NullAssumption DEF Gone, Goto, Reply, Writing, RowState, Call, NoCall
<1> SUFFICES ASSUME TypeOK, Shape, MintedOnly, RowOwned, AskerHolds, [Next]_vars
             PROVE  (RowOwned /\ AskerHolds)'
  OBVIOUS
<1>1. ASSUME NEW r \in Req, RejectPassword(r) \/ Verify(r) \/ ReadUser(r)
      PROVE (RowOwned /\ AskerHolds)'
  BY <1>1 DEF RejectPassword, Verify, ReadUser, RowOwned, AskerHolds
<1>2. ASSUME NEW r \in Req, QueryFails(r) PROVE (RowOwned /\ AskerHolds)'
  BY <1>2 DEF QueryFails, RowOwned, AskerHolds
<1>3. ASSUME NEW r \in Req, FindUser(r) PROVE (RowOwned /\ AskerHolds)'
  BY <1>3 DEF FindUser, RowOwned, AskerHolds
<1>4. ASSUME NEW r \in Req, Lookup(r) PROVE (RowOwned /\ AskerHolds)'
  BY <1>4 DEF Lookup, RowOwned, AskerHolds
<1>5. ASSUME NEW r \in Req, Resume(r) PROVE (RowOwned /\ AskerHolds)'
  BY <1>5 DEF Resume, RowOwned, AskerHolds
<1>6. ASSUME NEW r \in Req, Insert(r) PROVE (RowOwned /\ AskerHolds)'
  BY <1>6 DEF Insert, CanInsert, TypeOK, RowOwned, AskerHolds
<1>7. ASSUME NEW r \in Req, Revoke(r) PROVE (RowOwned /\ AskerHolds)'
  BY <1>7 DEF Revoke, TypeOK, RowOwned, AskerHolds
<1>8. ASSUME NEW r \in Req, AckLost(r) PROVE (RowOwned /\ AskerHolds)'
  BY <1>8 DEF AckLost, RowOwned, AskerHolds
<1>9. ASSUME NEW r \in Req, Deliver(r) PROVE (RowOwned /\ AskerHolds)'
  BY <1>9 DEF Deliver, Free, RowOwned, AskerHolds
<1>10. ASSUME NEW r \in Req, LoseReply(r) PROVE (RowOwned /\ AskerHolds)'
  BY <1>10 DEF LoseReply, Free, RowOwned, AskerHolds
<1>11. ASSUME NEW r \in Req, NEW u \in User, Login(r, u)
      PROVE  (RowOwned /\ AskerHolds)'
  BY <1>11 DEF Login, RowOwned, AskerHolds
<1>12. ASSUME NEW r \in Req, NEW op \in {"me", "logout"}, NEW t \in Jti,
             NEW form \in Form, Arrive(r, op, t, form)
      PROVE  (RowOwned /\ AskerHolds)'
  BY <1>12 DEF Arrive, RowOwned, AskerHolds
<1>13. ASSUME NEW r \in Req, NEW t \in Jti, Mint(r, t)
      PROVE  (RowOwned /\ AskerHolds)'
  BY <1>13 DEF Mint, TypeOK, Shape, RowOwned, AskerHolds
<1>14. ASSUME NEW w \in Write, Commit(w) PROVE (RowOwned /\ AskerHolds)'
  BY <1>14 DEF Commit, CanInsert, TypeOK, RowOwned, AskerHolds
<1>15. ASSUME NEW w \in Write, Vanish(w) PROVE (RowOwned /\ AskerHolds)'
  BY <1>15 DEF Vanish, RowOwned, AskerHolds
<1>16. ASSUME NEW t \in Jti, Expire(t) PROVE (RowOwned /\ AskerHolds)'
  BY <1>16 DEF Expire, RowOwned, AskerHolds
<1>17. ASSUME NEW u \in User, DeleteUser(u) PROVE (RowOwned /\ AskerHolds)'
  BY <1>17 DEF DeleteUser, RowOwned, AskerHolds
<1>18. ASSUME Crash PROVE (RowOwned /\ AskerHolds)'
  BY <1>18 DEF Crash, RowOwned, AskerHolds
<1>19. CASE UNCHANGED vars
  BY <1>19 DEF vars, RowOwned, AskerHolds
<1> QED
  BY <1>1, <1>2, <1>3, <1>4, <1>5, <1>6, <1>7, <1>8, <1>9, <1>10, <1>11,
     <1>12, <1>13, <1>14, <1>15, <1>16, <1>17, <1>18, <1>19 DEF Next, Step

\* A login acknowledges a row that is stored; only the deletion of its account
\* removes a row.
LEMMA HeldStep ==
  TypeOK /\ Shape /\ MintedOnly /\ Acknowledged /\ HeldIsRevocable
      /\ [Next]_vars
    => (Acknowledged /\ HeldIsRevocable)'
<1> USE NullAssumption DEF Gone, Goto, Reply, Querying, Writing, RowState,
      NoCall
<1> SUFFICES ASSUME TypeOK, Shape, MintedOnly, Acknowledged, HeldIsRevocable,
                    [Next]_vars
             PROVE  (Acknowledged /\ HeldIsRevocable)'
  OBVIOUS
<1>1. ASSUME NEW r \in Req, RejectPassword(r) \/ Verify(r) \/ ReadUser(r)
      PROVE (Acknowledged /\ HeldIsRevocable)'
  BY <1>1 DEF RejectPassword, Verify, ReadUser, TypeOK, Shape,
        Acknowledged, HeldIsRevocable
<1>2. ASSUME NEW r \in Req, QueryFails(r)
      PROVE  (Acknowledged /\ HeldIsRevocable)'
  BY <1>2 DEF QueryFails, Acknowledged, HeldIsRevocable
<1>3. ASSUME NEW r \in Req, FindUser(r) PROVE (Acknowledged /\ HeldIsRevocable)'
  BY <1>3 DEF FindUser, Acknowledged, HeldIsRevocable
<1>4. ASSUME NEW r \in Req, Lookup(r) PROVE (Acknowledged /\ HeldIsRevocable)'
  BY <1>4 DEF Lookup, Acknowledged, HeldIsRevocable
<1>5. ASSUME NEW r \in Req, Resume(r) PROVE (Acknowledged /\ HeldIsRevocable)'
  BY <1>5 DEF Resume, Handler, Acknowledged, HeldIsRevocable
<1>6. ASSUME NEW r \in Req, Insert(r) \/ Revoke(r)
      PROVE (Acknowledged /\ HeldIsRevocable)'
  BY <1>6 DEF Insert, Revoke, TypeOK, Shape, Acknowledged, HeldIsRevocable
<1>7. ASSUME NEW r \in Req, AckLost(r) PROVE (Acknowledged /\ HeldIsRevocable)'
  BY <1>7 DEF AckLost, Acknowledged, HeldIsRevocable
<1>8. ASSUME NEW r \in Req, Deliver(r) \/ LoseReply(r)
      PROVE (Acknowledged /\ HeldIsRevocable)'
  BY <1>8 DEF Deliver, Free, LoseReply, TypeOK, Acknowledged, HeldIsRevocable
<1>9. ASSUME NEW r \in Req, NEW u \in User, Login(r, u)
      PROVE  (Acknowledged /\ HeldIsRevocable)'
  BY <1>9 DEF Login, Acknowledged, HeldIsRevocable
<1>10. ASSUME NEW r \in Req, NEW op \in {"me", "logout"}, NEW t \in Jti,
             NEW form \in Form, Arrive(r, op, t, form)
      PROVE  (Acknowledged /\ HeldIsRevocable)'
  BY <1>10 DEF Arrive, Acknowledged, HeldIsRevocable
<1>11. ASSUME NEW r \in Req, NEW t \in Jti, Mint(r, t)
      PROVE  (Acknowledged /\ HeldIsRevocable)'
  BY <1>11 DEF Mint, MintedOnly, Acknowledged, HeldIsRevocable
<1>12. ASSUME NEW w \in Write, Commit(w)
      PROVE  (Acknowledged /\ HeldIsRevocable)'
  BY <1>12 DEF Commit, TypeOK, Shape, Acknowledged, HeldIsRevocable
<1>13. ASSUME NEW w \in Write, Vanish(w)
      PROVE  (Acknowledged /\ HeldIsRevocable)'
  BY <1>13 DEF Vanish, Acknowledged, HeldIsRevocable
<1>14. ASSUME NEW t \in Jti, Expire(t) PROVE (Acknowledged /\ HeldIsRevocable)'
  BY <1>14 DEF Expire, Acknowledged, HeldIsRevocable
<1>15. ASSUME NEW u \in User, DeleteUser(u)
      PROVE  (Acknowledged /\ HeldIsRevocable)'
  BY <1>15 DEF DeleteUser, TypeOK, Shape, Acknowledged, HeldIsRevocable
<1>16. ASSUME Crash PROVE (Acknowledged /\ HeldIsRevocable)'
  BY <1>16 DEF Crash, Acknowledged, HeldIsRevocable
<1>17. CASE UNCHANGED vars
  BY <1>17 DEF vars, Acknowledged, HeldIsRevocable
<1> QED
  BY <1>1, <1>2, <1>3, <1>4, <1>5, <1>6, <1>7, <1>8, <1>9, <1>10, <1>11,
     <1>12, <1>13, <1>14, <1>15, <1>16, <1>17 DEF Next, Step

\* A revoked row stays revoked, and the guard of a later request reads it so.
LEMMA LateStep ==
  TypeOK /\ Shape /\ MintedOnly /\ LateStaysRevoked /\ LateIsSeen
      /\ LateNeverAdmitted /\ [Next]_vars
    => (LateStaysRevoked /\ LateIsSeen /\ LateNeverAdmitted)'
<1> USE NullAssumption DEF Admitted, Gone, Goto, Reply, Querying, Writing,
      RowState, Call, NoCall
<1> SUFFICES ASSUME TypeOK, Shape, MintedOnly, LateStaysRevoked, LateIsSeen,
                    LateNeverAdmitted, [Next]_vars
             PROVE  (LateStaysRevoked /\ LateIsSeen /\ LateNeverAdmitted)'
  OBVIOUS
<1>1. ASSUME NEW r \in Req, RejectPassword(r) \/ Verify(r) \/ ReadUser(r)
      PROVE (LateStaysRevoked /\ LateIsSeen /\ LateNeverAdmitted)'
  BY <1>1 DEF RejectPassword, Verify, ReadUser, TypeOK, LateStaysRevoked,
        LateIsSeen, LateNeverAdmitted
<1>2. ASSUME NEW r \in Req, QueryFails(r)
      PROVE  (LateStaysRevoked /\ LateIsSeen /\ LateNeverAdmitted)'
  BY <1>2 DEF QueryFails, Shape, LateStaysRevoked, LateIsSeen,
        LateNeverAdmitted
<1>3. ASSUME NEW r \in Req, FindUser(r)
      PROVE  (LateStaysRevoked /\ LateIsSeen /\ LateNeverAdmitted)'
  BY <1>3 DEF FindUser, LateStaysRevoked, LateIsSeen, LateNeverAdmitted
<1>4. ASSUME NEW r \in Req, Lookup(r)
      PROVE  (LateStaysRevoked /\ LateIsSeen /\ LateNeverAdmitted)'
  BY <1>4 DEF Lookup, LateStaysRevoked, LateIsSeen, LateNeverAdmitted
<1>5. ASSUME NEW r \in Req, Resume(r)
      PROVE  (LateStaysRevoked /\ LateIsSeen /\ LateNeverAdmitted)'
  BY <1>5 DEF Resume, Shape, LateStaysRevoked, LateIsSeen, LateNeverAdmitted
<1>6. ASSUME NEW r \in Req, Insert(r) \/ Revoke(r)
      PROVE (LateStaysRevoked /\ LateIsSeen /\ LateNeverAdmitted)'
  BY <1>6 DEF Insert, CanInsert, Revoke, TypeOK, Shape, LateStaysRevoked,
        LateIsSeen, LateNeverAdmitted
<1>7. ASSUME NEW r \in Req, AckLost(r)
      PROVE  (LateStaysRevoked /\ LateIsSeen /\ LateNeverAdmitted)'
  BY <1>7 DEF AckLost, Shape, LateStaysRevoked, LateIsSeen, LateNeverAdmitted
<1>8. ASSUME NEW r \in Req, Deliver(r)
      PROVE  (LateStaysRevoked /\ LateIsSeen /\ LateNeverAdmitted)'
  BY <1>8 DEF Deliver, Free, LateStaysRevoked, LateIsSeen, LateNeverAdmitted
<1>9. ASSUME NEW r \in Req, LoseReply(r)
      PROVE  (LateStaysRevoked /\ LateIsSeen /\ LateNeverAdmitted)'
  BY <1>9 DEF LoseReply, Free, LateStaysRevoked, LateIsSeen, LateNeverAdmitted
<1>10. ASSUME NEW r \in Req, NEW u \in User, Login(r, u)
      PROVE  (LateStaysRevoked /\ LateIsSeen /\ LateNeverAdmitted)'
  BY <1>10 DEF Login, LateStaysRevoked, LateIsSeen, LateNeverAdmitted
<1>11. ASSUME NEW r \in Req, NEW op \in {"me", "logout"}, NEW t \in Jti,
             NEW form \in Form, Arrive(r, op, t, form)
      PROVE  (LateStaysRevoked /\ LateIsSeen /\ LateNeverAdmitted)'
  BY <1>11 DEF Arrive, TypeOK, LateStaysRevoked, LateIsSeen, LateNeverAdmitted
<1>12. ASSUME NEW r \in Req, NEW t \in Jti, Mint(r, t)
      PROVE  (LateStaysRevoked /\ LateIsSeen /\ LateNeverAdmitted)'
  BY <1>12 DEF Mint, Shape, MintedOnly, LateStaysRevoked, LateIsSeen,
        LateNeverAdmitted
<1>13. ASSUME NEW w \in Write, Commit(w)
      PROVE  (LateStaysRevoked /\ LateIsSeen /\ LateNeverAdmitted)'
  BY <1>13 DEF Commit, CanInsert, TypeOK, Shape, LateStaysRevoked,
        LateIsSeen, LateNeverAdmitted
<1>14. ASSUME NEW w \in Write, Vanish(w)
      PROVE  (LateStaysRevoked /\ LateIsSeen /\ LateNeverAdmitted)'
  BY <1>14 DEF Vanish, LateStaysRevoked, LateIsSeen, LateNeverAdmitted
<1>15. ASSUME NEW t \in Jti, Expire(t)
      PROVE  (LateStaysRevoked /\ LateIsSeen /\ LateNeverAdmitted)'
  BY <1>15 DEF Expire, LateStaysRevoked, LateIsSeen, LateNeverAdmitted
<1>16. ASSUME NEW u \in User, DeleteUser(u)
      PROVE  (LateStaysRevoked /\ LateIsSeen /\ LateNeverAdmitted)'
  BY <1>16 DEF DeleteUser, TypeOK, Shape, LateStaysRevoked, LateIsSeen,
        LateNeverAdmitted
<1>17. ASSUME Crash PROVE (LateStaysRevoked /\ LateIsSeen /\ LateNeverAdmitted)'
  BY <1>17 DEF Crash, LateStaysRevoked, LateIsSeen, LateNeverAdmitted
<1>18. CASE UNCHANGED vars
  BY <1>18 DEF vars, LateStaysRevoked, LateIsSeen, LateNeverAdmitted
<1> QED
  BY <1>1, <1>2, <1>3, <1>4, <1>5, <1>6, <1>7, <1>8, <1>9, <1>10, <1>11,
     <1>12, <1>13, <1>14, <1>15, <1>16, <1>17, <1>18 DEF Next, Step

\* A logout answers 204 after its row is revoked, and it stays revoked.
LEMMA LogoutStep ==
  TypeOK /\ Shape /\ MintedOnly /\ LogoutRevokes /\ [Next]_vars
    => LogoutRevokes'
<1> USE NullAssumption DEF Gone, Goto, Reply, Querying, Writing, RowState,
      NoCall
<1> SUFFICES ASSUME TypeOK, Shape, MintedOnly, LogoutRevokes, [Next]_vars
             PROVE  LogoutRevokes'
  OBVIOUS
<1>1. ASSUME NEW r \in Req, RejectPassword(r) \/ Verify(r) \/ ReadUser(r)
      PROVE LogoutRevokes'
  BY <1>1 DEF RejectPassword, Verify, ReadUser, TypeOK, LogoutRevokes
<1>2. ASSUME NEW r \in Req, QueryFails(r) PROVE LogoutRevokes'
  BY <1>2 DEF QueryFails, LogoutRevokes
<1>3. ASSUME NEW r \in Req, FindUser(r) PROVE LogoutRevokes'
  BY <1>3 DEF FindUser, LogoutRevokes
<1>4. ASSUME NEW r \in Req, Lookup(r) PROVE LogoutRevokes'
  BY <1>4 DEF Lookup, LogoutRevokes
<1>5. ASSUME NEW r \in Req, Resume(r) PROVE LogoutRevokes'
  BY <1>5 DEF Resume, Handler, Shape, LogoutRevokes
<1>6. ASSUME NEW r \in Req, Insert(r) \/ Revoke(r)
      PROVE LogoutRevokes'
  BY <1>6 DEF Insert, CanInsert, Revoke, TypeOK, Shape, LogoutRevokes
<1>7. ASSUME NEW r \in Req, AckLost(r) PROVE LogoutRevokes'
  BY <1>7 DEF AckLost, LogoutRevokes
<1>8. ASSUME NEW r \in Req, Deliver(r) \/ LoseReply(r)
      PROVE LogoutRevokes'
  BY <1>8 DEF Deliver, Free, LoseReply, TypeOK, LogoutRevokes
<1>9. ASSUME NEW r \in Req, NEW u \in User, Login(r, u) PROVE LogoutRevokes'
  BY <1>9 DEF Login, LogoutRevokes
<1>10. ASSUME NEW r \in Req, NEW op \in {"me", "logout"}, NEW t \in Jti,
             NEW form \in Form, Arrive(r, op, t, form) PROVE LogoutRevokes'
  BY <1>10 DEF Arrive, LogoutRevokes
<1>11. ASSUME NEW r \in Req, NEW t \in Jti, Mint(r, t) PROVE LogoutRevokes'
  BY <1>11 DEF Mint, MintedOnly, LogoutRevokes
<1>12. ASSUME NEW w \in Write, Commit(w) PROVE LogoutRevokes'
  BY <1>12 DEF Commit, CanInsert, TypeOK, Shape, LogoutRevokes
<1>13. ASSUME NEW w \in Write, Vanish(w) PROVE LogoutRevokes'
  BY <1>13 DEF Vanish, LogoutRevokes
<1>14. ASSUME NEW t \in Jti, Expire(t) PROVE LogoutRevokes'
  BY <1>14 DEF Expire, LogoutRevokes
<1>15. ASSUME NEW u \in User, DeleteUser(u) PROVE LogoutRevokes'
  BY <1>15 DEF DeleteUser, Shape, LogoutRevokes
<1>16. ASSUME Crash PROVE LogoutRevokes'
  BY <1>16 DEF Crash, LogoutRevokes
<1>17. CASE UNCHANGED vars
  BY <1>17 DEF vars, LogoutRevokes
<1> QED
  BY <1>1, <1>2, <1>3, <1>4, <1>5, <1>6, <1>7, <1>8, <1>9, <1>10, <1>11,
     <1>12, <1>13, <1>14, <1>15, <1>16, <1>17 DEF Next, Step

-----------------------------------------------------------------------------
(* Theorems                                                                *)

\* The inductive invariant holds of every reachable state.
THEOREM Inductive == Spec => []IInv
<1>1. Init => IInv
  BY NullAssumption DEF Init, IInv, TypeOK, MintedOnly, Shape, RowOwned,
        AskerHolds, Acknowledged,
        LateStaysRevoked, LateIsSeen, HeldIsRevocable, LateNeverAdmitted,
        LogoutRevokes, Admitted, NoCall, Call, Form, RowState, Phase
<1>2. IInv /\ [Next]_vars => IInv'
  BY TypeStep, ShapeStep, MintedStep, RowStep, HeldStep, LateStep,
     LogoutStep DEF IInv
<1> QED
  BY <1>1, <1>2, PTL DEF Spec

\* The types of the database, the clients and the handlers, for any number of
\* accounts, tokens and requests.
THEOREM TypeCorrect == Spec => []TypeOK
<1>1. IInv => TypeOK
  BY DEF IInv
<1> QED
  BY <1>1, Inductive, PTL

\* However logins, crashes and lost acknowledgements interleave, a token a
\* client holds has a row the server can revoke until its account is deleted:
\* the fail-open branch of AuthGuard (no record, request admitted) is reached
\* only by tokens of deleted accounts.
THEOREM HeldTokensRevocable == Spec => []HeldIsRevocable
<1>1. IInv => HeldIsRevocable
  BY DEF IInv
<1> QED
  BY <1>1, Inductive, PTL

\* AuthGuard never admits a request that arrived after its token was revoked,
\* unless the account was deleted.
THEOREM RevokedStaysOut == Spec => []LateNeverAdmitted
<1>1. IInv => LateNeverAdmitted
  BY DEF IInv
<1> QED
  BY <1>1, Inductive, PTL

\* A logout is never acknowledged ahead of the revocation.
THEOREM LogoutIsDurable == Spec => []LogoutRevokes
<1>1. IInv => LogoutRevokes
  BY DEF IInv
<1> QED
  BY <1>1, Inductive, PTL

-----------------------------------------------------------------------------
(* A handler moves forward only                                            *)

\* How many steps a request is away from its end.
StepsLeft(phase) == CASE phase = "idle" -> 0
                      [] phase \in Reply -> 1
                      [] phase \in {"insert", "readUser", "revoke"} -> 2
                      [] phase \in {"verify", "looked"} -> 3
                      [] phase \in {"findUser", "lookup"} -> 4
                      [] phase = "guard" -> 5

\* Why Answered holds: each step of its handler brings it nearer to its end,
\* none is ever repeated, and nothing that logins, logouts, administrators,
\* late writes or other requests do sends it back; only a crash cuts it short.
NeverSentBack ==
  [][\A r \in Req : pc[r] # "idle" =>
       IF Step(r) THEN StepsLeft(pc'[r]) < StepsLeft(pc[r])
                  ELSE pc'[r] \in {pc[r], "idle"}]_vars

LEMMA StepAdvances ==
  ASSUME IInv, NEW r \in Req, Step(r)
  PROVE  StepsLeft(pc'[r]) < StepsLeft(pc[r])
<1> USE DEF IInv, TypeOK, Goto, StepsLeft, Reply
<1>1. CASE FindUser(r) \/ RejectPassword(r) \/ (\E t \in Jti : Mint(r, t)) \/ Insert(r)
  BY <1>1 DEF FindUser, RejectPassword, Mint, Insert
<1>2. CASE Verify(r) \/ Lookup(r)
  BY <1>2 DEF Verify, Lookup
<1>3. CASE Resume(r)
  BY <1>3 DEF Resume, Handler
<1>4. CASE ReadUser(r) \/ Revoke(r)
  BY <1>4 DEF ReadUser, Revoke
<1>5. CASE QueryFails(r) \/ AckLost(r)
  BY <1>5 DEF QueryFails, AckLost, Querying, Writing
<1>6. CASE Deliver(r) \/ LoseReply(r)
  BY <1>6 DEF Deliver, LoseReply, Free
<1> QED
  BY <1>1, <1>2, <1>3, <1>4, <1>5, <1>6 DEF Step

\* The steps of the other requests, the database, the clients and the
\* administrators leave a request where it is, or end it with the process.
LEMMA OthersLeaveIt ==
  ASSUME IInv, [Next]_vars, NEW r \in Req, pc[r] # "idle", ~Step(r)
  PROVE  pc'[r] \in {pc[r], "idle"}
<1> USE DEF IInv, TypeOK, Goto
<1>1. ASSUME NEW q \in Req, q # r, Step(q) PROVE pc'[r] = pc[r]
  BY <1>1 DEF Step, FindUser, RejectPassword, Mint, Insert, Verify, Lookup, Resume,
              ReadUser, Revoke, QueryFails, AckLost, Deliver, LoseReply, Free
<1>2. ASSUME NEW q \in Req, \/ \E u \in User : Login(q, u)
                            \/ \E op \in {"me", "logout"}, t \in Jti, form \in Form :
                                 Arrive(q, op, t, form)
      PROVE  pc'[r] = pc[r]
  BY <1>2 DEF Login, Arrive
<1>3. CASE Crash
  BY <1>3 DEF Crash
<1>4. CASE \/ \E w \in Write : Commit(w) \/ Vanish(w)
           \/ \E t \in Jti : Expire(t)
           \/ \E u \in User : DeleteUser(u)
           \/ UNCHANGED vars
  BY <1>4 DEF Commit, Vanish, Expire, DeleteUser, vars
<1> QED
  BY <1>1, <1>2, <1>3, <1>4 DEF Next

\* A request is over after at most five steps of its handler, however many
\* others are in flight and whatever fails.
THEOREM HandlersAdvance == Spec => NeverSentBack
<1>1. IInv /\ [Next]_vars =>
        \A r \in Req : pc[r] # "idle" =>
          IF Step(r) THEN StepsLeft(pc'[r]) < StepsLeft(pc[r])
                     ELSE pc'[r] \in {pc[r], "idle"}
  BY StepAdvances, OthersLeaveIt
<1> QED
  BY <1>1, Inductive, PTL DEF Spec, NeverSentBack
=============================================================================
