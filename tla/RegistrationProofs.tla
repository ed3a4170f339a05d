------------------------- MODULE RegistrationProofs -------------------------
(***************************************************************************)
(* Proofs about Registration for any e-mails, organizations and number of  *)
(* concurrent registrations, with the refinement of AccountContract.       *)
(***************************************************************************)
EXTENDS Registration, TLAPS

-----------------------------------------------------------------------------
(* The inductive invariant                                                 *)

\* A request that was let in carries an e-mail and an organization; a place
\* that is free carries nothing.
BodyOrNothing ==
  \A r \in Req : /\ call[r].email = NoOrg => call[r] = NoCall
                 /\ call[r].email # NoOrg => call[r].email \in Email /\ call[r].org \in Org
                 /\ pc[r] = "idle" => call[r].email = NoOrg
                 /\ call[r].email = NoOrg => pc[r] \in {"idle", "400"}

IInv == TypeOK /\ BodyOrNothing /\ OrganizationExists

LEMMA AskedFor ==
  ASSUME IInv, NEW r \in Req, pc[r] \notin {"idle", "400"}
  PROVE  call[r].email \in Email /\ call[r].org \in Org /\ call[r].email # NoOrg
BY NoneAssumption DEF IInv, BodyOrNothing

-----------------------------------------------------------------------------
(* What a step of one registration does                                    *)

\* Only request r takes a step.
Moves(r) == \A q \in Req \ {r} : pc'[q] = pc[q] /\ call'[q] = call[q]

\* It moves on with the body it came with.
Proceeds(r, ph, c) ==
  /\ Moves(r) /\ pc'[r] = ph /\ call'[r].cause = c
  /\ call'[r].email = call[r].email /\ call'[r].org = call[r].org

LEMMA BecauseFacts ==
  ASSUME TypeOK, NEW r \in Req, NEW ph \in Phase, NEW c \in Cause, Goto(r, ph), Because(r, c)
  PROVE  /\ Proceeds(r, ph, c)
         /\ pc' \in [Req -> Phase] /\ call' \in [Req -> Call]
<1>1. call'[r] = [call[r] EXCEPT !.cause = c] /\ call[r] \in Call
  BY DEF TypeOK, Because
<1>2. /\ call'[r].cause = c /\ call'[r].email = call[r].email /\ call'[r].org = call[r].org
      /\ call'[r] \in Call
  BY <1>1 DEF Call
<1>3. call' \in [Req -> Call] /\ \A q \in Req \ {r} : call'[q] = call[q]
  BY <1>2 DEF TypeOK, Because
<1> QED
  BY <1>2, <1>3 DEF TypeOK, Goto, Proceeds, Moves

LEMMA GotoFacts ==
  ASSUME TypeOK, NEW r \in Req, NEW ph \in Phase, Goto(r, ph), UNCHANGED call
  PROVE  /\ Proceeds(r, ph, call[r].cause)
         /\ pc' \in [Req -> Phase] /\ call' \in [Req -> Call]
BY DEF TypeOK, Goto, Proceeds, Moves

\* The parts of the invariant that a registration that moves on keeps.
LEMMA ProceedsKeeps ==
  ASSUME IInv, NEW r \in Req, NEW ph \in Phase, NEW c \in Cause, Proceeds(r, ph, c),
         call[r].email # NoOrg, ph # "idle", call' \in [Req -> Call]
  PROVE  /\ BodyOrNothing'
         /\ \A q \in Req : pc'[q] \in Waiting \/ pc'[q] \in {"201", "409", "500"}
              => call'[q].email \in Email /\ call'[q].org \in Org
<1>1. \A q \in Req \ {r} : pc'[q] = pc[q] /\ call'[q] = call[q]
  BY DEF Proceeds, Moves
<1>2. /\ pc'[r] # "idle" /\ call'[r].email = call[r].email /\ call'[r].org = call[r].org
      /\ call[r].email \in Email /\ call[r].org \in Org
  BY DEF Proceeds, IInv, BodyOrNothing
<1>3. \A q \in Req \ {r} :
        pc[q] \in Waiting \/ pc[q] \in {"201", "409", "500"}
          => call[q].email \in Email /\ call[q].org \in Org
  BY DEF IInv, TypeOK
<1> QED
  BY <1>1, <1>2, <1>3 DEF IInv, BodyOrNothing

-----------------------------------------------------------------------------
(* The tables                                                              *)

LEMMA InsertKeeps ==
  ASSUME IInv, NEW e \in Email, NEW o \in orgs, user' = [user EXCEPT ![e] = o], orgs' = orgs
  PROVE  user' \in [Email -> Org \cup {NoOrg}] /\ OrganizationExists'
BY DEF IInv, TypeOK, OrganizationExists, Registered

LEMMA AdminStep ==
  ASSUME IInv, Admin
  PROVE  IInv'
<1> USE DEF IInv
<1>1. BodyOrNothing'
  BY DEF BodyOrNothing, Admin, CreateOrg, DeleteOrg, DeleteUser
<1>2. ASSUME NEW o \in Org, CreateOrg(o) \/ DeleteOrg(o)
      PROVE  TypeOK' /\ OrganizationExists'
  BY <1>2 DEF CreateOrg, DeleteOrg, TypeOK, OrganizationExists, Registered
<1>3. ASSUME NEW e \in Email, DeleteUser(e)
      PROVE  TypeOK' /\ OrganizationExists'
  BY <1>3 DEF DeleteUser, TypeOK, OrganizationExists, Registered
<1> QED
  BY <1>1, <1>2, <1>3 DEF Admin

-----------------------------------------------------------------------------
(* The steps of a registration                                             *)

\* What each step of Handle is, seen from the registration.
LEMMA HandleFacts ==
  ASSUME IInv, NEW r \in Req, Handle(r)
  PROVE  /\ call[r].email \in Email /\ call[r].org \in Org /\ call[r].email # NoOrg
         /\ pc[r] \in Waiting
         /\ pc' \in [Req -> Phase] /\ call' \in [Req -> Call]
         /\ \E ph \in Phase \ {"idle"}, c \in Cause : Proceeds(r, ph, c)
         /\ UNCHANGED <<orgs, adrift>>
<1>1. pc[r] \in Waiting /\ UNCHANGED <<orgs, adrift>>
  BY DEF Handle, FindEmail, FindOrganization, HashPassword, Insert, InsertUnacked,
         InsertRejected, QueryFails, Waiting, tables
<1>2. call[r].email \in Email /\ call[r].org \in Org /\ call[r].email # NoOrg
  BY <1>1, AskedFor DEF Waiting
<1>3. call[r].cause \in Cause
  BY DEF IInv, TypeOK, Call
<1>4. CASE UNCHANGED call /\ \E ph \in Phase \ {"idle"} : Goto(r, ph)
  BY <1>1, <1>2, <1>3, <1>4, GotoFacts DEF IInv
<1>5. CASE \E ph \in Phase \ {"idle"}, c \in Cause : Goto(r, ph) /\ Because(r, c)
  BY <1>1, <1>2, <1>5, BecauseFacts DEF IInv
<1>6. \/ UNCHANGED call /\ \E ph \in Phase \ {"idle"} : Goto(r, ph)
      \/ \E ph \in Phase \ {"idle"}, c \in Cause : Goto(r, ph) /\ Because(r, c)
  BY DEF Handle, FindEmail, FindOrganization, HashPassword, Insert, InsertUnacked,
         InsertRejected, QueryFails, Phase, Waiting, Reply, Cause
<1> QED
  BY <1>4, <1>5, <1>6

LEMMA HandleStep ==
  ASSUME IInv, NEW r \in Req, Handle(r)
  PROVE  IInv'
<1>1. /\ BodyOrNothing'
      /\ \A q \in Req : pc'[q] \in Waiting \/ pc'[q] \in {"201", "409", "500"}
           => call'[q].email \in Email /\ call'[q].org \in Org
  BY HandleFacts, ProceedsKeeps
<1>2. user' \in [Email -> Org \cup {NoOrg}] /\ OrganizationExists'
  <2>1. CASE Insert(r) \/ InsertUnacked(r)
    BY <2>1, HandleFacts, InsertKeeps DEF Insert, InsertUnacked, Insertable
  <2>2. CASE UNCHANGED user
    BY <2>2, HandleFacts DEF IInv, TypeOK, OrganizationExists, Registered
  <2> QED
    BY <2>1, <2>2 DEF Handle, FindEmail, FindOrganization, HashPassword, InsertRejected,
                      QueryFails, tables
<1> QED
  BY <1>1, <1>2, HandleFacts DEF IInv, TypeOK

\* A request that comes, and one that is over.
LEMMA ArriveStep ==
  ASSUME IInv, NEW r \in Req, NEW e \in Email, NEW o \in Org, Register(r, e, o)
  PROVE  /\ IInv' /\ Moves(r) /\ pc[r] = "idle" /\ pc'[r] = "email"
         /\ call'[r].email = e /\ call'[r].org = o
<1>1. call'[r] = [email |-> e, org |-> o, cause |-> "none"] /\ pc'[r] = "email"
  BY DEF IInv, TypeOK, Register, Goto, NoCall
<1>2. Moves(r) /\ pc[r] = "idle"
  BY DEF IInv, TypeOK, Register, Goto, Moves
<1>3. call'[r] \in Call
  BY <1>1 DEF Call, Cause
<1>4. e # NoOrg
  BY NoneAssumption
<1>5. TypeOK'
  BY <1>1, <1>2, <1>3 DEF IInv, TypeOK, Register, Goto, Moves, tables, Phase, Waiting
<1>6. BodyOrNothing'
  BY <1>1, <1>2, <1>4 DEF IInv, BodyOrNothing, Moves
<1> QED
  BY <1>1, <1>2, <1>5, <1>6 DEF IInv, OrganizationExists, Registered, Register, tables

LEMMA BlankStep ==
  ASSUME IInv, NEW r \in Req, Malformed(r) \/ Finish(r)
  PROVE  /\ IInv' /\ Moves(r) /\ pc'[r] \in {"idle", "400"} /\ call'[r] = NoCall
         /\ UNCHANGED tables
<1>1. Moves(r) /\ pc'[r] \in {"idle", "400"} /\ UNCHANGED <<tables, adrift>>
  BY DEF IInv, TypeOK, Malformed, Finish, Goto, Moves
<1>2. call'[r] = NoCall
  BY DEF IInv, TypeOK, BodyOrNothing, Malformed, Finish
<1>3. NoCall \in Call
  BY DEF NoCall, Call, Cause
<1>4. TypeOK'
  BY <1>1, <1>2, <1>3 DEF IInv, TypeOK, Malformed, Finish, Goto, Moves, tables, Phase, Reply,
                          Waiting
<1>5. BodyOrNothing'
  BY <1>1, <1>2 DEF IInv, BodyOrNothing, Moves, NoCall
<1> QED
  BY <1>1, <1>2, <1>4, <1>5 DEF IInv, OrganizationExists, Registered, tables

LEMMA CrashStep ==
  ASSUME IInv, Crash
  PROVE  IInv'
<1>1. \A r \in {x \in Req : pc[x] = "insert"} : call[r].email \in Email /\ call[r].org \in Org
  BY AskedFor
<1>2. adrift' \subseteq Email \X Org
  BY <1>1 DEF IInv, TypeOK, Crash
<1>3. NoCall \in Call
  BY DEF NoCall, Call, Cause
<1> QED
  BY <1>2, <1>3 DEF IInv, TypeOK, BodyOrNothing, OrganizationExists, Registered, Crash, tables,
                    Phase, NoCall, Waiting

LEMMA AdriftStep ==
  ASSUME IInv, NEW e \in Email, NEW o \in Org, InsertAdrift(e, o)
  PROVE  IInv'
<1>1. user' \in [Email -> Org \cup {NoOrg}] /\ OrganizationExists'
  <2>1. CASE Insertable(e, o)
    BY <2>1, InsertKeeps DEF InsertAdrift, Insertable
  <2>2. CASE ~Insertable(e, o)
    BY <2>2 DEF InsertAdrift, IInv, TypeOK, OrganizationExists, Registered
  <2> QED
    BY <2>1, <2>2
<1> QED
  BY <1>1 DEF IInv, TypeOK, BodyOrNothing, InsertAdrift

LEMMA Invariance == Spec => []IInv
<1>1. Init => IInv
  BY DEF Init, IInv, TypeOK, BodyOrNothing, OrganizationExists, Registered, Phase, Waiting,
         Call, NoCall, Cause
<1>2. IInv /\ [Next]_vars => IInv'
  <2> SUFFICES ASSUME IInv, [Next]_vars PROVE IInv'
    OBVIOUS
  <2>1. CASE UNCHANGED vars
    BY <2>1 DEF IInv, TypeOK, BodyOrNothing, OrganizationExists, Registered, vars, tables
  <2>2. CASE Next
    BY <2>2, AdminStep, HandleStep, ArriveStep, BlankStep, CrashStep, AdriftStep DEF Next
  <2> QED
    BY <2>1, <2>2
<1> QED
  BY <1>1, <1>2, PTL DEF Spec

-----------------------------------------------------------------------------
(* Theorems about the tables                                               *)

\* The tables and the registrations in flight keep their types.
THEOREM TypeCorrect == Spec => []TypeOK
<1>1. IInv => TypeOK
  BY DEF IInv
<1> QED
  BY <1>1, Invariance, PTL

\* No account is inserted into an organization that was deleted in between.
THEOREM OrganizationsExist == Spec => []OrganizationExists
<1>1. IInv => OrganizationExists
  BY DEF IInv
<1> QED
  BY <1>1, Invariance, PTL

-----------------------------------------------------------------------------
(* The refinement of AccountContract                                       *)

View == <<user, askView>>

LEMMA VerdictIs ==
  ASSUME IInv, NEW r \in Req
  PROVE  /\ pc[r] \in Waiting => verdict(r) = "pending"
         /\ pc[r] = "201" => verdict(r) = "created"
         /\ pc[r] = "409" => verdict(r) = "taken"
         /\ call[r].email = NoOrg => verdict(r) = "idle"
         /\ call[r].email # NoOrg /\ pc[r] \in {"400", "500"} => verdict(r) = "failed"
BY DEF IInv, BodyOrNothing, verdict, Waiting

LEMMA AskChanges ==
  ASSUME NEW r \in Req, Moves(r)
  PROVE  askView' = [askView EXCEPT ![r] = Asked(r)']
<1>1. ASSUME NEW q \in Req \ {r} PROVE Asked(q)' = Asked(q)
  BY <1>1 DEF Moves, Asked, verdict
<1> QED
  BY <1>1 DEF askView

\* A request that moves on with its body changes at most its verdict.
LEMMA VerdictChanges ==
  ASSUME NEW r \in Req, NEW ph \in Phase, NEW c \in Cause, Proceeds(r, ph, c)
  PROVE  /\ askView[r] = [email |-> call[r].email, org |-> call[r].org, verdict |-> verdict(r)]
         /\ askView' = [askView EXCEPT ![r].verdict = verdict(r)']
<1>1. askView[r] = [email |-> call[r].email, org |-> call[r].org, verdict |-> verdict(r)]
  BY DEF askView, Asked
<1>2. Asked(r)' = [askView[r] EXCEPT !.verdict = verdict(r)']
  BY <1>1 DEF Asked, Proceeds
<1> QED
  BY <1>1, <1>2, AskChanges DEF Proceeds

LEMMA BlankAsk ==
  ASSUME IInv, NEW r \in Req, call[r] = NoCall
  PROVE  Asked(r) = Contract!NoAsk
BY VerdictIs DEF Asked, NoCall, Contract!NoAsk

LEMMA HandleRefines ==
  ASSUME IInv, IInv', NEW r \in Req, Handle(r)
  PROVE  Contract!Next \/ UNCHANGED View
<1> DEFINE e == call[r].email
           o == call[r].org
<1>1. e \in Email /\ o \in Org /\ e # NoOrg /\ pc[r] \in Waiting
  BY HandleFacts
<1>2. PICK ph \in Phase \ {"idle"}, c \in Cause : Proceeds(r, ph, c)
  BY HandleFacts
<1>3. /\ askView[r] = [email |-> e, org |-> o, verdict |-> "pending"]
      /\ askView' = [askView EXCEPT ![r].verdict = verdict(r)']
      /\ askView \in [Req -> {askView[q] : q \in Req}]
  BY <1>1, <1>2, VerdictIs, VerdictChanges DEF askView
<1>4. /\ pc'[r] \in Waiting => verdict(r)' = "pending"
      /\ pc'[r] = "201" => verdict(r)' = "created"
      /\ pc'[r] = "409" => verdict(r)' = "taken"
      /\ pc'[r] \in {"400", "500"} => verdict(r)' = "failed"
  <2>1. call'[r].email # NoOrg
    BY <1>1, <1>2 DEF Proceeds
  <2>2. /\ pc'[r] \in Waiting => verdict(r)' = "pending"
        /\ pc'[r] = "201" => verdict(r)' = "created"
        /\ pc'[r] = "409" => verdict(r)' = "taken"
        /\ call'[r].email # NoOrg /\ pc'[r] \in {"400", "500"} => verdict(r)' = "failed"
    BY DEF IInv, BodyOrNothing, verdict, Waiting
  <2> QED
    BY <2>1, <2>2
<1>5. ASSUME verdict(r)' = "pending", user' = user PROVE UNCHANGED View
  BY <1>3, <1>5 DEF View
<1>6. ASSUME verdict(r)' = "failed", user' = user PROVE Contract!Fail(r)
  BY <1>3, <1>6 DEF Contract!Fail, Contract!Tell
<1> USE DEF tables
<1>7. CASE FindEmail(r)
  <2>1. pc'[r] = IF Registered(e) THEN "409" ELSE "organization"
    BY <1>7 DEF FindEmail, Goto, IInv, TypeOK
  <2>2. CASE Registered(e)
    <3>1. user' = user /\ user[e] # NoOrg /\ verdict(r)' = "taken"
      BY <1>4, <1>7, <2>1, <2>2 DEF FindEmail, Registered
    <3>2. Contract!Refuse(r)
      BY <1>3, <3>1 DEF Contract!Refuse, Contract!Free, Contract!Tell
    <3> QED
      BY <3>2 DEF Contract!Next
  <2>3. CASE ~Registered(e)
    BY <1>4, <1>5, <1>7, <2>1, <2>3 DEF FindEmail, Waiting
  <2> QED
    BY <2>2, <2>3
<1>8. CASE FindOrganization(r)
  <2>1. pc'[r] \in {"hash", "400"} /\ user' = user
    BY <1>8 DEF FindOrganization, Goto, IInv, TypeOK
  <2> QED
    BY <1>4, <1>5, <1>6, <2>1 DEF Contract!Next, Waiting
<1>9. CASE HashPassword(r)
  <2>1. pc'[r] = "insert" /\ user' = user
    BY <1>9 DEF HashPassword, Goto, IInv, TypeOK
  <2> QED
    BY <1>4, <1>5, <2>1 DEF Waiting
<1>10. CASE Insert(r)
  <2>1. /\ pc'[r] = "201" /\ ~Registered(e) /\ user' = [user EXCEPT ![e] = o]
    BY <1>10 DEF Insert, Insertable, Goto, IInv, TypeOK
  <2>2. Contract!Create(r)
    BY <1>3, <1>4, <2>1 DEF Registered, Contract!Create, Contract!Free, Contract!Tell
  <2> QED
    BY <2>2 DEF Contract!Next
<1>11. CASE InsertUnacked(r)
  <2>1. /\ pc'[r] = "500" /\ ~Registered(e) /\ user' = [user EXCEPT ![e] = o]
    BY <1>11 DEF InsertUnacked, Insertable, Goto, IInv, TypeOK
  <2>2. Contract!Tell(r, "failed")
    BY <1>3, <1>4, <2>1 DEF Contract!Tell
  <2>3. Contract!Appear(e, o)
    BY <1>3, <2>1, <2>2 DEF Registered, Contract!Appear, Contract!Free
  <2> QED
    BY <1>1, <2>3 DEF Contract!Next
<1>12. CASE InsertRejected(r) \/ QueryFails(r)
  <2>1. pc'[r] = "500" /\ user' = user
    BY <1>12 DEF InsertRejected, QueryFails, Goto, IInv, TypeOK
  <2> QED
    BY <1>4, <1>6, <2>1 DEF Contract!Next
<1> QED
  BY <1>7, <1>8, <1>9, <1>10, <1>11, <1>12 DEF Handle

LEMMA ArriveRefines ==
  ASSUME IInv, IInv', NEW r \in Req, NEW e \in Email, NEW o \in Org, Register(r, e, o)
  PROVE  Contract!Ask(r, e, o)
<1>1. askView[r] = Contract!NoAsk
  BY ArriveStep, BlankAsk DEF askView, IInv, BodyOrNothing
<1>2. verdict(r)' = "pending"
  BY ArriveStep, NoneAssumption DEF verdict, Waiting
<1>3. Asked(r)' = [email |-> e, org |-> o, verdict |-> "pending"]
  BY <1>2, ArriveStep DEF Asked
<1>4. askView' = [askView EXCEPT ![r] = Asked(r)']
  BY ArriveStep, AskChanges
<1> QED
  BY <1>1, <1>3, <1>4 DEF Contract!Ask, Register, tables

LEMMA BlankRefines ==
  ASSUME IInv, IInv', NEW r \in Req, Malformed(r) \/ Finish(r)
  PROVE  Contract!Release({r})
<1>1. call'[r] = NoCall /\ Moves(r) /\ user' = user
  BY BlankStep DEF tables
<1>2. Asked(r)' = Contract!NoAsk
  <2>1. pc'[r] \in {"idle", "400"}
    BY BlankStep
  <2>2. verdict(r)' = "idle"
    BY <1>1, <2>1 DEF verdict, Waiting, NoCall
  <2> QED
    BY <1>1, <2>2 DEF Asked, NoCall, Contract!NoAsk
<1>3. askView' = [askView EXCEPT ![r] = Contract!NoAsk]
  BY <1>1, <1>2, AskChanges
<1> QED
  BY <1>1, <1>3 DEF Contract!Release, askView

LEMMA CrashRefines ==
  ASSUME IInv, Crash
  PROVE  Contract!Release(Req)
<1>1. \A r \in Req : call'[r] = NoCall /\ pc'[r] = "idle"
  BY DEF Crash
<1>2. \A r \in Req : Asked(r)' = Contract!NoAsk
  BY <1>1 DEF Asked, verdict, Waiting, NoCall, Contract!NoAsk
<1>3. askView' = [r \in Req |-> Contract!NoAsk]
  BY <1>2 DEF askView
<1> QED
  BY <1>3 DEF Contract!Release, Crash, tables

LEMMA TableRefines ==
  ASSUME IInv, Admin \/ \E e \in Email, o \in Org : InsertAdrift(e, o)
  PROVE  Contract!Next \/ UNCHANGED View
<1>1. askView' = askView
  BY DEF Admin, CreateOrg, DeleteOrg, DeleteUser, InsertAdrift, askView, Asked,
         verdict
<1>2. CASE UNCHANGED user
  BY <1>1, <1>2 DEF View
<1>3. ASSUME NEW e \in Email, NEW o \in Org, ~Registered(e), user' = [user EXCEPT ![e] = o]
      PROVE  Contract!Next
  <2>1. Contract!Appear(e, o)
    BY <1>1, <1>3 DEF Registered, Contract!Appear, Contract!Free
  <2> QED
    BY <2>1 DEF Contract!Next
<1>4. ASSUME NEW e \in Email, DeleteUser(e) PROVE Contract!Next
  <2>1. Contract!Disappear(e)
    BY <1>1, <1>4 DEF DeleteUser, Registered, Contract!Disappear, Contract!Free
  <2> QED
    BY <2>1 DEF Contract!Next
<1> QED
  BY <1>2, <1>3, <1>4 DEF Admin, CreateOrg, DeleteOrg, InsertAdrift, Insertable

LEMMA StepRefines ==
  ASSUME IInv, IInv', [Next]_vars
  PROVE  Contract!Next \/ UNCHANGED View
<1>1. CASE UNCHANGED vars
  BY <1>1 DEF vars, tables, View, askView, Asked, verdict
<1>2. ASSUME NEW r \in Req, Malformed(r) \/ Finish(r) PROVE Contract!Next
  BY <1>2, BlankRefines DEF Contract!Next
<1>3. ASSUME NEW r \in Req, NEW e \in Email, NEW o \in Org, Register(r, e, o)
      PROVE  Contract!Next
  BY <1>3, ArriveRefines DEF Contract!Next
<1>4. CASE Crash
  BY <1>4, CrashRefines DEF Contract!Next
<1> QED
  BY <1>1, <1>2, <1>3, <1>4, HandleRefines, TableRefines DEF Next

\* Registration keeps the contract of an account: the steps between the
\* look-ups and the insert, and the failures after it, do not show.
THEOREM ContractKept == Spec => ImplementsContract
<1>1. Init => Contract!Init
  <2> SUFFICES ASSUME Init PROVE Contract!Init
    OBVIOUS
  <2>1. \A r \in Req : Asked(r) = Contract!NoAsk
    BY DEF Init, Asked, verdict, Waiting, NoCall, Contract!NoAsk
  <2>2. askView = [r \in Req |-> Contract!NoAsk]
    BY <2>1 DEF askView
  <2>3. user \in [Email -> Org \cup {NoOrg}]
    BY DEF Init
  <2> QED
    BY <2>2, <2>3 DEF Contract!Init
<1>2. IInv /\ IInv' /\ [Next]_vars => [Contract!Next]_(Contract!vars)
  BY StepRefines DEF View, Contract!vars
<1> QED
  BY <1>1, <1>2, Invariance, PTL DEF Spec, ImplementsContract, Contract!Spec
=============================================================================
