------------------------- MODULE AccessControlProofs -------------------------
(***************************************************************************)
(* Proofs about the permission matrix and AccessControl for any accounts,  *)
(* organizations, tokens, requests and routes.                             *)
(***************************************************************************)
EXTENDS AccessControl, TLAPS

-----------------------------------------------------------------------------
(* The permission matrix                                                   *)

\* Everything a student or a member of staff is granted lies in the own
\* organization.
LEMMA PolicyIsolates ==
  ASSUME NEW user \in AuthenticatedUser, NEW action \in Action,
         NEW resource \in ResourceContext,
         Authorize(user, action, resource), user.role # "ADMIN"
  PROVE  resource.organizationId = user.organizationId
BY DEF Authorize, POLICY, Permission

\* No student is granted a list.
LEMMA PolicyListsNothing ==
  ASSUME NEW user \in AuthenticatedUser, NEW action \in ListAction,
         NEW resource \in ResourceContext,
         Authorize(user, action, resource)
  PROVE  user.role # "STUDENT"
BY DEF Authorize, POLICY, Permission, ListAction

\* What is reserved for administrators is granted to nobody else.
LEMMA PolicyReserves ==
  ASSUME NEW user \in AuthenticatedUser, NEW action \in Reserved,
         NEW resource \in ResourceContext,
         Authorize(user, action, resource)
  PROVE  user.role = "ADMIN"
BY DEF Authorize, POLICY, Permission, Reserved, AuthenticatedUser, UserRole

\* The first entry found is as good as any: two entries of a role and a type
\* of resource say the same.
LEMMA PolicyIsUnambiguous ==
  ASSUME NEW e1 \in POLICY, NEW e2 \in POLICY, e1.role = e2.role, e1.resource = e2.resource,
         NEW action \in Action
  PROVE  (action \in e1.actions <=> action \in e2.actions) /\ (e1.global <=> e2.global)
BY DEF POLICY, Permission

-----------------------------------------------------------------------------
(* The inductive invariant                                                 *)

Signed(t)  == token[t].claims # Absent
Claimed(t) == [role |-> token[t].claims.role, organizationId |-> token[t].claims.organizationId]

\* What a login has read is among what the account has been since.
TokenShape ==
  \A t \in Jti : /\ token[t].stage = "unused" <=> ~Signed(t)
                 /\ Signed(t) => Claimed(t) \in formerly[t]

\* A principal is that of the token; nobody gets to a handler without one.
CallShape ==
  \A r \in Req :
    /\ pc[r] = "record" \/ call[r].user # Absent => call[r].jti \in Jti /\ Signed(call[r].jti)
    /\ call[r].user # Absent => call[r].user = Principal(token[call[r].jti].claims)
    /\ Passed(r) => call[r].user # Absent
    /\ pc[r] # "idle" => call[r].route \in Route

\* RoleGuard has let the principal through.
RoleChecked ==
  \A r \in Req : Passed(r) /\ AllowedRoles(call[r].route) # {} =>
    call[r].user.role \in AllowedRoles(call[r].route)

\* The owner of a student record is filled in from the table.
Loaded(r) ==
  call[r].resource.type = "STUDENT" =>
    \/ call[r].action \in ListAction
    \/ /\ call[r].resource.resourceId \in Record
       /\ call[r].resource.ownerUserId = owner[call[r].resource.resourceId]
Decided ==
  \A r \in Req : pc[r] = "granted" =>
    /\ call[r].action \in Action /\ call[r].resource \in ResourceContext
    /\ Authorize(call[r].user, call[r].action, call[r].resource)
    /\ Loaded(r)

\* A request that came too late is stopped by the token or by its record.
OneCredential(r) == call[r].cookie = Absent \/ call[r].header = Absent
LateIsSeen ==
  \A r \in Req :
    /\ pc[r] = "guard" /\ call[r].late =>
         \E t \in {call[r].cookie, call[r].header} \ {Absent} :
            t \in revoked \/ token[t].stage = "expired"
    /\ pc[r] = "record" => OneCredential(r) /\ (call[r].late => call[r].jti \in revoked)
    /\ Passed(r) => OneCredential(r) /\ ~call[r].late

IInv == TypeOK /\ TokenShape /\ CallShape /\ RoleChecked /\ Decided

-----------------------------------------------------------------------------
(* Types                                                                   *)

LEMMA RoleGuardType ==
  ASSUME NEW route, NEW user
  PROVE  /\ RoleGuard(route, user) \in {"load", "401", "403", "500"}
         /\ RoleGuard(route, user) = "load" =>
              /\ user # Absent
              /\ AllowedRoles(route) # {} => user.role \in AllowedRoles(route)
BY DEF RoleGuard

LEMMA PrincipalType ==
  ASSUME NEW c \in Claims
  PROVE  Principal(c) \in AuthenticatedUser /\ Principal(c) # Absent
BY NoneAssumption DEF Principal, Claims, AuthenticatedUser

\* What the guards and the handler write into the local variables.
LEMMA CallUpdate ==
  ASSUME NEW c \in Call
  PROVE  /\ \A user \in AuthenticatedUser \cup {Absent} :
              /\ [c EXCEPT !.user = user] \in Call
              /\ \A t \in Jti : [c EXCEPT !.jti = t, !.user = user] \in Call
         /\ \A action \in Action, resource \in ResourceContext :
              [c EXCEPT !.action = action, !.resource = resource] \in Call
BY DEF Call

LEMMA ContextsType ==
  ASSUME TypeOK, NEW action \in Action, NEW c \in Contexts(action)
  PROVE  /\ c \in ResourceContext
         /\ c.type = "STUDENT" =>
              \/ action \in ListAction
              \/ c.resourceId \in Record /\ c.ownerUserId = owner[c.resourceId]
<1>1. CASE action \in ListAction
  BY <1>1 DEF Contexts, ListContext, Context, ResourceContext, ResourceType
<1>2. CASE action \notin ListAction
  <2>1. ASSUME NEW s \in Record, c = StudentContext(s)
        PROVE  c \in ResourceContext /\ c.resourceId = s /\ c.ownerUserId = owner[s]
    <3>1. owner[s] \in User /\ account[owner[s]].organizationId \in Org
      BY DEF TypeOK, Standing
    <3> QED
      BY <2>1, <3>1 DEF StudentContext, Context, ResourceContext, ResourceType
  <2>2. ASSUME NEW u \in User, c = UserContext(u)
        PROVE  c \in ResourceContext /\ c.type = "USER"
    <3>1. account[u].organizationId \in Org
      BY DEF TypeOK, Standing
    <3> QED
      BY <2>2, <3>1 DEF UserContext, Context, ResourceContext, ResourceType
  <2>3. ASSUME NEW o \in Org, c = OrgContext(o)
        PROVE  c \in ResourceContext /\ c.type = "ORGANIZATION"
    BY <2>3 DEF OrgContext, Context, ResourceContext, ResourceType
  <2> QED
    BY <1>2, <2>1, <2>2, <2>3 DEF Contexts
<1> QED
  BY <1>1, <1>2

\* Every action keeps the types.
LEMMA TypeStep ==
  ASSUME TypeOK, TokenShape, CallShape, [Next]_vars
  PROVE  TypeOK'
<1> USE DEF TypeOK, directory, sessions, Goto
<1>1. ASSUME NEW u \in User, NEW s \in Standing, ChangeAccount(u, s) PROVE TypeOK'
  BY <1>1, ChangesAssumption DEF ChangeAccount, Standing
<1>2. ASSUME NEW t \in Jti, NEW u \in User, LoginRead(t, u) PROVE TypeOK'
  <2>1. [sub |-> u, role |-> account[u].role,
         organizationId |-> account[u].organizationId] \in Claims
    BY DEF Standing, Claims
  <2>2. token' \in [Jti -> Token]
    BY <1>2, <2>1 DEF LoginRead, Token, Stage
  <2> QED
    BY <1>2, <2>2 DEF LoginRead
<1>3. ASSUME NEW t \in Jti, Sign(t) \/ Expire(t) PROVE TypeOK'
  <2>1. token' \in [Jti -> Token]
    BY <1>3 DEF Sign, Expire, Token, Stage
  <2> QED
    BY <1>3, <2>1 DEF Sign, Expire
<1>4. ASSUME NEW t \in Jti, Revoke(t) PROVE TypeOK'
  BY <1>4 DEF Revoke
<1>5. ASSUME NEW r \in Req, Handle(r) PROVE TypeOK'
  <2>1. UNCHANGED <<directory, sessions>>
    BY <1>5 DEF Handle, Arrive, SkipAuth, RefuseAuth, VerifyToken, Lookup, Decide, Finish
  <2>2. pc' \in [Req -> Phase]
    <3>1. ASSUME NEW ph \in Phase, pc' = [pc EXCEPT ![r] = ph] PROVE pc' \in [Req -> Phase]
      BY <3>1
    <3>2. {"idle", "guard", "record", "granted", "load", "401", "403", "500"} \subseteq Phase
      BY DEF Phase, Reply
    <3>3. \A route, user : RoleGuard(route, user) \in Phase
      BY <3>2, RoleGuardType
    <3>4. CASE SkipAuth(r)
      BY <3>1, <3>3, <3>4 DEF SkipAuth
    <3>5. CASE VerifyToken(r)
      BY <3>1, <3>2, <3>3, <3>5 DEF VerifyToken
    <3>6. CASE Lookup(r)
      BY <3>1, <3>2, <3>3, <3>6 DEF Lookup
    <3> QED
      BY <1>5, <3>1, <3>2, <3>4, <3>5, <3>6 DEF Handle, Arrive, RefuseAuth, Decide, Finish
  <2>3. call' \in [Req -> Call]
    <3>1. ASSUME NEW route \in Route, NEW c \in Held, NEW h \in Held, Arrive(r, route, c, h)
          PROVE  call' \in [Req -> Call]
      <4>1. [NoCall EXCEPT !.route = route, !.cookie = c, !.header = h,
               !.late = \E t \in {c, h} \ {Absent} : t \in revoked \/ token[t].stage = "expired"]
              \in Call
        BY DEF NoCall, Call, Held
      <4> QED
        BY <3>1, <4>1 DEF Arrive
    <3>2. CASE VerifyToken(r)
      <4> DEFINE t == Extracted(r)
      <4>1. t \in Jti /\ token[t].stage = "live"
        BY <3>2, GuardsAssumption DEF VerifyToken, Verified, Extracted, ExtractToken, Call
      <4>2. token[t].claims \in Claims
        BY <4>1 DEF TokenShape, Signed, Token
      <4>3. Principal(token[t].claims) \in AuthenticatedUser
        BY <4>2, PrincipalType
      <4> QED
        <5> DEFINE user == IF Guards = "api" THEN Absent ELSE Principal(token[t].claims)
        <5>1. [call[r] EXCEPT !.jti = t, !.user = user] \in Call
          BY <4>1, <4>3, CallUpdate
        <5>2. call' = [call EXCEPT ![r] = [call[r] EXCEPT !.jti = t, !.user = user]]
          BY <3>2 DEF VerifyToken
        <5> QED
          BY <5>1, <5>2
    <3>3. CASE Lookup(r)
      <4>1. token[call[r].jti].claims \in Claims
        BY <3>3 DEF Lookup, CallShape, Signed, Token
      <4>2. Principal(token[call[r].jti].claims) \in AuthenticatedUser
        BY <4>1, PrincipalType
      <4> QED
        <5> DEFINE user == IF call[r].jti \in revoked THEN Absent
                           ELSE Principal(token[call[r].jti].claims)
        <5>1. [call[r] EXCEPT !.user = user] \in Call
          BY <4>2, CallUpdate
        <5>2. call' = [call EXCEPT ![r] = [call[r] EXCEPT !.user = user]]
          BY <3>3 DEF Lookup
        <5> QED
          BY <5>1, <5>2
    <3>4. ASSUME NEW action \in Action, NEW resource \in Contexts(action),
                 Decide(r, action, resource)
          PROVE  call' \in [Req -> Call]
      <4>1. resource \in ResourceContext
        BY <3>4, ContextsType
      <4>2. [call[r] EXCEPT !.action = action, !.resource = resource] \in Call
        BY <4>1, CallUpdate
      <4>3. call' = [call EXCEPT ![r] = [call[r] EXCEPT !.action = action, !.resource = resource]]
        BY <3>4 DEF Decide
      <4> QED
        BY <4>2, <4>3
    <3>5. CASE Finish(r)
      BY <3>5 DEF Finish, NoCall, Call
    <3>6. CASE SkipAuth(r) \/ RefuseAuth(r)
      BY <3>6 DEF SkipAuth, RefuseAuth
    <3> QED
      BY <1>5, <3>1, <3>2, <3>3, <3>4, <3>5, <3>6 DEF Handle
  <2> QED
    BY <2>1, <2>2, <2>3
<1>6. CASE UNCHANGED vars
  BY <1>6 DEF vars
<1> QED
  BY <1>1, <1>2, <1>3, <1>4, <1>5, <1>6 DEF Next, Login, Admin, Session

-----------------------------------------------------------------------------
(* Tokens and principals                                                   *)

\* What a login has read stays what it has read, and the account's later
\* standings are added to it.
LEMMA TokenStep ==
  ASSUME TypeOK, TokenShape, [Next]_vars
  PROVE  /\ TokenShape'
         /\ \A t \in Jti : Signed(t) => token'[t].claims = token[t].claims
<1> USE DEF TypeOK, TokenShape, Signed, Claimed, directory, sessions
<1>1. ASSUME NEW u \in User, NEW s \in Standing, ChangeAccount(u, s)
      PROVE  /\ TokenShape' /\ UNCHANGED token
    BY <1>1 DEF ChangeAccount
<1>2. ASSUME NEW t \in Jti, NEW u \in User, LoginRead(t, u)
      PROVE  /\ TokenShape'
             /\ \A x \in Jti : Signed(x) => token'[x].claims = token[x].claims
  <2> DEFINE c == [sub |-> u, role |-> account[u].role,
                   organizationId |-> account[u].organizationId]
  <2>1. account[u] \in Standing /\ c \in Claims
    BY DEF Standing, Claims
  <2>2. c # Absent /\ [role |-> c.role, organizationId |-> c.organizationId] = account[u]
    BY <2>1, NoneAssumption DEF Standing
  <2>3. /\ token'[t] = [stage |-> "verifying", claims |-> c]
        /\ formerly'[t] = {account[u]}
        /\ \A x \in Jti \ {t} : token'[x] = token[x] /\ formerly'[x] = formerly[x]
    BY <1>2 DEF LoginRead
  <2>4. ~Signed(t)
    BY <1>2 DEF LoginRead
  <2>5. /\ token'[t].stage # "unused" /\ token'[t].claims = c
        /\ formerly'[t] = {account[u]}
    BY <2>3
  <2>6. (token'[t].stage = "unused" <=> ~Signed(t)') /\ (Signed(t)' => Claimed(t)' \in formerly'[t])
    BY <2>2, <2>5
  <2>7. ASSUME NEW x \in Jti, x # t
        PROVE  /\ token'[x].stage = "unused" <=> ~Signed(x)'
               /\ Signed(x)' => Claimed(x)' \in formerly'[x]
    <3>1. token'[x] = token[x] /\ formerly'[x] = formerly[x]
      BY <2>3, <2>7
    <3> QED
      BY <3>1
  <2>8. \A x \in Jti : Signed(x) => token'[x].claims = token[x].claims
    BY <2>3, <2>4
  <2> QED
    BY <2>6, <2>7, <2>8
<1>3. ASSUME NEW t \in Jti, Sign(t) \/ Expire(t)
      PROVE  /\ TokenShape'
             /\ \A x \in Jti : Signed(x) => token'[x].claims = token[x].claims
  <2>1. /\ token'[t].claims = token[t].claims /\ token'[t].stage # "unused"
        /\ token[t].stage # "unused"
        /\ \A x \in Jti \ {t} : token'[x] = token[x]
        /\ formerly' = formerly
    BY <1>3 DEF Sign, Expire, Token
  <2> QED
    BY <2>1
<1>4. ASSUME NEW t \in Jti, Revoke(t) PROVE UNCHANGED <<token, formerly>>
  BY <1>4 DEF Revoke
<1>5. ASSUME NEW r \in Req, Handle(r) PROVE UNCHANGED <<token, formerly>>
  BY <1>5 DEF Handle, Arrive, SkipAuth, RefuseAuth, VerifyToken, Lookup, Decide, Finish
<1>6. CASE UNCHANGED vars
  BY <1>6 DEF vars
<1> QED
  BY <1>1, <1>2, <1>3, <1>4, <1>5, <1>6 DEF Next, Login, Admin, Session

\* What a step of one request does to it.
LEMMA HandleFacts ==
  ASSUME TypeOK, TokenShape, CallShape, NEW r \in Req, Handle(r)
  PROVE  /\ \A q \in Req \ {r} : pc'[q] = pc[q] /\ call'[q] = call[q]
         /\ UNCHANGED <<directory, sessions>>
BY DEF TypeOK, Goto, Handle, Arrive, SkipAuth, RefuseAuth, VerifyToken, Lookup, Decide, Finish

\* The two ways to a principal.
LEMMA VerifyFacts ==
  ASSUME TypeOK, TokenShape, NEW r \in Req, VerifyToken(r)
  PROVE  /\ pc[r] = "guard" /\ ~Skips(r)
         /\ Extracted(r) \in Jti /\ Signed(Extracted(r)) /\ token[Extracted(r)].stage = "live"
         /\ Principal(token[Extracted(r)].claims) # Absent
         /\ call'[r].jti = Extracted(r)
         /\ call'[r].user = IF Guards = "api" THEN Absent
                            ELSE Principal(token[Extracted(r)].claims)
         /\ call'[r].route = call[r].route /\ call'[r].late = call[r].late
         /\ call'[r].cookie = call[r].cookie /\ call'[r].header = call[r].header
         /\ pc'[r] = IF Guards = "api" THEN "record"
                     ELSE RoleGuard(call[r].route, Principal(token[Extracted(r)].claims))
<1>1. /\ Extracted(r) \in Jti /\ token[Extracted(r)].stage = "live"
      /\ pc[r] = "guard" /\ ~Skips(r)
  BY GuardsAssumption DEF TypeOK, VerifyToken, Verified, Extracted, ExtractToken, Call
<1>2. token[Extracted(r)].claims \in Claims /\ Signed(Extracted(r))
  BY <1>1 DEF TypeOK, TokenShape, Signed, Token
<1>3. Principal(token[Extracted(r)].claims) # Absent
  BY <1>2, PrincipalType
<1> DEFINE user == IF Guards = "api" THEN Absent ELSE Principal(token[Extracted(r)].claims)
<1>4. call'[r] = [call[r] EXCEPT !.jti = Extracted(r), !.user = user]
  BY DEF VerifyToken, TypeOK
<1>5. /\ call'[r].jti = Extracted(r) /\ call'[r].user = user
      /\ call'[r].route = call[r].route /\ call'[r].late = call[r].late
      /\ call'[r].cookie = call[r].cookie /\ call'[r].header = call[r].header
  BY <1>4 DEF TypeOK, Call
<1>6. pc'[r] = IF Guards = "api" THEN "record"
               ELSE RoleGuard(call[r].route, Principal(token[Extracted(r)].claims))
  BY DEF VerifyToken, TypeOK, Goto
<1> QED
  BY <1>1, <1>2, <1>3, <1>5, <1>6

LEMMA LookupFacts ==
  ASSUME TypeOK, TokenShape, CallShape, NEW r \in Req, Lookup(r)
  PROVE  /\ pc[r] = "record" /\ call[r].jti \in Jti /\ Signed(call[r].jti)
         /\ Principal(token[call[r].jti].claims) # Absent
         /\ call'[r].jti = call[r].jti
         /\ call'[r].user = IF call[r].jti \in revoked THEN Absent
                            ELSE Principal(token[call[r].jti].claims)
         /\ call'[r].route = call[r].route /\ call'[r].late = call[r].late
         /\ call'[r].cookie = call[r].cookie /\ call'[r].header = call[r].header
         /\ pc'[r] = IF call[r].jti \in revoked THEN "401"
                     ELSE RoleGuard(call[r].route, Principal(token[call[r].jti].claims))
<1>1. pc[r] = "record" /\ call[r].jti \in Jti /\ Signed(call[r].jti)
  BY DEF Lookup, CallShape
<1>2. token[call[r].jti].claims \in Claims
  BY <1>1 DEF TypeOK, Signed, Token
<1>3. Principal(token[call[r].jti].claims) # Absent
  BY <1>2, PrincipalType
<1> DEFINE user == IF call[r].jti \in revoked THEN Absent ELSE Principal(token[call[r].jti].claims)
<1>4. call'[r] = [call[r] EXCEPT !.user = user]
  BY DEF Lookup, TypeOK
<1>5. /\ call'[r].jti = call[r].jti /\ call'[r].user = user
      /\ call'[r].route = call[r].route /\ call'[r].late = call[r].late
      /\ call'[r].cookie = call[r].cookie /\ call'[r].header = call[r].header
  BY <1>4 DEF TypeOK, Call
<1>6. pc'[r] = IF call[r].jti \in revoked THEN "401"
               ELSE RoleGuard(call[r].route, Principal(token[call[r].jti].claims))
  BY DEF Lookup, TypeOK, Goto
<1> QED
  BY <1>1, <1>3, <1>5, <1>6

\* The other steps of a request write no principal.
LEMMA ArriveFacts ==
  ASSUME TypeOK, NEW r \in Req, NEW route \in Route, NEW c \in Held, NEW h \in Held,
         Arrive(r, route, c, h)
  PROVE  /\ pc'[r] = "guard" /\ call'[r].user = Absent /\ call'[r].route = route
         /\ call'[r].cookie = c /\ call'[r].header = h
         /\ call'[r].late => \E t \in {c, h} \ {Absent} :
                               t \in revoked \/ token[t].stage = "expired"
BY DEF TypeOK, Goto, Arrive, NoCall

LEMMA SkipFacts ==
  ASSUME TypeOK, NEW r \in Req, SkipAuth(r)
  PROVE  /\ pc[r] = "guard" /\ call'[r] = call[r]
         /\ pc'[r] = RoleGuard(call[r].route, Absent)
         /\ pc'[r] \in {"401", "403", "500"}
<1>1. pc[r] = "guard" /\ call'[r] = call[r] /\ pc'[r] = RoleGuard(call[r].route, Absent)
  BY DEF TypeOK, Goto, SkipAuth
<1> QED
  BY <1>1, RoleGuardType

LEMMA RefuseFacts ==
  ASSUME TypeOK, NEW r \in Req, RefuseAuth(r)
  PROVE  pc[r] = "guard" /\ pc'[r] = "401" /\ call'[r] = call[r]
BY DEF TypeOK, Goto, RefuseAuth

LEMMA DecideFacts ==
  ASSUME TypeOK, NEW r \in Req, NEW action \in Action, NEW resource \in Contexts(action),
         Decide(r, action, resource)
  PROVE  /\ pc[r] = "load"
         /\ pc'[r] = IF Authorize(call[r].user, action, resource) THEN "granted" ELSE "403"
         /\ call'[r].user = call[r].user /\ call'[r].jti = call[r].jti
         /\ call'[r].route = call[r].route /\ call'[r].late = call[r].late
         /\ call'[r].cookie = call[r].cookie /\ call'[r].header = call[r].header
         /\ call'[r].action = action /\ call'[r].resource = resource
<1>1. call'[r] = [call[r] EXCEPT !.action = action, !.resource = resource]
  BY DEF TypeOK, Decide
<1>2. call[r] \in Call
  BY DEF TypeOK
<1>3. /\ call'[r].user = call[r].user /\ call'[r].jti = call[r].jti
      /\ call'[r].route = call[r].route /\ call'[r].late = call[r].late
      /\ call'[r].cookie = call[r].cookie /\ call'[r].header = call[r].header
      /\ call'[r].action = action /\ call'[r].resource = resource
  BY <1>1, <1>2 DEF Call
<1> QED
  BY <1>3 DEF TypeOK, Goto, Decide

LEMMA FinishFacts ==
  ASSUME TypeOK, NEW r \in Req, Finish(r)
  PROVE  pc'[r] = "idle" /\ call'[r].user = Absent
BY DEF TypeOK, Goto, Finish, NoCall

-----------------------------------------------------------------------------
(* The parts of the invariant                                              *)

\* Steps that are not a request's own leave its place and its variables alone.
LEMMA OtherActions ==
  ASSUME [Next]_vars, \A r \in Req : ~Handle(r)
  PROVE  UNCHANGED <<pc, call, owner>>
BY DEF Next, vars, directory, sessions, Login, Admin, Session, ChangeAccount, LoginRead,
       Sign, Expire, Revoke

LEMMA CallStep ==
  ASSUME TypeOK, TokenShape, CallShape, [Next]_vars
  PROVE  CallShape'
<1> DEFINE Good(r) ==
      /\ pc[r] = "record" \/ call[r].user # Absent => call[r].jti \in Jti /\ Signed(call[r].jti)
      /\ call[r].user # Absent => call[r].user = Principal(token[call[r].jti].claims)
      /\ Passed(r) => call[r].user # Absent
      /\ pc[r] # "idle" => call[r].route \in Route
<1>1. ASSUME NEW q \in Req, pc'[q] = pc[q], call'[q] = call[q]
      PROVE  Good(q)'
  BY <1>1, TokenStep DEF CallShape, Signed, Passed
<1>2. CASE \A r \in Req : ~Handle(r)
  BY <1>1, <1>2, OtherActions DEF CallShape
<1>3. ASSUME NEW r \in Req, Handle(r) PROVE CallShape'
  <2>1. \A q \in Req \ {r} : Good(q)'
    BY <1>1, <1>3, HandleFacts
  <2>2. UNCHANGED token
    BY <1>3, HandleFacts DEF sessions
  <2> USE DEF Passed
  <2>3. ASSUME NEW route \in Route, NEW c \in Held, NEW h \in Held, Arrive(r, route, c, h)
        PROVE  Good(r)'
    BY <2>3, ArriveFacts
  <2>4. ASSUME SkipAuth(r) PROVE Good(r)'
    BY <2>4, <2>2, SkipFacts DEF CallShape, Signed
  <2>5. ASSUME RefuseAuth(r) PROVE Good(r)'
    BY <2>5, <2>2, RefuseFacts DEF CallShape, Signed
  <2>6. ASSUME VerifyToken(r) PROVE Good(r)'
    <3>1. pc[r] = "guard" /\ call[r].route \in Route
      BY <2>6 DEF VerifyToken, CallShape
    <3>2. CASE Guards = "api"
      BY <2>2, <2>6, <3>1, <3>2, VerifyFacts DEF Signed
    <3>3. CASE Guards # "api"
      BY <2>2, <2>6, <3>1, <3>3, VerifyFacts, RoleGuardType DEF Signed
    <3> QED
      BY <3>2, <3>3
  <2>7. ASSUME Lookup(r) PROVE Good(r)'
    <3>1. call[r].route \in Route
      BY <2>7 DEF Lookup, CallShape
    <3>2. CASE call[r].jti \in revoked
      BY <2>2, <2>7, <3>1, <3>2, LookupFacts
    <3>3. CASE call[r].jti \notin revoked
      <4>1. RoleGuard(call[r].route, Principal(token[call[r].jti].claims)) # "record"
        BY RoleGuardType
      <4> QED
        BY <2>2, <2>7, <3>1, <3>3, <4>1, LookupFacts DEF Signed
    <3> QED
      BY <3>2, <3>3
  <2>8. ASSUME NEW action \in Action, NEW resource \in Contexts(action),
               Decide(r, action, resource)
        PROVE  Good(r)'
    BY <2>2, <2>8, DecideFacts DEF CallShape, Signed
  <2>9. ASSUME Finish(r) PROVE Good(r)'
    BY <2>9, FinishFacts
  <2>10. Good(r)'
    BY <1>3, <2>3, <2>4, <2>5, <2>6, <2>7, <2>8, <2>9 DEF Handle
  <2> QED
    BY <2>1, <2>10 DEF CallShape
<1> QED
  BY <1>2, <1>3

LEMMA RoleStep ==
  ASSUME TypeOK, TokenShape, CallShape, RoleChecked, [Next]_vars
  PROVE  RoleChecked'
<1> DEFINE Good(r) == Passed(r) /\ AllowedRoles(call[r].route) # {} =>
                        call[r].user.role \in AllowedRoles(call[r].route)
<1>1. ASSUME NEW q \in Req, pc'[q] = pc[q], call'[q] = call[q]
      PROVE  Good(q)'
  BY <1>1 DEF RoleChecked, Passed
<1>2. CASE \A r \in Req : ~Handle(r)
  BY <1>1, <1>2, OtherActions DEF RoleChecked
<1>3. ASSUME NEW r \in Req, Handle(r) PROVE RoleChecked'
  <2>1. \A q \in Req \ {r} : Good(q)'
    BY <1>1, <1>3, HandleFacts
  <2> USE DEF Passed
  <2>2. ASSUME NEW route \in Route, NEW c \in Held, NEW h \in Held, Arrive(r, route, c, h)
        PROVE  Good(r)'
    BY <2>2, ArriveFacts
  <2>3. ASSUME SkipAuth(r) PROVE Good(r)'
    BY <2>3, SkipFacts
  <2>4. ASSUME RefuseAuth(r) \/ Finish(r) PROVE Good(r)'
    BY <2>4, RefuseFacts, FinishFacts
  <2>5. ASSUME VerifyToken(r) PROVE Good(r)'
    <3>1. CASE Guards = "api"
      BY <2>5, <3>1, VerifyFacts
    <3>2. CASE Guards # "api"
      BY <2>5, <3>2, VerifyFacts, RoleGuardType
    <3> QED
      BY <3>1, <3>2
  <2>6. ASSUME Lookup(r) PROVE Good(r)'
    BY <2>6, LookupFacts, RoleGuardType
  <2>7. ASSUME NEW action \in Action, NEW resource \in Contexts(action),
               Decide(r, action, resource)
        PROVE  Good(r)'
    BY <2>7, DecideFacts DEF RoleChecked
  <2>8. Good(r)'
    BY <1>3, <2>2, <2>3, <2>4, <2>5, <2>6, <2>7 DEF Handle
  <2> QED
    BY <2>1, <2>8 DEF RoleChecked
<1> QED
  BY <1>2, <1>3

LEMMA DecidedStep ==
  ASSUME TypeOK, TokenShape, CallShape, Decided, [Next]_vars
  PROVE  Decided'
<1> DEFINE Good(r) == pc[r] = "granted" =>
      /\ call[r].action \in Action /\ call[r].resource \in ResourceContext
      /\ Authorize(call[r].user, call[r].action, call[r].resource)
      /\ Loaded(r)
<1>1. ASSUME NEW q \in Req, pc'[q] = pc[q], call'[q] = call[q], owner' = owner
      PROVE  Good(q)'
  BY <1>1 DEF Decided, Loaded
<1>2. CASE \A r \in Req : ~Handle(r)
  BY <1>1, <1>2, OtherActions DEF Decided
<1>3. ASSUME NEW r \in Req, Handle(r) PROVE Decided'
  <2>1. owner' = owner
    BY <1>3, HandleFacts DEF directory
  <2>2. \A q \in Req \ {r} : Good(q)'
    BY <1>1, <1>3, <2>1, HandleFacts
  <2>3. ASSUME NEW route \in Route, NEW c \in Held, NEW h \in Held, Arrive(r, route, c, h)
        PROVE  Good(r)'
    BY <2>3, ArriveFacts
  <2>4. ASSUME SkipAuth(r) \/ RefuseAuth(r) \/ Finish(r) PROVE Good(r)'
    BY <2>4, SkipFacts, RefuseFacts, FinishFacts
  <2>5. ASSUME VerifyToken(r) PROVE Good(r)'
    BY <2>5, VerifyFacts, RoleGuardType
  <2>6. ASSUME Lookup(r) PROVE Good(r)'
    BY <2>6, LookupFacts, RoleGuardType
  <2>7. ASSUME NEW action \in Action, NEW resource \in Contexts(action),
               Decide(r, action, resource)
        PROVE  Good(r)'
    <3>1. /\ call'[r].user = call[r].user /\ call'[r].action = action
          /\ call'[r].resource = resource
      BY <2>7, DecideFacts
    <3>2. /\ resource \in ResourceContext
          /\ resource.type = "STUDENT" =>
               \/ action \in ListAction
               \/ resource.resourceId \in Record /\ resource.ownerUserId = owner[resource.resourceId]
      BY ContextsType
    <3>3. pc'[r] = "granted" => Authorize(call[r].user, action, resource)
      BY <2>7, DecideFacts
    <3> QED
      BY <2>1, <3>1, <3>2, <3>3 DEF Loaded
  <2>8. Good(r)'
    BY <1>3, <2>3, <2>4, <2>5, <2>6, <2>7 DEF Handle
  <2> QED
    BY <2>2, <2>8 DEF Decided
<1> QED
  BY <1>2, <1>3

\* What was revoked or had expired stays so.
LEMMA LateStays ==
  ASSUME TypeOK, [Next]_vars
  PROVE  /\ revoked \subseteq revoked'
         /\ \A t \in Jti : token[t].stage = "expired" => token'[t].stage = "expired"
<1> USE DEF TypeOK, Token
<1>1. ASSUME NEW u \in User, NEW s \in Standing, ChangeAccount(u, s)
      PROVE  UNCHANGED <<token, revoked>>
  BY <1>1 DEF ChangeAccount
<1>2. ASSUME NEW t \in Jti, NEW u \in User, LoginRead(t, u)
      PROVE  /\ revoked' = revoked /\ token[t].stage # "expired"
             /\ \A x \in Jti \ {t} : token'[x] = token[x]
  BY <1>2 DEF LoginRead
<1>3. ASSUME NEW t \in Jti, Sign(t) \/ Expire(t)
      PROVE  /\ revoked' = revoked /\ token[t].stage # "expired"
             /\ \A x \in Jti \ {t} : token'[x] = token[x]
  BY <1>3 DEF Sign, Expire
<1>4. ASSUME NEW t \in Jti, Revoke(t) PROVE revoked \subseteq revoked' /\ token' = token
  BY <1>4 DEF Revoke
<1>5. ASSUME NEW r \in Req, Handle(r) PROVE UNCHANGED <<token, revoked>>
  BY <1>5 DEF Handle, Arrive, SkipAuth, RefuseAuth, VerifyToken, Lookup, Decide, Finish, sessions
<1>6. CASE UNCHANGED vars
  BY <1>6 DEF vars, sessions
<1>7. CASE Next
  BY <1>1, <1>2, <1>3, <1>4, <1>5, <1>7 DEF Next, Login, Admin, Session
<1> QED
  BY <1>6, <1>7

LEMMA LateStep ==
  ASSUME TypeOK, TokenShape, CallShape, LateIsSeen, Guards = "api", [Next]_vars
  PROVE  LateIsSeen'
<1> DEFINE Seen(r) == \E t \in {call[r].cookie, call[r].header} \ {Absent} :
                         t \in revoked \/ token[t].stage = "expired"
           Good(r) ==
             /\ pc[r] = "guard" /\ call[r].late => Seen(r)
             /\ pc[r] = "record" => OneCredential(r) /\ (call[r].late => call[r].jti \in revoked)
             /\ Passed(r) => OneCredential(r) /\ ~call[r].late
<1>0. \A r \in Req : call[r].cookie \in Jti \cup {Absent} /\ call[r].header \in Jti \cup {Absent}
  BY DEF TypeOK, Call
<1>1. ASSUME NEW q \in Req, pc'[q] = pc[q], call'[q] = call[q]
      PROVE  Good(q)'
  <2>1. Seen(q) => Seen(q)'
    BY <1>0, <1>1, LateStays
  <2> HIDE DEF Seen
  <2> QED
    BY <1>1, <2>1, LateStays DEF LateIsSeen, OneCredential, Passed, Seen
<1>2. CASE \A r \in Req : ~Handle(r)
  BY <1>1, <1>2, OtherActions DEF LateIsSeen
<1>3. ASSUME NEW r \in Req, Handle(r) PROVE LateIsSeen'
  <2>1. \A q \in Req \ {r} : Good(q)'
    BY <1>1, <1>3, HandleFacts
  <2>2. UNCHANGED <<token, revoked>>
    BY <1>3, HandleFacts DEF sessions
  <2> USE DEF Passed, OneCredential
  <2>3. ASSUME NEW route \in Route, NEW c \in Held, NEW h \in Held, Arrive(r, route, c, h)
        PROVE  Good(r)'
    <3>1. /\ pc'[r] = "guard" /\ call'[r].cookie = c /\ call'[r].header = h
          /\ call'[r].late => \E t \in {c, h} \ {Absent} :
                                t \in revoked \/ token[t].stage = "expired"
      BY <2>3, ArriveFacts
    <3>2. call'[r].late => Seen(r)'
      BY <2>2, <3>1
    <3> QED
      BY <3>1, <3>2
  <2>4. ASSUME SkipAuth(r) \/ RefuseAuth(r) \/ Finish(r) PROVE Good(r)'
    BY <2>4, SkipFacts, RefuseFacts, FinishFacts
  <2>5. ASSUME VerifyToken(r) PROVE Good(r)'
    <3>1. /\ pc[r] = "guard" /\ Extracted(r) \in Jti /\ token[Extracted(r)].stage = "live"
          /\ call'[r].jti = Extracted(r) /\ call'[r].late = call[r].late /\ pc'[r] = "record"
          /\ call'[r].cookie = call[r].cookie /\ call'[r].header = call[r].header
      BY <2>5, VerifyFacts
    <3>2. Extracted(r) # Absent
      BY <3>1, NoneAssumption
    <3>3. /\ OneCredential(r)
          /\ {call[r].cookie, call[r].header} \ {Absent} = {Extracted(r)}
      BY <3>2 DEF Extracted, ExtractToken
    <3>4. call[r].late => Extracted(r) \in revoked
      BY <3>1, <3>3 DEF LateIsSeen
    <3> QED
      BY <2>2, <3>1, <3>3, <3>4
  <2>6. ASSUME Lookup(r) PROVE Good(r)'
    <3>1. pc'[r] # "guard" /\ pc'[r] # "record"
      BY <2>6, LookupFacts, RoleGuardType
    <3>2. OneCredential(r) /\ (call[r].late => call[r].jti \in revoked)
      BY <2>6, LookupFacts DEF LateIsSeen
    <3> QED
      BY <2>6, <3>1, <3>2, LookupFacts
  <2>7. ASSUME NEW action \in Action, NEW resource \in Contexts(action),
               Decide(r, action, resource)
        PROVE  Good(r)'
    BY <2>7, DecideFacts DEF LateIsSeen
  <2>8. Good(r)'
    BY <1>3, <2>3, <2>4, <2>5, <2>6, <2>7 DEF Handle
  <2> QED
    BY <2>1, <2>8 DEF LateIsSeen
<1> QED
  BY <1>2, <1>3

LEMMA Invariance == Spec => []IInv
<1>1. Init => IInv
  <2> USE DEF Init
  <2>1. Init => TypeOK
    BY ChangesAssumption DEF TypeOK, Token, Stage, Phase, Call, NoCall
  <2>2. Init => TokenShape /\ CallShape /\ RoleChecked /\ Decided
    BY DEF TokenShape, CallShape, RoleChecked, Decided, Passed, Signed, NoCall
  <2> QED
    BY <2>1, <2>2 DEF IInv
<1>2. IInv /\ [Next]_vars => IInv'
  BY TypeStep, TokenStep, CallStep, RoleStep, DecidedStep DEF IInv
<1> QED
  BY <1>1, <1>2, PTL DEF Spec

-----------------------------------------------------------------------------
(* Theorems                                                                *)

\* The tables, the tokens and the local variables keep their types.
THEOREM TypeCorrect == Spec => []TypeOK
<1>1. IInv => TypeOK
  BY DEF IInv
<1> QED
  BY <1>1, Invariance, PTL

\* What a session was granted belonged to an organization of its account.
THEOREM TenantsIsolated == Spec => []TenantIsolation
<1>1. IInv => TenantIsolation
  <2> SUFFICES ASSUME IInv, NEW r \in Req, pc[r] = "granted", call[r].user.role # "ADMIN"
               PROVE  \E s \in formerly[call[r].jti] :
                        /\ s.role = call[r].user.role
                        /\ s.organizationId = call[r].resource.organizationId
    BY DEF TenantIsolation
  <2> DEFINE t == call[r].jti
  <2>1. call[r].user # Absent /\ t \in Jti /\ Signed(t)
    BY DEF IInv, CallShape, Passed
  <2>2. call[r].user \in AuthenticatedUser
    BY <2>1 DEF IInv, TypeOK, Call
  <2>3. call[r].resource.organizationId = call[r].user.organizationId
    BY <2>2, PolicyIsolates DEF IInv, Decided
  <2>4. Claimed(t) \in formerly[t]
    BY <2>1 DEF IInv, TokenShape
  <2>5. call[r].user = Principal(token[t].claims)
    BY <2>1 DEF IInv, CallShape
  <2>6. /\ Claimed(t).role = call[r].user.role
        /\ Claimed(t).organizationId = call[r].user.organizationId
    BY <2>5 DEF Principal, Claimed
  <2> QED
    BY <2>3, <2>4, <2>6
<1> QED
  BY <1>1, Invariance, PTL

\* A student is granted no student record but the own one.
THEOREM StudentsStayHome == Spec => []OwnRecordOnly
<1>1. IInv => OwnRecordOnly
  <2> SUFFICES ASSUME IInv, NEW r \in Req, pc[r] = "granted", call[r].user.role = "STUDENT",
                      call[r].resource.type = "STUDENT"
               PROVE  owner[call[r].resource.resourceId] = token[call[r].jti].claims.sub
    BY DEF OwnRecordOnly
  <2>1. call[r].user # Absent
    BY DEF IInv, CallShape, Passed
  <2>2. call[r].user \in AuthenticatedUser
    BY <2>1 DEF IInv, TypeOK, Call
  <2>3. /\ call[r].action \in Action /\ call[r].resource \in ResourceContext
        /\ Authorize(call[r].user, call[r].action, call[r].resource) /\ Loaded(r)
    BY DEF IInv, Decided
  <2>4. call[r].action \notin ListAction
    BY <2>2, <2>3, PolicyListsNothing
  <2>5. /\ call[r].resource.resourceId \in Record
        /\ call[r].resource.ownerUserId = owner[call[r].resource.resourceId]
    BY <2>3, <2>4 DEF Loaded
  <2>6. call[r].resource.ownerUserId # Absent
    BY <2>5, AbsentAssumption DEF IInv, TypeOK
  <2>7. call[r].resource.ownerUserId = call[r].user.id
    BY <2>3, <2>6 DEF Authorize, OwnOrAbsent
  <2>8. call[r].user = Principal(token[call[r].jti].claims)
    BY <2>1 DEF IInv, CallShape
  <2>9. call[r].user.id = token[call[r].jti].claims.sub
    BY <2>8 DEF Principal
  <2> QED
    BY <2>5, <2>7, <2>9
<1> QED
  BY <1>1, Invariance, PTL

\* Although the matrix is written without a hierarchy, it has one: of two
\* accounts that differ in the role only, staff is granted whatever the student
\* is, and the administrator whatever staff is.
THEOREM PrivilegesOrdered ==
  ASSUME NEW id \in User, NEW org \in Org, NEW action \in Action,
         NEW resource \in ResourceContext
  PROVE  LET As(role) == Authorize([id |-> id, role |-> role, organizationId |-> org],
                                   action, resource)
         IN  (As("STUDENT") => As("STAFF")) /\ (As("STAFF") => As("ADMIN"))
BY DEF Authorize, POLICY, Permission, OwnOrAbsent

\* Nobody who has not been ADMIN since the login is granted what is reserved.
THEOREM AdministratorsOnly == Spec => []AdminOnly
<1>1. IInv => AdminOnly
  <2> SUFFICES ASSUME IInv, NEW r \in Req, pc[r] = "granted", call[r].action \in Reserved
               PROVE  \E s \in formerly[call[r].jti] : s.role = "ADMIN"
    BY DEF AdminOnly
  <2> DEFINE t == call[r].jti
  <2>1. call[r].user # Absent /\ t \in Jti /\ Signed(t)
    BY DEF IInv, CallShape, Passed
  <2>2. call[r].user \in AuthenticatedUser
    BY <2>1 DEF IInv, TypeOK, Call
  <2>3. call[r].user.role = "ADMIN"
    BY <2>2, PolicyReserves DEF IInv, Decided
  <2>4. Claimed(t) \in formerly[t]
    BY <2>1 DEF IInv, TokenShape
  <2>5. Claimed(t).role = call[r].user.role
    <3>1. call[r].user = Principal(token[t].claims)
      BY <2>1 DEF IInv, CallShape
    <3> QED
      BY <3>1 DEF Principal, Claimed
  <2> QED
    BY <2>3, <2>4, <2>5
<1> QED
  BY <1>1, Invariance, PTL

\* Every route is declared with the decorator that belongs to the guards.
OwnDecorator == \A route \in Route : route.key = AllowRolesKey

\* With the decorator of the same package, a route that declares roles lets
\* nobody in who has not had one of them.
THEOREM RolesEnforced == OwnDecorator => (Spec => []RestrictedRoutes)
<1> SUFFICES ASSUME OwnDecorator PROVE Spec => []RestrictedRoutes
  OBVIOUS
<1>1. IInv => RestrictedRoutes
  <2> SUFFICES ASSUME IInv, NEW r \in Req, Passed(r),
                      DeclaredRoles(call[r].route) # {}
               PROVE  /\ call[r].jti # Absent
                      /\ \E s \in formerly[call[r].jti] :
                            s.role \in DeclaredRoles(call[r].route)
    BY DEF RestrictedRoutes
  <2> DEFINE t == call[r].jti
  <2>1. call[r].user # Absent /\ t \in Jti /\ Signed(t) /\ call[r].route \in Route
    BY DEF IInv, CallShape, Passed
  <2>2. AllowedRoles(call[r].route) = DeclaredRoles(call[r].route)
    BY <2>1 DEF OwnDecorator, AllowedRoles
  <2>3. call[r].user.role \in DeclaredRoles(call[r].route)
    BY <2>2 DEF IInv, RoleChecked
  <2>4. Claimed(t) \in formerly[t]
    BY <2>1 DEF IInv, TokenShape
  <2>5. Claimed(t).role = call[r].user.role
    <3>1. call[r].user = Principal(token[t].claims)
      BY <2>1 DEF IInv, CallShape
    <3> QED
      BY <3>1 DEF Principal, Claimed
  <2>6. t # Absent
    BY <2>1, NoneAssumption
  <2> QED
    BY <2>3, <2>4, <2>5, <2>6
<1> QED
  BY <1>1, Invariance, PTL

\* Behind the guards of the API, a request with two credentials, a revoked or
\* an expired token gets to no handler.
THEOREM LateIsRefused == Guards = "api" => (Spec => []RefusedCredentials)
<1> SUFFICES ASSUME Guards = "api" PROVE Spec => []RefusedCredentials
  OBVIOUS
<1>1. Init => LateIsSeen
  BY DEF Init, LateIsSeen, Passed
<1>2. IInv /\ LateIsSeen /\ [Next]_vars => LateIsSeen'
  BY LateStep DEF IInv
<1>3. LateIsSeen => RefusedCredentials
  BY DEF LateIsSeen, OneCredential, RefusedCredentials
<1> QED
  BY <1>1, <1>2, <1>3, Invariance, PTL DEF Spec
=============================================================================
