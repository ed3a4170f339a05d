---------------------------- MODULE AccessControl ----------------------------
(***************************************************************************)
(* A request for a protected resource: the login that signed its token,    *)
(* the global guards AuthGuard and RoleGuard with the metadata of the      *)
(* route, the principal they leave on the request, and the decision of     *)
(* AuthorizationService about the resource the handler has loaded.         *)
(*                                                                         *)
(* Role and organization travel in the token as they were when the login   *)
(* read the account; administrators change both in the tables meanwhile.   *)
(* No route of the API asks AuthorizationService yet: the handler here is  *)
(* the caller its comments and INTEGRATION.md describe.                    *)
(***************************************************************************)
EXTENDS Authorization, Naturals

CONSTANTS Jti,         \* token identifiers: bounds how many logins happen
          Req,         \* requests in flight
          Route,       \* the metadata of the routes, see RouteMetadata
          MaxChanges,  \* bounds the changes administrators make to accounts
          Guards       \* whose guards run

\* Roles declared on the handler and on its class: {} if they are not declared,
\* {{"STAFF"}} for @AllowRoles('STAFF'), {{}} for @AllowRoles().
ASSUME RouteMetadata ==
  Route \subseteq [public : BOOLEAN, key : {"allowed_roles", "allowRoles"},
                   handlerRoles : SUBSET SUBSET UserRole,
                   classRoles : SUBSET SUBSET UserRole]
ASSUME ChangesAssumption == MaxChanges \in Nat
\* "api": the guards of apps/api, which app.module.ts registers.  "package":
\* those that @verifit/auth exports.
ASSUME GuardsAssumption == Guards \in {"api", "package"}

VARIABLES account,   \* [User -> role and organization in the table]
          owner,     \* [Record -> the user the student record belongs to]
          changes,   \* how often an administrator has changed an account
          token,     \* [Jti -> the stage and the claims of the token]
          revoked,   \* tokens whose record has revokedAt
          formerly,  \* [Jti -> what its account has been since the login read it]
          pc, call   \* [Req -> where the request is; its local variables]

directory == <<account, owner, changes>>
sessions  == <<token, revoked, formerly>>
vars      == <<directory, sessions, pc, call>>

-----------------------------------------------------------------------------
Standing == [role : UserRole, organizationId : Org]
Stage    == {"unused", "verifying", "live", "expired"}
Claims   == [sub : User, role : UserRole, organizationId : Org]
Token    == [stage : Stage, claims : Claims \cup {Absent}]
ASSUME NoneAssumption == Absent \notin Jti \cup Claims \cup AuthenticatedUser
Reply    == {"granted", "401", "403", "500"}
Phase    == {"idle", "guard", "record", "load"} \cup Reply

\* late: the token was revoked or expired when the request arrived.
Call == [route : Route \cup {Absent}, cookie : Jti \cup {Absent},
         header : Jti \cup {Absent}, jti : Jti \cup {Absent}, late : BOOLEAN,
         user : AuthenticatedUser \cup {Absent},
         action : Action \cup {Absent}, resource : ResourceContext \cup {Absent}]

NoCall == [route |-> Absent, cookie |-> Absent, header |-> Absent, jti |-> Absent,
           late |-> FALSE, user |-> Absent, action |-> Absent, resource |-> Absent]

Goto(r, phase) == pc' = [pc EXCEPT ![r] = phase]

Init == /\ account \in [User -> Standing]
        /\ owner \in [Record -> User]
        /\ \A s1, s2 \in Record : owner[s1] = owner[s2] => s1 = s2
        /\ changes = 0
        /\ token = [t \in Jti |-> [stage |-> "unused", claims |-> Absent]]
        /\ revoked = {}
        /\ formerly = [t \in Jti |-> {}]
        /\ pc = [r \in Req |-> "idle"]
        /\ call = [r \in Req |-> NoCall]

-----------------------------------------------------------------------------
(* Administrators, and the sessions of AuthSessions and OAuthLogin in two   *)
(* steps: the account is read, and later its claims are signed.             *)

ChangeAccount(u, s) ==
  /\ changes < MaxChanges
  /\ s # account[u]
  /\ changes' = changes + 1
  /\ account' = [account EXCEPT ![u] = s]
  /\ formerly' = [t \in Jti |-> IF token[t].claims # Absent /\ token[t].claims.sub = u
                                  THEN formerly[t] \cup {s} ELSE formerly[t]]
  /\ UNCHANGED <<owner, token, revoked, pc, call>>

LoginRead(t, u) ==
  /\ token[t].stage = "unused"
  /\ token' = [token EXCEPT ![t] = [stage |-> "verifying",
       claims |-> [sub |-> u, role |-> account[u].role,
                   organizationId |-> account[u].organizationId]]]
  /\ formerly' = [formerly EXCEPT ![t] = {account[u]}]
  /\ UNCHANGED <<directory, revoked, pc, call>>

Sign(t) == /\ token[t].stage = "verifying"
           /\ token' = [token EXCEPT ![t].stage = "live"]
           /\ UNCHANGED <<directory, revoked, formerly, pc, call>>

Expire(t) == /\ token[t].stage = "live"
             /\ token' = [token EXCEPT ![t].stage = "expired"]
             /\ UNCHANGED <<directory, revoked, formerly, pc, call>>

Revoke(t) == /\ token[t].stage = "live" /\ t \notin revoked
             /\ revoked' = revoked \cup {t}
             /\ UNCHANGED <<directory, token, formerly, pc, call>>

-----------------------------------------------------------------------------
(* The guards                                                              *)

\* Faulty variant of AllowRolesKey: the key of the other package's decorator.
OtherRolesKey == IF Guards = "api" THEN "allowRoles" ELSE "allowed_roles"

\* RoleGuard reads the metadata under its own key.
AllowRolesKey == IF Guards = "api" THEN "allowed_roles" ELSE "allowRoles"

\* getAllAndOverride: what the handler declares replaces what its class does;
\* no declaration and an empty one restrict nothing.
DeclaredRoles(route) ==
  UNION (IF route.handlerRoles # {} THEN route.handlerRoles ELSE route.classRoles)
AllowedRoles(route) == IF route.key = AllowRolesKey THEN DeclaredRoles(route) ELSE {}

\* Where RoleGuard and then CurrentUser, a parameter of the handler, leave the
\* request.  The package's CurrentUser returns undefined, which authorize reads.
RoleGuard(route, user) ==
  LET roles == AllowedRoles(route) IN
  IF roles # {} /\ (IF user = Absent THEN TRUE ELSE user.role \notin roles)
    THEN "403"
  ELSE IF user # Absent THEN "load"
  ELSE IF Guards = "api" THEN "401" ELSE "500"

\* A request with two credentials is refused by the API; the package prefers
\* the header.
ExtractToken(cookie, header) ==
  CASE Guards = "package" -> IF header # Absent THEN header ELSE cookie
    [] Guards = "api" -> IF cookie # Absent /\ header # Absent THEN Absent
                         ELSE IF cookie # Absent THEN cookie ELSE header

\* Faulty variant of Principal: the payload is put on the request as it is.
PrincipalRaw(claims) == claims

Principal(claims) ==
  [id |-> claims.sub, role |-> claims.role, organizationId |-> claims.organizationId]

Held == {t \in Jti : token[t].stage \in {"live", "expired"}} \cup {Absent}

Arrive(r, route, cookie, header) ==
  /\ pc[r] = "idle"
  /\ Goto(r, "guard")
  /\ call' = [call EXCEPT ![r] = [NoCall EXCEPT
       !.route = route, !.cookie = cookie, !.header = header,
       !.late = \E t \in {cookie, header} \ {Absent} :
                   t \in revoked \/ token[t].stage = "expired"]]
  /\ UNCHANGED <<directory, sessions>>

Extracted(r)  == ExtractToken(call[r].cookie, call[r].header)
Skips(r)      == Guards = "api" /\ call[r].route.public
Verified(r)   == Extracted(r) # Absent /\ token[Extracted(r)].stage = "live"

\* AuthGuard of a @Public route, which the package's guard does not know.
SkipAuth(r) == /\ pc[r] = "guard" /\ Skips(r)
               /\ Goto(r, RoleGuard(call[r].route, Absent))
               /\ UNCHANGED <<directory, sessions, call>>

RefuseAuth(r) == /\ pc[r] = "guard" /\ ~Skips(r) /\ ~Verified(r)
                 /\ Goto(r, "401")
                 /\ UNCHANGED <<directory, sessions, call>>

\* The package's guard admits a token that verifies; the API's asks for its
\* record first.
VerifyToken(r) ==
  LET t    == Extracted(r)
      user == Principal(token[t].claims) IN
  /\ pc[r] = "guard" /\ ~Skips(r) /\ Verified(r)
  /\ Goto(r, IF Guards = "api" THEN "record" ELSE RoleGuard(call[r].route, user))
  /\ call' = [call EXCEPT ![r].jti = t,
                           ![r].user = IF Guards = "api" THEN Absent ELSE user]
  /\ UNCHANGED <<directory, sessions>>

\* Faulty variant of Lookup: the record is not looked at.
LookupNothing(r) ==
  LET user == Principal(token[call[r].jti].claims) IN
  /\ pc[r] = "record"
  /\ Goto(r, RoleGuard(call[r].route, user))
  /\ call' = [call EXCEPT ![r].user = user]
  /\ UNCHANGED <<directory, sessions>>

\* The record is read; the principal is set and RoleGuard runs.
Lookup(r) ==
  LET user    == Principal(token[call[r].jti].claims)
      refused == call[r].jti \in revoked IN
  /\ pc[r] = "record"
  /\ Goto(r, IF refused THEN "401" ELSE RoleGuard(call[r].route, user))
  /\ call' = [call EXCEPT ![r].user = IF refused THEN Absent ELSE user]
  /\ UNCHANGED <<directory, sessions>>

-----------------------------------------------------------------------------
(* The handler                                                             *)

Context(type, org, id, user) ==
  [type |-> type, organizationId |-> org, resourceId |-> id, ownerUserId |-> user]

\* Faulty variant of StudentContext: the caller leaves the owner out.
StudentContextUnowned(s) ==
  Context("STUDENT", account[owner[s]].organizationId, s, Absent)

\* A student record belongs to the organization of its user.
StudentContext(s) == Context("STUDENT", account[owner[s]].organizationId, s, owner[s])
UserContext(u)    == Context("USER", account[u].organizationId, u, Absent)
OrgContext(o)     == Context("ORGANIZATION", o, o, Absent)
ListContext(type, o) == Context(type, o, Absent, Absent)

ListAction == {"LIST_USERS", "LIST_STUDENTS", "LIST_ORGANIZATIONS"}

\* What the server can have loaded for an action, read from the tables now.
Contexts(action) ==
  IF action \in ListAction
    THEN {ListContext(type, o) : type \in ResourceType, o \in Org}
    ELSE {StudentContext(s) : s \in Record} \cup {UserContext(u) : u \in User}
           \cup {OrgContext(o) : o \in Org}

\* The resource is loaded, and the decision is taken on what was read.
Decide(r, action, resource) ==
  /\ pc[r] = "load"
  /\ Goto(r, IF Authorize(call[r].user, action, resource) THEN "granted" ELSE "403")
  /\ call' = [call EXCEPT ![r].action = action, ![r].resource = resource]
  /\ UNCHANGED <<directory, sessions>>

Finish(r) == /\ pc[r] \in Reply
             /\ Goto(r, "idle")
             /\ call' = [call EXCEPT ![r] = NoCall]
             /\ UNCHANGED <<directory, sessions>>

-----------------------------------------------------------------------------
Login   == \E t \in Jti : (\E u \in User : LoginRead(t, u)) \/ Sign(t)
Admin   == \E u \in User, s \in Standing : ChangeAccount(u, s)
Session == \E t \in Jti : Expire(t) \/ Revoke(t)
Handle(r) ==
  \/ \E route \in Route, c, h \in Held : Arrive(r, route, c, h)
  \/ SkipAuth(r) \/ RefuseAuth(r) \/ VerifyToken(r) \/ Lookup(r)
  \/ \E action \in Action : \E resource \in Contexts(action) : Decide(r, action, resource)
  \/ Finish(r)

Next == Login \/ Admin \/ Session \/ \E r \in Req : Handle(r)
Spec == Init /\ [][Next]_vars

-----------------------------------------------------------------------------
(* Properties                                                              *)

TypeOK ==
  /\ account \in [User -> Standing] /\ owner \in [Record -> User]
  /\ changes \in 0..MaxChanges
  /\ token \in [Jti -> Token] /\ revoked \subseteq Jti
  /\ formerly \in [Jti -> SUBSET Standing]
  /\ pc \in [Req -> Phase] /\ call \in [Req -> Call]

Passed(r) == pc[r] \in {"load", "granted"}

\* Access across organizations is denied to every role but ADMIN: what is
\* granted belonged, when it was read, to an organization the account was a
\* member of, in the role it acts in, at some time since its login.
TenantIsolation ==
  \A r \in Req : pc[r] = "granted" /\ call[r].user.role # "ADMIN" =>
    \E s \in formerly[call[r].jti] :
      /\ s.role = call[r].user.role
      /\ s.organizationId = call[r].resource.organizationId

\* What changes or deletes accounts and organizations, deletes student records
\* or lists organizations is granted only to a session whose account has been
\* ADMIN since its login.
Reserved == {"UPDATE_USER", "DELETE_USER", "DELETE_STUDENT", "UPDATE_ORGANIZATION",
             "LIST_ORGANIZATIONS"}
AdminOnly ==
  \A r \in Req : pc[r] = "granted" /\ call[r].action \in Reserved =>
    \E s \in formerly[call[r].jti] : s.role = "ADMIN"

\* A student acts on no student record but the one that belongs to the
\* account the session was opened for.
OwnRecordOnly ==
  \A r \in Req : /\ pc[r] = "granted" /\ call[r].user.role = "STUDENT"
                 /\ call[r].resource.type = "STUDENT"
    => owner[call[r].resource.resourceId] = token[call[r].jti].claims.sub

\* A route that declares roles is entered only for an account that has had one
\* of them since the login of its session, however @Public, the handler's and
\* the class's metadata are combined.
RestrictedRoutes ==
  \A r \in Req : Passed(r) /\ DeclaredRoles(call[r].route) # {} =>
    /\ call[r].jti # Absent
    /\ \E s \in formerly[call[r].jti] : s.role \in DeclaredRoles(call[r].route)

\* INTEGRATION.md of the auth package: a request with two credentials, an
\* expired token or a revoked token is refused.
RefusedCredentials ==
  \A r \in Req : Passed(r) =>
    (call[r].cookie = Absent \/ call[r].header = Absent) /\ ~call[r].late
=============================================================================
