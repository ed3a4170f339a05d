---------------------------- MODULE Registration ----------------------------
(***************************************************************************)
(* POST /auth/register: the e-mail and the organization are looked up, the *)
(* password is hashed, and the account is inserted.  Each step waits for   *)
(* the one before, so other registrations, administrators and a crash come *)
(* in between; the unique key and the foreign key of users decide last.    *)
(***************************************************************************)
EXTENDS FiniteSets

CONSTANTS Email, Org, NoOrg,
          Req   \* registrations in flight: bounds the concurrency

ASSUME NoneAssumption == NoOrg \notin Org /\ NoOrg \notin Email

VARIABLES orgs,     \* rows of organizations
          user,     \* rows of users: [Email -> its organization, or NoOrg]
          pc,       \* [Req -> where the registration is]
          call,     \* [Req -> its body and why it failed]
          adrift    \* inserts sent by a process that has ended since

tables == <<orgs, user>>
vars   == <<tables, pc, call, adrift>>

-----------------------------------------------------------------------------
Reply   == {"201", "400", "409", "500"}
Waiting == {"email", "organization", "hash", "insert"}
Phase   == {"idle"} \cup Waiting \cup Reply
Cause   == {"none", "unique", "foreign", "query"}
Call    == [email : Email \cup {NoOrg}, org : Org \cup {NoOrg}, cause : Cause]
NoCall  == [email |-> NoOrg, org |-> NoOrg, cause |-> "none"]

Registered(e)  == user[e] # NoOrg
Goto(r, phase) == pc' = [pc EXCEPT ![r] = phase]
Because(r, c)  == call' = [call EXCEPT ![r].cause = c]

Init == /\ orgs \in SUBSET Org
        /\ user = [e \in Email |-> NoOrg]
        /\ pc = [r \in Req |-> "idle"]
        /\ call = [r \in Req |-> NoCall]
        /\ adrift = {}

-----------------------------------------------------------------------------
(* The tables, as administrators and the schema change them                *)

CreateOrg(o) == /\ o \notin orgs
                /\ orgs' = orgs \cup {o}
                /\ UNCHANGED <<user, pc, call, adrift>>

\* The relation restricts: an organization with users is not deleted.
DeleteOrg(o) == /\ o \in orgs /\ \A e \in Email : user[e] # o
                /\ orgs' = orgs \ {o}
                /\ UNCHANGED <<user, pc, call, adrift>>

DeleteUser(e) == /\ Registered(e)
                 /\ user' = [user EXCEPT ![e] = NoOrg]
                 /\ UNCHANGED <<orgs, pc, call, adrift>>

-----------------------------------------------------------------------------
(* POST /auth/register                                                     *)

\* Faulty variant of Malformed: the body is let through as it is.
MalformedAccepted(r) == /\ pc[r] = "idle"
                        /\ Goto(r, "email")
                        /\ UNCHANGED <<tables, call, adrift>>

\* A body that RegisterDto does not allow is refused by the ValidationPipe.
Malformed(r) == /\ pc[r] = "idle"
                /\ Goto(r, "400")
                /\ UNCHANGED <<tables, call, adrift>>

Register(r, e, o) ==
  /\ pc[r] = "idle"
  /\ Goto(r, "email")
  /\ call' = [call EXCEPT ![r] = [NoCall EXCEPT !.email = e, !.org = o]]
  /\ UNCHANGED <<tables, adrift>>

FindEmail(r) == /\ pc[r] = "email"
                /\ Goto(r, IF Registered(call[r].email) THEN "409" ELSE "organization")
                /\ UNCHANGED <<tables, call, adrift>>

FindOrganization(r) == /\ pc[r] = "organization"
                       /\ Goto(r, IF call[r].org \in orgs THEN "hash" ELSE "400")
                       /\ UNCHANGED <<tables, call, adrift>>

HashPassword(r) == /\ pc[r] = "hash"
                   /\ Goto(r, "insert")
                   /\ UNCHANGED <<tables, call, adrift>>

\* Faulty variant of Insertable: users without the unique key on email.
InsertableTwice(e, o) == o \in orgs

\* Faulty variant of Insertable: users without the foreign key.
InsertableAnywhere(e, o) == ~Registered(e)

Insertable(e, o) == ~Registered(e) /\ o \in orgs

Insert(r) == /\ pc[r] = "insert"
             /\ Insertable(call[r].email, call[r].org)
             /\ user' = [user EXCEPT ![call[r].email] = call[r].org]
             /\ Goto(r, "201")
             /\ UNCHANGED <<orgs, call, adrift>>

\* The insert is executed and the connection breaks before it is acknowledged.
InsertUnacked(r) == /\ pc[r] = "insert"
                    /\ Insertable(call[r].email, call[r].org)
                    /\ user' = [user EXCEPT ![call[r].email] = call[r].org]
                    /\ Goto(r, "500") /\ Because(r, "query")
                    /\ UNCHANGED <<orgs, adrift>>

\* Faulty variant of InsertRejected: the registration is tried once more, as
\* often as it takes.
InsertRetried(r) == /\ pc[r] = "insert"
                    /\ ~Insertable(call[r].email, call[r].org)
                    /\ Goto(r, "email")
                    /\ UNCHANGED <<tables, call, adrift>>

\* A constraint rejects the insert: register() does not catch the error.
InsertRejected(r) == /\ pc[r] = "insert"
                     /\ ~Insertable(call[r].email, call[r].org)
                     /\ Goto(r, "500")
                     /\ Because(r, IF Registered(call[r].email) THEN "unique" ELSE "foreign")
                     /\ UNCHANGED <<tables, adrift>>

QueryFails(r) == /\ pc[r] \in Waiting
                 /\ Goto(r, "500") /\ Because(r, "query")
                 /\ UNCHANGED <<tables, adrift>>

Finish(r) == /\ pc[r] \in Reply
             /\ Goto(r, "idle")
             /\ call' = [call EXCEPT ![r] = NoCall]
             /\ UNCHANGED <<tables, adrift>>

\* The process ends and is started again; an insert it has sent may be
\* executed later.
Crash == /\ adrift' = adrift \cup
              {<<call[r].email, call[r].org>> : r \in {x \in Req : pc[x] = "insert"}}
         /\ pc' = [r \in Req |-> "idle"]
         /\ call' = [r \in Req |-> NoCall]
         /\ UNCHANGED tables

InsertAdrift(e, o) ==
  /\ <<e, o>> \in adrift
  /\ adrift' = adrift \ {<<e, o>>}
  /\ user' = IF Insertable(e, o) THEN [user EXCEPT ![e] = o] ELSE user
  /\ UNCHANGED <<orgs, pc, call>>

-----------------------------------------------------------------------------
Handle(r) == \/ FindEmail(r) \/ FindOrganization(r) \/ HashPassword(r)
             \/ Insert(r) \/ InsertUnacked(r) \/ InsertRejected(r) \/ QueryFails(r)
Admin == \/ \E o \in Org : CreateOrg(o) \/ DeleteOrg(o)
         \/ \E e \in Email : DeleteUser(e)

Next == \/ Admin
        \/ \E r \in Req : \/ Malformed(r) \/ Handle(r) \/ Finish(r)
                          \/ \E e \in Email, o \in Org : Register(r, e, o)
        \/ Crash
        \/ \E e \in Email, o \in Org : InsertAdrift(e, o)

Spec == Init /\ [][Next]_vars

\* Every query is answered or fails.
FairSpec == Spec /\ \A r \in Req : WF_vars(Handle(r))

-----------------------------------------------------------------------------
(* Properties                                                              *)

TypeOK == /\ orgs \subseteq Org /\ user \in [Email -> Org \cup {NoOrg}]
          /\ pc \in [Req -> Phase] /\ call \in [Req -> Call]
          /\ adrift \subseteq Email \X Org
          /\ \A r \in Req : pc[r] \in Waiting \/ pc[r] \in {"201", "409", "500"}
               => call[r].email \in Email /\ call[r].org \in Org

\* Every account belongs to an organization that exists, although the
\* organization was looked up before the password was hashed.
OrganizationExists == \A e \in Email : Registered(e) => user[e] \in orgs

\* Documented at the route: 409 "Email already registered".  A registration
\* never fails on the unique key with anything else.
DuplicateIsConflict ==
  \A r \in Req : pc[r] = "500" => call[r].cause # "unique"

\* Every registration is answered, unless the process ends.
Answered == \A r \in Req : pc[r] \in Waiting ~> pc[r] \notin Waiting

-----------------------------------------------------------------------------
(* Registration implements AccountContract.                                *)

verdict(r) == CASE pc[r] \in Waiting -> "pending" [] pc[r] = "201" -> "created"
                [] pc[r] = "409" -> "taken"
                [] pc[r] = "idle" \/ call[r].email = NoOrg -> "idle"
                [] OTHER -> "failed"

Asked(r) == [email |-> call[r].email, org |-> call[r].org, verdict |-> verdict(r)]
askView  == [r \in Req |-> Asked(r)]

Contract == INSTANCE AccountContract WITH ask <- askView

\* An e-mail is given away in one step, to the registration that is told 201,
\* and 409 is told only of an e-mail that is taken: the queries before the
\* insert, the races between them and the failures after it do not show.
ImplementsContract == Contract!Spec
=============================================================================
