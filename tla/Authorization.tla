---------------------------- MODULE Authorization ----------------------------
(***************************************************************************)
(* AuthorizationService: the permission matrix and the decision it makes   *)
(* for an authenticated user, an action and a resource.  The decision      *)
(* depends on nothing else and changes nothing.                            *)
(***************************************************************************)
EXTENDS FiniteSets

CONSTANTS User,     \* identifiers of accounts (User.id)
          Record,   \* identifiers of student records (Student.id)
          Org,      \* organizations
          Absent    \* a field of the resource context that was not filled in

ASSUME AbsentAssumption == Absent \notin User /\ Absent \notin Record /\ Absent \notin Org

-----------------------------------------------------------------------------
UserRole     == {"ADMIN", "STAFF", "STUDENT"}
ResourceType == {"USER", "STUDENT", "ORGANIZATION"}
Action == {"READ_USER", "UPDATE_USER", "DELETE_USER", "LIST_USERS",
           "READ_STUDENT", "UPDATE_STUDENT", "DELETE_STUDENT", "LIST_STUDENTS",
           "READ_ORGANIZATION", "UPDATE_ORGANIZATION", "LIST_ORGANIZATIONS"}

AuthenticatedUser == [id : User, role : UserRole, organizationId : Org]

\* organizationId is read from the resource on the server; ownerUserId is the
\* user of a student record.
ResourceContext ==
  [type : ResourceType, organizationId : Org \cup {Absent},
   resourceId : User \cup Record \cup Org \cup {Absent},
   ownerUserId : User \cup {Absent}]

\* Faulty variant of Permission: whoever updates student records deletes them.
PermissionToDelete(role, resource, actions, global) ==
  [role |-> role, resource |-> resource, global |-> global,
   actions |-> actions \cup {a \in {"DELETE_STUDENT"} : "UPDATE_STUDENT" \in actions}]

Permission(role, resource, actions, global) ==
  [role |-> role, resource |-> resource, actions |-> actions, global |-> global]

POLICY ==
  { Permission("ADMIN", "USER",
      {"READ_USER", "UPDATE_USER", "DELETE_USER", "LIST_USERS"}, TRUE),
    Permission("ADMIN", "STUDENT",
      {"READ_STUDENT", "UPDATE_STUDENT", "DELETE_STUDENT", "LIST_STUDENTS"}, TRUE),
    Permission("ADMIN", "ORGANIZATION",
      {"READ_ORGANIZATION", "UPDATE_ORGANIZATION", "LIST_ORGANIZATIONS"}, TRUE),
    Permission("STAFF", "USER", {"READ_USER", "LIST_USERS"}, FALSE),
    Permission("STAFF", "STUDENT",
      {"READ_STUDENT", "UPDATE_STUDENT", "LIST_STUDENTS"}, FALSE),
    Permission("STAFF", "ORGANIZATION", {"READ_ORGANIZATION"}, FALSE),
    Permission("STUDENT", "USER", {"READ_USER"}, FALSE),
    Permission("STUDENT", "STUDENT", {"READ_STUDENT", "UPDATE_STUDENT"}, FALSE),
    Permission("STUDENT", "ORGANIZATION", {"READ_ORGANIZATION"}, FALSE) }

\* A student reaches the own account and the own student record; an
\* identifier that is absent is not compared.
OwnOrAbsent(user, resource) ==
  CASE resource.type = "USER"    -> resource.resourceId \in {Absent, user.id}
    [] resource.type = "STUDENT" -> resource.ownerUserId \in {Absent, user.id}
    [] OTHER -> TRUE

\* Faulty variant of Authorize: the organization is compared for no entry.
AuthorizeAnywhere(user, action, resource) ==
  /\ \E entry \in POLICY : /\ entry.role = user.role /\ entry.resource = resource.type
                          /\ action \in entry.actions
  /\ user.role = "STUDENT" => OwnOrAbsent(user, resource)

\* granted of the AuthorizationResult: denied unless an entry says otherwise.
Authorize(user, action, resource) ==
  /\ \E entry \in POLICY :
       /\ entry.role = user.role /\ entry.resource = resource.type
       /\ action \in entry.actions
       /\ entry.global \/ resource.organizationId = user.organizationId
  /\ user.role = "STUDENT" => OwnOrAbsent(user, resource)
=============================================================================
