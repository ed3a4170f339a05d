--------------------------- MODULE MCAccessControl ---------------------------
(* Small instances of AccessControl for TLC.                               *)
EXTENDS AccessControl, TLC

Meta(key, public, handler, class) ==
  [key |-> key, public |-> public, handlerRoles |-> handler, classRoles |-> class]

\* No restriction; a class for staff with a handler of its own, one that
\* declares an empty list and one that is @Public.
MCRoute ==
  { Meta("allowed_roles", FALSE, {}, {}),
    Meta("allowed_roles", FALSE, {}, {{"STAFF", "ADMIN"}}),
    Meta("allowed_roles", FALSE, {{"STUDENT"}}, {{"STAFF"}}),
    Meta("allowed_roles", FALSE, {{}}, {{"STAFF"}}),
    Meta("allowed_roles", TRUE, {}, {{"STAFF"}}) }

\* Organizations and tokens are interchangeable, the accounts too.
Symmetry == Permutations(Org) \cup Permutations(Jti) \cup Permutations(User)
=============================================================================
