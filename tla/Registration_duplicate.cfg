\* Two registrations of one e-mail.
CONSTANTS
  Email = {e1}
  Org = {o1}
  NoOrg = NoOrg
  Req = {r1, r2}
SYMMETRY Symmetry
SPECIFICATION Spec
INVARIANTS DuplicateIsConflict
