\* One e-mail, two organizations, two registrations, fair handlers.
CONSTANTS
  Email = {e1}
  Org = {o1, o2}
  NoOrg = NoOrg
  Req = {r1, r2}
SPECIFICATION FairSpec
INVARIANTS TypeOK OrganizationExists
PROPERTIES ImplementsContract Answered
