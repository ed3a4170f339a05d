\* The API's guards: two accounts, one student record, one token, one request.
CONSTANTS
  User = {u1, u2}
  Record = {s1}
  Org = {o1, o2}
  Jti = {t1}
  Req = {r1}
  Absent = Absent
  Route <- MCRoute
  MaxChanges = 1
  Guards = "api"
SYMMETRY Symmetry
SPECIFICATION Spec
INVARIANTS TypeOK TenantIsolation AdminOnly OwnRecordOnly RestrictedRoutes RefusedCredentials
