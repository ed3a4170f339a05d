\* The cookie of the web application against the guard.
CONSTANTS
  Tab = {b1}
  Jti = {t1, t2}
  NoJti = NoJti
  TokenLife = 1
  CookieLife = 3
  Limit = 1
  MaxAbandoned = 1
  MaxTime = 4
SYMMETRY Symmetry
SPECIFICATION Spec
INVARIANTS SignedInIsAccepted
