\* One account, two tokens, two requests in flight.
CONSTANTS
  User = {u1}
  Jti = {t1, t2}
  Req = {r1, r2}
  NoUser = NoUser
  NoJti = NoJti
SYMMETRY Symmetry
SPECIFICATION Spec
INVARIANTS TypeOK HeldIsRevocable LateNeverAdmitted LogoutRevokes
PROPERTIES ImplementsContract
