\* One account, one token, one request in flight.
CONSTANTS
  User = {u1}
  Jti = {t1}
  Req = {r1}
  NoUser = NoUser
  NoJti = NoJti
SPECIFICATION Spec
INVARIANT LogoutAlwaysRevokes
