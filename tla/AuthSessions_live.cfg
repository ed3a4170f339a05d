\* One account, one token, two requests in flight, fair handlers.
CONSTANTS
  User = {u1}
  Jti = {t1}
  Req = {r1, r2}
  NoUser = NoUser
  NoJti = NoJti
SPECIFICATION FairSpec
PROPERTY Answered
