\* The insert of a state is only started when it is awaited.
CONSTANTS
  State = {s1}
  User = {u1}
  Jti = {t1}
  Req = {r1}
  NoState = NoState
  NoUser = NoUser
  NoJti = NoJti
  Store = "lazy"
SPECIFICATION FairSpec
PROPERTY IssuedIsStored
