\* Either store: two states, one account, two tokens, two callbacks.
CONSTANTS
  State = {s1, s2}
  User = {u1}
  Jti = {t1, t2}
  Req = {r1, r2}
  NoState = NoState
  NoUser = NoUser
  NoJti = NoJti
  Store = "eager"
SPECIFICATION BothSpec
INVARIANTS TypeOK OneLoginPerState OnlyActiveAccounts CookieIsBacked TransactionIsAtomic
PROPERTIES ImplementsStore ImplementsSessions Answered
