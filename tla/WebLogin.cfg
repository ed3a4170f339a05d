\* Two tabs, two tokens; a token lives two units of time, as long as the clock
\* runs, so that a callback may outlast it; a cookie of the route handler one.
CONSTANTS
  Tab = {b1, b2}
  Jti = {t1, t2}
  NoJti = NoJti
  TokenLife = 2
  CookieLife = 1
  Limit = 1
  MaxAbandoned = 1
  MaxTime = 3
SPECIFICATION FairSpec
INVARIANTS TypeOK HomeMeansLogin 
PROPERTIES Settles
