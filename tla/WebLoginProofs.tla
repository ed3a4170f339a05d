--------------------------- MODULE WebLoginProofs ---------------------------
(***************************************************************************)
(* Proofs about WebLogin for any tabs, tokens, life times and limit.       *)
(***************************************************************************)
EXTENDS WebLogin, TLAPS

-----------------------------------------------------------------------------
(* The inductive invariant                                                 *)

\* An answer of 200 on its way was given to this login of the tab.
AnswerIsGranted ==
  \A b \in Tab : hop[b] \in {"relay", "reply"} /\ answer[b].status = 200 => b \in granted

\* No token has more than a whole life left.
LifeLeft == \A t \in Jti : expiry[t] <= now + TokenLife

\* The token of a callback is signed, and the life its redirect gives the
\* cookie, counted from now or later, covers what is left of the token's.
CallbackLife ==
  \A t \in Jti : /\ google[t] # "none" => expiry[t] # 0
                 /\ google[t] = "redirect" => expiry[t] <= now + maxAge[t]

\* So does the cookie, whose token is signed.
CookieSigned == jar["jwt"].jti # NoJti => expiry[jar["jwt"].jti] # 0

\* A tab shows that it is waiting exactly as long as its request is on its way:
\* no failure anywhere on the way leaves the button disabled with nothing to
\* wait for, and no answer reaches a page that has stopped waiting for it.
PendingIsInFlight == \A b \in Tab : page[b] = "pending" <=> hop[b] # "none"

Lives == LifeLeft /\ CallbackLife /\ CookieSigned /\ GoogleSessionLasts
IInv  == TypeOK /\ AnswerIsGranted /\ HomeMeansLogin /\ PendingIsInFlight /\ Lives

-----------------------------------------------------------------------------
(* Types                                                                   *)

LEMMA ClockType ==
  ASSUME TypeOK
  PROVE  /\ now \in Nat /\ now >= 1
         /\ now + TokenLife \in Time /\ now + CookieLife \in Time
BY TimeAssumption DEF TypeOK, Time

LEMMA SignType ==
  ASSUME TypeOK, NEW t \in Jti, Sign(t)
  PROVE  expiry' \in [Jti -> Time] /\ expiry'[t] = now + TokenLife
BY ClockType DEF TypeOK, Sign

LEMMA CarryType ==
  ASSUME TypeOK, NEW b \in Tab, NEW st \in Status, NEW t \in Jti \cup {NoJti}, Carry(b, st, t)
  PROVE  answer' \in [Tab -> Answer]
BY DEF TypeOK, Carry, Answer

LEMMA AbandonType ==
  ASSUME TypeOK, NEW b \in Tab, Abandon(b)
  PROVE  abandoned' \in 0..MaxAbandoned
BY TimeAssumption DEF TypeOK, Abandon

LEMMA CookieType ==
  ASSUME TypeOK, NEW t \in Jti \cup {NoJti}, NEW life \in 0..TokenLife \cup {CookieLife}
  PROVE  [jti |-> t, until |-> now + life] \in Cookie /\ NoCookie \in Cookie
BY ClockType, TimeAssumption DEF TypeOK, Cookie, NoCookie, Time

LEMMA TypeStep ==
  ASSUME TypeOK, LifeLeft, [Next]_vars
  PROVE  TypeOK'
<1> USE DEF TypeOK
<1>1. ASSUME NEW b \in Tab, Submit(b) PROVE TypeOK'
  <2>1. answer' \in [Tab -> Answer]
    BY <1>1, CarryType DEF Submit, Status
  <2> QED
    BY <1>1, <2>1 DEF Submit, Show, Goto, api, callback, Page, Hop
<1>2. ASSUME NEW b \in Tab, Reload(b) \/ NetworkError(b) PROVE TypeOK'
  <2>1. answer' \in [Tab -> Answer] /\ abandoned' \in 0..MaxAbandoned
    BY <1>2, CarryType, AbandonType DEF Reload, NetworkError, Status
  <2> QED
    BY <1>2, <2>1 DEF Reload, NetworkError, Show, Goto, callback, Page, Hop
<1>3. ASSUME NEW b \in Tab, ReadRequest(b) \/ Throttled(b) PROVE TypeOK'
  <2>1. answer' \in [Tab -> Answer]
    BY <1>3, CarryType DEF ReadRequest, Throttled, Status
  <2> QED
    BY <1>3, <2>1 DEF ReadRequest, Throttled, Goto, api, callback, Hop
<1>4. ASSUME NEW b \in Tab, Unreachable(b) PROVE TypeOK'
  <2>1. answer' \in [Tab -> Answer] /\ abandoned' \in 0..MaxAbandoned
    BY <1>4, CarryType, AbandonType DEF Unreachable, Status
  <2> QED
    BY <1>4, <2>1 DEF Unreachable, Goto, callback, Hop
<1>5. ASSUME NEW b \in Tab, Login(b) PROVE TypeOK'
  <2>1. answer' \in [Tab -> Answer]
    BY <1>5, CarryType DEF Login, Status
  <2>2. expiry' \in [Jti -> Time] /\ hits' \in 0..Limit
    BY <1>5, SignType, TimeAssumption DEF Login
  <2> QED
    BY <1>5, <2>1, <2>2 DEF Login, Goto, callback, Hop
<1>6. ASSUME NEW b \in Tab, Relay(b) PROVE TypeOK'
  <2>1. answer[b].status \in Status /\ \A t \in {answer[b].jti, NoJti} : t \in Jti \cup {NoJti}
    BY DEF Answer
  <2>2. answer' \in [Tab -> Answer]
    BY <1>6, <2>1, CarryType DEF Relay
  <2> QED
    BY <1>6, <2>2 DEF Relay, Goto, api, callback, Hop
<1>7. ASSUME NEW b \in Tab, Deliver(b) PROVE TypeOK'
  <2>1. [jti |-> answer[b].jti, until |-> now + CookieLife] \in Cookie
    BY CookieType DEF Answer
  <2>2. jar' \in [Name -> Cookie] /\ answer' \in [Tab -> Answer]
    BY <1>7, <2>1, CarryType DEF Deliver, Name, Status
  <2>3. hop' \in [Tab -> Hop] /\ page' \in [Tab -> Page]
    BY <1>7 DEF Deliver, Goto, Show, Hop, Page
  <2>4. UNCHANGED <<now, api, callback, granted>>
    BY <1>7 DEF Deliver
  <2> QED
    BY <2>2, <2>3, <2>4 DEF api, callback
<1>8. CASE LoginAbandoned
  <2>1. expiry' \in [Jti -> Time] /\ hits' \in 0..Limit /\ abandoned' \in 0..MaxAbandoned
    BY <1>8, SignType, TimeAssumption DEF LoginAbandoned
  <2> QED
    BY <1>8, <2>1 DEF LoginAbandoned, callback, request
<1>9. ASSUME NEW t \in Jti, GoogleSign(t) PROVE TypeOK'
  BY <1>9, SignType DEF GoogleSign, request, Stage
<1>10. ASSUME NEW t \in Jti, GoogleRedirect(t) PROVE TypeOK'
  <2>1. (IF now < expiry[t] THEN expiry[t] - now ELSE 0) \in 0..TokenLife
    BY ClockType, TimeAssumption DEF LifeLeft, Time
  <2> QED
    BY <1>10, <2>1 DEF GoogleRedirect, api, request, Stage
<1>11. ASSUME NEW t \in Jti, GoogleFails(t) PROVE TypeOK'
  BY <1>11, TimeAssumption DEF GoogleFails, api, request, Stage
<1>12. ASSUME NEW t \in Jti, GoogleDeliver(t) PROVE TypeOK'
  <2>1. [jti |-> t, until |-> now + maxAge[t]] \in Cookie /\ NoCookie \in Cookie
    BY CookieType
  <2>2. jar' \in [Name -> Cookie]
    BY <1>12, <2>1 DEF GoogleDeliver, Name
  <2> QED
    BY <1>12, <2>2, TimeAssumption DEF GoogleDeliver, api, request, Stage
<1>13. CASE Logout
  BY <1>13, CookieType, TimeAssumption DEF Logout, Name, api, callback, request
<1>14. CASE MinuteEnds
  BY <1>14, TimeAssumption DEF MinuteEnds, callback, request
<1>15. CASE Tick
  <2>1. NoCookie \in Cookie
    BY TimeAssumption DEF NoCookie, Cookie, Time
  <2>2. jar' \in [Name -> Cookie]
    BY <1>15, <2>1 DEF Tick
  <2>3. now' \in 1..MaxTime
    BY <1>15, ClockType, TimeAssumption DEF Tick
  <2> QED
    BY <1>15, <2>2, <2>3 DEF Tick, api, callback, request
<1>16. CASE UNCHANGED vars
  BY <1>16 DEF vars, api, callback, request
<1> QED
  BY <1>1, <1>2, <1>3, <1>4, <1>5, <1>6, <1>7, <1>8, <1>9, <1>10, <1>11, <1>12, <1>13, <1>14,
     <1>15, <1>16 DEF Next, Proceed

-----------------------------------------------------------------------------
(* The parts of the invariant                                              *)

\* The steps that no tab takes.
Elsewhere == \/ MinuteEnds \/ LoginAbandoned \/ Logout \/ Tick \/ UNCHANGED vars
             \/ \E t \in Jti : \/ GoogleSign(t) \/ GoogleRedirect(t) \/ GoogleDeliver(t)
                              \/ GoogleFails(t)

LEMMA ElsewhereKeeps ==
  ASSUME Elsewhere
  PROVE  UNCHANGED request
BY DEF Elsewhere, MinuteEnds, LoginAbandoned, Logout, Tick, GoogleSign, GoogleRedirect,
       GoogleDeliver, GoogleFails, vars

LEMMA GrantedStep ==
  ASSUME TypeOK, AnswerIsGranted, HomeMeansLogin, [Next]_vars
  PROVE  AnswerIsGranted' /\ HomeMeansLogin'
<1> USE DEF AnswerIsGranted, HomeMeansLogin
<1> DEFINE Good(b) ==
      /\ hop[b] \in {"relay", "reply"} /\ answer[b].status = 200 => b \in granted
      /\ page[b] = "home" => b \in granted
<1>1. ASSUME NEW b \in Tab, Submit(b) PROVE \A x \in Tab : Good(x)'
  BY <1>1 DEF TypeOK, Submit, Show, Goto, Carry
<1>2. ASSUME NEW b \in Tab, Reload(b) \/ NetworkError(b) PROVE \A x \in Tab : Good(x)'
  BY <1>2 DEF TypeOK, Reload, NetworkError, Show, Goto, Carry
<1>3. ASSUME NEW b \in Tab, ReadRequest(b) \/ Unreachable(b) \/ Throttled(b)
      PROVE  \A x \in Tab : Good(x)'
  BY <1>3 DEF TypeOK, ReadRequest, Unreachable, Throttled, Goto, Carry
<1>4. ASSUME NEW b \in Tab, Login(b) PROVE \A x \in Tab : Good(x)'
  BY <1>4 DEF TypeOK, Login, Goto, Carry
<1>5. ASSUME NEW b \in Tab, Relay(b) PROVE \A x \in Tab : Good(x)'
  BY <1>5 DEF TypeOK, Relay, Goto, Carry
<1>6. ASSUME NEW b \in Tab, Deliver(b) PROVE \A x \in Tab : Good(x)'
  BY <1>6 DEF TypeOK, Deliver, Goto, Show, Carry
<1>7. CASE Elsewhere
  BY <1>7, ElsewhereKeeps DEF request
<1> QED
  BY <1>1, <1>2, <1>3, <1>4, <1>5, <1>6, <1>7 DEF Next, Proceed, Elsewhere

\* A token that is signed now is neither in the cookie nor in a redirect, so
\* that the lives of those stay what they are.
LEMMA SignLives ==
  ASSUME TypeOK, Lives, NEW t \in Jti, Sign(t), UNCHANGED <<now, maxAge, jar>>,
         \A x \in Jti : google'[x] = google[x] \/ (x = t /\ google'[x] = "store")
  PROVE  Lives'
<1> USE DEF Lives, LifeLeft, CallbackLife, CookieSigned, GoogleSessionLasts
<1>1. /\ expiry[t] = 0 /\ expiry'[t] = now + TokenLife /\ expiry'[t] # 0
      /\ \A x \in Jti \ {t} : expiry'[x] = expiry[x]
  BY ClockType, TimeAssumption DEF Sign, TypeOK
<1>2. jar["jwt"].jti # NoJti => jar["jwt"].jti \in Jti \ {t}
  BY <1>1 DEF TypeOK, Name, Cookie
<1>3. LifeLeft'
  <2> SUFFICES ASSUME NEW x \in Jti PROVE expiry'[x] <= now + TokenLife
    OBVIOUS
  <2>1. CASE x = t
    BY <1>1, <2>1, ClockType, TimeAssumption
  <2>2. CASE x # t
    BY <1>1, <2>2
  <2> QED
    BY <2>1, <2>2
<1>5. CookieSigned' /\ GoogleSessionLasts'
  <2>1. CASE jar["jwt"].jti = NoJti
    BY <2>1
  <2>2. CASE jar["jwt"].jti # NoJti
    BY <1>1, <1>2, <2>2
  <2> QED
    BY <2>1, <2>2
<1>4. CallbackLife'
  BY <1>1
<1> QED
  BY <1>3, <1>4, <1>5

LEMMA SameLives ==
  ASSUME Lives, UNCHANGED <<now, expiry, callback>>, jar'["jwt"] \in {jar["jwt"], NoCookie}
  PROVE  Lives'
BY DEF Lives, LifeLeft, CallbackLife, CookieSigned, GoogleSessionLasts, callback, NoCookie

LEMMA LivesStep ==
  ASSUME TypeOK, Lives, [Next]_vars
  PROVE  Lives'
<1>0. now \in Nat /\ now >= 1
  BY ClockType
<1>1. ASSUME NEW b \in Tab,
             \/ Submit(b) \/ Reload(b) \/ ReadRequest(b) \/ Throttled(b) \/ Unreachable(b)
             \/ Relay(b) \/ NetworkError(b)
      PROVE  Lives'
  BY <1>1, SameLives
     DEF Submit, Reload, ReadRequest, Throttled, Unreachable, Relay, NetworkError, api
<1>2. ASSUME NEW b \in Tab, Deliver(b) PROVE Lives'
  <2>1. jar'["jwt"] = jar["jwt"]
    BY <1>2 DEF Deliver, TypeOK, Name
  <2> QED
    BY <1>2, <2>1, SameLives DEF Deliver, api
<1>3. CASE LoginAbandoned \/ \E b \in Tab : Login(b)
  <2>1. /\ UNCHANGED <<now, google, maxAge, jar>>
        /\ UNCHANGED expiry \/ \E t \in Jti : Sign(t)
    BY <1>3 DEF LoginAbandoned, Login, callback
  <2> QED
    BY <2>1, SignLives, SameLives DEF callback
<1>4. ASSUME NEW t \in Jti, GoogleSign(t) PROVE Lives'
  BY <1>4, SignLives DEF GoogleSign, TypeOK
<1>5. ASSUME NEW t \in Jti, GoogleRedirect(t) PROVE Lives'
  <2>1. UNCHANGED <<now, expiry, jar>> /\ expiry[t] \in Nat
    BY <1>5 DEF GoogleRedirect, api, TypeOK, Time
  <2>2. /\ google[t] = "store"
        /\ \A x \in Jti \ {t} : google'[x] = google[x] /\ maxAge'[x] = maxAge[x]
        /\ maxAge'[t] = IF now < expiry[t] THEN expiry[t] - now ELSE 0
    BY <1>5 DEF GoogleRedirect, TypeOK
  <2>3. expiry[t] <= now + maxAge'[t]
    BY <1>0, <2>1, <2>2
  <2> QED
    BY <2>1, <2>2, <2>3
       DEF Lives, LifeLeft, CallbackLife, CookieSigned, GoogleSessionLasts
<1>6. ASSUME NEW t \in Jti, GoogleFails(t) PROVE Lives'
  BY <1>6 DEF GoogleFails, api, TypeOK, Lives, LifeLeft, CallbackLife, CookieSigned,
              GoogleSessionLasts
<1>7. ASSUME NEW t \in Jti, GoogleDeliver(t) PROVE Lives'
  <2>1. UNCHANGED <<now, expiry>> /\ google[t] = "redirect"
    BY <1>7 DEF GoogleDeliver, api
  <2>2. expiry[t] # 0 /\ expiry[t] <= now + maxAge[t]
    BY <2>1 DEF Lives, CallbackLife
  <2>3. jar'["jwt"] = IF maxAge[t] = 0 THEN NoCookie ELSE [jti |-> t, until |-> now + maxAge[t]]
    BY <1>7 DEF GoogleDeliver, TypeOK, Name
  <2>4. CookieSigned' /\ GoogleSessionLasts'
    BY <2>1, <2>2, <2>3 DEF CookieSigned, GoogleSessionLasts, NoCookie
  <2>5. LifeLeft' /\ CallbackLife'
    BY <1>7, <2>1 DEF GoogleDeliver, TypeOK, Lives, LifeLeft, CallbackLife
  <2> QED
    BY <2>4, <2>5 DEF Lives
<1>8. CASE Logout
  <2>1. jar'["jwt"] = NoCookie
    BY <1>8 DEF Logout, TypeOK, Name
  <2> QED
    BY <1>8, <2>1, SameLives DEF Logout, api
<1>9. CASE Tick
  <2>1. jar'["jwt"] \in {jar["jwt"], NoCookie} /\ now' = now + 1
    BY <1>9 DEF Tick, Name
  <2>2. UNCHANGED <<expiry, google, maxAge>>
    BY <1>9 DEF Tick, api, callback
  <2>3. LifeLeft' /\ CallbackLife'
    BY <1>0, <2>1, <2>2, TimeAssumption DEF TypeOK, Time, Lives, LifeLeft, CallbackLife
  <2> QED
    BY <2>1, <2>2, <2>3 DEF Lives, CookieSigned, GoogleSessionLasts, NoCookie
<1>10. CASE MinuteEnds \/ UNCHANGED vars
  BY <1>10, SameLives DEF MinuteEnds, vars, api
<1> QED
  BY <1>1, <1>2, <1>3, <1>4, <1>5, <1>6, <1>7, <1>8, <1>9, <1>10 DEF Next, Proceed

LEMMA PendingStep ==
  ASSUME TypeOK, PendingIsInFlight, [Next]_vars
  PROVE  PendingIsInFlight'
<1> USE DEF TypeOK, PendingIsInFlight
<1>1. ASSUME NEW b \in Tab, Submit(b) \/ Reload(b) \/ NetworkError(b)
      PROVE  PendingIsInFlight'
  BY <1>1 DEF Submit, Reload, NetworkError, Show, Goto
<1>2. ASSUME NEW b \in Tab,
             ReadRequest(b) \/ Unreachable(b) \/ Throttled(b) \/ Login(b) \/ Relay(b)
      PROVE  PendingIsInFlight'
  BY <1>2 DEF ReadRequest, Unreachable, Throttled, Login, Relay, Goto
<1>3. ASSUME NEW b \in Tab, Deliver(b) PROVE PendingIsInFlight'
  BY <1>3 DEF Deliver, Show, Goto
<1>4. CASE Elsewhere
  BY <1>4, ElsewhereKeeps DEF request
<1> QED
  BY <1>1, <1>2, <1>3, <1>4 DEF Next, Proceed, Elsewhere

LEMMA Invariance == Spec => []IInv
<1>1. Init => IInv
  BY TimeAssumption
     DEF Init, IInv, TypeOK, AnswerIsGranted, HomeMeansLogin, Lives, LifeLeft, CallbackLife,
         CookieSigned, GoogleSessionLasts, Stage, Time, Page, Hop, Status,
         Answer, Cookie, Name, NoAnswer, NoCookie, PendingIsInFlight
<1>2. IInv /\ [Next]_vars => IInv'
  BY TypeStep, GrantedStep, PendingStep, LivesStep DEF IInv, Lives
<1> QED
  BY <1>1, <1>2, PTL DEF Spec

-----------------------------------------------------------------------------
(* Theorems                                                                *)

\* The clock, the tokens, the tabs and the cookies keep their types.
THEOREM TypeCorrect == Spec => []TypeOK
<1>1. IInv => TypeOK
  BY DEF IInv
<1> QED
  BY <1>1, Invariance, PTL

\* No failure is shown as a login, and no tab's answer is taken for another's.
THEOREM HomeIsGranted == Spec => []HomeMeansLogin
<1>1. IInv => HomeMeansLogin
  BY DEF IInv
<1> QED
  BY <1>1, Invariance, PTL

\* The cookie of a Google login does not end before its token, whatever time
\* passes between the signing, the storing and the redirect.
THEOREM GoogleSessionsLast == Spec => []GoogleSessionLasts
<1>1. IInv => GoogleSessionLasts
  BY DEF IInv, Lives
<1> QED
  BY <1>1, Invariance, PTL

\* A page is pending exactly while its request is: what is left of Settles when
\* the fairness of the servers is not assumed.
THEOREM PendingInFlight == Spec => []PendingIsInFlight
<1>1. IInv => PendingIsInFlight
  BY DEF IInv
<1> QED
  BY <1>1, Invariance, PTL
=============================================================================
