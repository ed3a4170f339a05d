------------------------------ MODULE WebLogin ------------------------------
(***************************************************************************)
(* Signing in at the web application: the login page posts to the route    *)
(* handler of the Next.js server, which asks the API and turns its token   *)
(* into a cookie named "token".  The same browser may also hold the cookie *)
(* "jwt", which the API sets itself after a Google login and is the one    *)
(* its guard reads.                                                        *)
(*                                                                         *)
(* Several tabs of one browser share the cookies.  To the API's throttler  *)
(* the Next.js server is one client, whoever uses it.                      *)
(***************************************************************************)
EXTENDS Naturals

CONSTANTS Tab, Jti, NoJti,
          TokenLife,    \* JWT_EXPIRATION, in quarters of an hour
          CookieLife,   \* the hour of the route handler, in the same unit
          Limit,        \* logins per minute the API allows one client
          MaxAbandoned, \* bounds the logins whose answer nobody waits for
          MaxTime       \* bounds the clock

ASSUME JtiAssumption  == NoJti \notin Jti
ASSUME TimeAssumption == /\ TokenLife \in Nat \ {0} /\ CookieLife \in Nat \ {0}
                         /\ Limit \in Nat \ {0} /\ MaxTime \in Nat
                         /\ MaxAbandoned \in Nat

VARIABLES now,      \* the time
          expiry,   \* [Jti -> the exp of the token, 0 if it is not signed]
          hits,     \* logins the API has counted in this minute
          abandoned, \* logins on their way to the API that nobody waits for
          google,   \* [Jti -> how far the Google callback has come that signs it]
          maxAge,   \* [Jti -> the life its redirect gives the cookie]
          page,     \* [Tab -> what the login page shows]
          hop,      \* [Tab -> how far its request has come]
          answer,   \* [Tab -> the status and the token on their way back]
          granted,  \* tabs whose last login the API has accepted
          jar       \* the cookies of the browser

api      == <<expiry, hits, abandoned>>
callback == <<google, maxAge>>
request  == <<page, hop, answer, granted>>
vars     == <<now, api, callback, request, jar>>

-----------------------------------------------------------------------------
Page   == {"form", "pending", "error", "home"}
Hop    == {"none", "route", "fetch", "relay", "reply"}
Stage  == {"none", "store", "redirect"}
Status == {0, 200, 400, 401, 429, 500, 502}
Answer == [status : Status, jti : Jti \cup {NoJti}]
Time   == 0..(MaxTime + TokenLife + CookieLife)
Cookie == [jti : Jti \cup {NoJti}, until : Time]
Name   == {"token", "jwt"}

NoAnswer == [status |-> 0, jti |-> NoJti]
NoCookie == [jti |-> NoJti, until |-> 0]

Goto(b, h)   == hop' = [hop EXCEPT ![b] = h]
Show(b, p)   == page' = [page EXCEPT ![b] = p]
Carry(b, st, t) == answer' = [answer EXCEPT ![b] = [status |-> st, jti |-> t]]
Sign(t)      == /\ expiry[t] = 0
                /\ expiry' = [expiry EXCEPT ![t] = now + TokenLife]

Init == /\ now = 1 /\ hits = 0 /\ abandoned = 0
        /\ expiry = [t \in Jti |-> 0]
        /\ google = [t \in Jti |-> "none"] /\ maxAge = [t \in Jti |-> 0]
        /\ page = [b \in Tab |-> "form"] /\ hop = [b \in Tab |-> "none"]
        /\ answer = [b \in Tab |-> NoAnswer] /\ granted = {}
        /\ jar = [n \in Name |-> NoCookie]

-----------------------------------------------------------------------------
(* The page and the route handler                                          *)

\* The button is disabled while a request is pending.
Submit(b) == /\ page[b] \in {"form", "error"}
             /\ Show(b, "pending") /\ Goto(b, "route") /\ Carry(b, 0, NoJti)
             /\ granted' = granted \ {b}
             /\ UNCHANGED <<now, api, callback, jar>>

\* Nobody waits for this login any more: it is over, or goes on to the API.
Abandon(b) == \/ UNCHANGED abandoned
              \/ /\ hop[b] \in {"route", "fetch"} /\ abandoned < MaxAbandoned
                 /\ abandoned' = abandoned + 1

\* The user opens the login page anew; a request still pending is abandoned.
Reload(b) == /\ page[b] # "form"
             /\ Show(b, "form") /\ Goto(b, "none") /\ Carry(b, 0, NoJti) /\ Abandon(b)
             /\ granted' = granted \ {b}
             /\ UNCHANGED <<now, expiry, hits, callback, jar>>

ReadRequest(b) == /\ hop[b] = "route"
                  /\ \/ Goto(b, "fetch") /\ UNCHANGED answer
                     \/ Goto(b, "reply") /\ Carry(b, 400, NoJti)
                  /\ UNCHANGED <<now, api, callback, page, granted, jar>>

\* The API cannot be reached, or the connection to it breaks.
Unreachable(b) == /\ hop[b] = "fetch"
                  /\ Goto(b, "reply") /\ Carry(b, 502, NoJti) /\ Abandon(b)
                  /\ UNCHANGED <<now, expiry, hits, callback, page, granted, jar>>

\* Faulty variant of Relay: the status of the API is not looked at.
RelayBlindly(b) == /\ hop[b] = "relay"
                   /\ Goto(b, "reply")
                   /\ Carry(b, 200, answer[b].jti)
                   /\ UNCHANGED <<now, api, callback, page, granted, jar>>

\* The body of the answer is read; one that breaks off counts as empty, also
\* where the status is 200.
Relay(b) == /\ hop[b] = "relay"
            /\ Goto(b, "reply")
            /\ \E t \in {answer[b].jti, NoJti} : Carry(b, answer[b].status, t)
            /\ UNCHANGED <<now, api, callback, page, granted, jar>>

\* The browser stores the cookie, if the reply sets one, and the page goes on.
Deliver(b) == /\ hop[b] = "reply"
              /\ Goto(b, "none")
              /\ IF answer[b].status = 200
                   THEN /\ Show(b, "home")
                        /\ jar' = [jar EXCEPT !["token"] =
                             [jti |-> answer[b].jti, until |-> now + CookieLife]]
                        /\ UNCHANGED answer
                   ELSE Show(b, "error") /\ Carry(b, 0, NoJti) /\ UNCHANGED jar
              /\ UNCHANGED <<now, api, callback, granted>>

\* Faulty variant of NetworkError: the page stays pending, without a finally.
NetworkErrorPending(b) ==
  /\ hop[b] # "none"
  /\ Goto(b, "none") /\ Carry(b, 0, NoJti) /\ Abandon(b)
  /\ UNCHANGED <<now, expiry, hits, callback, page, granted, jar>>

\* The page's request breaks off.
NetworkError(b) == /\ hop[b] # "none"
                   /\ Show(b, "error") /\ Goto(b, "none") /\ Carry(b, 0, NoJti) /\ Abandon(b)
                   /\ UNCHANGED <<now, expiry, hits, callback, granted, jar>>

-----------------------------------------------------------------------------
(* The API                                                                 *)

Throttled(b) == /\ hop[b] = "fetch" /\ hits = Limit
                /\ Goto(b, "relay") /\ Carry(b, 429, NoJti)
                /\ UNCHANGED <<now, api, callback, page, granted, jar>>

\* Faulty variant of Login: the logins are counted and not limited.
LoginUnlimited(b) ==
  /\ hop[b] = "fetch"
  /\ hits' = hits + 1
  /\ Goto(b, "relay") /\ Carry(b, 401, NoJti)
  /\ UNCHANGED <<now, expiry, abandoned, callback, page, granted, jar>>

Login(b) == /\ hop[b] = "fetch" /\ hits < Limit
            /\ hits' = hits + 1
            /\ Goto(b, "relay")
            /\ \/ /\ \E t \in Jti : Sign(t) /\ Carry(b, 200, t)
                  /\ granted' = granted \cup {b}
               \/ /\ \E st \in {401, 500} : Carry(b, st, NoJti)
                  /\ UNCHANGED <<expiry, granted>>
            /\ UNCHANGED <<now, abandoned, callback, page, jar>>

\* An abandoned login is throttled, refused or granted like any other, and
\* nobody learns of it.
LoginAbandoned == /\ abandoned > 0 /\ abandoned' = abandoned - 1
                  /\ IF hits = Limit
                       THEN UNCHANGED <<expiry, hits>>
                       ELSE /\ hits' = hits + 1
                            /\ UNCHANGED expiry \/ \E t \in Jti : Sign(t)
                  /\ UNCHANGED <<now, callback, request, jar>>

MinuteEnds == /\ hits > 0 /\ hits' = 0
              /\ UNCHANGED <<now, expiry, abandoned, callback, request, jar>>

-----------------------------------------------------------------------------
(* The Google callback, from the signing of its token                      *)

\* handleOAuthCallback signs the token and waits for its transaction.
GoogleSign(t) == /\ Sign(t)
                 /\ google' = [google EXCEPT ![t] = "store"]
                 /\ UNCHANGED <<now, hits, abandoned, maxAge, request, jar>>

\* Faulty variant of GoogleRedirect: the cookie gets the default of a quarter
\* of an hour, whatever JWT_EXPIRATION is.
GoogleRedirectDefault(t) == /\ google[t] = "store"
                            /\ google' = [google EXCEPT ![t] = "redirect"]
                            /\ maxAge' = [maxAge EXCEPT ![t] = 1]
                            /\ UNCHANGED <<now, api, request, jar>>

\* The session is stored: maxAge is what is left of the token's life by now,
\* and a maxAge that is not positive deletes the cookie.
GoogleRedirect(t) ==
  /\ google[t] = "store"
  /\ google' = [google EXCEPT ![t] = "redirect"]
  /\ maxAge' = [maxAge EXCEPT ![t] = IF now < expiry[t] THEN expiry[t] - now ELSE 0]
  /\ UNCHANGED <<now, api, request, jar>>

\* The transaction fails, or the browser does not receive the redirect.
GoogleFails(t) == /\ google[t] # "none"
                  /\ google' = [google EXCEPT ![t] = "none"]
                  /\ maxAge' = [maxAge EXCEPT ![t] = 0]
                  /\ UNCHANGED <<now, api, request, jar>>

\* The browser counts maxAge from when it receives the redirect.
GoogleDeliver(t) ==
  /\ google[t] = "redirect"
  /\ jar' = [jar EXCEPT !["jwt"] =
       IF maxAge[t] = 0 THEN NoCookie ELSE [jti |-> t, until |-> now + maxAge[t]]]
  /\ google' = [google EXCEPT ![t] = "none"]
  /\ maxAge' = [maxAge EXCEPT ![t] = 0]
  /\ UNCHANGED <<now, api, request>>

\* The guard reads the cookie "jwt".
Accepted == jar["jwt"].jti # NoJti /\ now < expiry[jar["jwt"].jti]

Logout == /\ Accepted
          /\ jar' = [jar EXCEPT !["jwt"] = NoCookie]
          /\ UNCHANGED <<now, api, callback, request>>

\* Browsers drop the cookies whose time is over.
Tick == /\ now < MaxTime
        /\ now' = now + 1
        /\ jar' = [n \in Name |-> IF jar[n].until <= now' THEN NoCookie ELSE jar[n]]
        /\ UNCHANGED <<api, callback, request>>

-----------------------------------------------------------------------------
Proceed(b) == ReadRequest(b) \/ Throttled(b) \/ Login(b) \/ Relay(b) \/ Deliver(b)
Next == \/ \E b \in Tab : \/ Submit(b) \/ Reload(b) \/ Proceed(b)
                          \/ Unreachable(b) \/ NetworkError(b)
        \/ \E t \in Jti : GoogleSign(t) \/ GoogleRedirect(t) \/ GoogleDeliver(t)
                            \/ GoogleFails(t)
        \/ Logout \/ LoginAbandoned \/ MinuteEnds \/ Tick
Spec == Init /\ [][Next]_vars

\* Neither the page nor the route handler has a timeout: the API answers, as
\* AuthSessions shows, and so does the Next.js server.
FairSpec == Spec /\ \A b \in Tab : WF_vars(Proceed(b))

-----------------------------------------------------------------------------
(* Properties                                                              *)

TypeOK == /\ now \in 1..MaxTime \cup {1}
          /\ hits \in 0..Limit /\ abandoned \in 0..MaxAbandoned
          /\ expiry \in [Jti -> Time]
          /\ google \in [Jti -> Stage] /\ maxAge \in [Jti -> 0..TokenLife]
          /\ page \in [Tab -> Page] /\ hop \in [Tab -> Hop]
          /\ answer \in [Tab -> Answer] /\ granted \subseteq Tab
          /\ jar \in [Name -> Cookie]

\* The page leaves for the home page only if the API has accepted this login:
\* no error of the API, the route handler or the network is taken for success,
\* and no tab is signed in by what another one was answered.
HomeMeansLogin == \A b \in Tab : page[b] = "home" => b \in granted

\* A browser that is signed in by Google stays so for the life of its token,
\* unless it logs out or signs in again: however long the transaction and the
\* redirect take, its cookie does not end first.
GoogleSessionLasts ==
  LET c == jar["jwt"] IN c.jti # NoJti => expiry[c.jti] <= c.until

\* A browser session travels in the cookie the guard reads: whoever has signed
\* in at the web application, with a token that has not expired, is accepted.
SignedInIsAccepted ==
  \A b \in Tab :
    LET t == answer[b].jti IN
    page[b] = "home" /\ t # NoJti /\ jar["token"].jti = t /\ now < expiry[t] => Accepted

\* The page does not stay pending.
Settles == \A b \in Tab : page[b] = "pending" ~> page[b] # "pending"
=============================================================================
