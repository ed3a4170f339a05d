-------------------------- MODULE SessionContract --------------------------
(***************************************************************************)
(* What the session handling of the API promises, with no process, no      *)
(* database and no messages.  A session is opened once; a request that     *)
(* presents it is accepted only if the session is live at some instant     *)
(* between its arrival and its answer; a session is closed only on behalf  *)
(* of an accepted request that asked for it, and only that session is; a   *)
(* close that is confirmed has happened; a closed session stays closed.    *)
(*                                                                         *)
(* The one way out is "orphan": when the account is deleted the record of  *)
(* the session goes with it, and nothing is promised of it any more.       *)
(***************************************************************************)
CONSTANTS Jti,      \* session identifiers (the jti claim of a token)
          Req,      \* requests in flight at the same time
          NoJti     \* no session

VARIABLES session,  \* [Jti -> state of the session]
          ask,      \* [Req -> what the request presented and its verdict]
          closing   \* sessions with a close that is asked for and undecided

vars == <<session, ask, closing>>

SessionState == {"none", "open", "closed", "orphan"}
Verdict      == {"pending", "accept", "refuse", "confirmed"}
NoAsk        == [tok |-> NoJti, verdict |-> "idle"]
Ask          == {NoAsk} \cup [tok : Jti, verdict : Verdict]

Live(t) == session[t] \in {"open", "orphan"}

Init == /\ session = [t \in Jti |-> "none"]
        /\ ask = [r \in Req |-> NoAsk]
        /\ closing = {}

Open(t) == /\ session[t] = "none"
           /\ session' = [session EXCEPT ![t] = "open"]
           /\ UNCHANGED <<ask, closing>>

Present(r, t) == /\ ask[r] = NoAsk
                 /\ session[t] # "none"
                 /\ ask' = [ask EXCEPT ![r] = [tok |-> t, verdict |-> "pending"]]
                 /\ UNCHANGED <<session, closing>>

\* A live session may still be refused: it expired, or the database failed.
Judge(r) == /\ ask[r].verdict = "pending"
            /\ \E v \in {"accept", "refuse"} :
                 /\ v = "accept" => Live(ask[r].tok)
                 /\ ask' = [ask EXCEPT ![r].verdict = v]
            /\ UNCHANGED <<session, closing>>

AskClose(r) == /\ ask[r].verdict = "accept"
               /\ closing' = closing \cup {ask[r].tok}
               /\ UNCHANGED <<session, ask>>

\* Two requests may be closing the same session, so it may stay in closing.
CloseOf(t) == /\ t \in closing
              /\ session[t] \in {"open", "closed"}
              /\ session' = [session EXCEPT ![t] = "closed"]
              /\ closing' \in {closing, closing \ {t}}

\* The close happens when nobody waits for it any more.
Close(t) == CloseOf(t) /\ UNCHANGED ask

\* The close happens and the request that asked for it is told so.
Confirm(r) == /\ ask[r].verdict = "accept"
              /\ CloseOf(ask[r].tok)
              /\ ask' = [ask EXCEPT ![r].verdict = "confirmed"]

\* The close fails or is lost.
Forget(t) == /\ t \in closing
             /\ closing' = closing \ {t}
             /\ UNCHANGED <<session, ask>>

Orphan(T) == /\ session' = [t \in Jti |-> IF t \in T THEN "orphan" ELSE session[t]]
             /\ UNCHANGED <<ask, closing>>

Release(R) == /\ ask' = [r \in Req |-> IF r \in R THEN NoAsk ELSE ask[r]]
              /\ UNCHANGED <<session, closing>>

Next == \/ \E t \in Jti : Open(t) \/ Close(t) \/ Forget(t)
        \/ \E r \in Req, t \in Jti : Present(r, t)
        \/ \E r \in Req : Judge(r) \/ AskClose(r) \/ Confirm(r)
        \/ \E T \in SUBSET Jti : Orphan(T)
        \/ \E R \in SUBSET Req : Release(R)

Spec == Init /\ [][Next]_vars
=============================================================================
