------------------------------- MODULE WebLogin -------------------------------
(***************************************************************************)
(* Login to the web cabinet through the Telegram bot: the rows of          *)
(* web_login_tokens (services/web_auth), the endpoints that start, confirm *)
(* and complete a login (api/v1/web.py) and the cookies of the browsers.   *)
(* Every change of a status is one conditional UPDATE; the SELECT that     *)
(* explains an UPDATE without a row is a statement of its own.  Answers    *)
(* travel: they may overtake one another or be lost.                       *)
(***************************************************************************)
EXTENDS Accounts

CONSTANTS Browsers, Tokens,
          MaxLost       \* bound on answers that never arrive

VARIABLES
    login,      \* web_login_tokens: status, tg_id, landing_uid, whose browser
    lapsed,     \* tokens whose expires_at has passed
    doubts,     \* confirmations whose UPDATE found no row: <<token, user>>
    polls,      \* polls whose UPDATE found no row: <<browser, token>>
    answers,    \* answers on their way to a browser
    poll,       \* cookie web_login_poll
    session,    \* cookie web_session: the user in it
    lost,
    told,       \* history: <<token, user>> the bot was told is confirmed
    granted     \* history: how often a token gave a session

browserVars == <<answers, poll, session, lost>>
loginVars == <<login, lapsed, doubts, polls, browserVars, told, granted>>

NoRow == [status |-> "none", user |-> None, uid |-> None, browser |-> None]

LoginInit ==
    /\ login = [t \in Tokens |-> NoRow]
    /\ lapsed = {} /\ doubts = {} /\ polls = {} /\ answers = {}
    /\ poll = [b \in Browsers |-> None]
    /\ session = [b \in Browsers |-> None]
    /\ lost = 0
    /\ told = {}
    /\ granted = [t \in Tokens |-> 0]

-----------------------------------------------------------------------------
(* The table                                                               *)

\* create: the rows a day past their expiry are deleted, the new one inserted.
Create(t, b, uid) ==
    \E gone \in SUBSET (lapsed \ {t}) :
        login' = [s \in Tokens |->
            CASE s = t -> [status |-> "pending", user |-> None, uid |-> uid, browser |-> b]
              [] s \in gone -> [login[s] EXCEPT !.status = "deleted"]
              [] OTHER -> login[s]]

Confirmable(t) == login[t].status = "pending" /\ t \notin lapsed
\* Mutant: the UPDATE forgets status = 'confirmed'.
Consumable_Again(t) == login[t].status \in {"confirmed", "used"} /\ t \notin lapsed
Consumable(t) == login[t].status = "confirmed" /\ t \notin lapsed

Lapse(t) ==
    /\ login[t].status # "none" /\ t \notin lapsed
    /\ lapsed' = lapsed \cup {t}
    /\ UNCHANGED <<login, doubts, polls, browserVars, told, granted>>

-----------------------------------------------------------------------------
(* The browser                                                             *)

Answer(b, kind, t, u) == [to |-> b, kind |-> kind, token |-> t, user |-> u]

\* POST /web/auth/bot-login of a browser whose cookie names the landing key uid.
StartLogin(b, uid, new) ==
    \E t \in new :
        /\ login[t].status = "none"
        /\ Create(t, b, uid)
        /\ answers' = answers \cup {Answer(b, "started", t, None)}
        /\ UNCHANGED <<lapsed, doubts, polls, poll, session, lost, told, granted>>

\* POST /web/auth/bot-login/complete: consume found the row.  The session is
\* issued; the answer leaves later, after the referral was looked at.
Consume(b) ==
    LET t == poll[b] IN
    /\ t # None /\ Consumable(t)
    /\ login' = [login EXCEPT ![t].status = "used"]
    /\ granted' = [granted EXCEPT ![t] = @ + 1]
    /\ UNCHANGED <<lapsed, doubts, polls, browserVars, told>>

AnswerConfirmed(t) ==
    /\ answers' = answers \cup {Answer(login[t].browser, "confirmed", t, login[t].user)}
    /\ UNCHANGED <<login, lapsed, doubts, polls, poll, session, lost, told, granted>>

\* consume found none ...
PollInVain(b) ==
    /\ poll[b] # None /\ ~Consumable(poll[b])
    /\ <<b, poll[b]>> \notin polls
    /\ polls' = polls \cup {<<b, poll[b]>>}
    /\ UNCHANGED <<login, lapsed, doubts, browserVars, told, granted>>

\* ... so get_by_poll tells "pending", which changes nothing, from "expired".
ExplainPoll(b, t) ==
    /\ <<b, t>> \in polls
    /\ polls' = polls \ {<<b, t>>}
    /\ answers' = IF login[t].status = "pending" /\ t \notin lapsed THEN answers
                  ELSE answers \cup {Answer(b, "expired", t, None)}
    /\ UNCHANGED <<login, lapsed, doubts, poll, session, lost, told, granted>>

\* The Set-Cookie headers of an answer.  The header of "confirmed" and of
\* "expired" deletes the poll cookie whatever token it holds by then.
Receive(m) ==
    /\ answers' = answers \ {m}
    /\ poll' = [poll EXCEPT ![m.to] = IF m.kind = "started" THEN m.token ELSE None]
    /\ session' = [session EXCEPT ![m.to] = IF m.kind = "confirmed" THEN m.user ELSE @]
    /\ UNCHANGED <<login, lapsed, doubts, polls, lost, told, granted>>

Lose(m) ==
    /\ lost < MaxLost
    /\ lost' = lost + 1
    /\ answers' = answers \ {m}
    /\ UNCHANGED <<login, lapsed, doubts, polls, poll, session, told, granted>>

\* POST /web/auth/logout, or the session runs out.
Logout(b) ==
    /\ session[b] # None
    /\ session' = [session EXCEPT ![b] = None]
    /\ UNCHANGED <<login, lapsed, doubts, polls, answers, poll, lost, told, granted>>

-----------------------------------------------------------------------------
(* The bot: POST /auth/web-login/{token}/confirm                           *)

\* The user has followed the link of t and presses the button.
Confirm(t, u) ==
    /\ login[t].status # "none"
    /\ IF Confirmable(t)
       THEN /\ login' = [login EXCEPT ![t].status = "confirmed", ![t].user = u]
            /\ told' = told \cup {<<t, u>>}
            /\ UNCHANGED doubts
       ELSE /\ <<t, u>> \notin doubts
            /\ doubts' = doubts \cup {<<t, u>>}
            /\ UNCHANGED <<login, told>>
    /\ UNCHANGED <<lapsed, polls, browserVars, granted>>

\* get_by_token: "already_confirmed" to the same user, "expired" otherwise.
\* Mutant: whoever asks is told that the login is confirmed.
SameUser_Any(t, u) == login[t].status \in {"confirmed", "used"}
SameUser(t, u) == login[t].status \in {"confirmed", "used"} /\ login[t].user = u

ExplainConfirm(t, u) ==
    /\ <<t, u>> \in doubts
    /\ doubts' = doubts \ {<<t, u>>}
    /\ told' = IF SameUser(t, u) THEN told \cup {<<t, u>>} ELSE told
    /\ UNCHANGED <<login, lapsed, polls, browserVars, granted>>

LoginStep(t) ==
    \/ Lapse(t)
    \/ \E u \in Users : Confirm(t, u) \/ ExplainConfirm(t, u)
    \/ \E b \in Browsers : ExplainPoll(b, t)

BrowserStep(b) ==
    \/ PollInVain(b) \/ Logout(b)
    \/ \E m \in answers : m.to = b /\ (Receive(m) \/ Lose(m))

-----------------------------------------------------------------------------
(* Properties                                                              *)

\* Whatever the order of confirmations, polls and expiry, one user at most is
\* told that a login is theirs (two confirm() at once, store.py:84).
OneUserPerToken ==
    \A t \in Tokens : \A u, v \in Users : <<t, u>> \in told /\ <<t, v>> \in told => u = v

\* A browser is logged in as a user only through a token it started and that
\* user confirmed, and no token gives a session twice (two polls at once,
\* store.py:104).
SessionIsOwn ==
    /\ \A t \in Tokens : granted[t] <= 1
    /\ \A b \in Browsers : session[b] # None =>
          \E t \in Tokens :
              login[t].browser = b /\ <<t, session[b]>> \in told /\ granted[t] > 0

\* Both: whatever polls and confirmations race, a login is its owner's, once.
LoginIsOwn == OneUserPerToken /\ SessionIsOwn

\* A login that is under way keeps the cookie its browser needs to finish it,
\* as long as no answer was lost (web_bot_login_complete).
LoginCanFinish ==
    \A t \in Tokens :
        LET b == login[t].browser IN
        login[t].status = "confirmed" /\ lost = 0 =>
            \/ poll[b] = t
            \/ \E m \in answers : m.kind = "started" /\ m.token = t
            \/ \E s \in Tokens : poll[b] = s /\ s # t

\* A token that was used gave its browser a session, or the answer is still
\* on its way (web_bot_login_complete).
UsedIsDelivered ==
    \A t \in Tokens :
        login[t].status = "used" =>
            \/ session[login[t].browser] = login[t].user
            \/ \E m \in answers : m.kind = "confirmed" /\ m.token = t
=============================================================================
