----------------------------- MODULE PanelClient -----------------------------
(***************************************************************************)
(* client.py: the calls of the 3x-ui panel through XUISession.  Each       *)
(* coroutine has a session of its own, as build_key_services makes them,   *)
(* and does operations on one client of the panel: it logs in, is retried, *)
(* reads the client and writes it back whole.  Logins and add_client go    *)
(* through the circuit breaker, every other request goes around it.        *)
(*                                                                         *)
(* The panel answers or is down; a request may have had its effect before  *)
(* the panel went down, and its answer is lost then.  set_inbounds is in   *)
(* ApprovedInbounds, the paged list in PanelSync.                          *)
(***************************************************************************)
EXTENDS CircuitBreaker

CONSTANTS
    Modes,          \* {"token", "cookie"}: how the sessions authenticate
    OpsOf,          \* coroutine -> the operations it does
    MaxTries,       \* stop_after_attempt
    MaxOps,         \* coroutine -> operations in one of its sessions
    None

Ops == {"add", "extend", "edit", "restore", "delete", "list"}

\* A client: its date, with what is set along with it (enable, limitIp), and
\* what else the panel keeps of it (tgId, group, comment).  0 is the panel's
\* default, 1 what the client was created with, 2 what is set later.
Client == [date : 0..2, rest : 0..2]
Created == [date |-> 1, rest |-> 1]

ASSUME ClientConstants ==
    /\ OpsOf \in [Calls -> SUBSET Ops] /\ MaxOps \in [Calls -> Nat]
    /\ None \notin Ops /\ None \notin Client /\ None # TRUE
    /\ MaxTries \in Nat

VARIABLES
    mode,           \* whether XUI_TOKEN is set
    up,             \* the panel answers
    panel,          \* the client on the panel, or None
    authed, cookie, \* per session: _is_authenticated and _session_cookie
    used,           \* per session: operations done
    at, op, tries,  \* per coroutine: its place, operation and attempt
    body,           \* what it has read of the client
    sent, done,     \* history: requests that change the client, and whether
                    \* the running operation has had its effect
    phantom         \* history: a success was reported without an effect

outside == <<mode, up>>
sessions == <<authed, cookie, used>>
calls == <<at, op, tries, body, sent, done, phantom>>
clientVars == <<vars, outside, panel, sessions, calls>>

Places == {"idle", "login", "auth", "post", "logged", "read", "write", "adding",
           "added", "rejected", "link", "sent"}

ClientTypeOK ==
    /\ TypeOK
    /\ mode \in Modes /\ up \in BOOLEAN
    /\ panel \in Client \cup {None}
    /\ authed \in [Calls -> BOOLEAN] /\ cookie \in [Calls -> {"none", "guest", "user"}]
    /\ \A c \in Calls : used[c] \in 0 .. MaxOps[c]
    /\ at \in [Calls -> Places] /\ op \in [Calls -> Ops \cup {None}]
    /\ tries \in [Calls -> 0..MaxTries]
    /\ body \in [Calls -> Client \cup {None}]
    /\ sent \in [Calls -> 0..MaxTries] /\ done \in [Calls -> BOOLEAN]
    /\ phantom \in BOOLEAN

ClientInit ==
    /\ Init
    /\ mode \in Modes /\ up = TRUE
    /\ panel = Created
    /\ authed = [c \in Calls |-> FALSE] /\ cookie = [c \in Calls |-> "none"]
    /\ used = [c \in Calls |-> 0]
    /\ at = [c \in Calls |-> "idle"] /\ op = [c \in Calls |-> None]
    /\ tries = [c \in Calls |-> 0] /\ body = [c \in Calls |-> None]
    /\ sent = [c \in Calls |-> 0] /\ done = [c \in Calls |-> FALSE]
    /\ phantom = FALSE

-----------------------------------------------------------------------------
(* Beginning and end of an operation                                       *)

\* The operations whose success stands for an effect on the panel:
\* delete_client also succeeds when it finds nothing.
Truthful == {"add", "extend", "edit", "restore"}

\* The first thing an operation does once it is logged in.
First(o) == IF o \in {"add", "list"} THEN "write" ELSE "read"

Begin(c) ==
    /\ at[c] = "idle"
    /\ \E o \in OpsOf[c] :
        /\ op' = [op EXCEPT ![c] = o]
        /\ at' = [at EXCEPT ![c] = IF authed[c] THEN First(o) ELSE "login"]
    /\ tries' = [tries EXCEPT ![c] = 1]
    /\ used' = [used EXCEPT ![c] = @ + 1]
    /\ UNCHANGED <<vars, outside, panel, authed, cookie, body, sent, done, phantom>>

\* The next operation comes in the same session or in a new one.
LeaveSession(c) ==
    \/ used[c] < MaxOps[c] /\ UNCHANGED sessions
    \/ /\ authed' = [authed EXCEPT ![c] = FALSE]
       /\ cookie' = [cookie EXCEPT ![c] = "none"]
       /\ used' = [used EXCEPT ![c] = 0]

\* The operation returns TRUE or FALSE or raises.
End(c, result) ==
    /\ at' = [at EXCEPT ![c] = "idle"] /\ op' = [op EXCEPT ![c] = None]
    /\ tries' = [tries EXCEPT ![c] = 0] /\ body' = [body EXCEPT ![c] = None]
    /\ sent' = [sent EXCEPT ![c] = 0] /\ done' = [done EXCEPT ![c] = FALSE]
    /\ phantom' = (phantom \/ (result = TRUE /\ op[c] \in Truthful /\ ~done[c]))
    /\ LeaveSession(c)

Goto(c, place) ==
    /\ at' = [at EXCEPT ![c] = place]
    /\ UNCHANGED <<op, tries, phantom>>

\* The operations that tenacity retries are the ones that raise.
Retried == {"add", "edit", "restore", "list"}

MayRetry(c) == op[c] \in Retried /\ tries[c] < MaxTries

Again(c) ==
    /\ at' = [at EXCEPT ![c] = "login"]
    /\ tries' = [tries EXCEPT ![c] = IF @ < MaxTries THEN @ + 1 ELSE @]
    /\ body' = [body EXCEPT ![c] = None]
    /\ UNCHANGED <<op, sent, done, phantom, sessions>>

\* What the caller sees of an error; None: the exception.
OnError(o) == IF o \in {"edit", "restore", "list"} THEN None ELSE FALSE

\* Mutant: a request without an answer is tried again.
Failed_Retried(c) == IF MayRetry(c) THEN Again(c) ELSE End(c, OnError(op[c]))

\* An error after the login is swallowed, or is an httpx exception, none of
\* which is_retryable_exception knows.
Failed(c) == End(c, OnError(op[c]))

-----------------------------------------------------------------------------
(* Login                                                                   *)

\* ensure_auth: the breaker lets the login in, or CircuitBreakerError.
Login(c) ==
    /\ at[c] = "login"
    /\ Call(c)
    /\ IF c \in running' THEN Goto(c, "auth") /\ UNCHANGED <<body, sent, done, sessions>>
       ELSE End(c, IF op[c] = "add" THEN None ELSE OnError(op[c]))
    /\ UNCHANGED <<outside, panel>>

\* The panel is not asked with a token, nor with any cookie at all.
NothingToAsk(c) == mode = "token" \/ cookie[c] # "none"

\* The CSRF answer comes with a session cookie, as a rule.
Csrf(c) ==
    /\ at[c] = "auth" /\ ~NothingToAsk(c) /\ up
    /\ cookie' \in {cookie, [cookie EXCEPT ![c] = "guest"]}
    /\ Goto(c, "post")
    /\ UNCHANGED <<vars, outside, panel, authed, used, body, sent, done>>

PostLogin(c) ==
    /\ at[c] = "post" /\ up
    /\ cookie' = [cookie EXCEPT ![c] = "user"]
    /\ Goto(c, "logged")
    /\ UNCHANGED <<vars, outside, panel, authed, used, body, sent, done>>

LoggedIn(c) ==
    /\ at[c] = "logged" \/ (at[c] = "auth" /\ NothingToAsk(c))
    /\ Succeed(c)
    /\ authed' = [authed EXCEPT ![c] = TRUE]
    /\ Goto(c, First(op[c]))
    /\ UNCHANGED <<outside, panel, cookie, used, body, sent, done>>

\* The panel does not answer: TimeoutError, which is tried again, or another
\* error of the connection, which is not.
LoginFails(c) ==
    /\ ~up
    /\ at[c] = "post" \/ (at[c] = "auth" /\ ~NothingToAsk(c))
    /\ Fail(c)
    /\ \/ MayRetry(c) /\ Again(c)
       \/ End(c, IF op[c] = "add" THEN None ELSE OnError(op[c]))
    /\ UNCHANGED <<outside, panel>>

Authorized(c) == mode = "token" \/ cookie[c] = "user"
Answers(c) == up /\ Authorized(c)

-----------------------------------------------------------------------------
(* add_client                                                              *)

Counted(c) == sent' = [sent EXCEPT ![c] = IF @ < MaxTries THEN @ + 1 ELSE @]

\* Mutant: sent without asking the breaker.
SendAdd_Unguarded(c) ==
    /\ op[c] = "add" /\ at[c] = "write"
    /\ running' = running \cup {c}
    /\ Goto(c, "adding") /\ Counted(c)
    /\ UNCHANGED <<breaker, history, outside, panel, sessions, body, done>>

\* An open breaker makes it return False.
SendAdd(c) ==
    /\ op[c] = "add" /\ at[c] = "write"
    /\ Call(c)
    /\ IF c \in running' THEN Goto(c, "adding") /\ Counted(c) /\ UNCHANGED <<body, done, sessions>>
       ELSE End(c, FALSE)
    /\ UNCHANGED <<outside, panel>>

\* Mutant: _check_success does not look at "success".
Accepts_All(c) == TRUE

\* success: the e-mail is new.
Accepts(c) == panel = None

\* The panel creates the client, unless it has the e-mail already.
AddOnPanel(c) ==
    /\ at[c] = "adding" /\ Answers(c)
    /\ IF panel = None THEN panel' = Created ELSE UNCHANGED panel
    /\ done' = [done EXCEPT ![c] = panel = None]
    /\ Goto(c, IF Accepts(c) THEN "added" ELSE "rejected")
    /\ UNCHANGED <<vars, outside, sessions, body, sent>>

AddAnswered(c) ==
    /\ at[c] = "added"
    /\ Succeed(c)
    /\ Goto(c, "link")
    /\ UNCHANGED <<outside, panel, sessions, body, sent, done>>

\* success:false is none of the breaker's business.
AddRejected(c) ==
    /\ at[c] = "rejected"
    /\ Succeed(c)
    /\ End(c, FALSE)
    /\ UNCHANGED <<outside, panel>>

\* No answer, a lost one, or 401 for a guest.
AddFails(c) ==
    /\ \/ at[c] = "adding" /\ ~Answers(c)
       \/ at[c] \in {"added", "rejected"} /\ ~up
    /\ Fail(c)
    /\ Failed(c)
    /\ UNCHANGED <<outside, panel>>

\* set_external_subscription: nothing depends on how it ends.
Link(c) ==
    /\ at[c] = "link"
    /\ End(c, TRUE)
    /\ UNCHANGED <<vars, outside, panel>>

-----------------------------------------------------------------------------
(* The operations around the breaker                                       *)

\* GET /api/clients/get/{email}; restore takes the client from the list.
Read(c) ==
    /\ at[c] = "read" /\ Answers(c) /\ panel # None
    /\ body' = [body EXCEPT ![c] = panel]
    /\ Goto(c, "write")
    /\ UNCHANGED <<vars, outside, panel, sessions, sent, done>>

\* The client is not there, or nothing is: delete_client takes both for deleted.
ReadFails(c) ==
    /\ at[c] = "read"
    /\ ~Answers(c) \/ panel = None
    /\ IF op[c] = "delete" THEN End(c, TRUE) ELSE Failed(c)
    /\ UNCHANGED <<vars, outside, panel>>

\* What extend_client_key sets: the date, enable and limitIp.
Extended(client) == [client EXCEPT !.date = 2]

\* What an admin sets: group and comment.
Edited(client) == [client EXCEPT !.rest = 2]

\* What the sync restores on a client whose tgId was lost is nothing else.
Restored(client) == client

Changed(o, client) ==
    CASE o = "extend" -> Extended(client)
      [] o = "edit" -> Edited(client)
      [] OTHER -> Restored(client)

\* Mutant: only the fields to change are sent; the panel resets the others.
Payload_Overrides(c) == Changed(op[c], [date |-> 0, rest |-> 0])

\* _build_panel_update_payload: all that was read, and the fields to change.
Payload(c) == Changed(op[c], body[c])

Writes == {"extend", "edit", "restore", "delete"}

Write(c) ==
    /\ op[c] \in Writes /\ at[c] = "write" /\ Answers(c) /\ panel # None
    /\ panel' = IF op[c] = "delete" THEN None ELSE Payload(c)
    /\ done' = [done EXCEPT ![c] = TRUE]
    /\ Counted(c)
    /\ body' = [body EXCEPT ![c] = None]
    /\ Goto(c, "sent")
    /\ UNCHANGED <<vars, outside, sessions>>

\* success:false for a client that has gone meanwhile: XUIAPIError, and
\* delete_client may find "not found" in its text.
WriteRejected(c) ==
    /\ op[c] \in Writes /\ at[c] = "write" /\ Answers(c) /\ panel = None
    /\ \/ End(c, OnError(op[c]))
       \/ op[c] = "delete" /\ End(c, TRUE)
    /\ UNCHANGED <<vars, outside, panel>>

\* The request is not answered.
WriteFails(c) ==
    /\ op[c] \in Writes /\ at[c] = "write" /\ ~Answers(c)
    /\ Failed(c)
    /\ UNCHANGED <<vars, outside, panel>>

WriteAnswered(c) ==
    /\ at[c] = "sent"
    /\ IF op[c] = "extend" THEN Goto(c, "link") /\ UNCHANGED <<body, sent, done, sessions>>
       ELSE End(c, TRUE)
    /\ UNCHANGED <<vars, outside, panel>>

WriteLost(c) ==
    /\ at[c] = "sent" /\ ~up
    /\ Failed(c)
    /\ UNCHANGED <<vars, outside, panel>>

\* A list or a lookup that changes nothing.
List(c) ==
    /\ op[c] = "list" /\ at[c] = "write"
    /\ End(c, IF Answers(c) THEN TRUE ELSE OnError("list"))
    /\ UNCHANGED <<vars, outside, panel>>

-----------------------------------------------------------------------------
TimePasses == Tick /\ UNCHANGED <<outside, panel, sessions, calls>>

PanelDown == up /\ up' = FALSE /\ UNCHANGED <<vars, mode, panel, sessions, calls>>
PanelUp == ~up /\ up' = TRUE /\ UNCHANGED <<vars, mode, panel, sessions, calls>>

Work(c) ==
    \/ Begin(c)
    \/ Login(c) \/ Csrf(c) \/ PostLogin(c) \/ LoggedIn(c) \/ LoginFails(c)
    \/ SendAdd(c) \/ AddOnPanel(c) \/ AddAnswered(c) \/ AddRejected(c) \/ AddFails(c)
    \/ Link(c)
    \/ Read(c) \/ ReadFails(c)
    \/ Write(c) \/ WriteRejected(c) \/ WriteFails(c) \/ WriteAnswered(c) \/ WriteLost(c)
    \/ List(c)

ClientNext ==
    \/ \E c \in Calls : Work(c)
    \/ TimePasses \/ PanelDown \/ PanelUp

ClientSpec == ClientInit /\ [][ClientNext]_clientVars

\* Time passes, every call goes on (the HTTP client has timeouts), and calls
\* keep coming (the scheduler alone makes them).
FairClientSpec ==
    ClientSpec /\ WF_clientVars(TimePasses) /\ \A c \in Calls : WF_clientVars(Work(c))

-----------------------------------------------------------------------------
\* The session's logins and add_client use the breaker as it is meant to be
\* used: every step is one of CircuitBreaker's, or none of its business.
UsesBreaker == Spec

\* A panel that stays up is used again: the breaker closes for good,
\* stragglers of the outage and half-done logins notwithstanding.
RecoversWithPanel == <>[]up => <>[](state = "closed")

\* add_client, extend_client_key and the updates report success only when the
\* panel has done what they asked for (XUIAPIError's phantom keys).
TrueIsDone == ~phantom

\* The retries never send a request that changes the client a second time:
\* the first may have had its effect.
SentOnce == \A c \in Calls : sent[c] <= 1

\* A client written back whole keeps the fields nobody meant to change:
\* none falls back to the panel's default, whatever was read when.
NothingZeroed == panel # None => panel.date # 0 /\ panel.rest # 0

-----------------------------------------------------------------------------
\* client.py, _build_panel_update_payload: "preventing accidental loss of
\* enable/expiryTime/tgId".
RenewalSticks ==
    [][panel # None /\ panel' # None => panel'.date >= panel.date]_clientVars

\* client.py, _ensure_auth: "No-op when using Bearer token; otherwise obtains
\* CSRF+session".
LoginIsReal == \A c \in Calls : authed[c] => Authorized(c)

\* client.py, comment on the breaker: "Fails after 5 consecutive failures".
OnlyAnswersReset ==
    [][failures' < failures =>
        \E c \in Calls : at[c] \in {"logged", "added", "rejected"}]_clientVars
=============================================================================
