------------------------------- MODULE Visitors -------------------------------
(***************************************************************************)
(* A visitor's way from an anonymous key to a logged-in user: the landing  *)
(* keys and the web login over one table of users, in one process that may *)
(* restart and whose cache is reloaded every hour.                         *)
(***************************************************************************)
EXTENDS LandingKeys, WebLogin

CONSTANTS
    QuickCalls, StartCalls, TrialCalls, EditCalls,
    BrowserOf,      \* the browser of a quick-key call
    MaxActive,      \* bound on requests served at once
    Scenarios       \* bounds of a behaviour: the calls it makes, the users who
                    \* come by an invitation, the restarts, reloads and errors

ASSUME VisitorConstants ==
    /\ Calls = Tokens \cup QuickCalls \cup StartCalls \cup TrialCalls \cup EditCalls
    /\ Scenarios \subseteq [calls : SUBSET Calls, invited : SUBSET Users, faults : Nat]
    /\ MaxActive \in Nat

KeyRecords == [owner : Users \cup {Pseudo}, conv : Users \cup {None},
               tagged : BOOLEAN, plan : {"day", "trial"}]

\* A request is of one kind, a landing_uid is drawn anew for every quick key
\* (uuid4), and there is always room for one more cached object.
ASSUME VisitorKeys ==
    /\ (QuickCalls \cup StartCalls) \cap (Tokens \cup TrialCalls \cup EditCalls) = {}
    /\ QuickCalls \cap StartCalls = {}
    /\ KeyOf \in [Calls -> Keys \cup {None}] /\ BrowserOf \in [QuickCalls -> Browsers]
    /\ \A c \in QuickCalls \cup StartCalls : KeyOf[c] \in Keys
    /\ \A c, d \in QuickCalls : KeyOf[c] = KeyOf[d] => c = d
    /\ None \notin Keys \cup KeyObjects \cup Calls \cup Users \cup KeyRecords
    /\ IsFiniteSet(Keys) /\ IsFiniteSet(Calls) /\ IsFiniteSet(KeyObjects)
    /\ Cardinality(KeyObjects) >= 2 * Cardinality(Keys) + Cardinality(Calls)

\* The same of users; a call holds two of their objects at most.
ASSUME VisitorUsers ==
    /\ Tokens \cap (TrialCalls \cup EditCalls) = {} /\ TrialCalls \cap EditCalls = {}
    /\ DOMAIN RefOf = Calls
    /\ None \notin UserObjects \cup Fields
    /\ IsFiniteSet(Users) /\ IsFiniteSet(UserObjects)
    /\ Cardinality(UserObjects) >= 2 * Cardinality(Users) + 2 * Cardinality(Calls)

VARIABLES
    cookie,     \* tg_landing_id of each browser
    expired,    \* landing keys whose 24 hours are over
    faults,
    loaded,     \* the table loading() has read and not cached yet
    planned     \* the scenario of this behaviour

accountVars == <<userVars, callVars, keyVars, trialVars>>
outside == <<cookie, expired, faults, loaded, planned>>
vars == <<accountVars, loginVars, outside>>

TypeOK ==
    /\ urow \in [Users -> Fields \cup {None}]
    /\ uheap \in [UserObjects -> Fields]
    /\ ucache \in [Users -> UserObjects \cup {None}]
    /\ who \in [Calls -> Users \cup {None}]
    /\ krow \in [Keys -> KeyRecords \cup {None}]
    /\ kheap \in [KeyObjects -> KeyRecords]
    /\ kcache \in [Keys -> KeyObjects \cup {None}]
    /\ panel \in [Keys -> {"none", "day", "trial"}]
    /\ \A t \in Tokens :
          login[t].status \in {"none", "pending", "confirmed", "used", "deleted"}
    /\ poll \in [Browsers -> Tokens \cup {None}]
    /\ session \in [Browsers -> Users \cup {None}]
    /\ cookie \in [Browsers -> Keys \cup {None}]
    /\ expired \subseteq Keys
    /\ faults \in 0..planned.faults

Init ==
    /\ AccountsInit /\ LandingInit /\ LoginInit
    /\ cookie = [b \in Browsers |-> None]
    /\ expired = {}
    /\ faults = 0
    /\ loaded = None
    /\ planned \in Scenarios

Active == Cardinality(InFlight) + Cardinality(doubts) + Cardinality(polls)
Room == Active < MaxActive
Fault == faults < planned.faults /\ faults' = faults + 1
Same == UNCHANGED <<loginVars, outside>>

-----------------------------------------------------------------------------
(* The anonymous visitor                                                   *)

\* landing_uid_from_cookie: the cookie is signed, so it holds what was set.
KeyInCookie(b) == cookie[b]

\* GET /landing/state for the cookie of browser b.
LandingState(b) ==
    LET k == KeyInCookie(b)
        key == kheap[kcache[k]]
    IN
    CASE k = None -> "new"
      [] k # None /\ ~Found(k) -> "expired"
      [] k # None /\ key.conv # None /\ key.owner # Pseudo -> "converted"
      [] k # None /\ k \in expired -> "expired"
      [] OTHER -> "active"

\* POST /web/anonymous/key: 409 while the key of this browser lives.
AskDayKey(c) ==
    /\ at[c] = "none" /\ Room
    /\ Goto(c, IF LandingState(BrowserOf[c]) = "active" THEN "done" ELSE "qadd")
    /\ UNCHANGED <<userVars, who, uobj, uimage, kept, history, keyVars, trialVars>> /\ Same

\* The answer with the cookie tg_landing_id arrives, or does not.
GiveDayKey(c) ==
    /\ DayKeyReady(c)
    /\ \/ cookie' = [cookie EXCEPT ![BrowserOf[c]] = KeyOf[c]]
       \/ UNCHANGED cookie
    /\ UNCHANGED <<loginVars, expired, faults, loaded, planned>>

DayIsOver(k) ==
    /\ krow[k] # None /\ krow[k].tagged /\ krow[k].plan = "day" /\ k \notin expired
    /\ expired' = expired \cup {k}
    /\ UNCHANGED <<accountVars, loginVars, cookie, faults, loaded, planned>>

-----------------------------------------------------------------------------
(* The bot and the browser                                                 *)

Linked(k) == k \in Range(cookie) \cup {login[t].uid : t \in Tokens}

StartLanding(c, u) == Room /\ Linked(KeyOf[c]) /\ Start(c, u) /\ Same
AskForTrial(c, u) == Room /\ AskTrial(c, u) /\ Same
EditUser(c, u) == Room /\ Edit(c, u) /\ UNCHANGED <<keyVars, trialVars>> /\ Same

Login(b) ==
    /\ StartLogin(b, KeyInCookie(b), Tokens \cap planned.calls)
    /\ UNCHANGED <<accountVars, outside>>

\* The poll that finds the login confirmed goes on with the referral of the
\* cookie tg_ref; the answer leaves when that is done.
CompleteLogin(b) ==
    LET t == poll[b] IN
    /\ Room /\ Consume(b)
    /\ who' = [who EXCEPT ![t] = login[t].user]
    /\ Goto(t, "attach")
    /\ UNCHANGED <<userVars, uobj, uimage, kept, history, keyVars, trialVars, outside>>

AnswerLogin(t) ==
    /\ at[t] = "done" /\ login[t].status = "used"
    /\ AnswerConfirmed(t)
    /\ Goto(t, "answered")
    /\ UNCHANGED <<userVars, who, uobj, uimage, kept, history, keyVars, trialVars, outside>>

LoginGoesOn ==
    /\ \/ \E t \in Tokens : LoginStep(t)
       \/ \E b \in Browsers : BrowserStep(b)
    /\ UNCHANGED <<accountVars, outside>>
    /\ Active' <= MaxActive

ReadUser(u) ==
    /\ ucache[u] = None /\ urow[u] # None
    /\ LookUp(u)
    /\ UNCHANGED <<urow, redeemed, callVars, keyVars, trialVars>> /\ Same

RegisterInvited(u) == RegisterElsewhere(u) /\ UNCHANGED <<keyVars, trialVars>> /\ Same

-----------------------------------------------------------------------------
(* The steps of the requests                                               *)

QuickStep(c) == (AddDayClient(c) \/ InsertDayKey(c) \/ TagDayKey(c) \/ WriteKey(c)) /\ Same

StartStep(c) ==
    /\ \/ Register(c)
       \/ \E kind \in {"claim", "mark"} : AlreadyTheirs(c, kind) \/ Refused(c, kind)
       \/ Mark(c) \/ Claim(c) \/ Upgrade(c) \/ WriteKey(c) \/ KeySaved(c)
       \/ EditServer(c) \/ TrialInstalled(c)
    /\ Same

TrialStep(c) ==
    /\ \/ AddTrialClient(c) \/ InsertTrialKey(c) \/ SetTrial(c)
       \/ TrialSaved(c) \/ WriteGift(c)
    /\ Same

EditSaved(c) ==
    /\ at[c] = "uwritten"
    /\ Recached(c)
    /\ uobj' = [uobj EXCEPT ![c] = None]
    /\ Goto(c, "done")
    /\ UNCHANGED <<urow, uheap, redeemed, who, uimage, kept, history, keyVars, trialVars>>
    /\ Same

SaveStep(c) ==
    /\ WriteUser(c, "uwrite", "uwritten") \/ WriteUser(c, "swrite", "swritten")
    /\ UNCHANGED <<keyVars, trialVars>> /\ Same

AttachStep(c) ==
    /\ Attach(c) \/ AttachToCached(c) \/ Redeem(c)
    /\ UNCHANGED <<keyVars, trialVars>> /\ Same

-----------------------------------------------------------------------------
(* What goes wrong                                                         *)

PanelFails(c) ==
    Fault /\ UpgradeFails(c) /\ UNCHANGED <<loginVars, cookie, expired, loaded, planned>>

\* A statement or the panel fails and the exception ends the request; what it
\* changed in an object stays.  The user may ask again, a login not.
After(c) == IF c \in StartCalls \cup TrialCalls THEN "none" ELSE "done"
Aborts(c) ==
    /\ Fault
    /\ at[c] \in {"kwrite", "uwrite", "swrite", "attach", "redeem", "add", "tsave", "gift",
                  "qsave"}
    /\ Goto(c, After(c))
    /\ kobj' = [kobj EXCEPT ![c] = None] /\ kimage' = [kimage EXCEPT ![c] = None]
    /\ uobj' = [uobj EXCEPT ![c] = None] /\ uimage' = [uimage EXCEPT ![c] = None]
    /\ kept' = [kept EXCEPT ![c] = None]
    /\ torn' = torn \cup {c}
    /\ late' = IF uimage[c] = None THEN late ELSE late \cup {who[c]}
    /\ UNCHANGED <<userVars, who, given, astray, krow, kheap, kcache, panel, claimed,
                   trialVars, loginVars, cookie, expired, loaded, planned>>

\* loading() reads a table ...
ReadTable ==
    /\ Fault /\ loaded = None
    /\ loaded' \in {[table |-> "users", rows |-> urow], [table |-> "keys", rows |-> krow]}
    /\ UNCHANGED <<accountVars, loginVars, cookie, expired, planned>>

\* Users whose row is late or not what was read, or whom a call works for.
Unsettled(rows) == late \cup {u \in Users : rows[u] # urow[u]} \cup {who[c] : c \in InFlight}

\* ... and puts what it read into the cache, over what was cached meanwhile.
FillCache ==
    /\ loaded # None /\ loaded' = None
    /\ IF loaded.table = "users"
       THEN /\ Reloaded(loaded.rows)
            /\ astray' = astray \cup Unsettled(loaded.rows)
            /\ UNCHANGED <<kcache, kheap, gift>>
       ELSE ReloadedKeys(loaded.rows) /\ UNCHANGED <<ucache, uheap, astray>>
    /\ torn' = torn \cup {c \in Calls : at[c] # "none"}
    /\ UNCHANGED <<urow, redeemed, at, who, uobj, uimage, kept, given, late, krow, kobj,
                   kimage, panel, claimed, trialKeys, loginVars, cookie, expired, faults,
                   planned>>

\* The process dies and the next one loads the tables.
Restart ==
    LET uo == CHOOSE f \in [Users -> UserObjects] : IsInjective(f)
        ko == CHOOSE f \in [Keys -> KeyObjects] : IsInjective(f)
    IN
    /\ Fault
    /\ loaded' = None
    /\ torn' = torn \cup InFlight
    /\ astray' = astray \cup Unsettled(urow)
    /\ at' = [c \in Calls |-> IF c \in InFlight THEN After(c) ELSE at[c]]
    /\ uobj' = [c \in Calls |-> None] /\ uimage' = [c \in Calls |-> None]
    /\ kobj' = [c \in Calls |-> None] /\ kimage' = [c \in Calls |-> None]
    /\ kept' = [c \in Calls |-> None]
    /\ ucache' = [u \in Users |-> IF urow[u] = None THEN None ELSE uo[u]]
    /\ uheap' = [o \in UserObjects |->
                    IF \E u \in Users : urow[u] # None /\ uo[u] = o
                    THEN urow[CHOOSE u \in Users : uo[u] = o] ELSE Blank]
    /\ kcache' = [k \in Keys |-> IF krow[k] = None THEN None ELSE ko[k]]
    /\ kheap' = [o \in KeyObjects |->
                    IF \E k \in Keys : krow[k] # None /\ ko[k] = o
                    THEN krow[CHOOSE k \in Keys : ko[k] = o] ELSE NewKey]
    /\ gift' = [gift EXCEPT !.obj = gift.row, !.names = {"id"}]
    /\ doubts' = {} /\ polls' = {} /\ answers' = {}
    /\ UNCHANGED <<urow, redeemed, who, given, late, krow, panel, claimed, trialKeys,
                   login, lapsed, poll, session, lost, told, granted, cookie, expired,
                   planned>>

Next ==
    \/ \E c \in QuickCalls \cap planned.calls : AskDayKey(c) \/ QuickStep(c) \/ GiveDayKey(c)
    \/ \E c \in StartCalls \cap planned.calls :
          (\E u \in Users : StartLanding(c, u)) \/ StartStep(c) \/ PanelFails(c)
    \/ \E c \in TrialCalls \cap planned.calls :
          (\E u \in Users : AskForTrial(c, u)) \/ TrialStep(c)
    \/ \E c \in EditCalls \cap planned.calls :
          (\E u \in Users : EditUser(c, u)) \/ EditSaved(c)
    \/ \E c \in planned.calls : SaveStep(c) \/ AttachStep(c) \/ Aborts(c)
    \/ \E b \in Browsers : Login(b) \/ CompleteLogin(b)
    \/ \E t \in Tokens : AnswerLogin(t)
    \/ LoginGoesOn
    \/ \E k \in Keys : DayIsOver(k)
    \/ \E u \in planned.invited : RegisterInvited(u)
    \/ \E u \in Users : ReadUser(u)
    \/ ReadTable \/ FillCache \/ Restart

Spec == Init /\ [][Next]_vars

-----------------------------------------------------------------------------
(* Properties                                                              *)

\* A browser whose key lives is given no second one (docstring of
\* web_anonymous_key).
OneAnonymousKey ==
    \A b \in Browsers :
        Cardinality({k \in Keys \ expired : krow[k] # None /\ krow[k].owner = Pseudo}) <= 1
=============================================================================
