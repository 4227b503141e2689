---------------------------- MODULE VisitorsProofs ----------------------------
(***************************************************************************)
(* Whatever the visitors do, for any number of browsers, tokens, users,    *)
(* keys, requests and lost answers: a login is its owner's and is given    *)
(* once, a landing key is upgraded before it has an owner, it is claimed   *)
(* by one user at most, and the cached user knows of the trial.            *)
(***************************************************************************)
EXTENDS Visitors, FiniteSetTheorems, TLAPS

Row(t) ==
    [status |-> login[t].status, user |-> login[t].user,
     uid |-> login[t].uid, browser |-> login[t].browser]

\* What the row of a token says of its sessions and of who was told.
TokenInv(t) ==
    /\ login[t] = Row(t)
    /\ granted[t] \in {0, 1}
    /\ granted[t] = 1 => login[t].status \in {"used", "deleted"}
    /\ login[t].status = "used" => granted[t] = 1
    /\ login[t].status \in {"confirmed", "used"} => <<t, login[t].user>> \in told
    /\ login[t].status \in {"none", "pending"} => \A u \in Users : <<t, u>> \notin told
    /\ \A u \in Users : <<t, u>> \in told => u = login[t].user

\* The token t, started by browser b, gave a session of the user u.
Delivered(b, t, u) ==
    t \in Tokens /\ login[t].browser = b /\ <<t, u>> \in told /\ granted[t] = 1

TableInv ==
    /\ login = [t \in Tokens |-> login[t]]
    /\ granted = [t \in Tokens |-> granted[t]]
    /\ \A t \in Tokens : TokenInv(t)

AnswersInv == \A m \in answers : m.kind = "confirmed" => Delivered(m.to, m.token, m.user)

SessionsInv ==
    /\ session = [b \in Browsers |-> session[b]]
    /\ \A b \in Browsers : session[b] # None => \E t \in Tokens : Delivered(b, t, session[b])

OwnInv == TableInv /\ AnswersInv /\ SessionsInv

\* A row is the record of its four fields.
LEMMA RowOf ==
    ASSUME TableInv, NEW t \in Tokens
    PROVE  login[t] = [status |-> login[t].status, user |-> login[t].user,
                       uid |-> login[t].uid, browser |-> login[t].browser]
  BY DEF TableInv, TokenInv, Row

LEMMA InitOwn == Init => OwnInv
  BY DEF Init, LoginInit, NoRow, OwnInv, TableInv, AnswersInv, SessionsInv, TokenInv, Row

LEMMA OwnIsEnough == OwnInv => LoginIsOwn
<1> SUFFICES ASSUME OwnInv PROVE LoginIsOwn
  OBVIOUS
<1>1. OneUserPerToken
  BY DEF OwnInv, TableInv, TokenInv, OneUserPerToken
<1>2. ASSUME NEW t \in Tokens PROVE granted[t] <= 1
  <2>1. granted[t] \in {0, 1}
    BY DEF OwnInv, TableInv, TokenInv
  <2> QED
    BY <2>1
<1>3. ASSUME NEW b \in Browsers, session[b] # None
      PROVE  \E t \in Tokens :
                login[t].browser = b /\ <<t, session[b]>> \in told /\ granted[t] > 0
  <2>1. PICK t \in Tokens : Delivered(b, t, session[b])
    BY <1>3 DEF OwnInv, SessionsInv
  <2>2. granted[t] > 0
    BY <2>1 DEF Delivered
  <2> QED
    BY <2>1, <2>2 DEF Delivered
<1> QED
  BY <1>1, <1>2, <1>3 DEF LoginIsOwn, SessionIsOwn

-----------------------------------------------------------------------------
(* A step that leaves the delivered sessions alone keeps what is known of   *)
(* answers and cookies.                                                     *)

DeliveredStays ==
    \A b, t, u : Delivered(b, t, u) => Delivered(b, t, u)'

LEMMA AnswersStay ==
    ASSUME AnswersInv, DeliveredStays, answers' \subseteq answers
    PROVE  AnswersInv'
  BY DEF AnswersInv, DeliveredStays

LEMMA SessionsStay ==
    ASSUME SessionsInv, DeliveredStays, UNCHANGED session
    PROVE  SessionsInv'
  BY DEF SessionsInv, DeliveredStays

LEMMA TableStays ==
    ASSUME TableInv, UNCHANGED <<login, told, granted>>
    PROVE  TableInv' /\ DeliveredStays
  BY DEF TableInv, TokenInv, Row, DeliveredStays, Delivered

-----------------------------------------------------------------------------
(* The table of logins                                                     *)

LEMMA LoginKeeps ==
    ASSUME OwnInv, NEW b \in Browsers, Login(b)
    PROVE  OwnInv'
<1>1. PICK t \in Tokens :
        /\ login[t].status = "none"
        /\ Create(t, b, KeyInCookie(b))
        /\ answers' = answers \cup {Answer(b, "started", t, None)}
        /\ UNCHANGED <<session, told, granted>>
  BY DEF Login, StartLogin
<1>2. PICK gone \in SUBSET (lapsed \ {t}) :
        login' = [s \in Tokens |->
            CASE s = t -> [status |-> "pending", user |-> None,
                           uid |-> KeyInCookie(b), browser |-> b]
              [] s \in gone -> [login[s] EXCEPT !.status = "deleted"]
              [] OTHER -> login[s]]
  BY <1>1 DEF Create
<1>3. TableInv'
  <2>1. login' = [s \in Tokens |-> login'[s]] /\ granted' = [s \in Tokens |-> granted'[s]]
    BY <1>1, <1>2 DEF OwnInv, TableInv
  <2>2. ASSUME NEW s \in Tokens PROVE TokenInv(s)'
    <3>1. CASE s = t
      <4>1. login'[s] = [status |-> "pending", user |-> None,
                         uid |-> KeyInCookie(b), browser |-> b]
        BY <1>2, <3>1
      <4>2. granted[s] = 0 /\ \A u \in Users : <<s, u>> \notin told
        BY <1>1, <3>1 DEF OwnInv, TableInv, TokenInv
      <4> QED
        BY <1>1, <4>1, <4>2 DEF TokenInv, Row
    <3>2. CASE s # t /\ s \in gone
      <4>1. login'[s] = [status |-> "deleted", user |-> login[s].user,
                         uid |-> login[s].uid, browser |-> login[s].browser]
        <5>1. login'[s] = [login[s] EXCEPT !.status = "deleted"]
          BY <1>2, <3>2
        <5> QED
          BY <5>1, RowOf DEF OwnInv
      <4>2. \A u \in Users : <<s, u>> \in told' => u = login'[s].user
        <5>1. login'[s].user = login[s].user
          BY <4>1
        <5>2. \A u \in Users : <<s, u>> \in told => u = login[s].user
          BY DEF OwnInv, TableInv, TokenInv
        <5> QED
          BY <1>1, <5>1, <5>2
      <4>3. granted'[s] \in {0, 1}
        BY <1>1 DEF OwnInv, TableInv, TokenInv
      <4>4. login'[s].status = "deleted"
        BY <4>1
      <4> QED
        BY <4>1, <4>2, <4>3, <4>4 DEF TokenInv, Row
    <3>3. CASE s # t /\ s \notin gone
      <4>1. login'[s] = login[s]
        BY <1>2, <3>3
      <4> QED
        BY <1>1, <4>1 DEF OwnInv, TableInv, TokenInv, Row
    <3> QED
      BY <3>1, <3>2, <3>3
  <2> QED
    BY <2>1, <2>2 DEF TableInv
<1>4. DeliveredStays
  <2> SUFFICES ASSUME NEW a, NEW s \in Tokens, NEW u, Delivered(a, s, u)
               PROVE  Delivered(a, s, u)'
    BY DEF DeliveredStays, Delivered
  <2>1. s # t
    BY <1>1 DEF Delivered, OwnInv, TableInv, TokenInv
  <2>2. login'[s].browser = login[s].browser
    BY <1>2, <2>1 DEF OwnInv, TableInv, TokenInv, Row
  <2> QED
    BY <1>1, <2>2 DEF Delivered
<1>5. AnswersInv'
  BY <1>1, <1>4 DEF OwnInv, AnswersInv, DeliveredStays, Answer
<1> QED
  BY <1>1, <1>3, <1>4, <1>5, SessionsStay DEF OwnInv

LEMMA CompleteKeeps ==
    ASSUME OwnInv, NEW b \in Browsers, CompleteLogin(b)
    PROVE  OwnInv'
<1> DEFINE t == poll[b]
<1>1. /\ login[t].status = "confirmed"
      /\ login' = [login EXCEPT ![t].status = "used"]
      /\ granted' = [granted EXCEPT ![t] = @ + 1]
      /\ UNCHANGED <<answers, session, told>>
  BY DEF CompleteLogin, Consume, Consumable, browserVars
<1>2. TableInv'
  <2>1. login' = [s \in Tokens |-> login'[s]] /\ granted' = [s \in Tokens |-> granted'[s]]
    BY <1>1 DEF OwnInv, TableInv
  <2>2. ASSUME NEW s \in Tokens PROVE TokenInv(s)'
    <3>1. CASE s = t
      <4>1. login'[s] = [status |-> "used", user |-> login[s].user,
                         uid |-> login[s].uid, browser |-> login[s].browser]
        <5>1. login'[s] = [login[s] EXCEPT !.status = "used"]
          BY <1>1, <3>1 DEF OwnInv, TableInv
        <5> QED
          BY <5>1, RowOf DEF OwnInv
      <4>2. granted'[s] = 1
        <5>1. granted[s] = 0
          BY <1>1, <3>1 DEF OwnInv, TableInv, TokenInv
        <5>2. granted'[s] = granted[s] + 1
          BY <1>1, <3>1 DEF OwnInv, TableInv
        <5> QED
          BY <5>1, <5>2
      <4> QED
        BY <1>1, <3>1, <4>1, <4>2 DEF OwnInv, TableInv, TokenInv, Row
    <3>2. CASE s # t
      <4>1. login'[s] = login[s] /\ granted'[s] = granted[s]
        BY <1>1, <3>2 DEF OwnInv, TableInv
      <4> QED
        BY <1>1, <4>1 DEF OwnInv, TableInv, TokenInv, Row
    <3> QED
      BY <3>1, <3>2
  <2> QED
    BY <2>1, <2>2 DEF TableInv
<1>3. DeliveredStays
  <2> SUFFICES ASSUME NEW a, NEW s \in Tokens, NEW u, Delivered(a, s, u)
               PROVE  Delivered(a, s, u)'
    BY DEF DeliveredStays, Delivered
  <2>1. s # t
    BY <1>1 DEF Delivered, OwnInv, TableInv, TokenInv
  <2>2. login'[s] = login[s] /\ granted'[s] = granted[s]
    BY <1>1, <2>1 DEF OwnInv, TableInv
  <2> QED
    BY <1>1, <2>2 DEF Delivered
<1> QED
  BY <1>1, <1>2, <1>3, AnswersStay, SessionsStay DEF OwnInv

LEMMA ConfirmKeeps ==
    ASSUME OwnInv, NEW t \in Tokens, NEW u \in Users, Confirm(t, u)
    PROVE  OwnInv'
<1>1. CASE ~Confirmable(t)
  BY <1>1, TableStays, AnswersStay, SessionsStay DEF Confirm, browserVars, OwnInv
<1>2. CASE Confirmable(t)
  <2>1. /\ login[t].status = "pending"
        /\ login' = [login EXCEPT ![t].status = "confirmed", ![t].user = u]
        /\ told' = told \cup {<<t, u>>}
        /\ UNCHANGED <<answers, session, granted>>
    BY <1>2 DEF Confirm, Confirmable, browserVars
  <2>2. login'[t] = [status |-> "confirmed", user |-> u,
                     uid |-> login[t].uid, browser |-> login[t].browser]
    <3>1. login'[t] = [[login[t] EXCEPT !.status = "confirmed"] EXCEPT !.user = u]
      BY <2>1 DEF OwnInv, TableInv
    <3> QED
      BY <3>1, RowOf DEF OwnInv
  <2>3. \A s \in Tokens \ {t} : login'[s] = login[s]
    BY <2>1 DEF OwnInv, TableInv
  <2>4. \A s, v : s # t => (<<s, v>> \in told' <=> <<s, v>> \in told)
    BY <2>1
  <2>5. TableInv'
    <3>1. login' = [s \in Tokens |-> login'[s]] /\ granted' = [s \in Tokens |-> granted'[s]]
      BY <2>1 DEF OwnInv, TableInv
    <3>2. TokenInv(t)'
      <4>1. granted[t] = 0 /\ \A v \in Users : <<t, v>> \notin told
        BY <2>1 DEF OwnInv, TableInv, TokenInv
      <4>2. \A v \in Users : <<t, v>> \in told' => v = u
        BY <2>1, <4>1
      <4>3. login'[t].status = "confirmed" /\ login'[t].user = u
        BY <2>2
      <4> QED
        <5>1. login'[t] = Row(t)'
          BY <2>2 DEF Row
        <5>2. granted'[t] = 0
          BY <2>1, <4>1
        <5>3. <<t, login'[t].user>> \in told'
          BY <2>1, <4>3
        <5> QED
          BY <4>2, <4>3, <5>1, <5>2, <5>3 DEF TokenInv
    <3>3. ASSUME NEW s \in Tokens \ {t} PROVE TokenInv(s)'
      BY <2>1, <2>3, <2>4 DEF OwnInv, TableInv, TokenInv, Row
    <3> QED
      BY <3>1, <3>2, <3>3 DEF TableInv
  <2>6. DeliveredStays
    <3> SUFFICES ASSUME NEW a, NEW s \in Tokens, NEW v, Delivered(a, s, v)
                 PROVE  Delivered(a, s, v)'
      BY DEF DeliveredStays, Delivered
    <3>1. s # t
      BY <2>1 DEF Delivered, OwnInv, TableInv, TokenInv
    <3> QED
      BY <2>1, <2>3, <3>1 DEF Delivered
  <2> QED
    BY <2>1, <2>5, <2>6, AnswersStay, SessionsStay DEF OwnInv
<1> QED
  BY <1>1, <1>2

LEMMA ExplainKeeps ==
    ASSUME OwnInv, NEW t \in Tokens, NEW u \in Users, ExplainConfirm(t, u)
    PROVE  OwnInv'
<1>1. told' = told
  BY DEF ExplainConfirm, SameUser, OwnInv, TableInv, TokenInv
<1> QED
  BY <1>1, TableStays, AnswersStay, SessionsStay DEF ExplainConfirm, browserVars, OwnInv

-----------------------------------------------------------------------------
(* Answers and cookies                                                     *)

LEMMA AnswerKeeps ==
    ASSUME OwnInv, NEW t \in Tokens, AnswerLogin(t)
    PROVE  OwnInv'
<1> DEFINE m == Answer(login[t].browser, "confirmed", t, login[t].user)
<1>1. /\ login[t].status = "used"
      /\ answers' = answers \cup {m}
      /\ UNCHANGED <<login, told, granted, session>>
  BY DEF AnswerLogin, AnswerConfirmed
<1>2. Delivered(m.to, m.token, m.user)
  BY <1>1 DEF Answer, Delivered, OwnInv, TableInv, TokenInv
<1>3. TableInv' /\ DeliveredStays
  BY <1>1, TableStays DEF OwnInv
<1>4. AnswersInv'
  <2> HIDE DEF m
  <2> QED
    BY <1>1, <1>2, <1>3 DEF OwnInv, AnswersInv, DeliveredStays
<1> QED
  BY <1>1, <1>3, <1>4, SessionsStay DEF OwnInv

LEMMA ExplainPollKeeps ==
    ASSUME OwnInv, NEW t \in Tokens, NEW b \in Browsers, ExplainPoll(b, t)
    PROVE  OwnInv'
<1>1. TableInv' /\ DeliveredStays
  BY TableStays DEF ExplainPoll, OwnInv
<1>2. AnswersInv'
  BY <1>1 DEF ExplainPoll, Answer, OwnInv, AnswersInv, DeliveredStays
<1> QED
  BY <1>1, <1>2, SessionsStay DEF ExplainPoll, OwnInv

LEMMA ReceiveKeeps ==
    ASSUME OwnInv, NEW b \in Browsers, NEW m \in answers, m.to = b, Receive(m)
    PROVE  OwnInv'
<1>1. TableInv' /\ DeliveredStays
  BY TableStays DEF Receive, OwnInv
<1>2. AnswersInv'
  BY <1>1, AnswersStay DEF Receive, OwnInv
<1>3. m.kind = "confirmed" => Delivered(b, m.token, m.user)'
  BY <1>1 DEF OwnInv, AnswersInv, DeliveredStays
<1>4. session' = [session EXCEPT ![b] = IF m.kind = "confirmed" THEN m.user ELSE @]
  BY DEF Receive
<1>5. ASSUME NEW a \in Browsers, session'[a] # None
      PROVE  \E t \in Tokens : Delivered(a, t, session[a])'
  <2>1. CASE a = b /\ m.kind = "confirmed"
    <3>1. session'[a] = m.user
      BY <1>4, <2>1 DEF OwnInv, SessionsInv
    <3>2. m.token \in Tokens
      BY <1>3, <2>1 DEF Delivered
    <3> QED
      BY <1>3, <2>1, <3>1, <3>2 DEF Delivered
  <2>2. CASE ~(a = b /\ m.kind = "confirmed")
    <3>1. session'[a] = session[a]
      BY <1>4, <2>2 DEF OwnInv, SessionsInv
    <3>2. PICK t \in Tokens : Delivered(a, t, session[a])
      BY <1>5, <3>1 DEF OwnInv, SessionsInv
    <3> QED
      BY <1>1, <3>1, <3>2 DEF DeliveredStays, Delivered
  <2> QED
    BY <2>1, <2>2
<1>6. SessionsInv'
  BY <1>4, <1>5 DEF OwnInv, SessionsInv
<1> QED
  BY <1>1, <1>2, <1>6 DEF OwnInv

LEMMA LogoutKeeps ==
    ASSUME OwnInv, NEW b \in Browsers, Logout(b)
    PROVE  OwnInv'
<1>1. TableInv' /\ DeliveredStays
  BY TableStays DEF Logout, OwnInv
<1>2. SessionsInv'
  BY <1>1 DEF Logout, OwnInv, SessionsInv, DeliveredStays, Delivered
<1> QED
  BY <1>1, <1>2, AnswersStay DEF Logout, OwnInv

-----------------------------------------------------------------------------
(* Everything else                                                         *)

\* A step that changes no login and at most drops answers.
Apart == UNCHANGED <<login, told, granted, session, poll>> /\ answers' \subseteq answers

LEMMA ApartKeeps == ASSUME OwnInv, Apart PROVE OwnInv'
  BY TableStays, AnswersStay, SessionsStay DEF OwnInv, Apart

LEMMA GoesOnKeeps == ASSUME OwnInv, LoginGoesOn PROVE OwnInv'
<1>1. ASSUME NEW t \in Tokens, LoginStep(t) PROVE OwnInv'
  <2>1. ASSUME Lapse(t) PROVE Apart
    BY <2>1 DEF Lapse, Apart, browserVars
  <2> QED
    BY <1>1, <2>1, ApartKeeps, ConfirmKeeps, ExplainKeeps, ExplainPollKeeps DEF LoginStep
<1>2. ASSUME NEW b \in Browsers, BrowserStep(b) PROVE OwnInv'
  <2>1. ASSUME PollInVain(b) PROVE Apart
    BY <2>1 DEF PollInVain, Apart, browserVars
  <2>2. ASSUME NEW m \in answers, Lose(m) PROVE Apart
    BY <2>2 DEF Lose, Apart
  <2> QED
    BY <1>2, <2>1, <2>2, ApartKeeps, ReceiveKeeps, LogoutKeeps DEF BrowserStep
<1> QED
  BY <1>1, <1>2 DEF LoginGoesOn

LEMMA OthersApart ==
    ASSUME Next
    PROVE  \/ \E b \in Browsers : Login(b) \/ CompleteLogin(b)
           \/ \E t \in Tokens : AnswerLogin(t)
           \/ LoginGoesOn
           \/ Apart
<1> USE DEF Apart, Same, loginVars, browserVars
<1>1. ASSUME NEW c, AskDayKey(c) \/ QuickStep(c) \/ GiveDayKey(c) PROVE Apart
  BY <1>1 DEF AskDayKey, QuickStep, GiveDayKey
<1>2. ASSUME NEW c, NEW u, StartLanding(c, u) \/ AskForTrial(c, u) \/ EditUser(c, u)
      PROVE  Apart
  BY <1>2 DEF StartLanding, AskForTrial, EditUser
<1>3. ASSUME NEW c, StartStep(c) \/ PanelFails(c) \/ TrialStep(c) \/ EditSaved(c) PROVE Apart
  BY <1>3 DEF StartStep, PanelFails, TrialStep, EditSaved
<1>4. ASSUME NEW c, SaveStep(c) \/ AttachStep(c) \/ Aborts(c) PROVE Apart
  BY <1>4 DEF SaveStep, AttachStep, Aborts
<1>5. ASSUME NEW k, DayIsOver(k) PROVE Apart
  BY <1>5 DEF DayIsOver
<1>6. ASSUME NEW u, RegisterInvited(u) \/ ReadUser(u) PROVE Apart
  BY <1>6 DEF RegisterInvited, ReadUser
<1>7. ASSUME ReadTable \/ FillCache \/ Restart PROVE Apart
  BY <1>7 DEF ReadTable, FillCache, Restart
<1> HIDE DEF Apart
<1> QED
  BY <1>1, <1>2, <1>3, <1>4, <1>5, <1>6, <1>7 DEF Next

LEMMA OwnInvariant == Spec => []OwnInv
<1>1. ASSUME OwnInv, [Next]_vars PROVE OwnInv'
  <2>1. CASE Next
    BY <1>1, <2>1, OthersApart, LoginKeeps, CompleteKeeps, AnswerKeeps, GoesOnKeeps,
       ApartKeeps
  <2>2. CASE UNCHANGED vars
    <3>1. Apart
      BY <2>2 DEF vars, loginVars, browserVars, Apart
    <3> QED
      BY <1>1, <3>1, ApartKeeps
  <2> QED
    BY <1>1, <2>1, <2>2
<1> QED
  BY <1>1, InitOwn, PTL DEF Spec

\* One user at most is told that a login is theirs, and it gives one session,
\* to the browser that started it (WebLoginTokenStore.confirm and consume).
THEOREM LoginOwned == Spec => []LoginIsOwn
  BY OwnInvariant, OwnIsEnough, PTL
-----------------------------------------------------------------------------
(* Objects for the cached keys                                             *)

\* A finite set goes injectively into one that is not smaller.
LEMMA SmallerGoesIn ==
    ASSUME NEW S, NEW T, IsFiniteSet(S), IsFiniteSet(T), Cardinality(S) <= Cardinality(T)
    PROVE  \E f \in [S -> T] : IsInjective(f)
<1> DEFINE n == Cardinality(S)
           m == Cardinality(T)
<1>1. n \in Nat /\ m \in Nat /\ n <= m
  BY FS_CardinalityType
<1>2. PICK g \in [1..n -> S] :
        (\A x \in S : \E i \in 1..n : g[i] = x)
  BY FS_CardinalityType DEF ExistsBijection, Bijection, Injection, Surjection
<1>3. PICK h \in [1..m -> T] : \A i, j \in 1..m : h[i] = h[j] => i = j
  BY FS_CardinalityType DEF ExistsBijection, Bijection, Injection, IsInjective
<1> HIDE DEF n, m
<1> DEFINE pos(x) == CHOOSE i \in 1..n : g[i] = x
           f == [x \in S |-> h[pos(x)]]
<1>4. \A x \in S : pos(x) \in 1..m /\ g[pos(x)] = x
  BY <1>1, <1>2
<1>5. ASSUME NEW x \in S, NEW y \in S, pos(x) = pos(y) PROVE x = y
  BY <1>4, <1>5
<1>6. \A x \in S : f[x] = h[pos(x)] /\ f[x] \in T
  BY <1>3, <1>4
<1>7. f \in [S -> T]
  BY <1>3, <1>4
<1>8. IsInjective(f)
  <2>1. ASSUME NEW x \in S, NEW y \in S, f[x] = f[y] PROVE x = y
    <3>1. h[pos(x)] = h[pos(y)]
      BY <1>6, <2>1
    <3>2. pos(x) = pos(y)
      BY <1>3, <1>4, <3>1
    <3> QED
      BY <1>5, <3>2
  <2> QED
    BY <1>7, <2>1 DEF IsInjective
<1> QED
  BY <1>7, <1>8

\* The values of a function on a finite set are no more than its arguments.
LEMMA FewValues ==
    ASSUME NEW S, IsFiniteSet(S), NEW f, f = [x \in S |-> f[x]]
    PROVE  IsFiniteSet(Range(f)) /\ Cardinality(Range(f)) <= Cardinality(S)
<1>1. DOMAIN f = S
  OBVIOUS
<1>2. f \in [S -> Range(f)] /\ \A t \in Range(f) : \E s \in S : f[s] = t
  BY <1>1 DEF Range
<1>3. f \in Surjection(S, Range(f))
  BY <1>2 DEF Surjection
<1> QED
  BY <1>3, FS_Surjection

\* There is a free object for every key, and so there is one at least.
LEMMA RoomForKeys ==
    ASSUME kcache = [k \in Keys |-> kcache[k]], kobj = [c \in Calls |-> kobj[c]]
    PROVE  IsFiniteSet(FreeKeys) /\ Cardinality(FreeKeys) >= Cardinality(Keys)
<1> DEFINE A == Range(kcache)  B == Range(kobj)  X == A \cup B
<1>1. IsFiniteSet(A) /\ Cardinality(A) <= Cardinality(Keys)
  BY FewValues, VisitorKeys
<1>2. IsFiniteSet(B) /\ Cardinality(B) <= Cardinality(Calls)
  BY FewValues, VisitorKeys
<1> HIDE DEF A, B
<1>3. /\ IsFiniteSet(X)
      /\ Cardinality(X) = Cardinality(A) + Cardinality(B) - Cardinality(A \cap B)
  BY <1>1, <1>2, FS_Union
<1>4. /\ IsFiniteSet(KeyObjects \ X)
      /\ Cardinality(KeyObjects \ X) = Cardinality(KeyObjects) - Cardinality(KeyObjects \cap X)
  BY FS_Difference, VisitorKeys
<1>5. /\ IsFiniteSet(A \cap B) /\ IsFiniteSet(KeyObjects \cap X)
      /\ Cardinality(KeyObjects \cap X) <= Cardinality(X)
  <2>1. A \cap B \in SUBSET A /\ KeyObjects \cap X \in SUBSET X
    OBVIOUS
  <2> HIDE DEF X
  <2> QED
    BY <1>1, <1>3, <2>1, FS_Subset
<1>6. /\ Cardinality(A) \in Nat /\ Cardinality(B) \in Nat /\ Cardinality(X) \in Nat
      /\ Cardinality(A \cap B) \in Nat /\ Cardinality(KeyObjects \cap X) \in Nat
      /\ Cardinality(KeyObjects) \in Nat
      /\ Cardinality(Keys) \in Nat /\ Cardinality(Calls) \in Nat
  BY <1>1, <1>2, <1>3, <1>5, FS_CardinalityType, VisitorKeys
<1>7. FreeKeys = KeyObjects \ X
  BY DEF FreeKeys, A, B
<1>8. Cardinality(KeyObjects \ X) >= Cardinality(Keys)
  <2> HIDE DEF X
  <2> QED
    BY <1>1, <1>2, <1>3, <1>4, <1>5, <1>6, VisitorKeys
<1> QED
  BY <1>4, <1>7, <1>8, Zenon

\* The object taken for a new key is nobody's.
LEMMA FreshKeyIsFree ==
    ASSUME kcache = [k \in Keys |-> kcache[k]], kobj = [c \in Calls |-> kobj[c]], Keys # {}
    PROVE  FreshKey \in FreeKeys
<1>1. FreeKeys # {}
  <2>1. Cardinality(Keys) \in Nat /\ Cardinality(Keys) # 0
    BY FS_CardinalityType, FS_EmptySet, VisitorKeys
  <2>2. IsFiniteSet(FreeKeys) /\ Cardinality(FreeKeys) >= Cardinality(Keys)
    BY RoomForKeys
  <2>3. Cardinality(FreeKeys) \in Nat
    BY <2>2, FS_CardinalityType
  <2>4. Cardinality(FreeKeys) # 0
    BY <2>1, <2>2, <2>3
  <2> QED
    BY <2>4, FS_EmptySet
<1> QED
  BY <1>1 DEF FreshKey
-----------------------------------------------------------------------------
(* What holds of a landing key, its row, its objects and the calls at it    *)

QuickPlaces == {"none", "qadd", "qsave", "qtag", "kwrite", "kwritten", "done"}
SavePlaces == {"uwrite", "uwritten", "swrite", "swritten"}
HandPlaces == {"upgrade", "kwrite", "kwritten"}
StartPlaces == {"none", "register", "registered", "mark", "claim", "attach", "attached",
                "redeem", "done"} \cup HandPlaces \cup SavePlaces
KeyPlaces == {"qadd", "qsave", "qtag"} \cup HandPlaces

KeysLoaded == loaded # None /\ loaded.table = "keys"

\* The shape of the key side.
KeyTypes ==
    /\ krow \in [Keys -> KeyRecords \cup {None}]
    /\ kheap \in [KeyObjects -> KeyRecords]
    /\ kcache \in [Keys -> KeyObjects \cup {None}]
    /\ kobj \in [Calls -> KeyObjects \cup {None}]
    /\ kimage \in [Calls -> KeyRecords \cup {None}]
    /\ panel \in [Keys -> {"none", "day", "trial"}]
    /\ claimed \in [Keys -> SUBSET Users]
    /\ at = [c \in Calls |-> at[c]]
    /\ who = [c \in Calls |-> who[c]]
    /\ kept = [c \in Calls |-> kept[c]]
    /\ loaded # None => loaded.table \in {"users", "keys"}
    /\ KeysLoaded => loaded.rows \in [Keys -> KeyRecords \cup {None}]
    /\ planned.calls \subseteq Calls

\* Where the calls of each kind can be, and when they have a key in hand.
Places ==
    /\ \A c \in QuickCalls : at[c] \in QuickPlaces
    /\ \A c \in StartCalls : at[c] \in StartPlaces /\ (at[c] # "none" => who[c] \in Users)
    /\ \A c \in Calls \ (QuickCalls \cup StartCalls) : at[c] \notin KeyPlaces
    /\ \A c \in Calls : at[c] \in HandPlaces <=> kobj[c] # None
    /\ \A c \in Calls : at[c] = "kwrite" <=> kimage[c] # None
    /\ \A c \in StartCalls : kept[c] # None => at[c] \in HandPlaces \cup SavePlaces

\* The quick-key call that makes k has inserted its row.
Made(k) == \E c \in QuickCalls : KeyOf[c] = k /\ at[c] \notin {"none", "qadd", "qsave"}

\* Nothing of a key is there before its row is.
AfterMade ==
    /\ \A k \in Keys : krow[k] # None \/ kcache[k] # None \/ panel[k] = "trial" => Made(k)
    /\ \A c \in Calls : kobj[c] # None => Made(KeyOf[c])
    /\ KeysLoaded => \A k \in Keys : loaded.rows[k] # None => Made(k)

\* No two keys share an object.
Separate ==
    /\ \A k, l \in Keys : kcache[k] = kcache[l] /\ kcache[k] # None => k = l
    /\ \A c \in Calls, k \in Keys : kobj[c] = kcache[k] /\ kobj[c] # None => KeyOf[c] = k
    /\ \A c, d \in Calls : kobj[c] = kobj[d] /\ kobj[c] # None => KeyOf[c] = KeyOf[d]

\* A record of k that names an owner follows the upgrade on the panel.
Backed(k, key) == key # None /\ key.owner # Pseudo => panel[k] = "trial"

AllBacked ==
    /\ \A k \in Keys : Backed(k, krow[k])
    /\ \A k \in Keys : kcache[k] # None => Backed(k, kheap[kcache[k]])
    /\ \A c \in Calls : kobj[c] # None => Backed(KeyOf[c], kheap[kobj[c]])
    /\ \A c \in Calls : kimage[c] # None => Backed(KeyOf[c], kimage[c])
    /\ KeysLoaded => \A k \in Keys : Backed(k, loaded.rows[k])

\* The link of a key is given away when its quick-key call is over.
Ready(k) == \A c \in QuickCalls : KeyOf[c] = k => at[c] = "done"

LinksReady ==
    /\ cookie = [b \in Browsers |-> cookie[b]]
    /\ \A b \in Browsers : cookie[b] # None => Ready(cookie[b])
    /\ \A t \in Tokens : login[t].uid # None => Ready(login[t].uid)
    /\ \A c \in StartCalls : at[c] # "none" => Ready(KeyOf[c])
    /\ \A k \in Keys : claimed[k] # {} => Ready(k)

AtKey(c, k) == c \in StartCalls /\ KeyOf[c] = k /\ at[c] \in HandPlaces
Saving(c, k) == c \in StartCalls /\ KeyOf[c] = k /\ at[c] \in SavePlaces
Making(c, k) == c \in QuickCalls /\ KeyOf[c] = k /\ at[c] \in {"qtag", "kwrite"}

\* The cached object of k says that the key is converted to, or owned by, u.
Converted(k, u) == kcache[k] # None /\ kheap[kcache[k]].conv = u
Owned(k, u) == Converted(k, u) /\ kheap[kcache[k]].owner = u

\* One request at a time has the key in hand, and that is the cached object.
InOneHand(k) ==
    /\ \A c \in Calls : kobj[c] # None /\ KeyOf[c] = k => kobj[c] = kcache[k]
    /\ \A c, d \in Calls : AtKey(c, k) /\ AtKey(d, k) => c = d
    /\ \A c \in Calls : AtKey(c, k) => Converted(k, who[c])

\* Whoever was answered "claimed", or will be, owns the cached object.
TheirsInCache(k) ==
    /\ \A c \in Calls : AtKey(c, k) /\ at[c] # "upgrade" /\ kept[c] # None => Owned(k, who[c])
    /\ \A c \in Calls : Saving(c, k) => Owned(k, who[c])
    /\ \A u \in claimed[k] : Owned(k, u)

\* The row of a key is its cached object, but for the statement under way.
RowFollows(k) ==
    /\ \A c \in Calls : kimage[c] # None /\ KeyOf[c] = k => kimage[c] = kheap[kcache[k]]
    /\ \/ \E c \in Calls : AtKey(c, k) /\ at[c] # "kwritten"
       \/ \E c \in Calls : Making(c, k)
       \/ krow[k] = None /\ kcache[k] = None
       \/ krow[k] # None /\ kcache[k] # None /\ krow[k] = kheap[kcache[k]]

OneHand(k) == InOneHand(k) /\ TheirsInCache(k) /\ RowFollows(k)

HandsInv == \A k \in Keys : UndisturbedKey(k) => OneHand(k)

KeyInv == KeyTypes /\ Places /\ AfterMade /\ Separate /\ AllBacked /\ LinksReady /\ HandsInv

\* There are no keys at first.
LEMMA InitKeys == Init => KeyInv
<1> SUFFICES ASSUME Init PROVE KeyInv
  OBVIOUS
<1> USE VisitorConstants, VisitorKeys DEF Init, AccountsInit, LandingInit, LoginInit
<1>1. NewKey \in KeyRecords
  BY DEF NewKey, KeyRecords
<1>2. KeyTypes
  BY <1>1 DEF KeyTypes, KeysLoaded
<1>3. Places
  BY DEF Places, QuickPlaces, StartPlaces, KeyPlaces, HandPlaces, SavePlaces
<1>4. AfterMade /\ Separate /\ AllBacked
  BY DEF AfterMade, Separate, AllBacked, Backed, KeysLoaded
<1>5. LinksReady
  BY DEF LinksReady, NoRow
<1>6. HandsInv
  BY DEF HandsInv, OneHand, InOneHand, TheirsInCache, RowFollows, AtKey, Saving,
     HandPlaces, SavePlaces
<1> QED
  BY <1>2, <1>3, <1>4, <1>5, <1>6 DEF KeyInv

\* Facts about calls and their keys that every step uses.
LEMMA KeyCalls ==
    /\ QuickCalls \subseteq Calls /\ StartCalls \subseteq Calls
    /\ \A c \in QuickCalls \cup StartCalls : KeyOf[c] \in Keys /\ KeyOf[c] # None
    /\ \A c \in QuickCalls : c \notin StartCalls
    /\ None \notin Calls
  BY VisitorConstants, VisitorKeys

\* The only quick-key call of a key that has not inserted the row.
LEMMA NotMade ==
    ASSUME NEW c \in QuickCalls, at[c] \in {"none", "qadd", "qsave"}
    PROVE  ~Made(KeyOf[c])
  BY VisitorKeys DEF Made

\* A step of calls that have nothing to do with k.
LEMMA KeyUntouched ==
    ASSUME KeyTypes, Places, NEW k \in Keys, OneHand(k),
           krow'[k] = krow[k], kcache'[k] = kcache[k],
           kcache[k] # None => kheap'[kcache[k]] = kheap[kcache[k]],
           claimed'[k] = claimed[k],
           \A c \in Calls : KeyOf[c] = k =>
               /\ kobj'[c] = kobj[c] /\ kimage'[c] = kimage[c]
               /\ AtKey(c, k) \/ AtKey(c, k)' =>
                     at'[c] = at[c] /\ who'[c] = who[c] /\ kept'[c] = kept[c]
               /\ Saving(c, k)' => Saving(c, k) /\ who'[c] = who[c]
               /\ Making(c, k) => Making(c, k)'
    PROVE  OneHand(k)'
<1>1. ASSUME NEW c \in Calls
      PROVE  /\ AtKey(c, k)' => AtKey(c, k)
             /\ AtKey(c, k) => AtKey(c, k)'
  BY <1>1 DEF AtKey
<1>2. \A u : Converted(k, u)' <=> Converted(k, u)
  BY DEF Converted
<1>3. \A u : Owned(k, u)' <=> Owned(k, u)
  BY <1>2 DEF Owned, Converted
<1>4. InOneHand(k)'
  <2>1. \A c, d \in Calls : AtKey(c, k)' /\ AtKey(d, k)' => c = d
    BY <1>1 DEF OneHand, InOneHand
  <2>2. ASSUME NEW c \in Calls, AtKey(c, k)' PROVE Converted(k, who[c])'
    <3>1. AtKey(c, k) /\ KeyOf[c] = k
      BY <1>1, <2>2 DEF AtKey
    <3>2. who'[c] = who[c] /\ Converted(k, who[c])
      BY <3>1 DEF OneHand, InOneHand
    <3> QED
      BY <3>2 DEF Converted
  <2> QED
    BY <2>1, <2>2 DEF OneHand, InOneHand
<1>5. TheirsInCache(k)'
  <2>1. ASSUME NEW c \in Calls, AtKey(c, k)', at'[c] # "upgrade", kept'[c] # None
        PROVE  Owned(k, who[c])'
    <3>1. AtKey(c, k) /\ KeyOf[c] = k
      BY <1>1, <2>1 DEF AtKey
    <3>2. who'[c] = who[c] /\ Owned(k, who[c])
      BY <2>1, <3>1 DEF OneHand, TheirsInCache
    <3> QED
      BY <3>2 DEF Owned, Converted
  <2>2. ASSUME NEW c \in Calls, Saving(c, k)' PROVE Owned(k, who[c])'
    <3>1. Saving(c, k) /\ who'[c] = who[c]
      BY <2>2 DEF Saving
    <3>2. Owned(k, who[c])
      BY <3>1 DEF OneHand, TheirsInCache
    <3> QED
      BY <3>1, <3>2 DEF Owned, Converted
  <2> QED
    BY <1>3, <2>1, <2>2 DEF OneHand, TheirsInCache
<1>6. RowFollows(k)'
  <2>1. ASSUME NEW c \in Calls, kimage'[c] # None, KeyOf[c] = k
        PROVE  kimage'[c] = kheap'[kcache'[k]]
    <3>1. kimage[c] = kheap[kcache[k]] /\ kobj[c] = kcache[k] /\ kobj[c] # None
      BY <2>1 DEF OneHand, InOneHand, RowFollows, Places, HandPlaces
    <3> QED
      BY <2>1, <3>1
  <2>2. \/ \E c \in Calls : AtKey(c, k)' /\ at'[c] # "kwritten"
        \/ \E c \in Calls : Making(c, k)'
        \/ krow'[k] = None /\ kcache'[k] = None
        \/ krow'[k] # None /\ kcache'[k] # None /\ krow'[k] = kheap'[kcache'[k]]
    <3>1. ASSUME NEW c \in Calls, AtKey(c, k), at[c] # "kwritten"
          PROVE  AtKey(c, k)' /\ at'[c] # "kwritten"
      BY <3>1 DEF AtKey
    <3>2. ASSUME NEW c \in Calls, Making(c, k) PROVE Making(c, k)'
      BY <3>2 DEF Making
    <3> QED
      BY <3>1, <3>2 DEF OneHand, RowFollows
  <2> QED
    BY <2>1, <2>2 DEF RowFollows
<1> QED
  BY <1>4, <1>5, <1>6 DEF OneHand

\* What was disturbed stays so.
LEMMA StillUndisturbed ==
    ASSUME torn \subseteq torn', NEW k, UndisturbedKey(k)'
    PROVE  UndisturbedKey(k)
  BY DEF UndisturbedKey

\* Links stay ready when no quick-key call starts again.
LEMMA LinksFollow ==
    ASSUME LinksReady, cookie' = cookie,
           \A t \in Tokens : login'[t].uid \in {login[t].uid} \cup Range(cookie),
           \A c \in QuickCalls : at[c] = "done" => at'[c] = "done",
           \A c \in StartCalls : at'[c] # "none" => at[c] # "none" \/ Linked(KeyOf[c]),
           \A k \in Keys : claimed'[k] # {} => claimed[k] # {}
    PROVE  LinksReady'
<1>1. \A k : Ready(k) => Ready(k)'
  BY DEF Ready
<1>2. \A k \in Range(cookie) : k # None => Ready(k)
  BY DEF LinksReady, Range
<1>3. ASSUME NEW c \in StartCalls, at'[c] # "none" PROVE Ready(KeyOf[c])'
  <2>1. KeyOf[c] # None
    BY KeyCalls
  <2>2. Ready(KeyOf[c])
    BY <1>2, <1>3, <2>1 DEF LinksReady, Linked
  <2> QED
    BY <1>1, <2>2
<1>4. ASSUME NEW t \in Tokens, login'[t].uid # None PROVE Ready(login[t].uid)'
  BY <1>1, <1>2, <1>4 DEF LinksReady
<1>5. ASSUME NEW b \in Browsers, cookie'[b] # None PROVE Ready(cookie[b])'
  BY <1>1, <1>5 DEF LinksReady
<1>6. ASSUME NEW k \in Keys, claimed'[k] # {} PROVE Ready(k)'
  BY <1>1, <1>6 DEF LinksReady
<1> QED
  BY <1>3, <1>4, <1>5, <1>6 DEF LinksReady
-----------------------------------------------------------------------------
(* Steps that leave the keys alone                                         *)

\* What such a step may do to its own call.
QuickMoves(c) == at'[c] = at[c] \/ (at[c] = "none" /\ at'[c] \in {"qadd", "done"})
StartMoves(c) ==
    /\ at[c] \notin HandPlaces /\ at'[c] \in StartPlaces \ HandPlaces
    /\ at'[c] # "none" => who'[c] \in Users
    /\ at'[c] \in SavePlaces => at[c] \in SavePlaces /\ who'[c] = who[c]
    /\ kept'[c] # None => at'[c] \in SavePlaces
    /\ at'[c] # "none" => at[c] # "none" \/ Linked(KeyOf[c])

CallsOnly(c) ==
    /\ at' = [d \in Calls |-> at'[d]] /\ who' = [d \in Calls |-> who'[d]]
    /\ kept' = [d \in Calls |-> kept'[d]]
    /\ \A d \in Calls \ {c} : at'[d] = at[d] /\ who'[d] = who[d] /\ kept'[d] = kept[d]

LoginsFollow ==
    /\ cookie' = cookie
    /\ \A t \in Tokens : login'[t].uid \in {login[t].uid} \cup Range(cookie)

Aside(c) ==
    /\ UNCHANGED <<krow, kheap, kcache, kobj, kimage, panel, claimed, loaded, planned>>
    /\ torn \subseteq torn'
    /\ CallsOnly(c) /\ LoginsFollow
    /\ c \in QuickCalls => QuickMoves(c)
    /\ c \in StartCalls => StartMoves(c)
    /\ c \in Calls \ (QuickCalls \cup StartCalls) => at'[c] \notin KeyPlaces

\* A step that leaves the keys alone keeps the invariant.
LEMMA AsideKeeps ==
    ASSUME KeyInv, NEW c, Aside(c)
    PROVE  KeyInv'
<1>1. KeyTypes'
  BY DEF KeyInv, KeyTypes, KeysLoaded, Aside, CallsOnly
<1>2. Places'
  <2> USE DEF KeyInv, Places, Aside, CallsOnly, QuickMoves, StartMoves, HandPlaces
  <2>1. \A d \in QuickCalls : at'[d] \in QuickPlaces
    BY KeyCalls DEF QuickPlaces
  <2>2. \A d \in StartCalls : at'[d] \in StartPlaces /\ (at'[d] # "none" => who'[d] \in Users)
    BY KeyCalls
  <2>3. \A d \in Calls \ (QuickCalls \cup StartCalls) : at'[d] \notin KeyPlaces
    OBVIOUS
  <2>4. \A d \in Calls : (at'[d] \in HandPlaces <=> at[d] \in HandPlaces)
                           /\ (at'[d] = "kwrite" <=> at[d] = "kwrite")
    <3>1. ASSUME c \in Calls
          PROVE  at'[c] = at[c] \/ (at'[c] \notin HandPlaces /\ at[c] \notin HandPlaces)
      BY <3>1 DEF KeyPlaces
    <3> QED
      BY <3>1
  <2>5. \A d \in StartCalls : kept'[d] # None => at'[d] \in HandPlaces \cup SavePlaces
    BY KeyCalls
  <2> QED
    BY <2>1, <2>2, <2>3, <2>4, <2>5
<1>3. \A k : Made(k) => Made(k)'
  BY KeyCalls DEF KeyInv, Made, Aside, CallsOnly, QuickMoves
<1>4. AfterMade'
  BY <1>3 DEF KeyInv, AfterMade, KeysLoaded, Aside
<1>5. Separate' /\ AllBacked'
  BY DEF KeyInv, Separate, AllBacked, Backed, KeysLoaded, Aside
<1>6. LinksReady'
  <2>1. \A d \in QuickCalls : at[d] = "done" => at'[d] = "done"
    BY KeyCalls DEF Aside, CallsOnly, QuickMoves
  <2>2. \A d \in StartCalls : at'[d] # "none" => at[d] # "none" \/ Linked(KeyOf[d])
    BY KeyCalls DEF Aside, CallsOnly, StartMoves
  <2> QED
    BY <2>1, <2>2, LinksFollow DEF KeyInv, Aside, LoginsFollow
<1>7. HandsInv'
  <2> SUFFICES ASSUME NEW k \in Keys, UndisturbedKey(k)' PROVE OneHand(k)'
    BY DEF HandsInv
  <2>1. OneHand(k)
    BY StillUndisturbed DEF KeyInv, HandsInv, Aside
  <2>2. ASSUME NEW d \in Calls, KeyOf[d] = k
        PROVE  /\ AtKey(d, k) \/ AtKey(d, k)' =>
                      at'[d] = at[d] /\ who'[d] = who[d] /\ kept'[d] = kept[d]
               /\ Saving(d, k)' => Saving(d, k) /\ who'[d] = who[d]
               /\ Making(d, k) => Making(d, k)'
    BY KeyCalls DEF Aside, CallsOnly, QuickMoves, StartMoves, AtKey, Saving, Making
  <2> QED
    BY <2>1, <2>2, KeyUntouched DEF KeyInv, Aside
<1> QED
  BY <1>1, <1>2, <1>4, <1>5, <1>6, <1>7 DEF KeyInv
-----------------------------------------------------------------------------
(* A quick-key call makes its key                                          *)

\* Without its row a key has no object, no image and no trial.
LEMMA NothingBeforeRow ==
    ASSUME KeyInv, NEW k \in Keys, ~Made(k)
    PROVE  /\ krow[k] = None /\ kcache[k] = None /\ panel[k] # "trial"
           /\ \A d \in Calls : KeyOf[d] = k => kobj[d] = None /\ kimage[d] = None
           /\ KeysLoaded => loaded.rows[k] = None
           /\ claimed[k] = {} \/ ~UndisturbedKey(k)
<1>1. /\ krow[k] = None /\ kcache[k] = None /\ panel[k] # "trial"
      /\ \A d \in Calls : KeyOf[d] = k => kobj[d] = None
      /\ KeysLoaded => loaded.rows[k] = None
  BY DEF KeyInv, AfterMade
<1>2. \A d \in Calls : KeyOf[d] = k => kimage[d] = None
  BY <1>1 DEF KeyInv, Places, HandPlaces
<1>3. ASSUME UndisturbedKey(k), NEW u \in claimed[k] PROVE FALSE
  BY <1>1, <1>3 DEF KeyInv, HandsInv, OneHand, TheirsInCache, Owned, Converted
<1> QED
  BY <1>1, <1>2, <1>3

\* add_client of a quick-key call: the panel has the client, the table no row.
LEMMA DayClientKeeps ==
    ASSUME KeyInv, NEW c \in QuickCalls, AddDayClient(c), Same
    PROVE  KeyInv'
<1> DEFINE k == KeyOf[c]
<1>1. /\ c \in Calls /\ k \in Keys /\ c \notin StartCalls
      /\ at[c] = "qadd" /\ at' = [at EXCEPT ![c] = "qsave"]
      /\ panel' = [panel EXCEPT ![k] = "day"]
      /\ UNCHANGED <<krow, kheap, kcache, kobj, kimage, claimed, who, kept, torn, loaded,
                     planned, cookie, login>>
  BY KeyCalls DEF history, AddDayClient, Goto, Same, outside, loginVars
<1>2. ~Made(k)
  BY <1>1, NotMade
<1> HIDE DEF k
<1>3. KeyTypes'
  BY <1>1 DEF KeyInv, KeyTypes, KeysLoaded
<1>4. \A d \in Calls \ {c} : at'[d] = at[d]
  BY <1>1 DEF KeyInv, KeyTypes
<1>5. at'[c] = "qsave"
  BY <1>1 DEF KeyInv, KeyTypes
<1>6. Places'
  BY <1>1, <1>4, <1>5 DEF KeyInv, Places, QuickPlaces, KeyPlaces, HandPlaces
<1>7. \A l : Made(l) => Made(l)'
  BY <1>1, <1>4, KeyCalls DEF Made
<1>8. AfterMade'
  <2>1. \A l \in Keys : panel'[l] = "trial" => panel[l] = "trial"
    BY <1>1 DEF KeyInv, KeyTypes
  <2> QED
    BY <1>1, <1>7, <2>1 DEF KeyInv, AfterMade, KeysLoaded
<1>9. Separate'
  BY <1>1 DEF KeyInv, Separate
<1>10. AllBacked'
  <2>1. \A l \in Keys : l # k => panel'[l] = panel[l]
    BY <1>1 DEF KeyInv, KeyTypes
  <2>2. \A l \in Keys : \A key : l # k /\ Backed(l, key) => Backed(l, key)'
    BY <2>1 DEF Backed
  <2>3. \A d \in Calls : kobj[d] # None => KeyOf[d] \in Keys /\ KeyOf[d] # k
    BY <1>1, <1>2, NothingBeforeRow, VisitorKeys DEF KeyInv, Places, HandPlaces, KeyPlaces
  <2>4. \A d \in Calls : kimage[d] # None => KeyOf[d] \in Keys /\ KeyOf[d] # k
    BY <2>3 DEF KeyInv, Places, HandPlaces
  <2>5. \A l \in Keys : Backed(l, krow[l])'
    BY <1>1, <1>2, <2>2, NothingBeforeRow DEF KeyInv, AllBacked, Backed
  <2>6. \A l \in Keys : kcache'[l] # None => Backed(l, kheap[kcache[l]])'
    BY <1>1, <1>2, <2>2, NothingBeforeRow DEF KeyInv, AllBacked, Backed
  <2>7. \A d \in Calls : kobj'[d] # None => Backed(KeyOf[d], kheap[kobj[d]])'
    BY <1>1, <2>2, <2>3 DEF KeyInv, AllBacked, Backed
  <2>8. \A d \in Calls : kimage'[d] # None => Backed(KeyOf[d], kimage[d])'
    BY <1>1, <2>2, <2>4 DEF KeyInv, AllBacked, Backed
  <2>9. KeysLoaded' => \A l \in Keys : Backed(l, loaded.rows[l])'
    BY <1>1, <1>2, <2>2, NothingBeforeRow DEF KeyInv, AllBacked, Backed, KeysLoaded
  <2> QED
    BY <2>5, <2>6, <2>7, <2>8, <2>9 DEF AllBacked
<1>11. LinksReady'
  BY <1>1, <1>4, KeyCalls, LinksFollow DEF KeyInv
<1>12. HandsInv'
  <2> SUFFICES ASSUME NEW l \in Keys, UndisturbedKey(l)' PROVE OneHand(l)'
    BY DEF HandsInv
  <2>1. OneHand(l)
    BY <1>1, StillUndisturbed DEF KeyInv, HandsInv
  <2> QED
    BY <1>1, <1>4, <2>1, KeyUntouched, KeyCalls DEF KeyInv, AtKey, Saving, Making
<1> QED
  BY <1>3, <1>6, <1>8, <1>9, <1>10, <1>11, <1>12 DEF KeyInv

\* save_data of a quick-key call: the row is there, without a cached object.
LEMMA DayRowKeeps ==
    ASSUME KeyInv, NEW c \in QuickCalls, InsertDayKey(c), Same
    PROVE  KeyInv'
<1> DEFINE k == KeyOf[c]
<1>1. /\ c \in Calls /\ k \in Keys /\ c \notin StartCalls
      /\ at[c] = "qsave" /\ at' = [at EXCEPT ![c] = "qtag"]
      /\ krow' = [krow EXCEPT ![k] = NewKey]
      /\ UNCHANGED <<panel, kheap, kcache, kobj, kimage, claimed, who, kept, torn, loaded,
                     planned, cookie, login>>
  BY KeyCalls DEF history, InsertDayKey, Goto, Same, outside, loginVars
<1>2. ~Made(k)
  BY <1>1, NotMade
<1>3. NewKey \in KeyRecords /\ NewKey.owner = Pseudo
  BY DEF NewKey, KeyRecords
<1> HIDE DEF k
<1>4. KeyTypes'
  BY <1>1, <1>3 DEF KeyInv, KeyTypes, KeysLoaded
<1>5. \A d \in Calls \ {c} : at'[d] = at[d]
  BY <1>1 DEF KeyInv, KeyTypes
<1>6. at'[c] = "qtag"
  BY <1>1 DEF KeyInv, KeyTypes
<1>7. Places'
  BY <1>1, <1>5, <1>6 DEF KeyInv, Places, QuickPlaces, KeyPlaces, HandPlaces
<1>8. (\A l : Made(l) => Made(l)') /\ Made(k)'
  BY <1>1, <1>5, <1>6, KeyCalls DEF Made, k
<1>9. AfterMade'
  <2>1. \A l \in Keys : krow'[l] # None => krow[l] # None \/ l = k
    BY <1>1 DEF KeyInv, KeyTypes
  <2> QED
    BY <1>1, <1>8, <2>1 DEF KeyInv, AfterMade, KeysLoaded
<1>10. Separate'
  BY <1>1 DEF KeyInv, Separate
<1>11. AllBacked'
  <2>1. \A l \in Keys : Backed(l, krow[l])'
    <3>1. \A l \in Keys : krow'[l] = krow[l] \/ krow'[l] = NewKey
      BY <1>1 DEF KeyInv, KeyTypes
    <3> QED
      BY <1>1, <1>3, <3>1 DEF KeyInv, AllBacked, Backed
  <2> QED
    BY <1>1, <2>1 DEF KeyInv, AllBacked, Backed, KeysLoaded
<1>12. LinksReady'
  BY <1>1, <1>5, KeyCalls, LinksFollow DEF KeyInv
<1>13. HandsInv'
  <2> SUFFICES ASSUME NEW l \in Keys, UndisturbedKey(l)' PROVE OneHand(l)'
    BY DEF HandsInv
  <2>1. OneHand(l)
    BY <1>1, StillUndisturbed DEF KeyInv, HandsInv
  <2>2. CASE l # k
    <3>1. krow'[l] = krow[l]
      BY <1>1, <2>2 DEF KeyInv, KeyTypes
    <3> QED
      BY <1>1, <1>5, <2>1, <2>2, <3>1, KeyUntouched, KeyCalls DEF KeyInv, AtKey, Saving, Making, k
  <2>3. CASE l = k
    <3>1. Making(c, l)'
      BY <1>1, <1>6, <2>3 DEF Making, k
    <3>2. RowFollows(l)'
      <4>1. \A d \in Calls : KeyOf[d] = k => kimage[d] = None
        BY <1>1, <1>2, NothingBeforeRow
      <4> QED
        BY <1>1, <2>3, <3>1, <4>1 DEF RowFollows
    <3>3. InOneHand(l)' /\ TheirsInCache(l)'
      BY <1>1, <1>5, <2>1, KeyCalls
         DEF OneHand, InOneHand, TheirsInCache, Owned, Converted, AtKey, Saving
    <3> QED
      BY <3>2, <3>3 DEF OneHand
  <2> QED
    BY <2>2, <2>3
<1> QED
  BY <1>4, <1>7, <1>9, <1>10, <1>11, <1>12, <1>13 DEF KeyInv

\* No call of k but the one that makes it has begun.
LEMMA NoneBeforeReady ==
    ASSUME KeyInv, NEW c \in QuickCalls, at[c] # "done"
    PROVE  /\ claimed[KeyOf[c]] = {}
           /\ \A d \in StartCalls : KeyOf[d] = KeyOf[c] => at[d] = "none"
  BY KeyCalls DEF KeyInv, LinksReady, Ready

\* The key is cached and tagged before anyone knows its link.
LEMMA DayTagKeeps ==
    ASSUME KeyInv, NEW c \in QuickCalls, TagDayKey(c), Same
    PROVE  KeyInv'
<1> DEFINE k == KeyOf[c]
           o == FreshKey
           tagged == [NewKey EXCEPT !.tagged = TRUE]
<1>1. /\ c \in Calls /\ k \in Keys /\ c \notin StartCalls
      /\ at[c] = "qtag" /\ at' = [at EXCEPT ![c] = "kwrite"]
      /\ kcache' = [kcache EXCEPT ![k] = o]
      /\ kobj' = [kobj EXCEPT ![c] = o]
      /\ kheap' = [kheap EXCEPT ![o] = tagged]
      /\ kimage' = [kimage EXCEPT ![c] = tagged]
      /\ UNCHANGED <<krow, panel, claimed, who, kept, torn, loaded, planned, cookie, login>>
  BY KeyCalls DEF history, TagDayKey, HoldKey, Goto, Same, outside, loginVars
<1>2. o \in KeyObjects /\ (\A l \in Keys : kcache[l] # o) /\ (\A d \in Calls : kobj[d] # o)
  <2>1. o \in FreeKeys
    <3>1. kcache = [l \in Keys |-> kcache[l]] /\ kobj = [d \in Calls |-> kobj[d]]
      BY DEF KeyInv, KeyTypes
    <3> QED
      BY <1>1, <3>1, FreshKeyIsFree
  <2> QED
    BY <2>1 DEF FreeKeys, Range, KeyInv, KeyTypes
<1>3. tagged \in KeyRecords /\ tagged.owner = Pseudo
  BY DEF NewKey, KeyRecords
<1>4. o # None /\ tagged # None
  BY <1>2, <1>3, VisitorKeys
<1>5. Made(k)
  BY <1>1 DEF Made
<1>6. claimed[k] = {} /\ \A d \in StartCalls : KeyOf[d] = k => at[d] = "none"
  BY <1>1, NoneBeforeReady
<1> HIDE DEF k, o, tagged
<1>7. KeyTypes'
  BY <1>1, <1>2, <1>3 DEF KeyInv, KeyTypes, KeysLoaded
<1>8. /\ \A d \in Calls \ {c} : at'[d] = at[d] /\ kobj'[d] = kobj[d] /\ kimage'[d] = kimage[d]
      /\ at'[c] = "kwrite" /\ kobj'[c] = o /\ kimage'[c] = tagged
  BY <1>1 DEF KeyInv, KeyTypes
<1>9. /\ \A l \in Keys \ {k} : kcache'[l] = kcache[l]
      /\ kcache'[k] = o /\ kheap'[o] = tagged
      /\ \A p \in KeyObjects \ {o} : kheap'[p] = kheap[p]
  BY <1>1, <1>2 DEF KeyInv, KeyTypes
<1>10. Places'
  BY <1>1, <1>4, <1>8 DEF KeyInv, Places, QuickPlaces, KeyPlaces, HandPlaces
<1>11. \A l : Made(l) => Made(l)'
  BY <1>1, <1>8, KeyCalls DEF Made
<1>12. AfterMade'
  <2>1. \A d \in Calls : kobj'[d] # None => Made(KeyOf[d])
    BY <1>5, <1>8 DEF KeyInv, AfterMade, k
  <2>2. \A l \in Keys : kcache'[l] # None => Made(l)
    BY <1>5, <1>9 DEF KeyInv, AfterMade
  <2> QED
    BY <1>1, <1>11, <2>1, <2>2 DEF KeyInv, AfterMade, KeysLoaded
<1>13. Separate'
  <2>1. \A l, m \in Keys : kcache'[l] = kcache'[m] /\ kcache'[l] # None => l = m
    BY <1>2, <1>9 DEF KeyInv, Separate
  <2>2. \A d \in Calls, l \in Keys : kobj'[d] = kcache'[l] /\ kobj'[d] # None => KeyOf[d] = l
    BY <1>2, <1>8, <1>9 DEF KeyInv, Separate, k
  <2>3. \A d, e \in Calls : kobj'[d] = kobj'[e] /\ kobj'[d] # None => KeyOf[d] = KeyOf[e]
    BY <1>2, <1>8 DEF KeyInv, Separate
  <2> QED
    BY <2>1, <2>2, <2>3 DEF Separate
<1>14. AllBacked'
  <2>0. \A l, key : Backed(l, key)' <=> Backed(l, key)
    BY <1>1 DEF Backed
  <2>1. \A l : Backed(l, tagged)
    BY <1>3 DEF Backed
  <2>2. \A l \in Keys : kcache'[l] # None => Backed(l, kheap'[kcache'[l]])
    BY <1>2, <1>9, <2>1 DEF KeyInv, AllBacked, KeyTypes
  <2>3. \A d \in Calls : kobj'[d] # None => Backed(KeyOf[d], kheap'[kobj'[d]])
    BY <1>2, <1>8, <1>9, <2>1 DEF KeyInv, AllBacked, KeyTypes
  <2>4. \A d \in Calls : kimage'[d] # None => Backed(KeyOf[d], kimage'[d])
    BY <1>8, <2>1 DEF KeyInv, AllBacked
  <2>5. (\A l \in Keys : Backed(l, krow'[l])) /\ (KeysLoaded' => \A l \in Keys : Backed(l, loaded'.rows[l]))
    BY <1>1 DEF KeyInv, AllBacked, KeysLoaded
  <2> QED
    BY <1>1, <2>2, <2>3, <2>4, <2>5 DEF AllBacked, Backed
<1>15. LinksReady'
  BY <1>1, <1>8, KeyCalls, LinksFollow DEF KeyInv
<1>16. HandsInv'
  <2> SUFFICES ASSUME NEW l \in Keys, UndisturbedKey(l)' PROVE OneHand(l)'
    BY DEF HandsInv
  <2>1. OneHand(l)
    BY <1>1, StillUndisturbed DEF KeyInv, HandsInv
  <2>2. CASE l # k
    <3>1. kcache[l] # None => kheap'[kcache[l]] = kheap[kcache[l]]
      BY <1>2, <1>9 DEF KeyInv, KeyTypes
    <3>2. \A d \in Calls : KeyOf[d] = l => d # c
      BY <2>2 DEF k
    <3> QED
      BY <1>1, <1>8, <1>9, <2>1, <2>2, <3>1, <3>2, KeyUntouched DEF KeyInv, AtKey, Saving, Making
  <2>3. CASE l = k
    <3>1. \A d \in Calls : ~AtKey(d, l)' /\ ~Saving(d, l)'
      BY <1>1, <1>6, <1>8, <2>3 DEF AtKey, Saving, HandPlaces, SavePlaces, k
    <3>2. \A d \in Calls \ {c} : KeyOf[d] = k => kobj[d] = None /\ kimage[d] = None
      <4>1. ASSUME NEW d \in Calls \ {c}, KeyOf[d] = k PROVE at[d] \notin HandPlaces
        BY <1>6, <4>1, VisitorKeys DEF KeyInv, Places, KeyPlaces, HandPlaces, k
      <4> QED
        BY <4>1 DEF KeyInv, Places, HandPlaces
    <3>3. InOneHand(l)'
      BY <1>8, <1>9, <2>3, <3>1, <3>2 DEF InOneHand
    <3>4. TheirsInCache(l)'
      BY <1>1, <1>6, <2>3, <3>1 DEF TheirsInCache
    <3>5. RowFollows(l)'
      <4>1. Making(c, l)'
        BY <1>1, <1>8, <2>3 DEF Making, k
      <4> QED
        BY <1>1, <1>8, <1>9, <2>3, <3>2, <4>1 DEF RowFollows
    <3> QED
      BY <3>3, <3>4, <3>5 DEF OneHand
  <2> QED
    BY <2>2, <2>3
<1> QED
  BY <1>7, <1>10, <1>12, <1>13, <1>14, <1>15, <1>16 DEF KeyInv
-----------------------------------------------------------------------------
(* The row of a key is written, and its object cached once more            *)

\* While a statement of k is under way, the cached object is the one it saves.
LEMMA HandIsCached ==
    ASSUME KeyInv, NEW c \in Calls, KeyOf[c] \in Keys, kobj[c] # None, UndisturbedKey(KeyOf[c])
    PROVE  /\ kobj[c] = kcache[KeyOf[c]] /\ kcache[KeyOf[c]] # None
           /\ kimage[c] # None => kimage[c] = kheap[kcache[KeyOf[c]]]
  BY DEF KeyInv, HandsInv, OneHand, InOneHand, RowFollows

\* keys.update writes the row of a key as its object says.
LEMMA WriteKeyKeeps ==
    ASSUME KeyInv, NEW c \in QuickCalls \cup StartCalls, WriteKey(c), Same
    PROVE  KeyInv'
<1> DEFINE k == KeyOf[c]
<1>1. /\ c \in Calls /\ k \in Keys
      /\ at[c] = "kwrite" /\ at' = [at EXCEPT ![c] = "kwritten"]
      /\ krow' = [krow EXCEPT ![k] = kimage[c]]
      /\ kimage' = [kimage EXCEPT ![c] = None]
      /\ UNCHANGED <<panel, kheap, kcache, kobj, claimed, who, kept, torn, loaded,
                     planned, cookie, login>>
  BY KeyCalls DEF history, WriteKey, Goto, Same, outside, loginVars
<1>2. kobj[c] # None /\ kimage[c] # None /\ kimage[c] \in KeyRecords
  BY <1>1 DEF KeyInv, KeyTypes, Places, HandPlaces
<1>3. UndisturbedKey(k) => /\ kobj[c] = kcache[k] /\ kcache[k] # None
                           /\ kimage[c] = kheap[kcache[k]]
  BY <1>1, <1>2, HandIsCached
<1> HIDE DEF k
<1>4. KeyTypes'
  BY <1>1, <1>2 DEF KeyInv, KeyTypes, KeysLoaded
<1>5. /\ \A d \in Calls \ {c} : at'[d] = at[d] /\ kimage'[d] = kimage[d]
      /\ at'[c] = "kwritten" /\ kimage'[c] = None
  BY <1>1 DEF KeyInv, KeyTypes
<1>6. (\A l \in Keys \ {k} : krow'[l] = krow[l]) /\ krow'[k] = kimage[c]
  BY <1>1 DEF KeyInv, KeyTypes
<1>7. Places'
  <2>1. \A d \in Calls : /\ at'[d] \in HandPlaces <=> kobj'[d] # None
                         /\ at'[d] = "kwrite" <=> kimage'[d] # None
    BY <1>1, <1>2, <1>5 DEF KeyInv, Places, HandPlaces
  <2>2. \A d \in QuickCalls : at'[d] \in QuickPlaces
    BY <1>5, KeyCalls DEF KeyInv, Places, QuickPlaces
  <2>3. \A d \in StartCalls : /\ at'[d] \in StartPlaces
                              /\ at'[d] # "none" => who'[d] \in Users
                              /\ kept'[d] # None => at'[d] \in HandPlaces \cup SavePlaces
    BY <1>1, <1>5, KeyCalls DEF KeyInv, Places, StartPlaces, HandPlaces
  <2>4. \A d \in Calls \ (QuickCalls \cup StartCalls) : at'[d] \notin KeyPlaces
    BY <1>5 DEF KeyInv, Places
  <2> QED
    BY <2>1, <2>2, <2>3, <2>4 DEF Places
<1>8. \A l : Made(l) => Made(l)'
  BY <1>1, <1>5, KeyCalls DEF Made
<1>9. Made(k)
  BY <1>1, <1>2 DEF KeyInv, AfterMade, k
<1>10. AfterMade'
  <2>1. \A l \in Keys : krow'[l] # None => Made(l)
    BY <1>6, <1>9 DEF KeyInv, AfterMade
  <2> QED
    BY <1>1, <1>8, <2>1 DEF KeyInv, AfterMade, KeysLoaded
<1>11. Separate'
  BY <1>1 DEF KeyInv, Separate
<1>12. AllBacked'
  <2>1. \A l, key : Backed(l, key)' <=> Backed(l, key)
    BY <1>1 DEF Backed
  <2>2. \A l \in Keys : Backed(l, krow'[l])
    BY <1>1, <1>2, <1>6 DEF KeyInv, AllBacked, k
  <2>3. \A d \in Calls : kimage'[d] # None => Backed(KeyOf[d], kimage'[d])
    BY <1>5 DEF KeyInv, AllBacked
  <2> QED
    BY <1>1, <2>1, <2>2, <2>3 DEF KeyInv, AllBacked, Backed, KeysLoaded
<1>13. LinksReady'
  <2>1. \A d \in QuickCalls : at[d] = "done" => at'[d] = "done"
    BY <1>1, <1>5, KeyCalls
  <2>2. \A d \in StartCalls : at'[d] # "none" => at[d] # "none"
    BY <1>1, <1>5, KeyCalls
  <2> QED
    BY <1>1, <2>1, <2>2, LinksFollow DEF KeyInv
<1>14. HandsInv'
  <2> SUFFICES ASSUME NEW l \in Keys, UndisturbedKey(l)' PROVE OneHand(l)'
    BY DEF HandsInv
  <2>1. OneHand(l) /\ UndisturbedKey(l)
    BY <1>1, StillUndisturbed DEF KeyInv, HandsInv
  <2>2. CASE l # k
    <3>1. \A d \in Calls : KeyOf[d] = l => d # c
      BY <2>2 DEF k
    <3> QED
      BY <1>1, <1>5, <1>6, <2>1, <2>2, <3>1, KeyUntouched DEF KeyInv, AtKey, Saving, Making
  <2>3. CASE l = k
    <3>1. \A d \in Calls : AtKey(d, l)' <=> AtKey(d, l)
      BY <1>1, <1>5 DEF AtKey, HandPlaces
    <3>2. \A d \in Calls : Saving(d, l)' => Saving(d, l)
      BY <1>1, <1>5 DEF Saving, SavePlaces
    <3>3. InOneHand(l)'
      BY <1>1, <2>1, <3>1 DEF OneHand, InOneHand, Converted
    <3>4. TheirsInCache(l)'
      <4>1. \A d \in Calls : at'[d] # "upgrade" => at[d] # "upgrade"
        BY <1>1, <1>5
      <4> QED
        BY <1>1, <2>1, <3>1, <3>2, <4>1 DEF OneHand, TheirsInCache, Owned, Converted
    <3>5. RowFollows(l)'
      <4>1. \A d \in Calls : kimage'[d] # None /\ KeyOf[d] = l => kimage'[d] = kheap'[kcache'[l]]
        BY <1>1, <1>5, <2>1 DEF OneHand, RowFollows
      <4>2. krow'[l] # None /\ kcache'[l] # None /\ krow'[l] = kheap'[kcache'[l]]
        BY <1>1, <1>2, <1>3, <1>6, <2>1, <2>3
      <4> QED
        BY <4>1, <4>2 DEF RowFollows
    <3> QED
      BY <3>3, <3>4, <3>5 DEF OneHand
  <2> QED
    BY <2>2, <2>3
<1> QED
  BY <1>4, <1>7, <1>10, <1>11, <1>12, <1>13, <1>14 DEF KeyInv
\* The quick-key call is over: from now on its link may be given away.
LEMMA DayKeyKeeps ==
    ASSUME KeyInv, NEW c \in QuickCalls, GiveDayKey(c)
    PROVE  KeyInv'
<1> DEFINE k == KeyOf[c]
<1>1. /\ c \in Calls /\ k \in Keys /\ c \notin StartCalls
      /\ at[c] = "kwritten" /\ at' = [at EXCEPT ![c] = "done"]
      /\ kcache' = [kcache EXCEPT ![k] = kobj[c]]
      /\ kobj' = [kobj EXCEPT ![c] = None]
      /\ UNCHANGED <<krow, panel, kheap, kimage, claimed, who, kept, torn, loaded,
                     planned, login>>
  BY KeyCalls DEF history, GiveDayKey, DayKeyReady, HoldKey, Goto, loginVars
<1>2. cookie' = [cookie EXCEPT ![BrowserOf[c]] = k] \/ cookie' = cookie
  BY DEF GiveDayKey
<1>3. kobj[c] # None /\ kobj[c] \in KeyObjects
  BY <1>1 DEF KeyInv, KeyTypes, Places, HandPlaces
<1>4. UndisturbedKey(k) => kobj[c] = kcache[k]
  BY <1>1, <1>3, HandIsCached
<1>5. \A d \in QuickCalls : KeyOf[d] = k => d = c
  BY VisitorKeys
<1>6. k # None
  BY <1>1, VisitorKeys
<1> HIDE DEF k
<1>7. KeyTypes'
  BY <1>1, <1>3 DEF KeyInv, KeyTypes, KeysLoaded
<1>8. /\ \A d \in Calls \ {c} : at'[d] = at[d] /\ kobj'[d] = kobj[d]
      /\ at'[c] = "done" /\ kobj'[c] = None
  BY <1>1 DEF KeyInv, KeyTypes
<1>9. (\A l \in Keys \ {k} : kcache'[l] = kcache[l]) /\ kcache'[k] = kobj[c]
  BY <1>1 DEF KeyInv, KeyTypes
<1>10. Places'
  <2>1. \A d \in Calls : /\ at'[d] \in HandPlaces <=> kobj'[d] # None
                         /\ at'[d] = "kwrite" <=> kimage'[d] # None
    BY <1>1, <1>8 DEF KeyInv, Places, HandPlaces
  <2>2. \A d \in QuickCalls : at'[d] \in QuickPlaces
    BY <1>8, KeyCalls DEF KeyInv, Places, QuickPlaces
  <2>3. \A d \in Calls \ QuickCalls : at'[d] = at[d]
    BY <1>8
  <2> QED
    BY <1>1, <2>1, <2>2, <2>3, KeyCalls DEF KeyInv, Places
<1>11. \A l : Made(l) => Made(l)'
  BY <1>1, <1>8, KeyCalls DEF Made
<1>12. AfterMade'
  <2>0. Made(k)
    BY <1>1, <1>3 DEF KeyInv, AfterMade, k
  <2>1. \A l \in Keys : kcache'[l] # None => Made(l)
    BY <1>9, <2>0 DEF KeyInv, AfterMade
  <2>2. \A d \in Calls : kobj'[d] # None => Made(KeyOf[d])
    BY <1>8 DEF KeyInv, AfterMade
  <2> QED
    BY <1>1, <1>11, <2>1, <2>2 DEF KeyInv, AfterMade, KeysLoaded
<1>13. Separate'
  <2>0. /\ \A l \in Keys : kobj[c] = kcache[l] => l = k
        /\ \A d \in Calls : kobj[d] = kobj[c] => KeyOf[d] = k
    BY <1>1, <1>3 DEF KeyInv, Separate, k
  <2>1. \A l, m \in Keys : kcache'[l] = kcache'[m] /\ kcache'[l] # None => l = m
    BY <1>9, <2>0 DEF KeyInv, Separate
  <2>2. \A d \in Calls, l \in Keys : kobj'[d] = kcache'[l] /\ kobj'[d] # None => KeyOf[d] = l
    BY <1>8, <1>9, <2>0 DEF KeyInv, Separate
  <2>3. \A d, e \in Calls : kobj'[d] = kobj'[e] /\ kobj'[d] # None => KeyOf[d] = KeyOf[e]
    BY <1>8 DEF KeyInv, Separate
  <2> QED
    BY <2>1, <2>2, <2>3 DEF Separate
<1>14. AllBacked'
  <2>1. \A l, key : Backed(l, key)' <=> Backed(l, key)
    BY <1>1 DEF Backed
  <2>2. \A l \in Keys : kcache'[l] # None => Backed(l, kheap'[kcache'[l]])
    BY <1>1, <1>3, <1>9 DEF KeyInv, AllBacked, k
  <2>3. \A d \in Calls : kobj'[d] # None => Backed(KeyOf[d], kheap'[kobj'[d]])
    BY <1>1, <1>8 DEF KeyInv, AllBacked
  <2> QED
    BY <1>1, <2>1, <2>2, <2>3 DEF KeyInv, AllBacked, Backed, KeysLoaded
<1>15. LinksReady'
  <2>1. \A l : Ready(l) => Ready(l)'
    BY <1>8, KeyCalls DEF Ready
  <2>2. Ready(k)'
    BY <1>5, <1>8 DEF Ready
  <2>3. cookie' = [b \in Browsers |-> cookie'[b]]
    BY <1>2 DEF KeyInv, LinksReady
  <2>4. ASSUME NEW b \in Browsers, cookie'[b] # None PROVE Ready(cookie[b])'
    <3>1. cookie'[b] = cookie[b] \/ cookie'[b] = k
      BY <1>2 DEF KeyInv, LinksReady
    <3>2. CASE cookie'[b] = k
      BY <2>2, <3>2 DEF Ready
    <3>3. CASE cookie'[b] = cookie[b]
      <4>1. Ready(cookie[b])
        BY <2>4, <3>3 DEF KeyInv, LinksReady
      <4> QED
        BY <2>1, <3>3, <4>1 DEF Ready
    <3> QED
      BY <3>1, <3>2, <3>3
  <2>5. \A d \in StartCalls : at'[d] # "none" => Ready(KeyOf[d])'
    BY <1>1, <1>8, <2>1, KeyCalls DEF KeyInv, LinksReady
  <2>6. /\ \A t \in Tokens : login'[t].uid # None => Ready(login[t].uid)'
        /\ \A l \in Keys : claimed'[l] # {} => Ready(l)'
    BY <1>1, <2>1 DEF KeyInv, LinksReady
  <2> QED
    BY <2>3, <2>4, <2>5, <2>6 DEF LinksReady
<1>16. HandsInv'
  <2> SUFFICES ASSUME NEW l \in Keys, UndisturbedKey(l)' PROVE OneHand(l)'
    BY DEF HandsInv
  <2>1. OneHand(l) /\ UndisturbedKey(l)
    BY <1>1, StillUndisturbed DEF KeyInv, HandsInv
  <2>2. kcache'[l] = kcache[l]
    BY <1>4, <1>9, <2>1
  <2>3. \A d \in Calls : /\ AtKey(d, l)' <=> AtKey(d, l)
                         /\ Saving(d, l)' <=> Saving(d, l)
                         /\ Making(d, l)' <=> Making(d, l)
    BY <1>1, <1>8 DEF AtKey, Saving, Making
  <2>4. \A d \in StartCalls : at'[d] = at[d]
    BY <1>1, <1>8, KeyCalls
  <2>5. InOneHand(l)'
    BY <1>1, <1>8, <2>1, <2>2, <2>3 DEF OneHand, InOneHand, Converted
  <2>6. TheirsInCache(l)'
    BY <1>1, <2>1, <2>2, <2>3, <2>4 DEF OneHand, TheirsInCache, Owned, Converted, AtKey
  <2>7. RowFollows(l)'
    BY <1>1, <2>1, <2>2, <2>3, <2>4 DEF OneHand, RowFollows, AtKey
  <2> QED
    BY <2>5, <2>6, <2>7 DEF OneHand
<1> QED
  BY <1>7, <1>10, <1>12, <1>13, <1>14, <1>15, <1>16 DEF KeyInv
-----------------------------------------------------------------------------
(* A key is marked or claimed                                              *)

\* The call c takes the cached object of its key, which nobody has converted,
\* in hand and notes its user in it.
Takes(c, new) ==
    LET o == kcache[KeyOf[c]] IN
    /\ at[c] \in {"mark", "claim"} /\ o # None /\ kheap[o].conv = None
    /\ new \in KeyRecords /\ new.owner = kheap[o].owner /\ new.conv = who[c]
    /\ kobj' = [kobj EXCEPT ![c] = o]
    /\ kheap' = [kheap EXCEPT ![o] = new]
    /\ kept' = [d \in Calls |-> kept'[d]] /\ \A d \in Calls \ {c} : kept'[d] = kept[d]
    /\ \/ /\ at' = [at EXCEPT ![c] = "kwrite"] /\ kimage' = [kimage EXCEPT ![c] = new]
          /\ kept' = kept
       \/ at' = [at EXCEPT ![c] = "upgrade"] /\ kimage' = kimage
    /\ UNCHANGED <<krow, kcache, panel, claimed, who, torn, loaded, planned, cookie, login>>

\* A key nobody has converted is in nobody's hand, and its row is up to date.
LEMMA NobodyHolds ==
    ASSUME KeyInv, NEW k \in Keys, UndisturbedKey(k), Ready(k), kcache[k] # None,
           kheap[kcache[k]].conv = None
    PROVE  /\ claimed[k] = {}
           /\ \A d \in Calls : ~AtKey(d, k) /\ ~Saving(d, k) /\ ~Making(d, k)
           /\ \A d \in Calls : KeyOf[d] = k => kobj[d] = None /\ kimage[d] = None
           /\ krow[k] = kheap[kcache[k]]
<1>1. OneHand(k) /\ \A u \in Users : ~Converted(k, u)
  BY VisitorKeys DEF KeyInv, HandsInv, Converted
<1>2. claimed[k] = {}
  BY <1>1 DEF KeyInv, KeyTypes, OneHand, TheirsInCache, Owned
<1>3. ASSUME NEW d \in Calls PROVE ~AtKey(d, k)
  BY <1>1, <1>3 DEF KeyInv, Places, OneHand, InOneHand, AtKey, HandPlaces
<1>4. ASSUME NEW d \in Calls PROVE ~Saving(d, k)
  BY <1>1, <1>4 DEF KeyInv, Places, OneHand, TheirsInCache, Owned, Saving, SavePlaces
<1>5. ASSUME NEW d \in Calls PROVE ~Making(d, k)
  BY DEF Ready, Making
<1>6. ASSUME NEW d \in Calls, KeyOf[d] = k PROVE kobj[d] = None /\ kimage[d] = None
  <2>1. at[d] \notin HandPlaces
    <3>1. CASE d \in QuickCalls
      BY <1>6, <3>1 DEF Ready, HandPlaces
    <3>2. CASE d \in StartCalls
      BY <1>3, <1>6, <3>2 DEF AtKey
    <3>3. CASE d \notin QuickCalls \cup StartCalls
      BY <3>3 DEF KeyInv, Places, KeyPlaces
    <3> QED
      BY <3>1, <3>2, <3>3
  <2> QED
    BY <2>1 DEF KeyInv, Places, HandPlaces
<1>7. krow[k] = kheap[kcache[k]]
  BY <1>1, <1>3, <1>5 DEF OneHand, RowFollows
<1> QED
  BY <1>2, <1>3, <1>4, <1>5, <1>6, <1>7

\* Marking and claiming keep the invariant.
LEMMA TakingKeeps ==
    ASSUME KeyInv, NEW c \in StartCalls, NEW new, Takes(c, new)
    PROVE  KeyInv'
<1> DEFINE k == KeyOf[c]
           o == kcache[k]
<1>1. /\ c \in Calls /\ k \in Keys /\ c \notin QuickCalls
      /\ at[c] \in {"mark", "claim"}
      /\ new \in KeyRecords /\ new.owner = kheap[o].owner /\ new.conv = who[c]
      /\ kobj' = [kobj EXCEPT ![c] = o]
      /\ kheap' = [kheap EXCEPT ![o] = new]
      /\ kept' = [d \in Calls |-> kept'[d]] /\ \A d \in Calls \ {c} : kept'[d] = kept[d]
      /\ UNCHANGED <<krow, kcache, panel, claimed, who, torn, loaded, planned, cookie, login>>
  BY KeyCalls DEF Takes
<1>2. \/ /\ at' = [at EXCEPT ![c] = "kwrite"] /\ kimage' = [kimage EXCEPT ![c] = new]
         /\ kept' = kept
      \/ at' = [at EXCEPT ![c] = "upgrade"] /\ kimage' = kimage
  BY DEF Takes
<1>3. o # None /\ o \in KeyObjects /\ kheap[o].conv = None
  BY <1>1 DEF Takes, KeyInv, KeyTypes
<1>4. new # None
  BY <1>1, VisitorKeys
<1>5. who[c] \in Users /\ Ready(k)
  BY <1>1 DEF KeyInv, Places, LinksReady
<1>6. kobj[c] = None /\ kimage[c] = None /\ kept[c] = None
  BY <1>1 DEF KeyInv, Places, HandPlaces, SavePlaces
<1>7. \A l \in Keys : kcache[l] = o => l = k
  BY <1>1, <1>3 DEF KeyInv, Separate
<1>8. \A d \in Calls : kobj[d] = o => KeyOf[d] = k
  BY <1>1, <1>3 DEF KeyInv, Separate
<1>9. UndisturbedKey(k) =>
         /\ claimed[k] = {}
         /\ \A d \in Calls : ~AtKey(d, k) /\ ~Saving(d, k) /\ ~Making(d, k)
         /\ \A d \in Calls : KeyOf[d] = k => kobj[d] = None /\ kimage[d] = None
  BY <1>1, <1>3, <1>5, NobodyHolds
<1>10. Made(k)
  BY <1>1, <1>3 DEF KeyInv, AfterMade
<1> HIDE DEF k, o
<1>11. KeyTypes'
  <2>1. kimage' \in [Calls -> KeyRecords \cup {None}] /\ at' = [d \in Calls |-> at'[d]]
    BY <1>1, <1>2 DEF KeyInv, KeyTypes
  <2> QED
    BY <1>1, <1>3, <2>1 DEF KeyInv, KeyTypes, KeysLoaded
<1>12. /\ \A d \in Calls \ {c} : at'[d] = at[d] /\ kobj'[d] = kobj[d] /\ kimage'[d] = kimage[d]
       /\ kobj'[c] = o
       /\ \/ at'[c] = "kwrite" /\ kimage'[c] = new /\ kept'[c] = None
          \/ at'[c] = "upgrade" /\ kimage'[c] = None
  BY <1>1, <1>2, <1>6 DEF KeyInv, KeyTypes
<1>13. kheap'[o] = new /\ \A p \in KeyObjects \ {o} : kheap'[p] = kheap[p]
  BY <1>1, <1>3 DEF KeyInv, KeyTypes
<1>14. Places'
  <2>1. \A d \in Calls : /\ at'[d] \in HandPlaces <=> kobj'[d] # None
                         /\ at'[d] = "kwrite" <=> kimage'[d] # None
    BY <1>3, <1>4, <1>12 DEF KeyInv, Places, HandPlaces
  <2>2. \A d \in StartCalls : /\ at'[d] \in StartPlaces
                              /\ at'[d] # "none" => who'[d] \in Users
                              /\ kept'[d] # None => at'[d] \in HandPlaces \cup SavePlaces
    BY <1>1, <1>5, <1>12, KeyCalls DEF KeyInv, Places, StartPlaces, HandPlaces
  <2>3. \A d \in Calls \ StartCalls : at'[d] = at[d]
    BY <1>12
  <2> QED
    BY <2>1, <2>2, <2>3, KeyCalls DEF KeyInv, Places
<1>15. \A l : Made(l) => Made(l)'
  BY <1>1, <1>12, KeyCalls DEF Made
<1>16. AfterMade'
  <2>1. \A d \in Calls : kobj'[d] # None => Made(KeyOf[d])
    BY <1>10, <1>12 DEF KeyInv, AfterMade, k
  <2> QED
    BY <1>1, <1>15, <2>1 DEF KeyInv, AfterMade, KeysLoaded
<1>17. Separate'
  <2>0. KeyOf[c] = k /\ kcache[k] = o
    BY DEF k, o
  <2>1. \A d \in Calls, l \in Keys : kobj'[d] = kcache'[l] /\ kobj'[d] # None => KeyOf[d] = l
    BY <1>1, <1>7, <1>12, <2>0 DEF KeyInv, Separate
  <2>2. \A d, e \in Calls : kobj'[d] = kobj'[e] /\ kobj'[d] # None => KeyOf[d] = KeyOf[e]
    BY <1>8, <1>12, <2>0 DEF KeyInv, Separate
  <2> QED
    BY <1>1, <2>1, <2>2 DEF KeyInv, Separate
<1>18. AllBacked'
  <2>1. \A l, key : Backed(l, key)' <=> Backed(l, key)
    BY <1>1 DEF Backed
  <2>2. Backed(k, new)
    <3>1. Backed(k, kheap[o])
      BY <1>1, <1>3 DEF KeyInv, AllBacked, o
    <3>2. kheap[o] # None
      BY <1>3, VisitorKeys DEF KeyInv, KeyTypes
    <3> QED
      BY <1>1, <3>1, <3>2 DEF Backed
  <2>3. \A l \in Keys : kcache'[l] # None => Backed(l, kheap'[kcache'[l]])
    BY <1>1, <1>7, <1>13, <2>2 DEF KeyInv, AllBacked, KeyTypes
  <2>4. \A d \in Calls : kobj'[d] # None => Backed(KeyOf[d], kheap'[kobj'[d]])
    BY <1>8, <1>12, <1>13, <2>2 DEF KeyInv, AllBacked, KeyTypes, k
  <2>5. \A d \in Calls : kimage'[d] # None => Backed(KeyOf[d], kimage'[d])
    BY <1>12, <2>2 DEF KeyInv, AllBacked, k
  <2> QED
    BY <1>1, <2>1, <2>3, <2>4, <2>5 DEF KeyInv, AllBacked, Backed, KeysLoaded
<1>19. LinksReady'
  <2>1. \A d \in QuickCalls : at[d] = "done" => at'[d] = "done"
    BY <1>1, <1>12, KeyCalls
  <2>2. \A d \in StartCalls : at'[d] # "none" => at[d] # "none"
    BY <1>1, <1>12, KeyCalls
  <2> QED
    BY <1>1, <2>1, <2>2, LinksFollow DEF KeyInv
<1>20. HandsInv'
  <2> SUFFICES ASSUME NEW l \in Keys, UndisturbedKey(l)' PROVE OneHand(l)'
    BY DEF HandsInv
  <2>1. OneHand(l) /\ UndisturbedKey(l)
    BY <1>1, StillUndisturbed DEF KeyInv, HandsInv
  <2>2. CASE l # k
    <3>1. \A d \in Calls : KeyOf[d] = l => d # c
      BY <2>2 DEF k
    <3>2. kcache[l] # None => kheap'[kcache[l]] = kheap[kcache[l]]
      BY <1>7, <1>13, <2>2 DEF KeyInv, KeyTypes
    <3> QED
      BY <1>1, <1>12, <2>1, <2>2, <3>1, <3>2, KeyUntouched DEF KeyInv, AtKey, Saving, Making
  <2>3. CASE l = k
    <3>1. /\ claimed[k] = {}
          /\ \A d \in Calls : ~AtKey(d, k) /\ ~Saving(d, k) /\ ~Making(d, k)
          /\ \A d \in Calls : KeyOf[d] = k => kobj[d] = None /\ kimage[d] = None
      BY <1>9, <2>1, <2>3
    <3>2. \A d \in Calls : AtKey(d, l)' => d = c
      BY <1>12, <2>3, <3>1 DEF AtKey
    <3>3. \A d \in Calls : ~Saving(d, l)'
      BY <1>12, <2>3, <3>1 DEF Saving, SavePlaces
    <3>4. AtKey(c, l)' /\ at'[c] # "kwritten"
      BY <1>12, <2>3 DEF AtKey, HandPlaces, k
    <3>5. kcache'[l] = o /\ kheap'[o] = new /\ o # None
      BY <1>1, <1>3, <1>13, <2>3 DEF o
    <3>6. InOneHand(l)'
      <4>1. Converted(l, who[c])'
        BY <1>1, <3>5 DEF Converted
      <4>2. ASSUME NEW d \in Calls, AtKey(d, l)' PROVE Converted(l, who[d])'
        BY <3>2, <4>1, <4>2 DEF Converted
      <4>3. \A d \in Calls : kobj'[d] # None /\ KeyOf[d] = l => kobj'[d] = kcache'[l]
        BY <1>12, <2>3, <3>1, <3>5
      <4> QED
        BY <3>2, <4>2, <4>3 DEF InOneHand
    <3>7. TheirsInCache(l)'
      BY <1>1, <1>12, <2>3, <3>1, <3>2, <3>3 DEF TheirsInCache
    <3>8. RowFollows(l)'
      <4>1. \A d \in Calls : kimage'[d] # None /\ KeyOf[d] = l => kimage'[d] = kheap'[kcache'[l]]
        BY <1>12, <2>3, <3>1, <3>5
      <4> QED
        BY <1>1, <3>4, <4>1 DEF RowFollows
    <3> QED
      BY <3>6, <3>7, <3>8 DEF OneHand
  <2> QED
    BY <2>2, <2>3
<1> QED
  BY <1>11, <1>14, <1>16, <1>17, <1>18, <1>19, <1>20 DEF KeyInv

\* mark_converted and claim_key decide and note their user in one step.
LEMMA MarkTakes ==
    ASSUME KeyInv, NEW c \in StartCalls, Mark(c) \/ Claim(c), Same
    PROVE  \E new : Takes(c, new)
<1> DEFINE k == KeyOf[c]
           o == kcache[k]
           new == [owner |-> kheap[o].owner, conv |-> who[c],
                   tagged |-> kheap[o].tagged, plan |-> kheap[o].plan]
<1>1. /\ c \in Calls /\ k \in Keys /\ at[c] \in {"mark", "claim"} /\ o # None
      /\ kheap[o].conv \in {None, who[c]} /\ kheap[o].conv # who[c]
  BY KeyCalls DEF Mark, Claim, Open, Found, Taken, Hand
<1>2. o \in KeyObjects /\ kheap[o] \in KeyRecords /\ kheap[o].conv = None
  BY <1>1 DEF KeyInv, KeyTypes
<1>3. who[c] \in Users
  BY <1>1 DEF KeyInv, Places
<1>4. [kheap[o] EXCEPT !.conv = who[c]] = new
  BY <1>2 DEF KeyRecords
<1>5. new \in KeyRecords
  BY <1>2, <1>3 DEF KeyRecords
<1>6. new.owner = kheap[o].owner /\ new.conv = who[c]
  OBVIOUS
<1>7. CASE Mark(c)
  <2>1. /\ kobj' = [kobj EXCEPT ![c] = o]
        /\ kheap' = [kheap EXCEPT ![o] = [kheap[o] EXCEPT !.conv = who[c]]]
        /\ kimage' = [kimage EXCEPT ![c] = [kheap[o] EXCEPT !.conv = who[c]]]
        /\ at' = [at EXCEPT ![c] = "kwrite"]
        /\ UNCHANGED <<krow, kcache, panel, claimed, who, torn, loaded, planned, cookie, login,
                       kept>>
    BY <1>7 DEF history, Mark, Hand, HoldKey, Goto, Same, outside, loginVars
  <2>2. kept' = [d \in Calls |-> kept'[d]]
    BY <2>1 DEF KeyInv, KeyTypes
  <2> HIDE DEF new
  <2>3. kheap' = [kheap EXCEPT ![o] = new] /\ kimage' = [kimage EXCEPT ![c] = new]
    BY <1>4, <2>1
  <2> QED
    BY <1>1, <1>2, <1>5, <1>6, <2>1, <2>2, <2>3 DEF Takes
<1>8. CASE Claim(c)
  <2>1. /\ kobj' = [kobj EXCEPT ![c] = o]
        /\ kheap' = [kheap EXCEPT ![o].conv = who[c]]
        /\ kept' = [kept EXCEPT ![c] = ucache[who[c]]]
        /\ at' = [at EXCEPT ![c] = "upgrade"]
        /\ UNCHANGED <<krow, kcache, panel, claimed, who, torn, loaded, planned, cookie, login,
                       kimage>>
    BY <1>8 DEF history, Claim, Hand, HoldKey, Goto, Same, outside, loginVars
  <2>2. kept' = [d \in Calls |-> kept'[d]] /\ \A d \in Calls \ {c} : kept'[d] = kept[d]
    BY <2>1 DEF KeyInv, KeyTypes
  <2> HIDE DEF new
  <2>3. kheap' = [kheap EXCEPT ![o] = new]
    BY <1>4, <2>1
  <2> QED
    BY <1>1, <1>2, <1>5, <1>6, <2>1, <2>2, <2>3 DEF Takes
<1> QED
  BY <1>7, <1>8
-----------------------------------------------------------------------------
(* The upgrade on the panel                                                *)

\* Nobody else has the key in hand while a call does.
LEMMA OnlyHolder ==
    ASSUME KeyInv, NEW c \in StartCalls, at[c] \in HandPlaces, UndisturbedKey(KeyOf[c])
    PROVE  \A d \in Calls : KeyOf[d] = KeyOf[c] /\ d # c =>
               at[d] \notin HandPlaces /\ kobj[d] = None /\ kimage[d] = None
<1> DEFINE k == KeyOf[c]
<1>1. c \in Calls /\ k \in Keys /\ OneHand(k) /\ AtKey(c, k) /\ Ready(k)
  <2>1. at[c] # "none"
    BY DEF HandPlaces
  <2> QED
    BY <2>1, KeyCalls DEF KeyInv, HandsInv, AtKey, LinksReady
<1> SUFFICES ASSUME NEW d \in Calls, KeyOf[d] = k, d # c PROVE at[d] \notin HandPlaces
  BY DEF KeyInv, Places, HandPlaces
<1>2. CASE d \in QuickCalls
  BY <1>1, <1>2 DEF Ready, HandPlaces
<1>3. CASE d \in StartCalls
  BY <1>1, <1>3 DEF OneHand, InOneHand, AtKey
<1>4. CASE d \notin QuickCalls \cup StartCalls
  BY <1>4 DEF KeyInv, Places, KeyPlaces
<1> QED
  BY <1>2, <1>3, <1>4

\* What upgrade_landing_key sets in the object, once the panel has answered.
LEMMA UpgradeKeeps ==
    ASSUME KeyInv, NEW c \in StartCalls, Upgrade(c), Same
    PROVE  KeyInv'
<1> DEFINE k == KeyOf[c]
           o == kobj[c]
           owner == IF kheap[o].conv = None THEN kheap[o].owner ELSE kheap[o].conv
           new == [owner |-> owner, conv |-> kheap[o].conv,
                   tagged |-> kheap[o].tagged, plan |-> "trial"]
<1>1. /\ c \in Calls /\ k \in Keys /\ c \notin QuickCalls
      /\ at[c] = "upgrade" /\ at' = [at EXCEPT ![c] = "kwrite"]
      /\ panel' = [panel EXCEPT ![k] = "trial"]
      /\ UNCHANGED <<krow, kcache, kobj, claimed, who, kept, torn, loaded, planned, cookie,
                     login>>
  BY KeyCalls DEF history, Upgrade, SaveKey, Goto, Same, outside, loginVars
<1>2. o # None /\ o \in KeyObjects /\ kheap[o] \in KeyRecords
  BY <1>1 DEF KeyInv, KeyTypes, Places, HandPlaces
<1>3. new \in KeyRecords
  BY <1>2, VisitorKeys DEF KeyRecords
<1>4. kheap' = [kheap EXCEPT ![o] = new] /\ kimage' = [kimage EXCEPT ![c] = new]
  <2>1. [kheap[o] EXCEPT !.owner = owner, !.plan = "trial"] = new
    <3> HIDE DEF owner
    <3> DEFINE r == kheap[o]
    <3>1. new = [owner |-> owner, conv |-> r.conv, tagged |-> r.tagged, plan |-> "trial"]
      OBVIOUS
    <3>2. r \in [owner : Users \cup {Pseudo}, conv : Users \cup {None},
                 tagged : BOOLEAN, plan : {"day", "trial"}]
      BY <1>2 DEF KeyRecords
    <3> HIDE DEF r, new
    <3> DEFINE q == [owner |-> owner, conv |-> r.conv, tagged |-> r.tagged, plan |-> r.plan]
    <3>3. [r EXCEPT !.owner = owner] = q
      BY <3>2
    <3>4. [q EXCEPT !.plan = "trial"]
            = [owner |-> owner, conv |-> r.conv, tagged |-> r.tagged, plan |-> "trial"]
      OBVIOUS
    <3> HIDE DEF q
    <3>5. [r EXCEPT !.owner = owner, !.plan = "trial"]
            = [[r EXCEPT !.owner = owner] EXCEPT !.plan = "trial"]
      BY <3>2
    <3> QED
      BY <3>1, <3>3, <3>4, <3>5, Zenon DEF r
  <2>2. /\ kheap' = [kheap EXCEPT ![o] = [kheap[o] EXCEPT
                        !.owner = IF kheap[o].conv = None THEN @ ELSE kheap[o].conv,
                        !.plan = "trial"]]
        /\ kimage' = [kimage EXCEPT ![c] = [kheap[o] EXCEPT
                        !.owner = IF kheap[o].conv = None THEN @ ELSE kheap[o].conv,
                        !.plan = "trial"]]
    BY DEF Upgrade, SaveKey
  <2> QED
    BY <2>1, <2>2
<1>5. new # None /\ new.owner = owner /\ new.conv = kheap[o].conv
  BY <1>3, VisitorKeys
<1>6. who[c] \in Users
  BY <1>1 DEF KeyInv, Places
<1>7. \A l \in Keys : kcache[l] = o => l = k
  BY <1>1, <1>2 DEF KeyInv, Separate
<1>8. \A d \in Calls : kobj[d] = o => KeyOf[d] = k
  BY <1>1, <1>2 DEF KeyInv, Separate
<1>9. UndisturbedKey(k) =>
         /\ o = kcache[k] /\ kheap[o].conv = who[c] /\ owner = who[c]
         /\ \A d \in Calls : KeyOf[d] = k /\ d # c =>
               at[d] \notin HandPlaces /\ kobj[d] = None /\ kimage[d] = None
  <2> SUFFICES ASSUME UndisturbedKey(k)
               PROVE  /\ o = kcache[k] /\ kheap[o].conv = who[c]
                      /\ \A d \in Calls : KeyOf[d] = k /\ d # c =>
                            at[d] \notin HandPlaces /\ kobj[d] = None /\ kimage[d] = None
    BY <1>6, VisitorKeys
  <2>1. o = kcache[k]
    BY <1>1, <1>2, HandIsCached
  <2>2. OneHand(k) /\ AtKey(c, k)
    BY <1>1 DEF KeyInv, HandsInv, AtKey, HandPlaces
  <2>3. kheap[o].conv = who[c]
    BY <1>1, <2>1, <2>2 DEF OneHand, InOneHand, Converted
  <2>4. at[c] \in HandPlaces
    BY <1>1 DEF HandPlaces
  <2> QED
    BY <2>1, <2>3, <2>4, OnlyHolder
<1>10. Made(k)
  BY <1>1, <1>2 DEF KeyInv, AfterMade
<1> HIDE DEF k, o, new, owner
<1>11. KeyTypes'
  BY <1>1, <1>3, <1>4 DEF KeyInv, KeyTypes, KeysLoaded
<1>12. /\ \A d \in Calls \ {c} : at'[d] = at[d] /\ kimage'[d] = kimage[d]
       /\ at'[c] = "kwrite" /\ kimage'[c] = new
  BY <1>1, <1>4 DEF KeyInv, KeyTypes
<1>13. kheap'[o] = new /\ \A p \in KeyObjects \ {o} : kheap'[p] = kheap[p]
  BY <1>2, <1>4 DEF KeyInv, KeyTypes
<1>14. panel'[k] = "trial" /\ \A l \in Keys \ {k} : panel'[l] = panel[l]
  BY <1>1 DEF KeyInv, KeyTypes
<1>15. Places'
  <2>1. \A d \in Calls : /\ at'[d] \in HandPlaces <=> kobj'[d] # None
                         /\ at'[d] = "kwrite" <=> kimage'[d] # None
    BY <1>1, <1>5, <1>12 DEF KeyInv, Places, HandPlaces
  <2>2. \A d \in StartCalls : /\ at'[d] \in StartPlaces
                              /\ at'[d] # "none" => who'[d] \in Users
                              /\ kept'[d] # None => at'[d] \in HandPlaces \cup SavePlaces
    BY <1>1, <1>6, <1>12, KeyCalls DEF KeyInv, Places, StartPlaces, HandPlaces
  <2>3. \A d \in Calls \ StartCalls : at'[d] = at[d]
    BY <1>12
  <2> QED
    BY <2>1, <2>2, <2>3, KeyCalls DEF KeyInv, Places
<1>16. \A l : Made(l) => Made(l)'
  BY <1>1, <1>12, KeyCalls DEF Made
<1>17. AfterMade'
  <2>1. \A l \in Keys : panel'[l] = "trial" => Made(l)
    BY <1>10, <1>14 DEF KeyInv, AfterMade
  <2> QED
    BY <1>1, <1>16, <2>1 DEF KeyInv, AfterMade, KeysLoaded
<1>18. Separate'
  BY <1>1 DEF KeyInv, Separate
<1>19. AllBacked'
  <2>1. \A l \in Keys : \A key : Backed(l, key) \/ l = k => Backed(l, key)'
    BY <1>14 DEF Backed
  <2>2. \A l \in Keys : kcache'[l] # None => Backed(l, kheap[kcache[l]])'
    <3> SUFFICES ASSUME NEW l \in Keys, kcache[l] # None, l # k
                 PROVE  kheap'[kcache'[l]] # None /\ kheap'[kcache'[l]].owner # Pseudo =>
                            panel'[l] = "trial"
      BY <1>1, <1>14 DEF Backed
    <3>1. kheap'[kcache'[l]] = kheap[kcache[l]]
      BY <1>1, <1>7, <1>13 DEF KeyInv, KeyTypes
    <3> QED
      BY <1>14, <3>1 DEF KeyInv, AllBacked, Backed
  <2>3. \A d \in Calls : kobj'[d] # None => Backed(KeyOf[d], kheap[kobj[d]])'
    <3> SUFFICES ASSUME NEW d \in Calls, kobj[d] # None, KeyOf[d] # k
                 PROVE  kheap'[kobj'[d]] # None /\ kheap'[kobj'[d]].owner # Pseudo =>
                            panel'[KeyOf[d]] = "trial"
      BY <1>1, <1>14 DEF Backed
    <3>1. kheap'[kobj'[d]] = kheap[kobj[d]]
      BY <1>1, <1>8, <1>13 DEF KeyInv, KeyTypes
    <3>2. KeyOf[d] \in Keys
      BY KeyCalls DEF KeyInv, Places, KeyPlaces
    <3> QED
      BY <1>14, <3>1, <3>2 DEF KeyInv, AllBacked, Backed
  <2>4. \A d \in Calls : kimage'[d] # None => Backed(KeyOf[d], kimage[d])'
    <3> SUFFICES ASSUME NEW d \in Calls, kimage'[d] # None, KeyOf[d] # k
                 PROVE  kimage'[d] # None /\ kimage'[d].owner # Pseudo =>
                            panel'[KeyOf[d]] = "trial"
      BY <1>1, <1>14 DEF Backed
    <3>1. kimage'[d] = kimage[d]
      BY <1>12 DEF k
    <3>2. KeyOf[d] \in Keys
      BY <3>1, KeyCalls DEF KeyInv, Places, KeyPlaces, HandPlaces
    <3> QED
      BY <1>14, <3>1, <3>2 DEF KeyInv, AllBacked, Backed
  <2>5. (\A l \in Keys : Backed(l, krow[l])') /\ (KeysLoaded' => \A l \in Keys : Backed(l, loaded.rows[l])')
    BY <1>1, <2>1 DEF KeyInv, AllBacked, KeysLoaded, Backed
  <2> QED
    BY <2>2, <2>3, <2>4, <2>5 DEF AllBacked
<1>20. LinksReady'
  <2>1. \A d \in QuickCalls : at[d] = "done" => at'[d] = "done"
    BY <1>1, <1>12, KeyCalls
  <2>2. \A d \in StartCalls : at'[d] # "none" => at[d] # "none"
    BY <1>1, <1>12, KeyCalls
  <2> QED
    BY <1>1, <2>1, <2>2, LinksFollow DEF KeyInv
<1>21. HandsInv'
  <2> SUFFICES ASSUME NEW l \in Keys, UndisturbedKey(l)' PROVE OneHand(l)'
    BY DEF HandsInv
  <2>1. OneHand(l) /\ UndisturbedKey(l)
    BY <1>1, StillUndisturbed DEF KeyInv, HandsInv
  <2>2. CASE l # k
    <3>1. \A d \in Calls : KeyOf[d] = l => d # c
      BY <2>2 DEF k
    <3>2. kcache[l] # None => kheap'[kcache[l]] = kheap[kcache[l]]
      BY <1>7, <1>13, <2>2 DEF KeyInv, KeyTypes
    <3> QED
      BY <1>1, <1>12, <2>1, <2>2, <3>1, <3>2, KeyUntouched DEF KeyInv, AtKey, Saving, Making
  <2>3. CASE l = k
    <3>1. /\ o = kcache[l] /\ kheap[o].conv = who[c] /\ owner = who[c]
          /\ \A d \in Calls : KeyOf[d] = k /\ d # c =>
                at[d] \notin HandPlaces /\ kobj[d] = None /\ kimage[d] = None
      BY <1>9, <2>1, <2>3
    <3>2. \A d \in Calls : AtKey(d, l)' => d = c
      BY <1>12, <2>3, <3>1 DEF AtKey
    <3>3. \A d \in Calls : Saving(d, l)' => Saving(d, l)
      BY <1>12, <2>3 DEF Saving, SavePlaces
    <3>4. AtKey(c, l)' /\ at'[c] # "kwritten"
      BY <1>12, <2>3 DEF AtKey, HandPlaces, k
    <3>5. kcache'[l] = o /\ kheap'[o] = new
      BY <1>1, <1>13, <3>1
    <3>6. \A u : Converted(l, u) => Owned(l, u)'
      BY <1>2, <1>5, <3>1, <3>5 DEF Converted, Owned
    <3>7. InOneHand(l)'
      <4>1. Converted(l, who[c])
        BY <1>2, <3>1 DEF Converted
      <4>2. ASSUME NEW d \in Calls, AtKey(d, l)' PROVE Converted(l, who[d])'
        BY <1>1, <3>2, <3>6, <4>1, <4>2 DEF Converted, Owned
      <4>3. \A d \in Calls : kobj'[d] # None /\ KeyOf[d] = l => kobj'[d] = kcache'[l]
        BY <1>1, <2>1 DEF OneHand, InOneHand
      <4> QED
        BY <3>2, <4>2, <4>3 DEF InOneHand
    <3>8. TheirsInCache(l)'
      <4>1. ASSUME NEW d \in Calls, AtKey(d, l)' PROVE Owned(l, who[d])'
        <5>1. d = c /\ Converted(l, who[c])
          BY <1>2, <3>1, <3>2, <4>1 DEF Converted
        <5> QED
          BY <1>1, <3>6, <5>1 DEF Owned, Converted
      <4>2. ASSUME NEW d \in Calls, Saving(d, l)' PROVE Owned(l, who[d])'
        <5>1. Converted(l, who[d])
          BY <2>1, <3>3, <4>2 DEF OneHand, TheirsInCache, Owned
        <5> QED
          BY <1>1, <3>6, <5>1 DEF Owned, Converted
      <4>3. \A u \in claimed[l] : Owned(l, u)'
        BY <2>1, <3>6 DEF OneHand, TheirsInCache, Owned
      <4> QED
        BY <1>1, <4>1, <4>2, <4>3 DEF TheirsInCache
    <3>9. RowFollows(l)'
      <4>1. \A d \in Calls : kimage'[d] # None /\ KeyOf[d] = l => kimage'[d] = kheap'[kcache'[l]]
        BY <1>12, <2>3, <3>1, <3>5
      <4> QED
        BY <1>1, <3>4, <4>1 DEF RowFollows
    <3> QED
      BY <3>7, <3>8, <3>9 DEF OneHand
  <2> QED
    BY <2>2, <2>3
<1> QED
  BY <1>11, <1>15, <1>17, <1>18, <1>19, <1>20, <1>21 DEF KeyInv
\* The panel fails: the mark is taken back and the request ends.
LEMMA PanelFailsKeeps ==
    ASSUME KeyInv, NEW c \in StartCalls, PanelFails(c)
    PROVE  KeyInv'
<1> DEFINE k == KeyOf[c]
           o == kobj[c]
           new == [owner |-> kheap[o].owner, conv |-> None,
                   tagged |-> kheap[o].tagged, plan |-> kheap[o].plan]
<1>1. /\ c \in Calls /\ k \in Keys /\ c \notin QuickCalls
      /\ at[c] = "upgrade" /\ at' = [at EXCEPT ![c] = "none"]
      /\ kobj' = [kobj EXCEPT ![c] = None]
      /\ kept' = [kept EXCEPT ![c] = None]
      /\ torn' = torn \cup {c}
      /\ UNCHANGED <<krow, kcache, kimage, claimed, who, loaded, planned, cookie, login>>
  BY KeyCalls DEF PanelFails, UpgradeFails, HoldKey, Goto, loginVars
<1>2. panel' = [panel EXCEPT ![k] = "trial"] \/ panel' = panel
  BY DEF PanelFails, UpgradeFails
<1>3. o # None /\ o \in KeyObjects /\ kheap[o] \in KeyRecords
  BY <1>1 DEF KeyInv, KeyTypes, Places, HandPlaces
<1>4. new \in KeyRecords /\ new.owner = kheap[o].owner
  BY <1>3 DEF KeyRecords
<1>5. kheap' = [kheap EXCEPT ![o] = new]
  <2>1. [kheap[o] EXCEPT !.conv = None] = new
    BY <1>3 DEF KeyRecords
  <2>2. kheap' = [kheap EXCEPT ![o] = [kheap[o] EXCEPT !.conv = None]]
    BY DEF PanelFails, UpgradeFails
  <2> QED
    BY <2>1, <2>2
<1>6. \A l \in Keys : kcache[l] = o => l = k
  BY <1>1, <1>3 DEF KeyInv, Separate
<1>7. \A d \in Calls : kobj[d] = o => KeyOf[d] = k
  BY <1>1, <1>3 DEF KeyInv, Separate
<1>8. Made(k)
  BY <1>1, <1>3 DEF KeyInv, AfterMade
<1> HIDE DEF k, o, new
<1>9. KeyTypes'
  BY <1>1, <1>2, <1>4, <1>5 DEF KeyInv, KeyTypes, KeysLoaded
<1>10. /\ \A d \in Calls \ {c} : at'[d] = at[d] /\ kobj'[d] = kobj[d] /\ kept'[d] = kept[d]
       /\ at'[c] = "none" /\ kobj'[c] = None /\ kept'[c] = None
  BY <1>1 DEF KeyInv, KeyTypes
<1>11. kheap'[o] = new /\ \A p \in KeyObjects \ {o} : kheap'[p] = kheap[p]
  BY <1>3, <1>5 DEF KeyInv, KeyTypes
<1>12. /\ \A l \in Keys \ {k} : panel'[l] = panel[l]
       /\ panel[k] = "trial" => panel'[k] = "trial"
  BY <1>1, <1>2 DEF KeyInv, KeyTypes
<1>13. Places'
  <2>1. \A d \in Calls : /\ at'[d] \in HandPlaces <=> kobj'[d] # None
                         /\ at'[d] = "kwrite" <=> kimage'[d] # None
    BY <1>1, <1>10 DEF KeyInv, Places, HandPlaces
  <2>2. \A d \in StartCalls : /\ at'[d] \in StartPlaces
                              /\ at'[d] # "none" => who'[d] \in Users
                              /\ kept'[d] # None => at'[d] \in HandPlaces \cup SavePlaces
    BY <1>1, <1>10, KeyCalls DEF KeyInv, Places, StartPlaces
  <2>3. \A d \in Calls \ StartCalls : at'[d] = at[d]
    BY <1>10
  <2> QED
    BY <2>1, <2>2, <2>3, KeyCalls DEF KeyInv, Places
<1>14. \A l : Made(l) => Made(l)'
  BY <1>1, <1>10, KeyCalls DEF Made
<1>15. AfterMade'
  <2>1. \A l \in Keys : panel'[l] = "trial" => Made(l)
    BY <1>8, <1>12 DEF KeyInv, AfterMade
  <2>2. \A d \in Calls : kobj'[d] # None => Made(KeyOf[d])
    BY <1>10 DEF KeyInv, AfterMade
  <2> QED
    BY <1>1, <1>14, <2>1, <2>2 DEF KeyInv, AfterMade, KeysLoaded
<1>16. Separate'
  BY <1>1, <1>10 DEF KeyInv, Separate
<1>17. AllBacked'
  <2>1. \A l \in Keys : \A key : Backed(l, key) => Backed(l, key)'
    BY <1>12 DEF Backed
  <2>2. \A l \in Keys : Backed(l, kheap[o]) => Backed(l, new)
    BY <1>3, <1>4, VisitorKeys DEF Backed
  <2>3. \A p \in KeyObjects, l \in Keys : Backed(l, kheap[p]) => Backed(l, kheap[p])'
    <3> SUFFICES ASSUME NEW p \in KeyObjects, NEW l \in Keys, Backed(l, kheap[p])
                 PROVE  kheap'[p] # None /\ kheap'[p].owner # Pseudo => panel'[l] = "trial"
      BY DEF Backed
    <3>1. Backed(l, kheap'[p])
      BY <1>11, <2>2
    <3> QED
      BY <1>12, <3>1 DEF Backed
  <2>4. \A d \in Calls : kobj[d] # None \/ kimage[d] # None => KeyOf[d] \in Keys
    BY KeyCalls DEF KeyInv, Places, KeyPlaces, HandPlaces
  <2>5. \A l \in Keys : kcache'[l] # None => Backed(l, kheap[kcache[l]])'
    <3> SUFFICES ASSUME NEW l \in Keys, kcache[l] # None
                 PROVE  kheap'[kcache'[l]] # None /\ kheap'[kcache'[l]].owner # Pseudo =>
                            panel'[l] = "trial"
      BY <1>1 DEF Backed
    <3>1. Backed(l, kheap[kcache[l]]) /\ kcache[l] \in KeyObjects
      BY DEF KeyInv, KeyTypes, AllBacked
    <3> QED
      BY <1>1, <2>3, <3>1 DEF Backed
  <2>6. \A d \in Calls : kobj'[d] # None => Backed(KeyOf[d], kheap[kobj[d]])'
    <3> SUFFICES ASSUME NEW d \in Calls, kobj'[d] # None
                 PROVE  kheap'[kobj'[d]] # None /\ kheap'[kobj'[d]].owner # Pseudo =>
                            panel'[KeyOf[d]] = "trial"
      BY DEF Backed
    <3>1. kobj'[d] = kobj[d]
      BY <1>10
    <3>2. Backed(KeyOf[d], kheap[kobj[d]]) /\ kobj[d] \in KeyObjects /\ KeyOf[d] \in Keys
      BY <2>4, <3>1 DEF KeyInv, KeyTypes, AllBacked
    <3> QED
      BY <2>3, <3>1, <3>2 DEF Backed
  <2>7. \A d \in Calls : kimage'[d] # None => Backed(KeyOf[d], kimage[d])'
    BY <1>1, <2>1, <2>4 DEF KeyInv, AllBacked, Backed
  <2>8. /\ \A l \in Keys : Backed(l, krow[l])'
        /\ KeysLoaded' => \A l \in Keys : Backed(l, loaded.rows[l])'
    BY <1>1, <2>1 DEF KeyInv, AllBacked, KeysLoaded, Backed
  <2> QED
    BY <2>5, <2>6, <2>7, <2>8 DEF AllBacked
<1>18. LinksReady'
  <2>1. \A d \in QuickCalls : at[d] = "done" => at'[d] = "done"
    BY <1>1, <1>10, KeyCalls
  <2>2. \A d \in StartCalls : at'[d] # "none" => at[d] # "none"
    BY <1>1, <1>10, KeyCalls
  <2> QED
    BY <1>1, <2>1, <2>2, LinksFollow DEF KeyInv
<1>19. HandsInv'
  <2> SUFFICES ASSUME NEW l \in Keys, UndisturbedKey(l)' PROVE OneHand(l)'
    BY DEF HandsInv
  <2>1. OneHand(l)
    BY <1>1, StillUndisturbed DEF KeyInv, HandsInv
  <2>2. l # k
    BY <1>1 DEF UndisturbedKey, k
  <2>3. \A d \in Calls : KeyOf[d] = l => d # c
    BY <2>2 DEF k
  <2>4. kcache[l] # None => kheap'[kcache[l]] = kheap[kcache[l]]
    BY <1>6, <1>11, <2>2 DEF KeyInv, KeyTypes
  <2> QED
    BY <1>1, <1>10, <2>1, <2>2, <2>3, <2>4, KeyUntouched DEF KeyInv, AtKey, Saving, Making
<1> QED
  BY <1>9, <1>13, <1>15, <1>16, <1>17, <1>18, <1>19 DEF KeyInv
-----------------------------------------------------------------------------
(* The key is saved, and the claim answered                                *)

\* The object in hand becomes the cached one, and the call goes on.
LEMMA KeySavedKeeps ==
    ASSUME KeyInv, NEW c \in StartCalls, KeySaved(c), Same
    PROVE  KeyInv'
<1> DEFINE k == KeyOf[c]
<1>1. /\ c \in Calls /\ k \in Keys /\ c \notin QuickCalls
      /\ at[c] = "kwritten"
      /\ kcache' = [kcache EXCEPT ![k] = kobj[c]]
      /\ kobj' = [kobj EXCEPT ![c] = None]
      /\ torn \subseteq torn'
      /\ UNCHANGED <<krow, panel, kheap, kimage, claimed, who, kept, loaded,
                     planned, cookie, login>>
  BY KeyCalls DEF history, KeySaved, InstallTrial, SaveUser, HoldKey, Same, outside, loginVars
<1>2. \/ at' = [at EXCEPT ![c] = "attach"] /\ kept[c] = None
      \/ at' = [at EXCEPT ![c] = "uwrite"] /\ kept[c] # None
  BY DEF KeySaved, InstallTrial, SaveUser, Goto
<1>3. kobj[c] # None /\ kobj[c] \in KeyObjects /\ who[c] \in Users
  BY <1>1 DEF KeyInv, KeyTypes, Places, HandPlaces
<1>4. UndisturbedKey(k) =>
         /\ kobj[c] = kcache[k]
         /\ kept[c] # None => Owned(k, who[c])
         /\ \A d \in Calls : KeyOf[d] = k /\ d # c =>
               at[d] \notin HandPlaces /\ kobj[d] = None /\ kimage[d] = None
  <2> SUFFICES ASSUME UndisturbedKey(k)
               PROVE  /\ kobj[c] = kcache[k]
                      /\ kept[c] # None => Owned(k, who[c])
                      /\ \A d \in Calls : KeyOf[d] = k /\ d # c =>
                            at[d] \notin HandPlaces /\ kobj[d] = None /\ kimage[d] = None
    OBVIOUS
  <2>1. kobj[c] = kcache[k]
    BY <1>1, <1>3, HandIsCached
  <2>2. OneHand(k) /\ AtKey(c, k) /\ at[c] \in HandPlaces
    BY <1>1 DEF KeyInv, HandsInv, AtKey, HandPlaces
  <2>3. kept[c] # None => Owned(k, who[c])
    BY <1>1, <2>2 DEF OneHand, TheirsInCache
  <2> QED
    BY <2>1, <2>2, <2>3, OnlyHolder
<1> HIDE DEF k
<1>5. KeyTypes'
  <2>1. at' = [d \in Calls |-> at'[d]]
    BY <1>2 DEF KeyInv, KeyTypes
  <2> QED
    BY <1>1, <1>3, <2>1 DEF KeyInv, KeyTypes, KeysLoaded
<1>6. /\ \A d \in Calls \ {c} : at'[d] = at[d] /\ kobj'[d] = kobj[d]
      /\ kobj'[c] = None
      /\ \/ at'[c] = "attach" /\ kept[c] = None
         \/ at'[c] = "uwrite" /\ kept[c] # None
  BY <1>1, <1>2 DEF KeyInv, KeyTypes
<1>7. (\A l \in Keys \ {k} : kcache'[l] = kcache[l]) /\ kcache'[k] = kobj[c]
  BY <1>1 DEF KeyInv, KeyTypes
<1>8. Places'
  <2>1. \A d \in Calls : /\ at'[d] \in HandPlaces <=> kobj'[d] # None
                         /\ at'[d] = "kwrite" <=> kimage'[d] # None
    BY <1>1, <1>6 DEF KeyInv, Places, HandPlaces
  <2>2. \A d \in StartCalls : /\ at'[d] \in StartPlaces
                              /\ at'[d] # "none" => who'[d] \in Users
                              /\ kept'[d] # None => at'[d] \in HandPlaces \cup SavePlaces
    BY <1>1, <1>3, <1>6, KeyCalls DEF KeyInv, Places, StartPlaces, SavePlaces
  <2>3. \A d \in Calls \ StartCalls : at'[d] = at[d]
    BY <1>6
  <2> QED
    BY <2>1, <2>2, <2>3, KeyCalls DEF KeyInv, Places
<1>9. \A l : Made(l) => Made(l)'
  BY <1>1, <1>6, KeyCalls DEF Made
<1>10. AfterMade'
  <2>0. Made(k)
    BY <1>1, <1>3 DEF KeyInv, AfterMade, k
  <2>1. \A l \in Keys : kcache'[l] # None => Made(l)
    BY <1>7, <2>0 DEF KeyInv, AfterMade
  <2>2. \A d \in Calls : kobj'[d] # None => Made(KeyOf[d])
    BY <1>6 DEF KeyInv, AfterMade
  <2> QED
    BY <1>1, <1>9, <2>1, <2>2 DEF KeyInv, AfterMade, KeysLoaded
<1>11. Separate'
  <2>0. /\ \A l \in Keys : kobj[c] = kcache[l] => l = k
        /\ \A d \in Calls : kobj[d] = kobj[c] => KeyOf[d] = k
    BY <1>1, <1>3 DEF KeyInv, Separate, k
  <2>1. \A l, m \in Keys : kcache'[l] = kcache'[m] /\ kcache'[l] # None => l = m
    BY <1>7, <2>0 DEF KeyInv, Separate
  <2>2. \A d \in Calls, l \in Keys : kobj'[d] = kcache'[l] /\ kobj'[d] # None => KeyOf[d] = l
    BY <1>6, <1>7, <2>0 DEF KeyInv, Separate
  <2>3. \A d, e \in Calls : kobj'[d] = kobj'[e] /\ kobj'[d] # None => KeyOf[d] = KeyOf[e]
    BY <1>6 DEF KeyInv, Separate
  <2> QED
    BY <2>1, <2>2, <2>3 DEF Separate
<1>12. AllBacked'
  <2>1. \A l, key : Backed(l, key)' <=> Backed(l, key)
    BY <1>1 DEF Backed
  <2>2. \A l \in Keys : kcache'[l] # None => Backed(l, kheap'[kcache'[l]])
    BY <1>1, <1>3, <1>7 DEF KeyInv, AllBacked, k
  <2>3. \A d \in Calls : kobj'[d] # None => Backed(KeyOf[d], kheap'[kobj'[d]])
    BY <1>1, <1>6 DEF KeyInv, AllBacked
  <2> QED
    BY <1>1, <2>1, <2>2, <2>3 DEF KeyInv, AllBacked, Backed, KeysLoaded
<1>13. LinksReady'
  <2>1. \A d \in QuickCalls : at[d] = "done" => at'[d] = "done"
    BY <1>1, <1>6, KeyCalls
  <2>2. \A d \in StartCalls : at'[d] # "none" => at[d] # "none"
    BY <1>1, <1>6, KeyCalls
  <2> QED
    BY <1>1, <2>1, <2>2, LinksFollow DEF KeyInv
<1>14. HandsInv'
  <2> SUFFICES ASSUME NEW l \in Keys, UndisturbedKey(l)' PROVE OneHand(l)'
    BY DEF HandsInv
  <2>1. OneHand(l) /\ UndisturbedKey(l)
    BY <1>1, StillUndisturbed DEF KeyInv, HandsInv
  <2>2. kcache'[l] = kcache[l]
    BY <1>4, <1>7, <2>1
  <2>3. \A d \in Calls : /\ AtKey(d, l)' => AtKey(d, l) /\ at'[d] = at[d]
                         /\ AtKey(d, l) => AtKey(d, l)' \/ d = c
                         /\ Saving(d, l)' => Saving(d, l) \/ d = c
                         /\ Making(d, l)' <=> Making(d, l)
    BY <1>1, <1>6 DEF AtKey, Saving, Making, HandPlaces, SavePlaces
  <2>4. InOneHand(l)'
    BY <1>1, <1>6, <2>1, <2>2, <2>3 DEF OneHand, InOneHand, Converted
  <2>5. TheirsInCache(l)'
    <3>1. \A d \in Calls : Saving(d, l)' => Owned(l, who[d])
      <4>1. Saving(c, l)' => Owned(l, who[c])
        BY <1>4, <1>6, <2>1 DEF Saving, SavePlaces, k
      <4> QED
        BY <2>1, <2>3, <4>1 DEF OneHand, TheirsInCache
    <3> QED
      BY <1>1, <2>1, <2>2, <2>3, <3>1 DEF OneHand, TheirsInCache, Owned, Converted
  <2>6. RowFollows(l)'
    <3>1. ASSUME NEW d \in Calls, AtKey(d, l), at[d] # "kwritten"
          PROVE  AtKey(d, l)' /\ at'[d] # "kwritten"
      BY <1>1, <2>3, <3>1
    <3> QED
      BY <1>1, <2>1, <2>2, <2>3, <3>1 DEF OneHand, RowFollows
  <2> QED
    BY <2>4, <2>5, <2>6 DEF OneHand
<1> QED
  BY <1>5, <1>8, <1>10, <1>11, <1>12, <1>13, <1>14 DEF KeyInv

\* The answer "claimed" goes to a user whom the cached object names.
LEMMA AnswerClaimKeeps ==
    ASSUME KeyInv, NEW c \in StartCalls, TrialInstalled(c), Same
    PROVE  KeyInv'
<1> DEFINE k == KeyOf[c]
<1>1. /\ c \in Calls /\ k \in Keys /\ c \notin QuickCalls
      /\ at[c] \in {"uwritten", "swritten"} /\ at' = [at EXCEPT ![c] = "attach"]
      /\ kept' = [kept EXCEPT ![c] = None]
      /\ UNCHANGED <<krow, panel, kheap, kimage, kcache, kobj, who, torn, loaded,
                     planned, cookie, login>>
  BY KeyCalls DEF history, TrialInstalled, Goto, Same, outside, loginVars
<1>2. \/ claimed' = [claimed EXCEPT ![k] = @ \cup {who[c]}]
      \/ claimed' = [claimed EXCEPT ![k] = @]
  BY DEF TrialInstalled, Answered
<1>3. who[c] \in Users /\ Ready(k)
  BY <1>1 DEF KeyInv, Places, LinksReady
<1>4. Saving(c, k)
  BY <1>1 DEF Saving, SavePlaces
<1> HIDE DEF k
<1>5. KeyTypes'
  <2>1. claimed' \in [Keys -> SUBSET Users]
    BY <1>1, <1>2, <1>3 DEF KeyInv, KeyTypes
  <2> QED
    BY <1>1, <2>1 DEF KeyInv, KeyTypes, KeysLoaded
<1>6. /\ \A d \in Calls \ {c} : at'[d] = at[d] /\ kept'[d] = kept[d]
      /\ at'[c] = "attach" /\ kept'[c] = None
  BY <1>1 DEF KeyInv, KeyTypes
<1>7. /\ \A l \in Keys \ {k} : claimed'[l] = claimed[l]
      /\ claimed'[k] \subseteq claimed[k] \cup {who[c]}
  BY <1>1, <1>2 DEF KeyInv, KeyTypes
<1>8. Places'
  <2>1. \A d \in Calls : /\ at'[d] \in HandPlaces <=> kobj'[d] # None
                         /\ at'[d] = "kwrite" <=> kimage'[d] # None
    BY <1>1, <1>6 DEF KeyInv, Places, HandPlaces
  <2>2. \A d \in StartCalls : /\ at'[d] \in StartPlaces
                              /\ at'[d] # "none" => who'[d] \in Users
                              /\ kept'[d] # None => at'[d] \in HandPlaces \cup SavePlaces
    BY <1>1, <1>3, <1>6, KeyCalls DEF KeyInv, Places, StartPlaces
  <2>3. \A d \in Calls \ StartCalls : at'[d] = at[d]
    BY <1>6
  <2> QED
    BY <2>1, <2>2, <2>3, KeyCalls DEF KeyInv, Places
<1>9. \A l : Made(l) => Made(l)'
  BY <1>1, <1>6, KeyCalls DEF Made
<1>10. AfterMade' /\ Separate' /\ AllBacked'
  BY <1>1, <1>9 DEF KeyInv, AfterMade, KeysLoaded, Separate, AllBacked, Backed
<1>11. LinksReady'
  <2>1. \A l : Ready(l) => Ready(l)'
    BY <1>1, <1>6, KeyCalls DEF Ready
  <2>2. \A d \in StartCalls : at'[d] # "none" => Ready(KeyOf[d])'
    BY <1>1, <1>6, <2>1, KeyCalls DEF KeyInv, LinksReady
  <2>3. \A l \in Keys : claimed'[l] # {} => Ready(l)'
    BY <1>3, <1>7, <2>1 DEF KeyInv, LinksReady
  <2>4. \A b \in Browsers : cookie[b] # None => Ready(cookie[b])'
    BY <1>1, <2>1 DEF KeyInv, LinksReady
  <2>5. \A t \in Tokens : login[t].uid # None => Ready(login[t].uid)'
    BY <1>1, <2>1 DEF KeyInv, LinksReady
  <2> QED
    BY <1>1, <2>2, <2>3, <2>4, <2>5 DEF KeyInv, LinksReady
<1>12. HandsInv'
  <2> SUFFICES ASSUME NEW l \in Keys, UndisturbedKey(l)' PROVE OneHand(l)'
    BY DEF HandsInv
  <2>1. OneHand(l)
    BY <1>1, StillUndisturbed DEF KeyInv, HandsInv
  <2>2. \A d \in Calls : /\ AtKey(d, l)' <=> AtKey(d, l)
                         /\ AtKey(d, l) => at'[d] = at[d] /\ kept'[d] = kept[d]
                         /\ Saving(d, l)' => Saving(d, l)
                         /\ Making(d, l)' <=> Making(d, l)
    BY <1>1, <1>6 DEF AtKey, Saving, Making, HandPlaces, SavePlaces
  <2>3. \A u \in claimed'[l] : Owned(l, u)
    BY <1>1, <1>4, <1>7, <2>1 DEF OneHand, TheirsInCache
  <2>4. InOneHand(l)'
    BY <1>1, <2>1, <2>2 DEF OneHand, InOneHand, Converted
  <2>5. TheirsInCache(l)'
    BY <1>1, <2>1, <2>2, <2>3 DEF OneHand, TheirsInCache, Owned, Converted
  <2>6. RowFollows(l)'
    BY <1>1, <2>1, <2>2 DEF OneHand, RowFollows
  <2> QED
    BY <2>4, <2>5, <2>6 DEF OneHand
<1> QED
  BY <1>5, <1>8, <1>10, <1>11, <1>12 DEF KeyInv
-----------------------------------------------------------------------------
(* Failures, reloads and restarts                                          *)

\* A request that ends with an error leaves its key to the others.
LEMMA AbortKeeps ==
    ASSUME KeyInv, NEW c \in Calls, Aborts(c)
    PROVE  KeyInv'
<1>1. /\ at[c] \notin {"none", "qadd", "done"}
      /\ at' = [at EXCEPT ![c] = After(c)]
      /\ kobj' = [kobj EXCEPT ![c] = None]
      /\ kimage' = [kimage EXCEPT ![c] = None]
      /\ kept' = [kept EXCEPT ![c] = None]
      /\ torn' = torn \cup {c}
      /\ UNCHANGED <<krow, kcache, kheap, panel, claimed, who, loaded, planned, cookie, login>>
  BY DEF Aborts, Goto, loginVars
<1>2. KeyTypes'
  BY <1>1 DEF KeyInv, KeyTypes, KeysLoaded
<1>3. /\ \A d \in Calls \ {c} : /\ at'[d] = at[d] /\ kobj'[d] = kobj[d]
                                /\ kimage'[d] = kimage[d] /\ kept'[d] = kept[d]
      /\ at'[c] = After(c) /\ kobj'[c] = None /\ kimage'[c] = None /\ kept'[c] = None
  BY <1>1 DEF KeyInv, KeyTypes
<1>4. /\ at'[c] \in {"none", "done"}
      /\ c \in QuickCalls => at'[c] = "done"
  BY <1>3, VisitorKeys DEF After
<1>5. Places'
  <2>1. \A d \in Calls : /\ at'[d] \in HandPlaces <=> kobj'[d] # None
                         /\ at'[d] = "kwrite" <=> kimage'[d] # None
    BY <1>1, <1>3, <1>4 DEF KeyInv, Places, HandPlaces
  <2>2. \A d \in StartCalls : /\ at'[d] \in StartPlaces
                              /\ at'[d] # "none" => who'[d] \in Users
                              /\ kept'[d] # None => at'[d] \in HandPlaces \cup SavePlaces
    BY <1>1, <1>3, <1>4, KeyCalls DEF KeyInv, Places, StartPlaces
  <2>3. \A d \in QuickCalls : at'[d] \in QuickPlaces
    BY <1>3, <1>4, KeyCalls DEF KeyInv, Places, QuickPlaces
  <2>4. \A d \in Calls \ (QuickCalls \cup StartCalls) : at'[d] \notin KeyPlaces
    BY <1>3, <1>4 DEF KeyInv, Places, KeyPlaces, HandPlaces
  <2> QED
    BY <2>1, <2>2, <2>3, <2>4 DEF Places
<1>6. \A l : Made(l) => Made(l)'
  BY <1>1, <1>3, <1>4, KeyCalls DEF Made
<1>7. AfterMade'
  <2>1. \A d \in Calls : kobj'[d] # None => Made(KeyOf[d])
    BY <1>3 DEF KeyInv, AfterMade
  <2> QED
    BY <1>1, <1>6, <2>1 DEF KeyInv, AfterMade, KeysLoaded
<1>8. Separate'
  BY <1>1, <1>3 DEF KeyInv, Separate
<1>9. AllBacked'
  <2>1. \A d \in Calls : kobj'[d] # None => Backed(KeyOf[d], kheap'[kobj'[d]])
    BY <1>1, <1>3 DEF KeyInv, AllBacked
  <2>2. \A d \in Calls : kimage'[d] # None => Backed(KeyOf[d], kimage'[d])
    BY <1>3 DEF KeyInv, AllBacked
  <2> QED
    BY <1>1, <2>1, <2>2 DEF KeyInv, AllBacked, Backed, KeysLoaded
<1>10. LinksReady'
  <2>1. \A d \in QuickCalls : at[d] = "done" => at'[d] = "done"
    BY <1>1, <1>3, KeyCalls
  <2>2. \A d \in StartCalls : at'[d] # "none" => at[d] # "none"
    BY <1>1, <1>3, KeyCalls
  <2> QED
    BY <1>1, <2>1, <2>2, LinksFollow DEF KeyInv
<1>11. HandsInv'
  <2> SUFFICES ASSUME NEW l \in Keys, UndisturbedKey(l)' PROVE OneHand(l)'
    BY DEF HandsInv
  <2>1. OneHand(l)
    BY <1>1, StillUndisturbed DEF KeyInv, HandsInv
  <2>2. \A d \in Calls : KeyOf[d] = l => d # c
    BY <1>1 DEF UndisturbedKey
  <2> QED
    BY <1>1, <1>3, <2>1, <2>2, KeyUntouched DEF KeyInv, AtKey, Saving, Making
<1> QED
  BY <1>2, <1>5, <1>7, <1>8, <1>9, <1>10, <1>11 DEF KeyInv

\* loading() reads the table as it is.
LEMMA ReadTableKeeps == ASSUME KeyInv, ReadTable PROVE KeyInv'
<1>1. /\ UNCHANGED <<krow, kheap, kcache, kobj, kimage, panel, claimed, at, who, kept, torn,
                     planned, cookie, login>>
      /\ loaded' \in {[table |-> "users", rows |-> urow], [table |-> "keys", rows |-> krow]}
  BY DEF history, ReadTable, accountVars, callVars, keyVars, loginVars
<1>2. KeysLoaded' => loaded'.rows = krow
  BY <1>1 DEF KeysLoaded
<1>3. KeyTypes'
  BY <1>1, <1>2 DEF KeyInv, KeyTypes
<1>4. Places' /\ Separate'
  BY <1>1 DEF KeyInv, Places, Separate
<1>5. \A l : Made(l)' <=> Made(l)
  BY <1>1 DEF Made
<1>6. AfterMade'
  BY <1>1, <1>2, <1>5 DEF KeyInv, AfterMade
<1>7. AllBacked'
  BY <1>1, <1>2 DEF KeyInv, AllBacked, Backed
<1>8. LinksReady'
  BY <1>1 DEF KeyInv, LinksReady, Ready
<1>9. HandsInv'
  <2> SUFFICES ASSUME NEW l \in Keys, UndisturbedKey(l)' PROVE OneHand(l)'
    BY DEF HandsInv
  <2>1. OneHand(l)
    BY <1>1, StillUndisturbed DEF KeyInv, HandsInv
  <2> QED
    BY <1>1, <2>1, KeyUntouched DEF KeyInv, AtKey, Saving, Making
<1> QED
  BY <1>3, <1>4, <1>6, <1>7, <1>8, <1>9 DEF KeyInv
\* loading() finds a new object for every key that needs one ...
LEMMA NewPlaces ==
    ASSUME KeyTypes, NEW renew \in SUBSET Keys
    PROVE  \E f \in [renew -> FreeKeys] : IsInjective(f)
<1>1. IsFiniteSet(renew) /\ Cardinality(renew) <= Cardinality(Keys)
  BY FS_Subset, VisitorKeys
<1>2. IsFiniteSet(FreeKeys) /\ Cardinality(FreeKeys) >= Cardinality(Keys)
  BY RoomForKeys DEF KeyTypes
<1>3. Cardinality(renew) <= Cardinality(FreeKeys)
  <2>1. Cardinality(renew) \in Nat /\ Cardinality(FreeKeys) \in Nat /\ Cardinality(Keys) \in Nat
    BY <1>1, <1>2, FS_CardinalityType, VisitorKeys
  <2> QED
    BY <1>1, <1>2, <2>1
<1> QED
  BY <1>1, <1>2, <1>3, SmallerGoesIn

\* ... that nobody else uses.
LEMMA PlacesAreNew ==
    ASSUME KeyTypes, NEW renew, NEW new \in [renew -> FreeKeys], IsInjective(new)
    PROVE  /\ \A k \in renew : new[k] \in KeyObjects /\ new[k] # None
           /\ \A k \in renew : \A l \in Keys : new[k] # kcache[l]
           /\ \A k \in renew : \A c \in Calls : new[k] # kobj[c]
           /\ \A k, l \in renew : new[k] = new[l] => k = l
<1>1. \A k \in renew : new[k] \in FreeKeys
  OBVIOUS
<1>2. FreeKeys \subseteq KeyObjects /\ None \notin KeyObjects
  BY VisitorKeys DEF FreeKeys
<1>3. /\ \A o \in FreeKeys, l \in Keys : o # kcache[l]
      /\ \A o \in FreeKeys, c \in Calls : o # kobj[c]
  BY DEF FreeKeys, Range, KeyTypes
<1>4. \A k, l \in renew : new[k] = new[l] => k = l
  BY DEF IsInjective
<1> QED
  BY <1>1, <1>2, <1>3, <1>4

\* Reloaded keys are as backed as the rows that were read; whoever was under
\* way is torn.
LEMMA FillCacheKeeps == ASSUME KeyInv, FillCache PROVE KeyInv'
<1>1. /\ loaded # None /\ loaded' = None
      /\ torn' = torn \cup {c \in Calls : at[c] # "none"}
      /\ UNCHANGED <<krow, kobj, kimage, panel, claimed, at, who, kept, planned, cookie, login>>
  BY DEF FillCache, loginVars
<1>2. ~KeysLoaded'
  BY <1>1 DEF KeysLoaded
<1>3. (\A l : Made(l)' <=> Made(l)) /\ Places' /\ LinksReady'
  BY <1>1 DEF KeyInv, Made, Places, LinksReady, Ready
<1>4. CASE loaded.table = "users"
  <2>1. UNCHANGED <<kcache, kheap>>
    BY <1>4 DEF FillCache
  <2>2. KeyTypes' /\ AfterMade' /\ Separate' /\ AllBacked'
    BY <1>1, <1>2, <1>3, <2>1
       DEF KeyInv, KeyTypes, AfterMade, Separate, AllBacked, Backed, KeysLoaded
  <2>3. HandsInv'
    <3> SUFFICES ASSUME NEW l \in Keys, UndisturbedKey(l)' PROVE OneHand(l)'
      BY DEF HandsInv
    <3>1. OneHand(l)
      BY <1>1, StillUndisturbed DEF KeyInv, HandsInv
    <3> QED
      BY <1>1, <2>1, <3>1, KeyUntouched DEF KeyInv, AtKey, Saving, Making
  <2> QED
    BY <1>3, <2>2, <2>3 DEF KeyInv
<1>5. CASE loaded.table # "users"
  <2> DEFINE rows == loaded.rows
             renew == {k \in Keys : rows[k] # None /\ kcache[k] \in Range(kobj) \cup {None}}
             new == CHOOSE f \in [renew -> FreeKeys] : IsInjective(f)
             place == [k \in Keys |-> IF k \in renew THEN new[k] ELSE kcache[k]]
  <2>1. KeysLoaded /\ rows \in [Keys -> KeyRecords \cup {None}]
    BY <1>1, <1>5 DEF KeyInv, KeyTypes, KeysLoaded
  <2>2. /\ kcache' = place
        /\ kheap' = [o \in KeyObjects |->
                        IF \E k \in Keys : rows[k] # None /\ place[k] = o
                        THEN rows[CHOOSE k \in Keys : place[k] = o] ELSE kheap[o]]
    BY <1>5 DEF FillCache, ReloadedKeys
  <2>3. /\ \A k \in renew : new[k] \in KeyObjects /\ new[k] # None
        /\ \A k \in renew : \A l \in Keys : new[k] # kcache[l]
        /\ \A k \in renew : \A c \in Calls : new[k] # kobj[c]
        /\ \A k, l \in renew : new[k] = new[l] => k = l
    <3>1. renew \in SUBSET Keys /\ KeyTypes
      BY DEF KeyInv
    <3> HIDE DEF renew
    <3>2. \E f \in [renew -> FreeKeys] : IsInjective(f)
      BY <3>1, NewPlaces
    <3>3. new \in [renew -> FreeKeys] /\ IsInjective(new)
      BY <3>2
    <3> HIDE DEF new
    <3> QED
      BY <3>1, <3>3, PlacesAreNew
  <2>4. \A k \in Keys : k \in renew <=> rows[k] # None /\ (\/ kcache[k] = None
                                                           \/ \E c \in Calls : kobj[c] = kcache[k])
    BY DEF Range, KeyInv, KeyTypes
  <2>5. \A k \in Keys : place[k] = (IF k \in renew THEN new[k] ELSE kcache[k])
    OBVIOUS
  <2>6. renew \subseteq Keys
    OBVIOUS
  <2> HIDE DEF renew, new
  <2>7. place \in [Keys -> KeyObjects \cup {None}]
    BY <2>3, <2>6 DEF KeyInv, KeyTypes
  <2> HIDE DEF place, rows
  <2>8. \A k, l \in Keys : place[k] = place[l] /\ place[k] # None => k = l
    BY <2>3, <2>5, <2>6 DEF KeyInv, Separate
  <2>9. ASSUME NEW k \in Keys, rows[k] # None
        PROVE  place[k] \in KeyObjects /\ kheap'[place[k]] = rows[k]
    <3>1. place[k] \in KeyObjects /\ place[k] # None
      <4>1. CASE k \in renew
        BY <2>3, <2>5, <4>1
      <4>2. CASE k \notin renew
        <5>1. place[k] = kcache[k] /\ kcache[k] # None
          BY <2>4, <2>5, <2>9, <4>2
        <5> QED
          BY <2>7, <5>1
      <4> QED
        BY <4>1, <4>2
    <3>2. (CHOOSE l \in Keys : place[l] = place[k]) = k
      <4>1. \A l \in Keys : place[l] = place[k] => l = k
        BY <2>8, <3>1
      <4> QED
        BY <4>1
    <3>3. kheap'[place[k]] = rows[CHOOSE l \in Keys : place[l] = place[k]]
      BY <2>2, <2>9, <3>1
    <3> QED
      BY <3>1, <3>2, <3>3, Zenon
  <2>10. ASSUME NEW o \in KeyObjects, \A k \in Keys : rows[k] # None => place[k] # o
         PROVE  kheap'[o] = kheap[o]
    BY <2>2, <2>10
  <2>11. ASSUME NEW k \in Keys, rows[k] = None PROVE kcache'[k] = kcache[k]
    BY <2>2, <2>4, <2>5, <2>11
  <2>12. KeyTypes'
    <3>1. ASSUME NEW o \in KeyObjects PROVE kheap'[o] \in KeyRecords
      <4>1. CASE \E k \in Keys : rows[k] # None /\ place[k] = o
        <5>1. PICK k \in Keys : rows[k] # None /\ place[k] = o
          BY <4>1
        <5>2. rows[k] \in KeyRecords
          BY <2>1, <5>1
        <5>3. kheap'[o] = rows[k]
          BY <2>9, <5>1
        <5> QED
          BY <5>2, <5>3
      <4>2. CASE ~\E k \in Keys : rows[k] # None /\ place[k] = o
        BY <2>10, <4>2 DEF KeyInv, KeyTypes
      <4> QED
        BY <4>1, <4>2
    <3>2. kheap' = [o \in KeyObjects |-> kheap'[o]]
      BY <2>2
    <3>3. kheap' \in [KeyObjects -> KeyRecords]
      BY <3>1, <3>2
    <3> QED
      BY <1>1, <1>2, <2>2, <2>7, <3>3 DEF KeyInv, KeyTypes
  <2>13. AfterMade'
    <3>1. \A k \in Keys : kcache'[k] # None => Made(k)
      BY <2>1, <2>11 DEF KeyInv, AfterMade, rows
    <3> QED
      BY <1>1, <1>2, <1>3, <3>1 DEF KeyInv, AfterMade
  <2>14. Separate'
    <3>1. \A c \in Calls, k \in Keys : kobj[c] = place[k] /\ kobj[c] # None => KeyOf[c] = k
      BY <2>3, <2>5 DEF KeyInv, Separate
    <3> QED
      BY <1>1, <2>2, <2>8, <3>1 DEF KeyInv, Separate
  <2>15. AllBacked'
    <3>1. \A l, key : Backed(l, key)' <=> Backed(l, key)
      BY <1>1 DEF Backed
    <3>2. ASSUME NEW l \in Keys, kcache'[l] # None PROVE Backed(l, kheap'[kcache'[l]])
      <4>1. CASE rows[l] # None
        <5>1. kheap'[kcache'[l]] = rows[l]
          BY <2>2, <2>9, <4>1
        <5> QED
          BY <2>1, <5>1 DEF KeyInv, AllBacked, rows
      <4>2. CASE rows[l] = None
        <5>1. kcache'[l] = kcache[l] /\ kcache[l] \in KeyObjects
          BY <2>11, <3>2, <4>2 DEF KeyInv, KeyTypes
        <5>2. \A k \in Keys : rows[k] # None => place[k] # kcache[l]
          BY <2>2, <2>8, <3>2, <4>2, <5>1
        <5>3. kheap'[kcache[l]] = kheap[kcache[l]]
          BY <2>10, <5>1, <5>2
        <5> QED
          BY <3>2, <5>1, <5>3 DEF KeyInv, AllBacked
      <4> QED
        BY <4>1, <4>2
    <3>3. ASSUME NEW c \in Calls, kobj[c] # None PROVE Backed(KeyOf[c], kheap'[kobj[c]])
      <4>1. kobj[c] \in KeyObjects
        BY <3>3 DEF KeyInv, KeyTypes
      <4>2. ASSUME NEW k \in Keys, rows[k] # None PROVE place[k] # kobj[c]
        BY <2>3, <2>4, <2>5, <4>2
      <4>3. kheap'[kobj[c]] = kheap[kobj[c]]
        BY <2>10, <4>1, <4>2
      <4> QED
        BY <3>3, <4>3 DEF KeyInv, AllBacked
    <3> QED
      BY <1>1, <1>2, <3>1, <3>2, <3>3 DEF KeyInv, AllBacked, Backed
  <2>16. HandsInv'
    <3> SUFFICES ASSUME NEW l \in Keys, UndisturbedKey(l)' PROVE OneHand(l)'
      BY DEF HandsInv
    <3>1. OneHand(l)
      BY <1>1, StillUndisturbed DEF KeyInv, HandsInv
    <3>2. ~Made(l)
      BY <1>1, KeyCalls DEF UndisturbedKey, Made
    <3>3. rows[l] = None /\ kcache[l] = None
      BY <2>1, <3>2, NothingBeforeRow DEF rows
    <3>4. kcache'[l] = kcache[l]
      BY <2>11, <3>3
    <3> QED
      BY <1>1, <3>1, <3>3, <3>4, KeyUntouched DEF KeyInv, AtKey, Saving, Making
  <2> QED
    BY <1>3, <2>12, <2>13, <2>14, <2>15, <2>16 DEF KeyInv
<1> QED
  BY <1>4, <1>5
\* After a restart the cache holds the rows, and nothing is under way.
LEMMA RestartKeeps == ASSUME KeyInv, Restart PROVE KeyInv'
<1> DEFINE ko == CHOOSE f \in [Keys -> KeyObjects] : IsInjective(f)
<1>1. /\ loaded' = None
      /\ torn' = torn \cup InFlight
      /\ at' = [c \in Calls |-> IF c \in InFlight THEN After(c) ELSE at[c]]
      /\ kobj' = [c \in Calls |-> None] /\ kimage' = [c \in Calls |-> None]
      /\ kept' = [c \in Calls |-> None]
      /\ kcache' = [k \in Keys |-> IF krow[k] = None THEN None ELSE ko[k]]
      /\ kheap' = [o \in KeyObjects |->
                      IF \E k \in Keys : krow[k] # None /\ ko[k] = o
                      THEN krow[CHOOSE k \in Keys : ko[k] = o] ELSE NewKey]
      /\ UNCHANGED <<krow, panel, claimed, who, planned, cookie, login>>
  BY DEF Restart
<1>2. ko \in [Keys -> KeyObjects] /\ \A k, l \in Keys : ko[k] = ko[l] => k = l
  <2>1. Cardinality(Keys) <= Cardinality(KeyObjects)
    <3>1. /\ Cardinality(Keys) \in Nat /\ Cardinality(Calls) \in Nat
          /\ Cardinality(KeyObjects) \in Nat
      BY FS_CardinalityType, VisitorKeys
    <3> QED
      BY <3>1, VisitorKeys
  <2>2. \E f \in [Keys -> KeyObjects] : IsInjective(f)
    BY <2>1, SmallerGoesIn, VisitorKeys
  <2>3. ko \in [Keys -> KeyObjects] /\ IsInjective(ko)
    BY <2>2
  <2> HIDE DEF ko
  <2> QED
    BY <2>3 DEF IsInjective
<1> HIDE DEF ko
<1>3. ~KeysLoaded'
  BY <1>1 DEF KeysLoaded
<1>4. ASSUME NEW k \in Keys, krow[k] # None
      PROVE  kcache'[k] = ko[k] /\ ko[k] # None /\ kheap'[ko[k]] = krow[k]
  <2>1. (CHOOSE l \in Keys : ko[l] = ko[k]) = k
    BY <1>2
  <2>2. ko[k] \in KeyObjects /\ ko[k] # None
    BY <1>2, VisitorKeys
  <2>3. kheap'[ko[k]] = krow[CHOOSE l \in Keys : ko[l] = ko[k]]
    BY <1>1, <1>4, <2>2
  <2>4. kheap'[ko[k]] = krow[k]
    BY <2>1, <2>3, Zenon
  <2> QED
    BY <1>1, <1>4, <2>2, <2>4
<1>5. \A k \in Keys : krow[k] = None => kcache'[k] = None
  BY <1>1
<1>6. /\ \A c \in Calls : at'[c] \in Resting
      /\ \A c \in QuickCalls : at[c] # "none" => at'[c] = "done"
      /\ \A c \in StartCalls : at'[c] = "none" \/ (at'[c] = "done" /\ at[c] = "done")
  <2>1. \A c \in Calls : at'[c] = IF at[c] \notin Resting THEN After(c) ELSE at[c]
    BY <1>1 DEF InFlight
  <2>2. \A c \in QuickCalls : After(c) = "done"
    BY VisitorKeys DEF After
  <2>3. \A c \in StartCalls : After(c) = "none"
    BY DEF After
  <2>4. \A c \in Calls : After(c) \in {"none", "done"}
    BY DEF After
  <2>5. \A c \in QuickCalls \cup StartCalls : at[c] # "answered"
    BY DEF KeyInv, Places, QuickPlaces, StartPlaces, HandPlaces, SavePlaces
  <2> QED
    BY <2>1, <2>2, <2>3, <2>4, <2>5, KeyCalls DEF Resting
<1>7. \A c \in Calls : kobj'[c] = None /\ kimage'[c] = None /\ kept'[c] = None
  BY <1>1
<1>8. KeyTypes'
  <2>1. ASSUME NEW o \in KeyObjects PROVE kheap'[o] \in KeyRecords
    <3>1. CASE \E k \in Keys : krow[k] # None /\ ko[k] = o
      <4>1. PICK k \in Keys : krow[k] # None /\ ko[k] = o
        BY <3>1
      <4>2. krow[k] \in KeyRecords
        BY <4>1 DEF KeyInv, KeyTypes
      <4> QED
        BY <1>4, <4>1, <4>2
    <3>2. CASE ~\E k \in Keys : krow[k] # None /\ ko[k] = o
      <4>1. kheap'[o] = NewKey
        BY <1>1, <3>2
      <4> QED
        BY <4>1 DEF NewKey, KeyRecords
    <3> QED
      BY <3>1, <3>2
  <2>2. kheap' = [o \in KeyObjects |-> kheap'[o]]
    BY <1>1
  <2>3. kheap' \in [KeyObjects -> KeyRecords]
    BY <2>1, <2>2
  <2>4. kcache' \in [Keys -> KeyObjects \cup {None}]
    BY <1>1, <1>2
  <2>5. at' = [c \in Calls |-> at'[c]]
    BY <1>1
  <2> QED
    BY <1>1, <1>3, <2>3, <2>4, <2>5 DEF KeyInv, KeyTypes
<1>9. Places'
  <2>1. \A c \in Calls : at'[c] \notin KeyPlaces
    BY <1>6 DEF Resting, KeyPlaces, HandPlaces
  <2>2. \A c \in QuickCalls : at'[c] \in QuickPlaces
    BY <1>1, <1>6, KeyCalls DEF KeyInv, Places, QuickPlaces, After
  <2>3. \A c \in StartCalls : at'[c] \in {"none", "done"} /\ (at'[c] # "none" => who[c] \in Users)
    BY <1>6, KeyCalls DEF KeyInv, Places
  <2> QED
    BY <1>1, <1>7, <2>1, <2>2, <2>3, KeyCalls DEF Places, StartPlaces, KeyPlaces, HandPlaces
<1>10. \A l : Made(l) => Made(l)'
  BY <1>6, KeyCalls DEF Made
<1>11. AfterMade'
  BY <1>1, <1>3, <1>5, <1>7, <1>10 DEF KeyInv, AfterMade
<1>12. Separate'
  BY <1>2, <1>4, <1>5, <1>7 DEF Separate
<1>13. AllBacked'
  <2>1. \A l, key : Backed(l, key)' <=> Backed(l, key)
    BY <1>1 DEF Backed
  <2>2. \A k \in Keys : kcache'[k] # None => Backed(k, kheap'[kcache'[k]])
    BY <1>4, <1>5 DEF KeyInv, AllBacked
  <2> QED
    BY <1>1, <1>3, <1>7, <2>1, <2>2 DEF KeyInv, AllBacked, Backed
<1>14. LinksReady'
  <2>1. \A d \in QuickCalls : at[d] = "done" => at'[d] = "done"
    BY <1>6
  <2>2. \A d \in StartCalls : at'[d] # "none" => at[d] # "none"
    BY <1>6
  <2> QED
    BY <1>1, <2>1, <2>2, LinksFollow DEF KeyInv
<1>15. HandsInv'
  <2> SUFFICES ASSUME NEW l \in Keys, UndisturbedKey(l)' PROVE OneHand(l)'
    BY DEF HandsInv
  <2>1. OneHand(l)
    BY <1>1, StillUndisturbed DEF KeyInv, HandsInv
  <2>2. \A d \in Calls : KeyOf[d] = l => at[d] \in Resting
    BY <1>1 DEF UndisturbedKey, InFlight
  <2>3. \A d \in Calls : ~AtKey(d, l) /\ ~Making(d, l)
    BY <2>2 DEF AtKey, Making, HandPlaces, Resting
  <2>4. \A d \in Calls : ~AtKey(d, l)' /\ ~Saving(d, l)'
    BY <1>6 DEF AtKey, Saving, HandPlaces, SavePlaces, Resting
  <2>5. \/ krow[l] = None /\ kcache[l] = None
        \/ krow[l] # None /\ kcache[l] # None /\ krow[l] = kheap[kcache[l]]
    BY <2>1, <2>3 DEF OneHand, RowFollows
  <2>6. InOneHand(l)'
    BY <1>7, <2>4 DEF InOneHand
  <2>7. TheirsInCache(l)'
    <3>1. ASSUME NEW u \in claimed[l] PROVE Owned(l, u)'
      <4>1. Owned(l, u)
        BY <2>1 DEF OneHand, TheirsInCache
      <4>2. krow[l] # None /\ krow[l].conv = u /\ krow[l].owner = u
        BY <2>5, <4>1 DEF Owned, Converted
      <4> QED
        BY <1>4, <4>2 DEF Owned, Converted
    <3> QED
      BY <1>1, <2>4, <3>1 DEF TheirsInCache
  <2>8. RowFollows(l)'
    BY <1>1, <1>4, <1>5, <1>7 DEF RowFollows
  <2> QED
    BY <2>6, <2>7, <2>8 DEF OneHand
<1> QED
  BY <1>8, <1>9, <1>11, <1>12, <1>13, <1>14, <1>15 DEF KeyInv
-----------------------------------------------------------------------------
(* Everything else                                                         *)

\* A step of one call, from a place where it has no key in hand to another.
Calm ==
    UNCHANGED <<kept, krow, kheap, kcache, kobj, kimage, panel, claimed, loaded, planned,
                cookie, login>> /\ torn \subseteq torn'
Moves(c, p, w) == at' = [at EXCEPT ![c] = p] /\ who' = [who EXCEPT ![c] = w]

\* Calls that are about no landing key ...
LEMMA CalmOthers ==
    ASSUME KeyInv, NEW c \in Calls, c \notin QuickCalls \cup StartCalls, NEW p, NEW w,
           Calm, Moves(c, p, w), p \notin KeyPlaces
    PROVE  KeyInv'
<1>1. CallsOnly(c) /\ at'[c] = p
  BY DEF KeyInv, KeyTypes, CallsOnly, Calm, Moves
<1>2. Aside(c)
  BY <1>1 DEF Aside, Calm, LoginsFollow
<1> QED
  BY <1>2, AsideKeeps

\* ... and starts that have none in hand.
LEMMA CalmStart ==
    ASSUME KeyInv, NEW c \in StartCalls, NEW p, NEW w, Calm, Moves(c, p, w),
           at[c] \notin HandPlaces, p \in StartPlaces \ HandPlaces,
           p # "none" => w \in Users,
           p \in SavePlaces => at[c] \in SavePlaces /\ w = who[c],
           at[c] \in SavePlaces => p \in SavePlaces,
           p # "none" => at[c] # "none" \/ Linked(KeyOf[c])
    PROVE  KeyInv'
<1>1. c \in Calls /\ c \notin QuickCalls
  BY KeyCalls
<1>2. CallsOnly(c) /\ at'[c] = p /\ who'[c] = w /\ kept'[c] = kept[c]
  BY <1>1 DEF KeyInv, KeyTypes, CallsOnly, Calm, Moves
<1>3. kept[c] # None => at[c] \in SavePlaces
  BY <1>1 DEF KeyInv, Places
<1>4. StartMoves(c)
  BY <1>2, <1>3 DEF StartMoves
<1>5. Aside(c)
  BY <1>1, <1>2, <1>4 DEF Aside, Calm, LoginsFollow
<1> QED
  BY <1>5, AsideKeeps

\* A step that does not move any call.
LEMMA CalmStill ==
    ASSUME KeyInv, Calm, UNCHANGED <<at, who>>
    PROVE  KeyInv'
<1>1. CallsOnly(None)
  BY DEF KeyInv, KeyTypes, CallsOnly, Calm
<1>2. None \notin Calls /\ None \notin QuickCalls /\ None \notin StartCalls
  BY KeyCalls
<1>3. Aside(None)
  BY <1>1, <1>2 DEF Aside, Calm, LoginsFollow
<1> QED
  BY <1>3, AsideKeeps

\* A call whose user stays.
LEMMA SameUserMoves ==
    ASSUME KeyInv, NEW c, NEW p, Goto(c, p), who' = who
    PROVE  Moves(c, p, who[c])
  BY DEF KeyInv, KeyTypes, Goto, Moves

\* Every step of a quick-key call keeps the invariant ...
LEMMA QuickKeeps ==
    ASSUME KeyInv, NEW c \in QuickCalls, AskDayKey(c) \/ QuickStep(c) \/ GiveDayKey(c)
    PROVE  KeyInv'
<1>1. CASE AskDayKey(c)
  <2>1. /\ at[c] = "none"
        /\ at' = [at EXCEPT ![c] = IF LandingState(BrowserOf[c]) = "active" THEN "done" ELSE "qadd"]
        /\ who' = who
        /\ Calm
    BY <1>1 DEF history, AskDayKey, Goto, Calm, keyVars, Same, outside, loginVars
  <2>2. /\ c \in Calls /\ c \notin StartCalls
        /\ at'[c] = IF LandingState(BrowserOf[c]) = "active" THEN "done" ELSE "qadd"
    BY <2>1, KeyCalls DEF KeyInv, KeyTypes
  <2>3. CallsOnly(c) /\ QuickMoves(c)
    BY <2>1, <2>2 DEF KeyInv, KeyTypes, CallsOnly, QuickMoves, Calm
  <2>4. Aside(c)
    BY <2>1, <2>2, <2>3 DEF Aside, Calm, LoginsFollow
  <2> QED
    BY <2>4, AsideKeeps
<1>2. CASE QuickStep(c)
  BY <1>2, DayClientKeeps, DayRowKeeps, DayTagKeeps, WriteKeyKeeps DEF QuickStep
<1>3. CASE GiveDayKey(c)
  BY <1>3, DayKeyKeeps
<1> QED
  BY <1>1, <1>2, <1>3

\* The steps of a start that leave its key alone.
LEMMA StartAsideKeeps ==
    ASSUME KeyInv, NEW c \in StartCalls, Same,
           \/ Register(c) \/ EditServer(c)
           \/ \E kind \in {"claim", "mark"} : AlreadyTheirs(c, kind) \/ Refused(c, kind)
    PROVE  KeyInv'
<1>1. at[c] # "none" => who[c] \in Users
  BY DEF KeyInv, Places
<1> USE DEF StartPlaces, HandPlaces, SavePlaces
<1>2. CASE Register(c)
  <2>1. /\ at[c] \in {"register", "registered"}
        /\ \E p \in {"registered", "none", "claim"} : Goto(c, p)
        /\ who' = who /\ Calm
    BY <1>2 DEF history, Register, InsertUser, CacheNewUser, Calm, keyVars, Same, outside, loginVars
  <2>2. PICK p \in {"registered", "none", "claim"} : Moves(c, p, who[c])
    BY <2>1, SameUserMoves
  <2> QED
    BY <1>1, <2>1, <2>2, CalmStart
<1>3. CASE EditServer(c)
  <2>1. /\ at[c] = "uwritten" /\ Goto(c, "swrite") /\ who' = who /\ Calm
    BY <1>3 DEF EditServer, SaveUser, Calm, keyVars, Same, outside, loginVars
  <2>2. Moves(c, "swrite", who[c])
    BY <2>1, SameUserMoves
  <2> QED
    BY <1>1, <2>1, <2>2, CalmStart
<1>4. ASSUME NEW kind \in {"claim", "mark"}, AlreadyTheirs(c, kind) \/ Refused(c, kind)
      PROVE  KeyInv'
  <2>1. /\ at[c] = kind
        /\ \E p \in {"attach", "done"} : Goto(c, p)
        /\ who' = who /\ Calm
    BY <1>4 DEF history, AlreadyTheirs, Refused, Calm, keyVars, Same, outside, loginVars
  <2>2. PICK p \in {"attach", "done"} : Moves(c, p, who[c])
    BY <2>1, SameUserMoves
  <2> QED
    BY <1>1, <2>1, <2>2, CalmStart
<1> QED
  BY <1>2, <1>3, <1>4

\* ... and every step of a start.
LEMMA StartKeeps ==
    ASSUME KeyInv, NEW c \in StartCalls,
           (\E u \in Users : StartLanding(c, u)) \/ StartStep(c) \/ PanelFails(c)
    PROVE  KeyInv'
<1>1. ASSUME NEW u \in Users, StartLanding(c, u) PROVE KeyInv'
  <2>1. /\ at[c] = "none" /\ Linked(KeyOf[c])
        /\ \E p \in {"register", "mark"} : at' = [at EXCEPT ![c] = p]
        /\ who' = [who EXCEPT ![c] = u]
        /\ Calm
    BY <1>1 DEF history, StartLanding, Start, Asks, Goto, Calm, keyVars, Same, outside, loginVars
  <2>2. PICK p \in {"register", "mark"} : Moves(c, p, u)
    BY <2>1 DEF Moves
  <2> QED
    BY <2>1, <2>2, CalmStart DEF StartPlaces, HandPlaces, SavePlaces
<1>2. ASSUME StartStep(c) PROVE KeyInv'
  <2>1. Same
    BY <1>2 DEF StartStep
  <2>2. CASE Mark(c) \/ Claim(c)
    BY <2>1, <2>2, MarkTakes, TakingKeeps
  <2>3. CASE Upgrade(c)
    BY <2>1, <2>3, UpgradeKeeps
  <2>4. CASE WriteKey(c)
    BY <2>1, <2>4, WriteKeyKeeps
  <2>5. CASE KeySaved(c)
    BY <2>1, <2>5, KeySavedKeeps
  <2>6. CASE TrialInstalled(c)
    BY <2>1, <2>6, AnswerClaimKeeps
  <2>7. CASE \/ Register(c) \/ EditServer(c)
             \/ \E kind \in {"claim", "mark"} : AlreadyTheirs(c, kind) \/ Refused(c, kind)
    BY <2>1, <2>7, StartAsideKeeps
  <2> QED
    BY <1>2, <2>2, <2>3, <2>4, <2>5, <2>6, <2>7 DEF StartStep
<1>3. ASSUME PanelFails(c) PROVE KeyInv'
  BY <1>3, PanelFailsKeeps
<1> QED
  BY <1>1, <1>2, <1>3
\* Trials, edits, saves and referrals touch no landing key.
LEMMA OthersKeep ==
    ASSUME KeyInv,
           \/ \E c \in TrialCalls : (\E u \in Users : AskForTrial(c, u)) \/ TrialStep(c)
           \/ \E c \in EditCalls : (\E u \in Users : EditUser(c, u)) \/ EditSaved(c)
    PROVE  KeyInv'
<1>1. \A c \in TrialCalls \cup EditCalls : c \in Calls /\ c \notin QuickCalls \cup StartCalls
  BY VisitorConstants, VisitorKeys
<1>2. PICK c \in TrialCalls \cup EditCalls :
        \/ (\E u \in Users : AskForTrial(c, u)) \/ TrialStep(c)
        \/ (\E u \in Users : EditUser(c, u)) \/ EditSaved(c)
  OBVIOUS
<1> DEFINE places == {"done", "add", "tsave", "install", "uwrite", "gift"}
<1>3. places \cap KeyPlaces = {}
  BY DEF KeyPlaces, HandPlaces
<1>4. ASSUME NEW u \in Users, AskForTrial(c, u) PROVE KeyInv'
  <2>1. \E p \in places : Moves(c, p, u)
    BY <1>4 DEF AskForTrial, AskTrial, Goto, Moves
  <2>2. Calm
    BY <1>4 DEF history, AskForTrial, AskTrial, Calm, keyVars, Same, outside, loginVars
  <2> QED
    BY <1>1, <1>3, <2>1, <2>2, CalmOthers
<1>5. ASSUME TrialStep(c) PROVE KeyInv'
  <2>1. who' = who /\ \E p \in places : Goto(c, p)
    BY <1>5 DEF TrialStep, AddTrialClient, InsertTrialKey, SetTrial, TrialSaved, WriteGift,
       InstallTrial, SaveUser
  <2>2. Calm
    BY <1>5 DEF history, TrialStep, AddTrialClient, InsertTrialKey, SetTrial, TrialSaved, WriteGift,
       InstallTrial, SaveUser, Calm, keyVars, Same, outside, loginVars
  <2>3. \E p \in places : Moves(c, p, who[c])
    BY <2>1, SameUserMoves
  <2> QED
    BY <1>1, <1>3, <2>2, <2>3, CalmOthers
<1>6. ASSUME NEW u \in Users, EditUser(c, u) PROVE KeyInv'
  <2>1. Moves(c, "uwrite", u)
    BY <1>6 DEF EditUser, Edit, SaveUser, Goto, Moves
  <2>2. Calm
    BY <1>6 DEF EditUser, Edit, SaveUser, Calm, keyVars, Same, outside, loginVars
  <2> QED
    BY <1>1, <1>3, <2>1, <2>2, CalmOthers
<1>7. ASSUME EditSaved(c) PROVE KeyInv'
  <2>1. who' = who /\ Goto(c, "done") /\ Calm
    BY <1>7 DEF history, EditSaved, Calm, keyVars, Same, outside, loginVars
  <2>2. Moves(c, "done", who[c])
    BY <2>1, SameUserMoves
  <2> QED
    BY <1>1, <1>3, <2>1, <2>2, CalmOthers
<1> QED
  BY <1>2, <1>4, <1>5, <1>6, <1>7

\* Rows of users and their referrals are written by calls of every kind.
LEMMA SavesKeep ==
    ASSUME KeyInv, NEW c \in Calls, SaveStep(c) \/ AttachStep(c)
    PROVE  KeyInv'
<1>1. who' = who /\ Calm
  BY DEF history, SaveStep, WriteUser, AttachStep, Attach, AttachToCached, Redeem, Calm, keyVars,
     Same, outside, loginVars
<1>2. \/ at[c] = "uwrite" /\ Goto(c, "uwritten")
      \/ at[c] = "swrite" /\ Goto(c, "swritten")
      \/ at[c] = "attach" /\ (Goto(c, "attached") \/ Goto(c, "done"))
      \/ at[c] = "attached" /\ Goto(c, "redeem")
      \/ at[c] = "redeem" /\ Goto(c, "done")
  BY DEF SaveStep, WriteUser, AttachStep, Attach, AttachToCached, Redeem
<1>3. c \notin QuickCalls
  BY <1>2 DEF KeyInv, Places, QuickPlaces
<1>4. PICK p : Moves(c, p, who[c]) /\
        \/ at[c] = "uwrite" /\ p = "uwritten"
        \/ at[c] = "swrite" /\ p = "swritten"
        \/ at[c] \in {"attach", "attached", "redeem"} /\ p \in {"attached", "redeem", "done"}
  BY <1>1, <1>2, SameUserMoves
<1>5. CASE c \in StartCalls
  <2>1. who[c] \in Users
    BY <1>2, <1>5 DEF KeyInv, Places
  <2> QED
    BY <1>1, <1>4, <1>5, <2>1, CalmStart DEF StartPlaces, HandPlaces, SavePlaces
<1>6. CASE c \notin StartCalls
  <2>1. p \notin KeyPlaces
    BY <1>4 DEF KeyPlaces, HandPlaces
  <2> QED
    BY <1>1, <1>3, <1>4, <1>6, <2>1, CalmOthers
<1> QED
  BY <1>5, <1>6

\* A user who is read, or comes by an invitation, and the end of a key's day.
LEMMA StillKeeps ==
    ASSUME KeyInv,
           \/ \E k \in Keys : DayIsOver(k)
           \/ \E u \in Users : ReadUser(u)
           \/ \E u : RegisterInvited(u)
    PROVE  KeyInv'
<1>1. Calm /\ UNCHANGED <<at, who>>
  BY DEF history, DayIsOver, ReadUser, RegisterInvited, RegisterElsewhere, Calm, keyVars,
         accountVars,
     callVars, Same, outside, loginVars
<1> QED
  BY <1>1, CalmStill

\* The cookie of a browser holds a token, if anything.
PollInv ==
    /\ poll \in [Browsers -> Tokens \cup {None}]
    /\ \A m \in answers : m.token \in Tokens

\* Receive alone changes the cookie, and takes the token of an answer.
LEMMA PollKeeps == ASSUME PollInv, [Next]_vars PROVE PollInv'
<1>1. ASSUME poll' = poll, answers' \subseteq answers PROVE PollInv'
  BY <1>1 DEF PollInv
<1>2. ASSUME NEW b \in Browsers, Login(b) PROVE PollInv'
  BY <1>2 DEF Login, StartLogin, Answer, PollInv
<1>3. ASSUME NEW b \in Browsers, CompleteLogin(b) PROVE PollInv'
  BY <1>1, <1>3 DEF CompleteLogin, Consume, browserVars
<1>4. ASSUME NEW t \in Tokens, AnswerLogin(t) PROVE PollInv'
  BY <1>4 DEF AnswerLogin, AnswerConfirmed, Answer, PollInv
<1>5. ASSUME LoginGoesOn PROVE PollInv'
  <2>1. ASSUME NEW t \in Tokens, LoginStep(t) PROVE PollInv'
    <3>1. ASSUME NEW b \in Browsers, ExplainPoll(b, t) PROVE PollInv'
      BY <3>1 DEF ExplainPoll, Answer, PollInv
    <3>2. ASSUME NEW u \in Users, Confirm(t, u) \/ ExplainConfirm(t, u) PROVE PollInv'
      BY <1>1, <3>2 DEF Confirm, ExplainConfirm, browserVars
    <3>3. ASSUME Lapse(t) PROVE PollInv'
      BY <1>1, <3>3 DEF Lapse, browserVars
    <3> QED
      BY <2>1, <3>1, <3>2, <3>3 DEF LoginStep
  <2>2. ASSUME NEW b \in Browsers, BrowserStep(b) PROVE PollInv'
    <3>1. ASSUME NEW m \in answers, m.to = b, Receive(m) PROVE PollInv'
      <4>1. poll' = [poll EXCEPT ![b] = IF m.kind = "started" THEN m.token ELSE None]
        BY <3>1 DEF Receive
      <4>2. m.token \in Tokens
        BY DEF PollInv
      <4> QED
        BY <3>1, <4>1, <4>2 DEF Receive, PollInv
    <3>2. ASSUME NEW m \in answers, Lose(m) PROVE PollInv'
      BY <1>1, <3>2 DEF Lose
    <3>3. ASSUME PollInVain(b) \/ Logout(b) PROVE PollInv'
      BY <1>1, <3>3 DEF PollInVain, Logout, browserVars
    <3> QED
      BY <2>2, <3>1, <3>2, <3>3 DEF BrowserStep
  <2> QED
    BY <1>5, <2>1, <2>2 DEF LoginGoesOn
<1>6. ASSUME UNCHANGED vars PROVE PollInv'
  BY <1>1, <1>6 DEF vars, loginVars, browserVars
<1> QED
  BY <1>1, <1>2, <1>3, <1>4, <1>5, <1>6, OthersApart DEF Apart

\* A login names no key but that of a cookie.
LEMMA LoginsKeepKeys ==
    ASSUME KeyInv, TableInv, PollInv,
           \/ \E b \in Browsers : Login(b) \/ CompleteLogin(b)
           \/ \E t \in Tokens : AnswerLogin(t)
           \/ LoginGoesOn
    PROVE  KeyInv'
<1>1. ASSUME Aside(None) PROVE KeyInv'
  BY <1>1, AsideKeeps
<1>2. None \notin Calls /\ None \notin QuickCalls /\ None \notin StartCalls
  BY KeyCalls
<1> DEFINE alone == UNCHANGED <<kept, krow, kheap, kcache, kobj, kimage, panel, claimed, loaded,
                                planned, cookie, torn>>
           follow == \A t \in Tokens : login'[t].uid \in {login[t].uid} \cup Range(cookie)
<1>3. ASSUME alone, follow, UNCHANGED <<at, who>> PROVE KeyInv'
  <2>1. CallsOnly(None)
    BY <1>3 DEF KeyInv, KeyTypes, CallsOnly
  <2>2. Aside(None)
    BY <1>2, <1>3, <2>1 DEF Aside, LoginsFollow
  <2> QED
    BY <1>1, <2>2
<1>4. ASSUME NEW b \in Browsers, Login(b) PROVE KeyInv'
  <2>1. alone /\ UNCHANGED <<at, who>>
    BY <1>4 DEF history, Login, accountVars, outside, callVars, keyVars
  <2>2. follow
    <3>1. PICK t \in Tokens : \E gone \in SUBSET (lapsed \ {t}) :
            login' = [s \in Tokens |->
                CASE s = t -> [status |-> "pending", user |-> None,
                               uid |-> KeyInCookie(b), browser |-> b]
                  [] s \in gone -> [login[s] EXCEPT !.status = "deleted"]
                  [] OTHER -> login[s]]
      BY <1>4 DEF Login, StartLogin, Create
    <3>2. PICK gone \in SUBSET (lapsed \ {t}) :
            login' = [s \in Tokens |->
                CASE s = t -> [status |-> "pending", user |-> None,
                               uid |-> KeyInCookie(b), browser |-> b]
                  [] s \in gone -> [login[s] EXCEPT !.status = "deleted"]
                  [] OTHER -> login[s]]
      BY <3>1
    <3>3. ASSUME NEW s \in Tokens PROVE login'[s].uid \in {login[s].uid} \cup Range(cookie)
      <4>1. CASE s = t
        <5>1. cookie[b] \in Range(cookie)
          BY DEF KeyInv, LinksReady, Range
        <5> QED
          BY <3>2, <4>1, <5>1 DEF KeyInCookie
      <4>2. CASE s # t /\ s \in gone
        <5>1. login'[s] = [login[s] EXCEPT !.status = "deleted"]
          BY <3>2, <4>2
        <5> QED
          BY <5>1, RowOf
      <4>3. CASE s # t /\ s \notin gone
        BY <3>2, <4>3
      <4> QED
        BY <4>1, <4>2, <4>3
    <3> QED
      BY <3>3
  <2> QED
    BY <1>3, <2>1, <2>2
<1>5. ASSUME NEW b \in Browsers, CompleteLogin(b) PROVE KeyInv'
  <2> DEFINE t == poll[b]
  <2>1. /\ t # None /\ alone
        /\ login' = [login EXCEPT ![t].status = "used"]
        /\ who' = [who EXCEPT ![t] = login[t].user]
        /\ at' = [at EXCEPT ![t] = "attach"]
    BY <1>5 DEF history, CompleteLogin, Consume, Goto, keyVars, outside
  <2>2. t \in Tokens /\ t \in Calls /\ t \notin QuickCalls \cup StartCalls
    BY <2>1, VisitorConstants, VisitorKeys DEF PollInv
  <2> HIDE DEF t
  <2>3. follow
    <3>1. login'[t] = [login[t] EXCEPT !.status = "used"]
      BY <2>1, <2>2 DEF TableInv
    <3>2. login'[t].uid = login[t].uid
      BY <2>2, <3>1, RowOf
    <3>3. \A s \in Tokens : s # t => login'[s] = login[s]
      BY <2>1, <2>2 DEF TableInv
    <3> QED
      BY <3>2, <3>3
  <2>4. CallsOnly(t) /\ at'[t] = "attach"
    BY <2>1, <2>2 DEF KeyInv, KeyTypes, CallsOnly
  <2>5. Aside(t)
    BY <2>1, <2>2, <2>3, <2>4 DEF Aside, LoginsFollow, KeyPlaces, HandPlaces
  <2> QED
    BY <2>5, AsideKeeps
<1>6. ASSUME NEW t \in Tokens, AnswerLogin(t) PROVE KeyInv'
  <2>1. Calm /\ Goto(t, "answered") /\ who' = who
    BY <1>6 DEF history, AnswerLogin, AnswerConfirmed, Calm, keyVars, outside
  <2>2. t \in Calls /\ t \notin QuickCalls \cup StartCalls
    BY VisitorConstants, VisitorKeys
  <2>3. Moves(t, "answered", who[t])
    BY <2>1, SameUserMoves
  <2> QED
    BY <2>1, <2>2, <2>3, CalmOthers DEF KeyPlaces, HandPlaces
<1>7. ASSUME LoginGoesOn PROVE KeyInv'
  <2>1. alone /\ UNCHANGED <<at, who>>
    BY <1>7 DEF history, LoginGoesOn, accountVars, outside, callVars, keyVars
  <2>2. ASSUME NEW t \in Tokens, NEW u \in Users, Confirm(t, u) PROVE follow
    <3>1. login' = login \/ login' = [login EXCEPT ![t].status = "confirmed", ![t].user = u]
      BY <2>2 DEF Confirm
    <3>2. \A s \in Tokens : s # t => login'[s] = login[s]
      BY <3>1 DEF TableInv
    <3>3. login'[t].uid = login[t].uid
      <4>1. CASE login' = [login EXCEPT ![t].status = "confirmed", ![t].user = u]
        <5>1. login'[t] = [[login[t] EXCEPT !.status = "confirmed"] EXCEPT !.user = u]
          BY <4>1 DEF TableInv
        <5> QED
          BY <5>1, RowOf
      <4> QED
        BY <3>1, <4>1
    <3> QED
      BY <3>2, <3>3
  <2>3. follow
    <3>1. login' = login \/ \E t \in Tokens, u \in Users : Confirm(t, u)
      BY <1>7 DEF LoginGoesOn, LoginStep, BrowserStep, Lapse, ExplainConfirm, ExplainPoll,
         PollInVain, Logout, Receive, Lose
    <3> QED
      BY <2>2, <3>1
  <2> QED
    BY <1>3, <2>1, <2>3
<1> QED
  BY <1>4, <1>5, <1>6, <1>7

-----------------------------------------------------------------------------
(* The invariant, and what it says                                         *)

\* Every step keeps the invariant.
LEMMA KeyInvStep == ASSUME KeyInv, OwnInv, PollInv, [Next]_vars PROVE KeyInv'
<1>1. planned.calls \subseteq Calls
  BY DEF KeyInv, KeyTypes
<1>2. CASE \E c \in QuickCalls \cap planned.calls : AskDayKey(c) \/ QuickStep(c) \/ GiveDayKey(c)
  BY <1>2, QuickKeeps
<1>3. CASE \E c \in StartCalls \cap planned.calls :
              (\E u \in Users : StartLanding(c, u)) \/ StartStep(c) \/ PanelFails(c)
  BY <1>3, StartKeeps
<1>4. CASE \/ \E c \in TrialCalls \cap planned.calls :
                 (\E u \in Users : AskForTrial(c, u)) \/ TrialStep(c)
           \/ \E c \in EditCalls \cap planned.calls :
                 (\E u \in Users : EditUser(c, u)) \/ EditSaved(c)
  BY <1>4, OthersKeep
<1>5. CASE \E c \in planned.calls : SaveStep(c) \/ AttachStep(c) \/ Aborts(c)
  BY <1>1, <1>5, SavesKeep, AbortKeeps
<1>6. CASE \/ \E b \in Browsers : Login(b) \/ CompleteLogin(b)
           \/ \E t \in Tokens : AnswerLogin(t)
           \/ LoginGoesOn
  BY <1>6, LoginsKeepKeys DEF OwnInv
<1>7. CASE \/ \E k \in Keys : DayIsOver(k)
           \/ \E u \in planned.invited : RegisterInvited(u)
           \/ \E u \in Users : ReadUser(u)
  BY <1>7, StillKeeps
<1>8. CASE ReadTable \/ FillCache \/ Restart
  BY <1>8, ReadTableKeeps, FillCacheKeeps, RestartKeeps
<1>9. CASE UNCHANGED vars
  <2>1. Calm /\ UNCHANGED <<at, who>>
    BY <1>9 DEF history, vars, accountVars, callVars, keyVars, loginVars, outside, Calm
  <2> QED
    BY <2>1, CalmStill
<1> QED
  BY <1>2, <1>3, <1>4, <1>5, <1>6, <1>7, <1>8, <1>9 DEF Next

\* It holds of every behaviour.
LEMMA KeyInvariant == Spec => []KeyInv
<1>1. Init => PollInv
  BY DEF Init, LoginInit, PollInv
<1>2. Spec => []PollInv
  BY <1>1, PollKeeps, PTL DEF Spec
<1> QED
  BY <1>2, InitKeys, KeyInvStep, OwnInvariant, PTL DEF Spec

\* A landing key belongs to a user only once the panel has given it the trial
\* period, whatever failed, was repeated or reloaded (upgrade_landing_key).
THEOREM OwnedAreUpgraded == Spec => []OwnedIsUpgraded
<1>1. KeyInv => OwnedIsUpgraded
  BY DEF KeyInv, AllBacked, Backed, OwnedIsUpgraded
<1> QED
  BY <1>1, KeyInvariant, PTL

\* One user at most is told that a landing key is theirs, and between two
\* requests the row of the key says so (claim_key).
THEOREM ClaimedOnce == Spec => []OneClaimant
<1>1. ASSUME KeyInv PROVE OneClaimant
  <2> SUFFICES ASSUME NEW k \in Keys, UndisturbedKey(k)
               PROVE  /\ Cardinality(claimed[k]) <= 1
                      /\ Quiet => \A u \in claimed[k] : krow[k].owner = u
    BY DEF OneClaimant
  <2>1. OneHand(k) /\ \A u \in claimed[k] : Owned(k, u)
    BY <1>1 DEF KeyInv, HandsInv, OneHand, TheirsInCache
  <2>2. Cardinality(claimed[k]) <= 1
    <3>1. CASE claimed[k] = {}
      BY <3>1, FS_EmptySet
    <3>2. CASE claimed[k] # {}
      <4>1. PICK u : u \in claimed[k]
        BY <3>2
      <4>2. claimed[k] = {u}
        BY <2>1, <4>1 DEF Owned, Converted
      <4>3. Cardinality({u}) = 1
        BY FS_Singleton
      <4> QED
        BY <4>2, <4>3
    <3> QED
      BY <3>1, <3>2
  <2>3. ASSUME Quiet, NEW u \in claimed[k] PROVE krow[k].owner = u
    <3>1. \A c \in Calls : ~AtKey(c, k) /\ ~Making(c, k)
      BY <2>3 DEF Quiet, InFlight, Resting, AtKey, Making, HandPlaces
    <3>2. Owned(k, u)
      BY <2>1, <2>3
    <3>3. krow[k] = kheap[kcache[k]]
      BY <2>1, <3>1, <3>2 DEF OneHand, RowFollows, Owned, Converted
    <3> QED
      BY <3>2, <3>3 DEF Owned
  <2> QED
    BY <2>2, <2>3
<1> QED
  BY <1>1, KeyInvariant, PTL

-----------------------------------------------------------------------------
(* Objects for the cached users                                            *)

\* There is a free object for every user, and so there is one at least.
LEMMA RoomForUsers ==
    ASSUME ucache = [u \in Users |-> ucache[u]], uobj = [c \in Calls |-> uobj[c]],
           kept = [c \in Calls |-> kept[c]]
    PROVE  IsFiniteSet(FreeUsers) /\ Cardinality(FreeUsers) >= Cardinality(Users)
<1> DEFINE A == Range(ucache)  B == Range(uobj)  C == Range(kept)  X == A \cup B  Y == X \cup C
<1>1. IsFiniteSet(A) /\ Cardinality(A) <= Cardinality(Users)
  BY FewValues, VisitorUsers
<1>2. IsFiniteSet(B) /\ Cardinality(B) <= Cardinality(Calls)
  BY FewValues, VisitorKeys
<1>3. IsFiniteSet(C) /\ Cardinality(C) <= Cardinality(Calls)
  BY FewValues, VisitorKeys
<1>0. FreeUsers = UserObjects \ Y
  BY DEF FreeUsers, HeldUsers, A, B, C, X, Y
<1> HIDE DEF A, B, C
<1>4. /\ IsFiniteSet(X)
      /\ Cardinality(X) = Cardinality(A) + Cardinality(B) - Cardinality(A \cap B)
  BY <1>1, <1>2, FS_Union
<1>5. IsFiniteSet(A \cap B) /\ Cardinality(A \cap B) \in Nat
  <2>1. A \cap B \in SUBSET A
    OBVIOUS
  <2> QED
    BY <1>1, <2>1, FS_Subset, FS_CardinalityType
<1> HIDE DEF X
<1>6. /\ IsFiniteSet(Y)
      /\ Cardinality(Y) = Cardinality(X) + Cardinality(C) - Cardinality(X \cap C)
  BY <1>3, <1>4, FS_Union
<1>7. IsFiniteSet(X \cap C) /\ Cardinality(X \cap C) \in Nat
  <2>1. X \cap C \in SUBSET C
    OBVIOUS
  <2> QED
    BY <1>3, <2>1, FS_Subset, FS_CardinalityType
<1> HIDE DEF Y
<1>8. /\ IsFiniteSet(UserObjects \ Y)
      /\ Cardinality(UserObjects \ Y) = Cardinality(UserObjects) - Cardinality(UserObjects \cap Y)
  BY FS_Difference, VisitorUsers
<1>9. Cardinality(UserObjects \cap Y) <= Cardinality(Y) /\ Cardinality(UserObjects \cap Y) \in Nat
  <2>1. UserObjects \cap Y \in SUBSET Y
    OBVIOUS
  <2> QED
    BY <1>6, <2>1, FS_Subset, FS_CardinalityType
<1>10. /\ Cardinality(A) \in Nat /\ Cardinality(B) \in Nat /\ Cardinality(C) \in Nat
       /\ Cardinality(X) \in Nat /\ Cardinality(Y) \in Nat
       /\ Cardinality(UserObjects) \in Nat
       /\ Cardinality(Users) \in Nat /\ Cardinality(Calls) \in Nat
  BY <1>1, <1>2, <1>3, <1>4, <1>6, FS_CardinalityType, VisitorKeys, VisitorUsers
<1>11. Cardinality(UserObjects \ Y) >= Cardinality(Users)
  BY <1>1, <1>2, <1>3, <1>4, <1>5, <1>6, <1>7, <1>8, <1>9, <1>10, VisitorUsers
<1> QED
  BY <1>0, <1>8, <1>11, Zenon

\* The object taken for a user is nobody's.
LEMMA FreshUserIsFree ==
    ASSUME ucache = [u \in Users |-> ucache[u]], uobj = [c \in Calls |-> uobj[c]],
           kept = [c \in Calls |-> kept[c]], Users # {}
    PROVE  FreshUser \in FreeUsers
<1>1. FreeUsers # {}
  <2>1. Cardinality(Users) \in Nat /\ Cardinality(Users) # 0
    BY FS_CardinalityType, FS_EmptySet, VisitorUsers
  <2>2. IsFiniteSet(FreeUsers) /\ Cardinality(FreeUsers) >= Cardinality(Users)
    BY RoomForUsers
  <2>3. Cardinality(FreeUsers) \in Nat
    BY <2>2, FS_CardinalityType
  <2>4. Cardinality(FreeUsers) # 0
    BY <2>1, <2>2, <2>3
  <2> QED
    BY <2>4, FS_EmptySet
<1> QED
  BY <1>1 DEF FreshUser

-----------------------------------------------------------------------------
(* What holds of a user, the row, its objects and the calls that save it   *)

Saves == {"uwrite", "swrite"}
LoginPlaces == {"none", "attach", "attached", "redeem", "done", "answered"}
TrialPlaces == {"none", "done", "add", "tsave", "install", "uwrite", "uwritten", "gift"}
EditPlaces == {"none", "done", "uwrite", "uwritten"}
UsersLoaded == loaded # None /\ loaded.table = "users"
Rows == [Users -> Fields \cup {None}]

\* The shape of the user side.
UserTypes ==
    /\ urow \in Rows
    /\ uheap \in [UserObjects -> Fields]
    /\ ucache \in [Users -> UserObjects \cup {None}]
    /\ uobj \in [Calls -> UserObjects \cup {None}]
    /\ kept \in [Calls -> UserObjects \cup {None}]
    /\ uimage \in [Calls -> Fields \cup {None}]
    /\ who \in [Calls -> Users \cup {None}]
    /\ UsersLoaded => loaded.rows \in Rows
    /\ planned.invited \subseteq Users

\* Where the calls can be, whose they are, and what they hold there.
UserPlaces ==
    /\ \A c \in Tokens : at[c] \in LoginPlaces
    /\ \A c \in TrialCalls : at[c] \in TrialPlaces
    /\ \A c \in EditCalls : at[c] \in EditPlaces
    /\ \A c \in QuickCalls : who[c] = None
    /\ \A c \in Calls \ QuickCalls : at[c] # "none" => who[c] \in Users
    /\ \A c \in Calls : uimage[c] # None <=> at[c] \in Saves
    /\ \A c \in Calls : uobj[c] # None <=> at[c] \in SavePlaces
    /\ \A c \in Calls : kept[c] # None => c \in StartCalls /\ at[c] \in HandPlaces \cup SavePlaces
    /\ \A c \in StartCalls : at[c] \in SavePlaces \cup {"upgrade"} => kept[c] # None

\* A login names a user before its poll goes on with it.
LoginsInv ==
    \A t \in Tokens :
        /\ login[t].status = "confirmed" => login[t].user \in Users
        /\ login[t].status \notin {"used", "deleted"} => at[t] = "none" /\ who[t] = None

\* Who is cached, worked for or read has a row; without a cached object the row
\* knows of no trial.
RowsInv ==
    /\ \A u \in Users : ucache[u] # None => urow[u] # None
    /\ \A u \in Users : ucache[u] = None /\ urow[u] # None => urow[u].trial = 0
    /\ \A c \in Calls : uobj[c] # None \/ kept[c] # None => ucache[who[c]] # None
    /\ \A c \in Calls : at[c] \in {"add", "tsave", "install"} => ucache[who[c]] # None
    /\ \A c \in Calls : at[c] \in {"registered", "attached"} => urow[who[c]] # None
    /\ UsersLoaded => \A u \in Users : loaded.rows[u] # None => urow[u] # None

\* No two users share an object.
Holds(c, o) == o # None /\ o \in {uobj[c], kept[c]}

ObjectsApart ==
    /\ \A u, v \in Users : ucache[u] # None /\ ucache[u] = ucache[v] => u = v
    /\ \A c \in Calls, u \in Users : Holds(c, ucache[u]) => who[c] = u
    /\ \A c, d \in Calls : \A o \in UserObjects : Holds(c, o) /\ Holds(d, o) => who[c] = who[d]

\* Of a user whose object nobody replaced: every holder has the cached object, it
\* says whether the user has a trial, but for a trial that is about to be noted,
\* and the row follows it but for the statement under way, if no other save met it.
Flagged(u) == ucache[u] # None /\ uheap[ucache[u]].trial = 1

RowAgrees(u) ==
    /\ \A c \in Calls : who[c] = u /\ uimage[c] # None =>
          uimage[c].trial = uheap[ucache[u]].trial
    /\ \/ \E c \in Calls : who[c] = u /\ uimage[c] # None
       \/ urow[u].trial = uheap[ucache[u]].trial

FlagInv(u) ==
    /\ \A c \in Calls : who[c] = u => \A o \in UserObjects : Holds(c, o) => o = ucache[u]
    /\ Flagged(u) => u \in given
    /\ u \in given => Flagged(u) \/ \E c \in Calls : who[c] = u /\ at[c] = "install"
    /\ u \notin late /\ ucache[u] # None => RowAgrees(u)

FlagsInv == \A u \in Users \ astray : FlagInv(u)

UserInv == UserTypes /\ UserPlaces /\ LoginsInv /\ RowsInv /\ ObjectsApart /\ FlagsInv

\* With no call the facts hold.
LEMMA InitUsers == Init => UserInv
<1> SUFFICES ASSUME Init PROVE UserInv
  OBVIOUS
<1>1. /\ urow = [u \in Users |-> None] /\ uheap = [o \in UserObjects |-> Blank]
      /\ ucache = [u \in Users |-> None] /\ at = [c \in Calls |-> "none"]
      /\ who = [c \in Calls |-> None] /\ uobj = [c \in Calls |-> None]
      /\ uimage = [c \in Calls |-> None] /\ kept = [c \in Calls |-> None]
      /\ given = {} /\ late = {} /\ astray = {}
      /\ loaded = None /\ planned \in Scenarios /\ login = [t \in Tokens |-> NoRow]
  BY DEF Init, AccountsInit, LandingInit, LoginInit
<1>2. Tokens \subseteq Calls /\ TrialCalls \subseteq Calls /\ EditCalls \subseteq Calls
      /\ QuickCalls \subseteq Calls /\ StartCalls \subseteq Calls
      /\ planned.invited \subseteq Users
  BY <1>1, VisitorConstants
<1>3. Blank \in Fields
  BY DEF Blank, Fields
<1>4. UserTypes
  BY <1>1, <1>2, <1>3 DEF UserTypes, UsersLoaded, Rows
<1>5. UserPlaces
  BY <1>1, <1>2 DEF UserPlaces, LoginPlaces, TrialPlaces, EditPlaces, Saves, SavePlaces, HandPlaces
<1>6. LoginsInv
  BY <1>1, <1>2 DEF LoginsInv, NoRow
<1>7. RowsInv
  BY <1>1 DEF RowsInv, UsersLoaded
<1>8. ObjectsApart
  BY <1>1 DEF ObjectsApart, Holds
<1>9. \A u \in Users : FlagInv(u)
  BY <1>1 DEF FlagInv, Holds, Flagged
<1> QED
  BY <1>4, <1>5, <1>6, <1>7, <1>8, <1>9 DEF UserInv, FlagsInv

-----------------------------------------------------------------------------
(* Steps that take no object and change no trial                           *)

\* The kinds of calls.
LEMMA UserCalls ==
    /\ QuickCalls \subseteq Calls /\ StartCalls \subseteq Calls /\ TrialCalls \subseteq Calls
    /\ EditCalls \subseteq Calls /\ Tokens \subseteq Calls
    /\ \A c \in QuickCalls : c \notin StartCalls \cup TrialCalls \cup EditCalls \cup Tokens
    /\ \A c \in StartCalls : c \notin TrialCalls \cup EditCalls \cup Tokens
    /\ \A c \in TrialCalls : c \notin EditCalls \cup Tokens
    /\ \A c \in EditCalls : c \notin Tokens
    /\ None \notin Users /\ None \notin UserObjects /\ None \notin Fields
  BY VisitorConstants, VisitorKeys, VisitorUsers

\* A call that is saving or holds an object has a user, and is no quick-key call.
LEMMA HoldersOwned ==
    ASSUME UserPlaces, Places, NEW c \in Calls,
           uobj[c] # None \/ kept[c] # None \/ uimage[c] # None
    PROVE  who[c] \in Users /\ c \notin QuickCalls /\ at[c] # "none"
<1>1. at[c] \in SavePlaces \cup HandPlaces /\ at[c] # "none" /\ (kept[c] # None => c \in StartCalls)
  BY DEF UserPlaces, Saves, SavePlaces, HandPlaces
<1>2. c \notin QuickCalls
  <2>1. CASE kept[c] # None
    BY <1>1, <2>1, UserCalls
  <2>2. CASE kept[c] = None
    <3>1. at[c] \in SavePlaces
      BY <2>2 DEF UserPlaces, Saves, SavePlaces
    <3> QED
      BY <3>1 DEF Places, QuickPlaces, SavePlaces
  <2> QED
    BY <2>1, <2>2
<1> QED
  BY <1>1, <1>2 DEF UserPlaces

\* A call that goes on, of the same user or of its first.
Walks(c) ==
    /\ who'[c] = who[c] \/ (who[c] = None /\ c \notin QuickCalls)
    /\ c \notin QuickCalls => who'[c] \in Users
    /\ c \in Tokens => at'[c] \in LoginPlaces
    /\ c \in TrialCalls => at'[c] \in TrialPlaces
    /\ c \in EditCalls => at'[c] \in EditPlaces
    /\ at[c] \notin SavePlaces \cup {"install"} /\ at'[c] \notin SavePlaces \cup {"upgrade"}
    /\ kept[c] # None => at'[c] \in HandPlaces
    /\ at'[c] \in {"add", "tsave", "install"} => ucache'[who'[c]] # None
    /\ at'[c] \in {"registered", "attached"} => urow'[who'[c]] # None
Still(c) == at'[c] = at[c] /\ who'[c] = who[c]
HoldsThen(c, o) == o # None /\ o \in {uobj'[c], kept'[c]}

\* The row keeps what it knows of a trial, and so does the cached object, unless
\* it is the first of its user.
RowStays(u) ==
    IF urow[u] = None THEN urow'[u] = None \/ urow'[u].trial = 0
    ELSE urow'[u] # None /\ urow'[u].trial = urow[u].trial
CacheStays(u) ==
    /\ ucache'[u] = ucache[u]
    /\ ucache[u] # None => uheap'[ucache[u]].trial = uheap[ucache[u]].trial
CacheIsNew(u) ==
    /\ ucache'[u] \in FreeUsers /\ uheap'[ucache'[u]].trial = 0 /\ urow'[u] # None
    /\ ucache[u] = None \/ u \in astray'

SmallStep ==
    /\ UNCHANGED <<uobj, uimage, kept, late>>
    /\ astray \subseteq astray' /\ given \subseteq given'
    /\ UsersLoaded' => (UsersLoaded /\ loaded' = loaded) \/ loaded'.rows = urow'
    /\ \A c \in Calls : Still(c) \/ Walks(c)
    /\ \A u \in Users : RowStays(u) /\ (CacheStays(u) \/ CacheIsNew(u))
    /\ \A u, v \in Users : ucache'[u] \in FreeUsers /\ ucache'[u] = ucache'[v] => u = v
    /\ \A u \in Users : u \in given' =>
          u \in given \/ \E c \in Calls : who'[c] = u /\ at'[c] = "install"

\* It leaves every call where it may be ...
LEMMA SmallPlaces ==
    ASSUME UserInv, KeyInv, KeyInv', UserTypes', SmallStep
    PROVE  UserPlaces'
<1>1. UserPlaces /\ Places /\ Places' /\ UserTypes
  BY DEF UserInv, KeyInv, UserTypes
<1>2. \A c \in Calls : Still(c) \/ Walks(c)
  BY DEF SmallStep
<1>3. UNCHANGED <<uobj, uimage, kept>>
  BY DEF SmallStep
<1>4. /\ \A c \in Tokens : at'[c] \in LoginPlaces
      /\ \A c \in TrialCalls : at'[c] \in TrialPlaces
      /\ \A c \in EditCalls : at'[c] \in EditPlaces
  BY <1>1, <1>2, UserCalls DEF UserPlaces, Still, Walks
<1>5. \A c \in QuickCalls : who'[c] = None
  BY <1>1, <1>2, UserCalls DEF UserPlaces, Still, Walks
<1>6. ASSUME NEW c \in Calls \ QuickCalls, at'[c] # "none" PROVE who'[c] \in Users
  <2>1. CASE Walks(c)
    BY <2>1 DEF Walks
  <2>2. CASE Still(c)
    BY <1>1, <1>6, <2>2 DEF UserPlaces, Still
  <2> QED
    BY <1>2, <2>1, <2>2
<1>7. ASSUME NEW c \in Calls
      PROVE  /\ uimage'[c] # None <=> at'[c] \in Saves
             /\ uobj'[c] # None <=> at'[c] \in SavePlaces
             /\ kept'[c] # None => c \in StartCalls /\ at'[c] \in HandPlaces \cup SavePlaces
             /\ c \in StartCalls /\ at'[c] \in SavePlaces \cup {"upgrade"} => kept'[c] # None
  <2>1. CASE Still(c)
    BY <1>1, <1>3, <2>1 DEF UserPlaces, Still
  <2>2. CASE Walks(c)
    <3>1. uobj[c] = None /\ uimage[c] = None /\ at'[c] \notin SavePlaces \cup {"upgrade"}
      BY <1>1, <2>2 DEF UserPlaces, Walks, Saves, SavePlaces
    <3> QED
      BY <1>1, <1>3, <2>2, <3>1 DEF UserPlaces, Walks, Saves, SavePlaces
  <2> QED
    BY <1>2, <2>1, <2>2
<1> QED
  BY <1>4, <1>5, <1>6, <1>7, UserCalls DEF UserPlaces

\* A call that holds something keeps its user.
LEMMA SmallHolders ==
    ASSUME UserInv, KeyInv, SmallStep, NEW c \in Calls,
           uobj[c] # None \/ kept[c] # None \/ uimage[c] # None
    PROVE  who'[c] = who[c] /\ who[c] \in Users /\ c \notin QuickCalls
<1>1. who[c] \in Users /\ c \notin QuickCalls
  BY HoldersOwned DEF UserInv, KeyInv
<1> QED
  BY <1>1, UserCalls DEF SmallStep, Still, Walks

\* ... and cached users, rows and what was read of them in step ...
LEMMA SmallRows ==
    ASSUME UserInv, KeyInv, KeyInv', UserTypes', SmallStep
    PROVE  RowsInv'
<1>1. RowsInv /\ UserPlaces /\ Places /\ UserTypes
  BY DEF UserInv, KeyInv
<1>2. /\ \A u \in Users : RowStays(u) /\ (CacheStays(u) \/ CacheIsNew(u))
      /\ UNCHANGED <<uobj, kept>>
  BY DEF SmallStep
<1>3. \A u \in Users : ucache[u] # None => ucache'[u] # None
  <2> SUFFICES ASSUME NEW u \in Users, ucache[u] # None PROVE ucache'[u] # None
    OBVIOUS
  <2>1. FreeUsers \subseteq UserObjects
    BY DEF FreeUsers
  <2> QED
    BY <1>2, <2>1, UserCalls DEF CacheStays, CacheIsNew
<1>4. \A u \in Users : urow[u] # None => urow'[u] # None
  BY <1>2 DEF RowStays
<1>5. \A u \in Users : ucache'[u] # None => urow'[u] # None
  BY <1>1, <1>2, <1>4 DEF RowsInv, CacheStays, CacheIsNew
<1>6. ASSUME NEW u \in Users, ucache'[u] = None, urow'[u] # None PROVE urow'[u].trial = 0
  <2>1. ucache[u] = None
    BY <1>3, <1>6
  <2> QED
    BY <1>1, <1>2, <1>6, <2>1 DEF RowsInv, RowStays
<1>7. ASSUME NEW c \in Calls, uobj'[c] # None \/ kept'[c] # None PROVE ucache'[who'[c]] # None
  <2>1. who'[c] = who[c] /\ who[c] \in Users
    BY <1>2, <1>7, SmallHolders
  <2> QED
    BY <1>1, <1>2, <1>3, <1>7, <2>1 DEF RowsInv
<1>8. ASSUME NEW c \in Calls
      PROVE  /\ at'[c] \in {"add", "tsave", "install"} => ucache'[who'[c]] # None
             /\ at'[c] \in {"registered", "attached"} => urow'[who'[c]] # None
  <2>1. CASE Walks(c)
    BY <2>1 DEF Walks
  <2>2. CASE Still(c)
    <3>1. CASE c \in QuickCalls
      <4>1. at'[c] \in QuickPlaces
        BY <1>1, <2>2, <3>1 DEF Places, Still
      <4> QED
        BY <4>1 DEF QuickPlaces
    <3>2. CASE c \notin QuickCalls /\ at[c] # "none"
      <4>1. who[c] \in Users
        BY <1>1, <3>2 DEF UserPlaces
      <4> QED
        BY <1>1, <1>3, <1>4, <2>2, <4>1 DEF RowsInv, Still
    <3> QED
      BY <2>2, <3>1, <3>2 DEF Still
  <2> QED
    BY <2>1, <2>2 DEF SmallStep
<1>9. UsersLoaded' => \A u \in Users : loaded'.rows[u] # None => urow'[u] # None
  BY <1>1, <1>4 DEF SmallStep, RowsInv
<1> QED
  BY <1>5, <1>6, <1>7, <1>8, <1>9 DEF RowsInv

\* ... gives no user the object of another ...
LEMMA SmallApart ==
    ASSUME UserInv, KeyInv, SmallStep
    PROVE  ObjectsApart'
<1>1. ObjectsApart /\ UserTypes
  BY DEF UserInv
<1>2. /\ \A u \in Users : CacheStays(u) \/ CacheIsNew(u)
      /\ UNCHANGED <<uobj, kept>>
      /\ \A u, v \in Users : ucache'[u] \in FreeUsers /\ ucache'[u] = ucache'[v] => u = v
  BY DEF SmallStep
<1>3. \A u \in Users : ucache'[u] = ucache[u] \/ ucache'[u] \in FreeUsers
  BY <1>2 DEF CacheStays, CacheIsNew
<1>4. \A c \in Calls, o \in FreeUsers : ~Holds(c, o)
  BY <1>1 DEF FreeUsers, HeldUsers, Holds, Range, UserTypes
<1>5. \A c, o : HoldsThen(c, o) <=> Holds(c, o)
  BY <1>2 DEF Holds, HoldsThen
<1>6. \A c \in Calls, o \in UserObjects : Holds(c, o) => who'[c] = who[c]
  BY SmallHolders DEF Holds
<1>7. \A u, v \in Users : ucache'[u] # None /\ ucache'[u] = ucache'[v] => u = v
  BY <1>1, <1>2, <1>3 DEF ObjectsApart
<1>8. ASSUME NEW c \in Calls, NEW u \in Users, HoldsThen(c, ucache'[u]) PROVE who'[c] = u
  <2>1. Holds(c, ucache'[u]) /\ ucache'[u] = ucache[u]
    BY <1>3, <1>4, <1>5, <1>8
  <2>2. ucache[u] \in UserObjects
    BY <1>1, <2>1 DEF Holds, UserTypes
  <2> QED
    BY <1>1, <1>6, <2>1, <2>2 DEF ObjectsApart
<1>9. \A c, d \in Calls : \A o \in UserObjects :
         HoldsThen(c, o) /\ HoldsThen(d, o) => who'[c] = who'[d]
  BY <1>1, <1>5, <1>6 DEF ObjectsApart
<1> QED
  BY <1>7, <1>8, <1>9 DEF ObjectsApart, Holds, HoldsThen

\* ... and tells nothing of a trial that was not there.
LEMMA SmallFlags ==
    ASSUME UserInv, KeyInv, KeyInv', UserTypes', SmallStep
    PROVE  FlagsInv'
<1> SUFFICES ASSUME NEW u \in Users, u \notin astray' PROVE FlagInv(u)'
  BY DEF FlagsInv
<1>1. UserTypes /\ UserPlaces /\ RowsInv /\ Places
  BY DEF UserInv, KeyInv
<1>2. /\ RowStays(u) /\ (CacheStays(u) \/ CacheIsNew(u))
      /\ UNCHANGED <<uobj, uimage, kept, late>>
      /\ \A c \in Calls : Still(c) \/ Walks(c)
      /\ u \in given => u \in given'
      /\ u \in given' => u \in given \/ \E c \in Calls : who'[c] = u /\ at'[c] = "install"
  BY DEF SmallStep
<1>3. \A c \in Calls : who[c] \in Users => who'[c] = who[c]
  BY <1>2, UserCalls DEF Still, Walks
<1>4. u \notin astray
  BY DEF SmallStep
<1>5. FlagInv(u)
  BY <1>4 DEF UserInv, FlagsInv
<1>6. CacheStays(u) \/ (CacheIsNew(u) /\ ucache[u] = None)
  BY <1>2 DEF CacheIsNew
<1>7. ucache[u] # None => CacheStays(u)
  BY <1>6
<1>8. Flagged(u) => Flagged(u)'
  BY <1>7 DEF Flagged, CacheStays
<1>9. Flagged(u)' => Flagged(u)
  BY <1>6, UserCalls DEF Flagged, CacheStays, CacheIsNew
<1>10. \A c \in Calls : uobj[c] # None \/ kept[c] # None \/ uimage[c] # None =>
          who'[c] = who[c]
  BY SmallHolders
<1>11. ASSUME NEW c \in Calls, who'[c] = u, NEW o \in UserObjects, Holds(c, o)'
       PROVE  o = ucache'[u]
  <2>1. Holds(c, o) /\ who[c] = u
    BY <1>2, <1>10, <1>11 DEF Holds
  <2>2. o = ucache[u]
    BY <1>5, <2>1 DEF FlagInv
  <2> QED
    BY <1>7, <2>1, <2>2 DEF CacheStays, Holds
<1>12. Flagged(u)' => u \in given'
  BY <1>2, <1>5, <1>9 DEF FlagInv
<1>13. \A c \in Calls : who[c] = u /\ at[c] = "install" => who'[c] = u /\ at'[c] = "install"
  BY <1>2 DEF Still, Walks
<1>14. u \in given' => Flagged(u)' \/ \E c \in Calls : who'[c] = u /\ at'[c] = "install"
  BY <1>2, <1>5, <1>8, <1>13 DEF FlagInv
<1>15. ASSUME u \notin late', ucache'[u] # None PROVE RowAgrees(u)'
  <2>1. CASE ucache[u] # None
    <3>1. RowAgrees(u) /\ CacheStays(u) /\ urow[u] # None
      BY <1>1, <1>2, <1>5, <1>7, <1>15, <2>1 DEF FlagInv, RowsInv
    <3>2. uheap'[ucache'[u]].trial = uheap[ucache[u]].trial /\ urow'[u].trial = urow[u].trial
      BY <1>2, <2>1, <3>1 DEF CacheStays, RowStays
    <3>3. \A c \in Calls : uimage'[c] # None => uimage'[c] = uimage[c] /\ who'[c] = who[c]
      BY <1>2, <1>10
    <3>4. \A c \in Calls : uimage[c] # None => uimage'[c] = uimage[c] /\ who'[c] = who[c]
      BY <1>2, <1>10
    <3> QED
      BY <3>1, <3>2, <3>3, <3>4 DEF RowAgrees
  <2>2. CASE ucache[u] = None
    <3>1. uheap'[ucache'[u]].trial = 0 /\ urow'[u] # None
      BY <1>6, <1>15, <2>2 DEF CacheIsNew, CacheStays
    <3>2. urow'[u].trial = 0
      BY <1>1, <1>2, <2>2, <3>1 DEF RowsInv, RowStays
    <3>3. ASSUME NEW c \in Calls, who'[c] = u, uimage'[c] # None PROVE FALSE
      <4>1. who[c] = u /\ uobj[c] # None
        BY <1>1, <1>2, <1>10, <3>3 DEF UserPlaces, Saves, SavePlaces
      <4> QED
        BY <1>1, <2>2, <4>1 DEF RowsInv
    <3> QED
      BY <3>1, <3>2, <3>3 DEF RowAgrees
  <2> QED
    BY <2>1, <2>2
<1> QED
  BY <1>11, <1>12, <1>14, <1>15 DEF FlagInv

\* Such a step keeps all of it.
LEMMA SmallKeeps ==
    ASSUME UserInv, KeyInv, KeyInv', UserTypes', LoginsInv', SmallStep
    PROVE  UserInv'
  BY SmallPlaces, SmallRows, SmallApart, SmallFlags DEF UserInv

-----------------------------------------------------------------------------
(* Steps of a call with its own user                                       *)

\* What the call c of the user u may do to others: nothing; and to its user.
OwnStep(c, u) ==
    /\ who[c] \in {None, u} /\ who'[c] = u
    /\ \A d \in Calls \ {c} :
          Still(d) /\ uobj'[d] = uobj[d] /\ uimage'[d] = uimage[d] /\ kept'[d] = kept[d]
    /\ astray \subseteq astray'
    /\ UsersLoaded' => UsersLoaded /\ loaded' = loaded
    /\ \A v \in Users \ {u} :
          /\ urow'[v] = urow[v] /\ CacheStays(v)
          /\ v \in given' <=> v \in given
          /\ v \in late' <=> v \in late
    /\ urow[u] # None => urow'[u] # None
    /\ ucache[u] # None => ucache'[u] # None
    /\ ucache[u] = None => urow'[u] = urow[u]
    /\ ucache'[u] = ucache[u] \/ Holds(c, ucache'[u])
    /\ \A o \in UserObjects : HoldsThen(c, o) => Holds(c, o) \/ o = ucache[u]
\* Where it goes, and what it holds there.
OwnPlace(c) ==
    /\ c \in TrialCalls => at'[c] \in TrialPlaces
    /\ c \in EditCalls => at'[c] \in EditPlaces
    /\ c \in Tokens => at'[c] \in LoginPlaces
    /\ at'[c] \notin {"add", "tsave", "install", "registered", "attached"}
    /\ uimage'[c] # None <=> at'[c] \in Saves
    /\ uobj'[c] # None <=> at'[c] \in SavePlaces
    /\ kept'[c] # None => c \in StartCalls /\ at'[c] \in HandPlaces \cup SavePlaces
    /\ c \in StartCalls /\ at'[c] \in SavePlaces \cup {"upgrade"} => kept'[c] # None

\* The call and the others are where they may be ...
LEMMA OwnPlaces ==
    ASSUME UserPlaces, NEW c \in Calls \ QuickCalls, NEW u \in Users,
           OwnStep(c, u), OwnPlace(c)
    PROVE  UserPlaces'
<1>1. /\ \A d \in Tokens : at'[d] \in LoginPlaces
      /\ \A d \in TrialCalls : at'[d] \in TrialPlaces
      /\ \A d \in EditCalls : at'[d] \in EditPlaces
      /\ \A d \in QuickCalls : who'[d] = None
  BY UserCalls DEF UserPlaces, OwnStep, OwnPlace, Still
<1>2. \A d \in Calls \ QuickCalls : at'[d] # "none" => who'[d] \in Users
  BY DEF UserPlaces, OwnStep, Still
<1>3. ASSUME NEW d \in Calls
      PROVE  /\ uimage'[d] # None <=> at'[d] \in Saves
             /\ uobj'[d] # None <=> at'[d] \in SavePlaces
             /\ kept'[d] # None => d \in StartCalls /\ at'[d] \in HandPlaces \cup SavePlaces
             /\ d \in StartCalls /\ at'[d] \in SavePlaces \cup {"upgrade"} => kept'[d] # None
  <2>1. CASE d = c
    BY <2>1 DEF OwnPlace
  <2>2. CASE d # c
    BY <2>2 DEF UserPlaces, OwnStep, Still
  <2> QED
    BY <2>1, <2>2
<1> QED
  BY <1>1, <1>2, <1>3, UserCalls DEF UserPlaces

\* ... whoever was cached still is, with a row ...
LEMMA OwnRows ==
    ASSUME UserInv, KeyInv, UserTypes', NEW c \in Calls \ QuickCalls, NEW u \in Users,
           OwnStep(c, u), OwnPlace(c)
    PROVE  RowsInv'
<1>1. RowsInv /\ UserPlaces /\ Places /\ UserTypes /\ ObjectsApart
  BY DEF UserInv, KeyInv
<1>2. \A v \in Users : /\ urow[v] # None => urow'[v] # None
                       /\ ucache[v] # None => ucache'[v] # None
                       /\ ucache[v] = None => urow'[v] = urow[v]
  BY DEF OwnStep, CacheStays
<1>3. ASSUME NEW v \in Users, ucache[v] = None PROVE ucache'[v] = None
  <2>1. CASE v # u
    BY <1>3, <2>1 DEF OwnStep, CacheStays
  <2>2. CASE v = u /\ ucache'[u] # ucache[u]
    <3>1. ucache'[u] # None /\ (uobj[c] # None \/ kept[c] # None)
      BY <2>2 DEF OwnStep, Holds
    <3>2. who[c] = u
      BY <1>1, <3>1, HoldersOwned, UserCalls DEF OwnStep
    <3> QED
      BY <1>1, <1>3, <2>2, <3>1, <3>2 DEF RowsInv
  <2> QED
    BY <1>3, <2>1, <2>2
<1>4. /\ \A v \in Users : ucache'[v] # None => urow'[v] # None
      /\ \A v \in Users : ucache'[v] = None /\ urow'[v] # None => urow'[v].trial = 0
  BY <1>1, <1>2, <1>3 DEF RowsInv
<1>5. ASSUME NEW d \in Calls, uobj'[d] # None \/ kept'[d] # None PROVE ucache'[who'[d]] # None
  <2>1. CASE d # c
    <3>1. who'[d] = who[d] /\ who[d] \in Users /\ ucache[who[d]] # None
      BY <1>1, <1>5, <2>1, HoldersOwned DEF OwnStep, Still, RowsInv
    <3> QED
      BY <1>2, <3>1
  <2>2. CASE d = c
    <3>1. PICK o \in UserObjects : HoldsThen(c, o)
      BY <1>5, <2>2 DEF HoldsThen, UserTypes
    <3>2. Holds(c, o) \/ o = ucache[u]
      BY <3>1 DEF OwnStep
    <3>3. Holds(c, o) => ucache[who[c]] # None /\ who[c] \in Users
      BY <1>1, HoldersOwned DEF RowsInv, Holds
    <3>4. ucache[u] # None
      BY <3>1, <3>2, <3>3, UserCalls DEF OwnStep, HoldsThen
    <3> QED
      BY <1>2, <2>2, <3>4 DEF OwnStep
  <2> QED
    BY <2>1, <2>2
<1>6. ASSUME NEW d \in Calls
      PROVE  /\ at'[d] \in {"add", "tsave", "install"} => ucache'[who'[d]] # None
             /\ at'[d] \in {"registered", "attached"} => urow'[who'[d]] # None
  <2>1. CASE d = c
    BY <2>1 DEF OwnPlace
  <2>2. CASE d # c /\ d \in QuickCalls
    <3>1. at'[d] \in QuickPlaces
      BY <1>1, <2>2 DEF Places, OwnStep, Still
    <3> QED
      BY <3>1 DEF QuickPlaces
  <2>3. CASE d # c /\ d \notin QuickCalls /\ at[d] # "none"
    <3>1. who[d] \in Users /\ at'[d] = at[d] /\ who'[d] = who[d]
      BY <1>1, <2>3 DEF UserPlaces, OwnStep, Still
    <3> QED
      BY <1>1, <1>2, <3>1 DEF RowsInv
  <2> QED
    BY <2>1, <2>2, <2>3 DEF OwnStep, Still
<1>7. UsersLoaded' => \A v \in Users : loaded'.rows[v] # None => urow'[v] # None
  BY <1>1, <1>2 DEF OwnStep, RowsInv
<1> QED
  BY <1>4, <1>5, <1>6, <1>7 DEF RowsInv

\* ... and no object is taken from another user.
LEMMA OwnApart ==
    ASSUME UserInv, KeyInv, UserTypes', NEW c \in Calls \ QuickCalls, NEW u \in Users,
           OwnStep(c, u)
    PROVE  ObjectsApart'
<1>1. ObjectsApart /\ UserPlaces /\ Places /\ UserTypes
  BY DEF UserInv, KeyInv
<1>2. \A d \in Calls : \A o : Holds(d, o) => who[d] \in Users
  BY <1>1, HoldersOwned DEF Holds
<1>3. \A o : Holds(c, o) => who[c] = u
  BY <1>2, UserCalls DEF OwnStep
<1>4. \A d \in Calls \ {c} : \A o : (HoldsThen(d, o) <=> Holds(d, o)) /\ who'[d] = who[d]
  BY DEF OwnStep, Still, Holds, HoldsThen
<1>5. \A v \in Users \ {u} : ucache'[v] = ucache[v]
  BY DEF OwnStep, CacheStays
<1>6. \A v \in Users : ucache'[v] \in UserObjects \/ ucache'[v] = None
  BY DEF UserTypes
<1>7. ucache'[u] = ucache[u] \/ Holds(c, ucache'[u])
  BY DEF OwnStep
<1>8. ASSUME NEW v \in Users, v # u, ucache'[v] # None PROVE ucache'[v] # ucache'[u]
  <2>1. ucache'[v] = ucache[v]
    BY <1>5, <1>8
  <2>2. ucache[v] # ucache[u]
    BY <1>1, <1>8, <2>1 DEF ObjectsApart
  <2>3. ~Holds(c, ucache[v])
    BY <1>1, <1>3, <1>8 DEF ObjectsApart
  <2> QED
    BY <1>7, <2>1, <2>2, <2>3
<1>9. \A v, w \in Users : ucache'[v] # None /\ ucache'[v] = ucache'[w] => v = w
  BY <1>5, <1>8, <1>1 DEF ObjectsApart
<1>10. \A o \in UserObjects : HoldsThen(c, o) => Holds(c, o) \/ o = ucache[u]
  BY DEF OwnStep
<1>11. ASSUME NEW d \in Calls, NEW v \in Users, HoldsThen(d, ucache'[v]) PROVE who'[d] = v
  <2>0. ucache'[v] \in UserObjects
    BY <1>6, <1>11 DEF HoldsThen
  <2>1. CASE d = c
    <3>1. who'[c] = u
      BY DEF OwnStep
    <3>2. CASE v # u
      <4>1. ucache'[v] = ucache[v] /\ ucache[v] # None
        BY <1>5, <1>6, <2>0, <3>2, UserCalls
      <4>2. Holds(c, ucache[v]) => v = u
        BY <1>1, <1>3 DEF ObjectsApart
      <4>3. ucache[v] = ucache[u] => v = u
        BY <1>1, <4>1 DEF ObjectsApart
      <4> QED
        BY <1>10, <1>11, <2>0, <2>1, <3>2, <4>1, <4>2, <4>3
    <3> QED
      BY <2>1, <3>1, <3>2
  <2>2. CASE d # c
    <3>1. Holds(d, ucache'[v]) /\ who'[d] = who[d]
      BY <1>4, <1>11, <2>2
    <3>2. CASE ucache'[v] = ucache[v]
      BY <1>1, <3>1, <3>2 DEF ObjectsApart
    <3>3. CASE v = u /\ Holds(c, ucache'[u])
      <4>1. who[d] = who[c]
        BY <1>1, <2>0, <3>1, <3>3 DEF ObjectsApart
      <4> QED
        BY <1>3, <3>1, <3>3, <4>1
    <3> QED
      BY <1>5, <1>7, <3>2, <3>3
  <2> QED
    BY <2>1, <2>2
<1>12. ASSUME NEW d \in Calls, d # c, NEW o \in UserObjects, HoldsThen(c, o), HoldsThen(d, o)
       PROVE  who'[d] = u
  <2>1. Holds(d, o) /\ who'[d] = who[d]
    BY <1>4, <1>12
  <2>2. CASE Holds(c, o)
    BY <1>1, <1>3, <2>1, <2>2 DEF ObjectsApart
  <2>3. CASE o = ucache[u]
    BY <1>1, <2>1, <2>3 DEF ObjectsApart
  <2> QED
    BY <1>10, <1>12, <2>2, <2>3
<1>13. ASSUME NEW d \in Calls, NEW e \in Calls, NEW o \in UserObjects,
              HoldsThen(d, o), HoldsThen(e, o)
       PROVE  who'[d] = who'[e]
  <2>1. CASE d # c /\ e # c
    BY <1>1, <1>4, <1>13, <2>1 DEF ObjectsApart
  <2>2. who'[c] = u
    BY DEF OwnStep
  <2> QED
    BY <1>12, <1>13, <2>1, <2>2
<1> QED
  BY <1>9, <1>11, <1>13 DEF ObjectsApart, Holds, HoldsThen

\* Other users see nothing of it.
LEMMA OthersFlags ==
    ASSUME UserInv, KeyInv, NEW c \in Calls \ QuickCalls, NEW u \in Users, OwnStep(c, u),
           NEW v \in Users, v # u, v \notin astray'
    PROVE  FlagInv(v)'
<1>1. UserTypes /\ UserPlaces /\ RowsInv
  BY DEF UserInv
<1>2. v \notin astray
  BY DEF OwnStep
<1>3. FlagInv(v)
  BY <1>2 DEF UserInv, FlagsInv
<1>4. \A d \in Calls : (who'[d] = v <=> who[d] = v) /\ (who[d] = v => d # c)
  BY UserCalls DEF OwnStep, Still
<1>5. \A d \in Calls \ {c} : /\ Still(d) /\ uobj'[d] = uobj[d] /\ uimage'[d] = uimage[d]
                             /\ kept'[d] = kept[d]
  BY DEF OwnStep
<1>6. /\ urow'[v] = urow[v] /\ ucache'[v] = ucache[v]
      /\ ucache[v] # None => uheap'[ucache[v]].trial = uheap[ucache[v]].trial
      /\ (v \in given' <=> v \in given) /\ (v \in late' <=> v \in late)
  BY DEF OwnStep, CacheStays
<1>7. Flagged(v)' <=> Flagged(v)
  BY <1>6 DEF Flagged
<1>8. \A d \in Calls : who'[d] = v => \A o \in UserObjects : Holds(d, o)' => o = ucache'[v]
  BY <1>3, <1>4, <1>5, <1>6 DEF FlagInv, Holds
<1>9. v \in given' => Flagged(v)' \/ \E d \in Calls : who'[d] = v /\ at'[d] = "install"
  BY <1>3, <1>4, <1>5, <1>6, <1>7 DEF FlagInv, Still
<1>10. v \notin late' /\ ucache'[v] # None => RowAgrees(v)'
  BY <1>3, <1>4, <1>5, <1>6 DEF FlagInv, RowAgrees
<1> QED
  BY <1>3, <1>6, <1>7, <1>8, <1>9, <1>10 DEF FlagInv

\* So there is left what the step does to its own user.
LEMMA OwnKeeps ==
    ASSUME UserInv, KeyInv, UserTypes', LoginsInv', NEW c \in Calls \ QuickCalls,
           NEW u \in Users, OwnStep(c, u), OwnPlace(c),
           u \notin astray' => FlagInv(u)'
    PROVE  UserInv'
<1>1. UserPlaces' /\ RowsInv' /\ ObjectsApart'
  BY OwnPlaces, OwnRows, OwnApart DEF UserInv
<1>2. FlagsInv'
  BY OthersFlags DEF FlagsInv
<1> QED
  BY <1>1, <1>2 DEF UserInv

-----------------------------------------------------------------------------
(* Saving a row, in its three steps                                        *)

\* A row is taken from the object.
LEMMA SaveKeepsUsers ==
    ASSUME UserInv, KeyInv, LoginsInv',
           NEW c \in Calls \ (QuickCalls \cup Tokens), NEW u \in Users, NEW o \in UserObjects,
           NEW new \in Fields, NEW place \in Saves, SaveUser(c, o, new, place),
           who[c] \in {None, u}, who' = [who EXCEPT ![c] = u],
           o = ucache[u] \/ Holds(c, o), ucache[u] # None, uimage[c] = None,
           ucache' = ucache \/ (uobj[c] # None /\ ucache' = [ucache EXCEPT ![u] = uobj[c]]),
           UNCHANGED <<urow, kept, loaded, planned>>,
           c \in TrialCalls \cup EditCalls => place = "uwrite",
           c \in StartCalls => kept[c] # None,
           \A v \in Users \ {u} : v \in given' <=> v \in given,
           \/ new.trial = 1 /\ u \in given'
           \/ new.trial = 0 /\ u \notin given'
           \/ new.trial = uheap[o].trial /\ at[c] # "install" /\ (u \in given' <=> u \in given)
    PROVE  UserInv'
<1>1. UserTypes /\ UserPlaces /\ RowsInv /\ ObjectsApart /\ Places
  BY DEF UserInv, KeyInv
<1>2. /\ uheap' = [uheap EXCEPT ![o] = new] /\ uobj' = [uobj EXCEPT ![c] = o]
      /\ uimage' = [uimage EXCEPT ![c] = new] /\ at' = [at EXCEPT ![c] = place]
      /\ late' = IF \E d \in Calls : who[d] = who'[c] /\ uimage[d] # None
                 THEN late \cup {who'[c]} ELSE late \ {who'[c]}
      /\ astray' = astray
  BY DEF SaveUser, Goto
<1>3. who'[c] = u
  BY <1>1 DEF UserTypes
<1>4. \A v \in Users \ {u} : v \in late' <=> v \in late
  BY <1>2, <1>3
<1>5. u \notin late' => \A d \in Calls : who[d] = u => uimage[d] = None
  BY <1>2, <1>3
<1>6. \A d \in Calls \ {c} : Still(d) /\ uobj'[d] = uobj[d] /\ uimage'[d] = uimage[d]
  BY <1>1, <1>2 DEF UserTypes, KeyInv, KeyTypes, Still
<1>7. /\ at'[c] = place /\ uobj'[c] = o /\ uimage'[c] = new /\ uheap'[o] = new
      /\ \A x \in UserObjects \ {o} : uheap'[x] = uheap[x]
      /\ o # None /\ new # None
  BY <1>1, <1>2, UserCalls DEF UserTypes, KeyInv, KeyTypes
<1>8. \A x : Holds(c, x) => who[c] = u
  <2> SUFFICES ASSUME NEW x, Holds(c, x) PROVE who[c] = u
    OBVIOUS
  <2>1. who[c] \in Users
    BY <1>1, HoldersOwned DEF Holds
  <2> QED
    BY <2>1, UserCalls
<1>9. UserTypes'
  <2>1. uheap' \in [UserObjects -> Fields] /\ uobj' \in [Calls -> UserObjects \cup {None}]
        /\ uimage' \in [Calls -> Fields \cup {None}] /\ who' \in [Calls -> Users \cup {None}]
    BY <1>1, <1>2 DEF UserTypes
  <2>2. ucache' \in [Users -> UserObjects \cup {None}]
    BY <1>1 DEF UserTypes
  <2> QED
    BY <1>1, <2>1, <2>2 DEF UserTypes, UsersLoaded
<1>10. \A v \in Users \ {u} : ucache'[v] = ucache[v] /\ ucache[v] # o
  <2>1. \A v \in Users \ {u} : ucache'[v] = ucache[v]
    BY <1>1 DEF UserTypes
  <2>2. ASSUME NEW v \in Users \ {u} PROVE ucache[v] # o
    <3>1. ucache[u] # ucache[v] \/ ucache[v] = None
      BY <1>1 DEF ObjectsApart
    <3>2. Holds(c, ucache[v]) => v = u
      BY <1>1, <1>8 DEF ObjectsApart
    <3> QED
      BY <1>7, <3>1, <3>2
  <2> QED
    BY <2>1, <2>2
<1>11. \A v \in Users \ {u} : CacheStays(v)
  BY <1>1, <1>7, <1>10 DEF CacheStays, UserTypes
<1>12. ucache'[u] = ucache[u] \/ (ucache'[u] = uobj[c] /\ Holds(c, uobj[c]))
  BY <1>1 DEF UserTypes, Holds
<1>13. urow[u] # None /\ ucache'[u] # None
  BY <1>1, <1>12 DEF RowsInv, Holds
<1>14. OwnStep(c, u)
  <2>1. \A x \in UserObjects : HoldsThen(c, x) => Holds(c, x) \/ x = ucache[u]
    BY <1>7 DEF HoldsThen, Holds
  <2> QED
    BY <1>2, <1>3, <1>4, <1>6, <1>11, <1>12, <1>13, <2>1 DEF OwnStep, UsersLoaded
<1>15. OwnPlace(c)
  <2>1. c \notin StartCalls => kept[c] = None
    BY <1>1 DEF UserPlaces
  <2> QED
    BY <1>7, <2>1, UserCalls
       DEF OwnPlace, Saves, SavePlaces, TrialPlaces, EditPlaces, HandPlaces, LoginPlaces
<1>16. ASSUME u \notin astray' PROVE FlagInv(u)'
  <2>1. FlagInv(u)
    BY <1>2, <1>16 DEF UserInv, FlagsInv
  <2>2. \A d \in Calls : who'[d] = u => d = c \/ who[d] = u
    BY <1>6 DEF Still
  <2>3. \A x \in UserObjects : Holds(c, x) => x = ucache[u]
    BY <1>8, <2>1 DEF FlagInv
  <2>4. o = ucache[u] /\ ucache'[u] = o
    BY <1>1, <1>12, <2>3 DEF Holds, UserTypes
  <2>5. Flagged(u)' <=> new.trial = 1
    BY <1>7, <2>4 DEF Flagged
  <2>6. ASSUME NEW d \in Calls, who'[d] = u
        PROVE  \A x \in UserObjects : Holds(d, x)' => x = ucache'[u]
    <3>1. CASE d = c
      BY <1>7, <2>3, <2>4, <3>1 DEF Holds
    <3>2. CASE d # c
      BY <1>6, <2>1, <2>2, <2>4, <2>6, <3>2 DEF FlagInv, Holds
    <3> QED
      BY <3>1, <3>2
  <2>7. Flagged(u)' => u \in given'
    BY <2>1, <2>4, <2>5 DEF FlagInv, Flagged
  <2>8. ASSUME u \in given'
        PROVE  Flagged(u)' \/ \E d \in Calls : who'[d] = u /\ at'[d] = "install"
    <3>1. CASE new.trial = 1
      BY <2>5, <3>1
    <3>2. CASE new.trial = uheap[o].trial /\ at[c] # "install" /\ u \in given
      <4>1. Flagged(u) => Flagged(u)'
        BY <2>4, <2>5, <3>2 DEF Flagged
      <4>2. \A d \in Calls : who[d] = u /\ at[d] = "install" =>
               who'[d] = u /\ at'[d] = "install"
        BY <1>6, <3>2 DEF Still
      <4> QED
        BY <2>1, <3>2, <4>1, <4>2 DEF FlagInv
    <3> QED
      BY <2>8, <3>1, <3>2
  <2>9. ASSUME u \notin late' PROVE RowAgrees(u)'
    <3>1. \A d \in Calls : who'[d] = u /\ uimage'[d] # None => d = c
      BY <1>5, <1>6, <2>2, <2>9
    <3>2. uimage'[c].trial = uheap'[ucache'[u]].trial /\ who'[c] = u /\ uimage'[c] # None
      BY <1>3, <1>7, <2>4
    <3> QED
      BY <3>1, <3>2 DEF RowAgrees
  <2> QED
    BY <2>6, <2>7, <2>8, <2>9 DEF FlagInv
<1> QED
  BY <1>9, <1>14, <1>15, <1>16, OwnKeeps

\* It is written.
LEMMA WriteKeepsUsers ==
    ASSUME UserInv, KeyInv, KeyInv', LoginsInv', NEW c \in Calls, SaveStep(c)
    PROVE  UserInv'
<1>0. PICK u : u = who[c]
  OBVIOUS
<1>1. UserTypes /\ UserPlaces /\ RowsInv /\ ObjectsApart /\ Places
  BY <1>0 DEF UserInv, KeyInv
<1>2. PICK to \in {"uwritten", "swritten"} :
        /\ at' = [at EXCEPT ![c] = to]
        /\ \/ at[c] = "uwrite" /\ to = "uwritten"
           \/ at[c] = "swrite" /\ to = "swritten"
  BY <1>0 DEF SaveStep, WriteUser, Goto
<1>3. /\ urow' = [urow EXCEPT ![u] = uimage[c]] /\ uimage' = [uimage EXCEPT ![c] = None]
      /\ UNCHANGED <<uheap, ucache, who, uobj, kept, given, late, astray, loaded, planned>>
  BY <1>0 DEF SaveStep, WriteUser, history, Same, outside
<1>4. uimage[c] # None /\ u \in Users /\ c \notin QuickCalls /\ uobj[c] # None
  <2>1. uimage[c] # None /\ uobj[c] # None
    BY <1>0, <1>1, <1>2 DEF UserPlaces, Saves, SavePlaces
  <2> QED
    BY <1>0, <1>1, <2>1, HoldersOwned
<1>5. uimage[c] \in Fields /\ ucache[u] # None /\ urow[u] # None /\ at[c] \in SavePlaces
  BY <1>0, <1>1, <1>2, <1>4 DEF UserTypes, RowsInv, SavePlaces
<1>6. /\ at'[c] = to /\ urow'[u] = uimage[c] /\ uimage'[c] = None
      /\ \A v \in Users \ {u} : urow'[v] = urow[v]
      /\ \A d \in Calls \ {c} : Still(d) /\ uimage'[d] = uimage[d]
  <2>1. at'[c] = to /\ uimage'[c] = None /\ urow'[u] = uimage[c]
    BY <1>0, <1>1, <1>2, <1>3, <1>4 DEF UserTypes, Rows, KeyInv, KeyTypes
  <2>2. \A v \in Users \ {u} : urow'[v] = urow[v]
    BY <1>0, <1>1, <1>3 DEF UserTypes, Rows
  <2>3. \A d \in Calls \ {c} : Still(d) /\ uimage'[d] = uimage[d]
    BY <1>1, <1>2, <1>3 DEF UserTypes, KeyInv, KeyTypes, Still
  <2> QED
    BY <2>1, <2>2, <2>3
<1>7. UserTypes'
  <2>1. urow' \in Rows /\ uimage' \in [Calls -> Fields \cup {None}]
    BY <1>0, <1>1, <1>3, <1>5 DEF UserTypes, Rows
  <2> QED
    BY <1>0, <1>1, <1>3, <2>1 DEF UserTypes, UsersLoaded
<1>8. OwnStep(c, u)
  BY <1>0, <1>3, <1>4, <1>5, <1>6, UserCalls
     DEF OwnStep, UsersLoaded, CacheStays, Holds, HoldsThen
<1>9. OwnPlace(c)
  <2>1. c \in Tokens => at[c] \in LoginPlaces
    BY <1>0, <1>1 DEF UserPlaces
  <2>2. c \notin Tokens
    BY <1>0, <1>2, <2>1 DEF LoginPlaces
  <2>3. c \in TrialCalls \cup EditCalls => to = "uwritten"
    BY <1>0, <1>1, <1>2 DEF UserPlaces, TrialPlaces, EditPlaces
  <2>4. c \in StartCalls => kept'[c] # None
    BY <1>0, <1>1, <1>3, <1>5 DEF UserPlaces
  <2>5. kept'[c] # None => c \in StartCalls
    BY <1>0, <1>1, <1>3 DEF UserPlaces
  <2> QED
    BY <1>0, <1>3, <1>4, <1>6, <2>2, <2>3, <2>4, <2>5
       DEF OwnPlace, Saves, SavePlaces, TrialPlaces, EditPlaces
<1>10. ASSUME u \notin astray' PROVE FlagInv(u)'
  <2>1. FlagInv(u)
    BY <1>3, <1>4, <1>10 DEF UserInv, FlagsInv
  <2>2. Flagged(u)' <=> Flagged(u)
    BY <1>3 DEF Flagged
  <2>3. \A d \in Calls : who'[d] = u => \A x \in UserObjects : Holds(d, x)' => x = ucache'[u]
    BY <1>3, <2>1 DEF FlagInv, Holds
  <2>4. \A d \in Calls : at[d] = "install" => at'[d] = "install"
    BY <1>2, <1>6 DEF Still
  <2>5. ASSUME u \notin late' PROVE RowAgrees(u)'
    <3>1. RowAgrees(u)
      BY <1>3, <1>5, <2>1, <2>5 DEF FlagInv
    <3>2. urow'[u].trial = uheap'[ucache'[u]].trial
      BY <1>0, <1>3, <1>4, <1>6, <3>1 DEF RowAgrees
    <3>3. \A d \in Calls : uimage'[d] # None => uimage'[d] = uimage[d]
      BY <1>6
    <3> QED
      BY <1>3, <3>1, <3>2, <3>3 DEF RowAgrees
  <2> QED
    BY <1>3, <2>1, <2>2, <2>3, <2>4, <2>5 DEF FlagInv
<1> QED
  BY <1>0, <1>4, <1>7, <1>8, <1>9, <1>10, OwnKeeps

\* The object is the cached one, and the call lets go of it.
LEMMA ReleaseKeepsUsers ==
    ASSUME UserInv, KeyInv, LoginsInv', NEW c \in StartCalls \cup TrialCalls \cup EditCalls,
           at[c] \in {"uwritten", "swritten"}, Recached(c), NEW place, Goto(c, place),
           uobj' = [uobj EXCEPT ![c] = None], kept' = [kept EXCEPT ![c] = None],
           UNCHANGED <<urow, uheap, uimage, who, given, late, astray, loaded, planned>>,
           \/ c \in StartCalls /\ place = "attach"
           \/ c \in TrialCalls /\ place \in {"gift", "done"}
           \/ c \in EditCalls /\ place = "done"
    PROVE  UserInv'
<1>0. PICK u : u = who[c]
  OBVIOUS
<1>1. UserTypes /\ UserPlaces /\ RowsInv /\ ObjectsApart /\ Places
  BY <1>0 DEF UserInv, KeyInv
<1>2. c \in Calls /\ c \notin QuickCalls /\ c \notin Tokens
  BY <1>0, UserCalls
<1>3. uobj[c] # None /\ uimage[c] = None /\ at[c] \in SavePlaces
  BY <1>0, <1>1, <1>2 DEF UserPlaces, Saves, SavePlaces
<1>4. u \in Users /\ ucache[u] # None /\ urow[u] # None
  BY <1>0, <1>1, <1>2, <1>3, HoldersOwned DEF RowsInv
<1>5. /\ at'[c] = place /\ uobj'[c] = None /\ kept'[c] = None /\ ucache'[u] = uobj[c]
      /\ \A v \in Users \ {u} : ucache'[v] = ucache[v]
      /\ \A d \in Calls \ {c} : Still(d) /\ uobj'[d] = uobj[d] /\ kept'[d] = kept[d]
  BY <1>0, <1>1, <1>2, <1>4 DEF UserTypes, KeyInv, KeyTypes, Still, Goto, Recached
<1>6. UserTypes'
  <2>1. /\ uobj' \in [Calls -> UserObjects \cup {None}]
        /\ kept' \in [Calls -> UserObjects \cup {None}]
        /\ ucache' \in [Users -> UserObjects \cup {None}]
    BY <1>0, <1>1, <1>2, <1>4 DEF UserTypes, Recached
  <2> QED
    BY <1>0, <1>1, <2>1 DEF UserTypes, UsersLoaded
<1>7. OwnStep(c, u)
  BY <1>0, <1>1, <1>3, <1>4, <1>5, UserCalls
     DEF OwnStep, UsersLoaded, CacheStays, Holds, HoldsThen
<1>8. OwnPlace(c)
  BY <1>0, <1>2, <1>3, <1>5, UserCalls
     DEF OwnPlace, Saves, SavePlaces, TrialPlaces, EditPlaces, LoginPlaces
<1>9. ASSUME u \notin astray' PROVE FlagInv(u)'
  <2>1. FlagInv(u)
    BY <1>4, <1>9 DEF UserInv, FlagsInv
  <2>2. ucache'[u] = ucache[u]
    <3>1. uobj[c] \in UserObjects
      BY <1>1, <1>2, <1>3 DEF UserTypes
    <3> QED
      BY <1>0, <1>2, <1>3, <1>5, <2>1, <3>1 DEF FlagInv, Holds
  <2>3. (Flagged(u)' <=> Flagged(u)) /\ (RowAgrees(u)' <=> RowAgrees(u))
    BY <2>2 DEF Flagged, RowAgrees
  <2>4. \A d \in Calls : \A x \in UserObjects : Holds(d, x)' => Holds(d, x)
    BY <1>5 DEF Holds
  <2>5. \A d \in Calls : at[d] = "install" => at'[d] = "install"
    BY <1>5 DEF Still
  <2> QED
    BY <2>1, <2>2, <2>3, <2>4, <2>5 DEF FlagInv
<1> QED
  BY <1>0, <1>2, <1>4, <1>6, <1>7, <1>8, <1>9, OwnKeeps

-----------------------------------------------------------------------------
(* The object of a claim, and what fails                                   *)

\* A claim remembers the object of its user.
LEMMA ClaimKeepsUsers ==
    ASSUME UserInv, KeyInv, LoginsInv', NEW c \in StartCalls, Claim(c), Same
    PROVE  UserInv'
<1>0. PICK u : u = who[c]
  OBVIOUS
<1>1. UserTypes /\ UserPlaces /\ RowsInv /\ ObjectsApart /\ Places
  BY <1>0 DEF UserInv, KeyInv
<1>2. c \in Calls /\ c \notin QuickCalls /\ c \notin Tokens
  BY <1>0, UserCalls
<1>3. /\ at[c] = "claim" /\ ucache[u] # None
      /\ kept' = [kept EXCEPT ![c] = ucache[u]] /\ at' = [at EXCEPT ![c] = "upgrade"]
      /\ UNCHANGED <<urow, uheap, ucache, who, uobj, uimage, given, late, astray, loaded,
                     planned>>
  BY <1>0 DEF Claim, Open, Goto, history, Same, outside, userVars
<1>4. u \in Users /\ urow[u] # None
  BY <1>0, <1>1, <1>2, <1>3 DEF UserPlaces, RowsInv
<1>5. uobj[c] = None /\ uimage[c] = None
  BY <1>0, <1>1, <1>2, <1>3 DEF UserPlaces, Saves, SavePlaces
<1>6. /\ at'[c] = "upgrade" /\ kept'[c] = ucache[u]
      /\ \A d \in Calls \ {c} : Still(d) /\ kept'[d] = kept[d]
  BY <1>0, <1>1, <1>2, <1>3 DEF UserTypes, KeyInv, KeyTypes, Still
<1>7. UserTypes'
  <2>1. kept' \in [Calls -> UserObjects \cup {None}]
    BY <1>0, <1>1, <1>3, <1>4 DEF UserTypes
  <2> QED
    BY <1>0, <1>1, <1>3, <2>1 DEF UserTypes, UsersLoaded
<1>8. OwnStep(c, u)
  BY <1>0, <1>3, <1>4, <1>5, <1>6, UserCalls
     DEF OwnStep, UsersLoaded, CacheStays, Holds, HoldsThen
<1>9. OwnPlace(c)
  BY <1>0, <1>2, <1>3, <1>5, <1>6, UserCalls DEF OwnPlace, Saves, SavePlaces, HandPlaces
<1>10. ASSUME u \notin astray' PROVE FlagInv(u)'
  <2>1. FlagInv(u)
    BY <1>3, <1>4, <1>10 DEF UserInv, FlagsInv
  <2>2. (Flagged(u)' <=> Flagged(u)) /\ (RowAgrees(u)' <=> RowAgrees(u))
    BY <1>3 DEF Flagged, RowAgrees
  <2>3. \A d \in Calls : \A x \in UserObjects : Holds(d, x)' => Holds(d, x) \/ x = ucache[u]
    BY <1>3, <1>6 DEF Holds
  <2>4. \A d \in Calls : at[d] = "install" => at'[d] = "install"
    BY <1>3, <1>6 DEF Still
  <2> QED
    BY <1>3, <2>1, <2>2, <2>3, <2>4 DEF FlagInv
<1> QED
  BY <1>0, <1>2, <1>4, <1>7, <1>8, <1>9, <1>10, OwnKeeps

\* A request that fails holds nothing any more, and what it had to write is late.
LEMMA DropKeepsUsers ==
    ASSUME UserInv, KeyInv, LoginsInv', NEW c \in Calls \ QuickCalls, NEW place,
           at[c] \notin {"none", "install"}, Goto(c, place),
           late' = (IF uimage[c] = None THEN late ELSE late \cup {who[c]}),
           uobj' = [uobj EXCEPT ![c] = None], kept' = [kept EXCEPT ![c] = None],
           uimage' = [uimage EXCEPT ![c] = None],
           UNCHANGED <<urow, uheap, ucache, who, given, astray, loaded, planned>>,
           place = (IF c \in StartCalls \cup TrialCalls THEN "none" ELSE "done")
    PROVE  UserInv'
<1>0. PICK u : u = who[c]
  OBVIOUS
<1>1. UserTypes /\ UserPlaces /\ RowsInv /\ ObjectsApart /\ Places
  BY <1>0 DEF UserInv, KeyInv
<1>2. u \in Users
  BY <1>0, <1>1 DEF UserPlaces
<1>3. /\ at'[c] = place /\ uobj'[c] = None /\ kept'[c] = None /\ uimage'[c] = None
      /\ \A d \in Calls \ {c} :
            Still(d) /\ uobj'[d] = uobj[d] /\ kept'[d] = kept[d] /\ uimage'[d] = uimage[d]
  BY <1>0, <1>1 DEF UserTypes, KeyInv, KeyTypes, Still, Goto
<1>4. UserTypes'
  <2>1. /\ uobj' \in [Calls -> UserObjects \cup {None}]
        /\ kept' \in [Calls -> UserObjects \cup {None}]
        /\ uimage' \in [Calls -> Fields \cup {None}]
    BY <1>0, <1>1 DEF UserTypes
  <2> QED
    BY <1>0, <1>1, <2>1 DEF UserTypes, UsersLoaded
<1>5. OwnStep(c, u)
  BY <1>0, <1>2, <1>3, UserCalls DEF OwnStep, UsersLoaded, CacheStays, Holds, HoldsThen
<1>6. OwnPlace(c)
  BY <1>0, <1>3, UserCalls DEF OwnPlace, Saves, SavePlaces, TrialPlaces, EditPlaces, LoginPlaces
<1>7. ASSUME u \notin astray' PROVE FlagInv(u)'
  <2>1. FlagInv(u)
    BY <1>2, <1>7 DEF UserInv, FlagsInv
  <2>2. Flagged(u)' <=> Flagged(u)
    BY DEF Flagged
  <2>3. \A d \in Calls : \A x \in UserObjects : Holds(d, x)' => Holds(d, x)
    BY <1>3 DEF Holds
  <2>4. \A d \in Calls : at[d] = "install" => at'[d] = "install"
    BY <1>3 DEF Still
  <2>5. ASSUME u \notin late', ucache'[u] # None PROVE RowAgrees(u)'
    <3>1. uimage[c] = None /\ u \notin late
      BY <1>0, <2>5
    <3>2. \A d \in Calls : uimage'[d] = uimage[d]
      BY <1>3, <3>1
    <3> QED
      BY <2>1, <2>5, <3>1, <3>2 DEF FlagInv, RowAgrees
  <2> QED
    BY <2>1, <2>2, <2>3, <2>4, <2>5 DEF FlagInv
<1> QED
  BY <1>0, <1>2, <1>4, <1>5, <1>6, <1>7, OwnKeeps

-----------------------------------------------------------------------------
(* One call moves                                                          *)

\* A token that nobody has polled stays at rest.
LEMMA LoginsStay ==
    ASSUME LoginsInv, UNCHANGED login, \A t \in Tokens : Still(t) \/ at[t] # "none"
    PROVE  LoginsInv'
  BY DEF LoginsInv, Still

\* The others stay where they are.
LEMMA OneMoves ==
    ASSUME KeyInv, NEW c \in Calls, NEW p, NEW w, Moves(c, p, w)
    PROVE  at'[c] = p /\ who'[c] = w /\ \A d \in Calls \ {c} : Still(d)
  BY DEF KeyInv, KeyTypes, Moves, Still

\* ... so the logins do.
LEMMA LoginsAreLeft ==
    ASSUME LoginsInv, KeyInv, UNCHANGED login, NEW c \in Calls, NEW p, NEW w, Moves(c, p, w),
           c \notin Tokens \/ at[c] # "none"
    PROVE  LoginsInv'
<1>1. \A t \in Tokens : Still(t) \/ at[t] # "none"
  BY OneMoves, UserCalls
<1> QED
  BY <1>1, LoginsStay

\* A step that changes the tables and the cache as a small step may.
RowsAndCache ==
    /\ urow' \in Rows /\ uheap' \in [UserObjects -> Fields]
    /\ ucache' \in [Users -> UserObjects \cup {None}]
    /\ \A v \in Users : RowStays(v) /\ (CacheStays(v) \/ CacheIsNew(v))
    /\ \A v, x \in Users : ucache'[v] \in FreeUsers /\ ucache'[v] = ucache'[x] => v = x

\* It does so when it leaves them alone.
LEMMA SameRowsAndCache ==
    ASSUME UserTypes, UNCHANGED <<urow, uheap, ucache>>
    PROVE  RowsAndCache
<1>1. \A v \in Users : ucache[v] \notin FreeUsers
  BY DEF FreeUsers, Range, UserTypes
<1> QED
  BY <1>1 DEF RowsAndCache, UserTypes, RowStays, CacheStays

\* A call that goes on by a small step.
LEMMA MovesKeep ==
    ASSUME UserInv, KeyInv, KeyInv', LoginsInv', NEW c \in Calls, NEW p,
           NEW w \in Users \cup {None}, Moves(c, p, w), Walks(c), RowsAndCache,
           UNCHANGED <<uobj, uimage, kept, late, loaded, planned>>, astray \subseteq astray',
           given' = IF p = "install" THEN given \cup {w} ELSE given
    PROVE  UserInv'
<1>1. UserTypes
  BY DEF UserInv
<1>2. at'[c] = p /\ who'[c] = w /\ \A d \in Calls \ {c} : Still(d)
  BY OneMoves
<1>3. who' \in [Calls -> Users \cup {None}]
  BY <1>1 DEF UserTypes, Moves
<1>4. UserTypes'
  BY <1>1, <1>3 DEF UserTypes, RowsAndCache, UsersLoaded
<1>5. SmallStep
  BY <1>2 DEF SmallStep, RowsAndCache, UsersLoaded
<1> QED
  BY <1>4, <1>5, SmallKeeps

\* A call that goes on, and nothing else of a user changes.
LEMMA PlainKeeps ==
    ASSUME UserInv, KeyInv, KeyInv', NEW c \in Calls, NEW p, NEW w \in Users \cup {None},
           Moves(c, p, w), Walks(c), p # "install", c \notin Tokens \/ at[c] # "none",
           UNCHANGED <<urow, uheap, ucache, uobj, uimage, kept, given, late, astray,
                       loaded, planned, login>>
    PROVE  UserInv'
<1>1. UserTypes /\ LoginsInv
  BY DEF UserInv
<1>2. RowsAndCache /\ LoginsInv'
  BY <1>1, SameRowsAndCache, LoginsAreLeft
<1> QED
  BY <1>2, MovesKeep

\* A step that moves no call.
LEMMA StandKeeps ==
    ASSUME UserInv, KeyInv, KeyInv', LoginsInv', RowsAndCache, UNCHANGED <<at, who>>,
           UNCHANGED <<uobj, uimage, kept, given, late, planned>>, astray \subseteq astray',
           UsersLoaded' => (UsersLoaded /\ loaded' = loaded) \/ loaded'.rows = urow'
    PROVE  UserInv'
<1>1. UserTypes
  BY DEF UserInv
<1>2. UserTypes'
  BY <1>1 DEF UserTypes, RowsAndCache
<1>3. SmallStep
  BY DEF SmallStep, RowsAndCache, Still
<1> QED
  BY <1>2, <1>3, SmallKeeps

\* A user whom the cache does not know is read into a free object.
LEMMA LookUpKeeps ==
    ASSUME UserInv, NEW u \in Users, LookUp(u), UNCHANGED urow
    PROVE  RowsAndCache
<1>1. UserTypes /\ RowsInv
  BY DEF UserInv
<1>2. CASE UNCHANGED <<uheap, ucache>>
  BY <1>1, <1>2, SameRowsAndCache
<1>3. CASE /\ ucache[u] = None /\ urow[u] # None
           /\ uheap' = [uheap EXCEPT ![FreshUser] = urow[u]]
           /\ ucache' = [ucache EXCEPT ![u] = FreshUser]
  <2>1. FreshUser \in FreeUsers
    BY <1>1, FreshUserIsFree DEF UserTypes
  <2>2. PICK o : o = FreshUser
    OBVIOUS
  <2>3. o \in UserObjects /\ \A v \in Users : ucache[v] # o
    BY <1>1, <2>1, <2>2 DEF FreeUsers, Range, UserTypes
  <2>4. urow[u] \in Fields /\ urow[u].trial = 0
    BY <1>1, <1>3 DEF UserTypes, Rows, RowsInv
  <2>5. /\ ucache'[u] = o /\ uheap'[o] = urow[u]
        /\ \A v \in Users \ {u} : ucache'[v] = ucache[v]
        /\ \A x \in UserObjects \ {o} : uheap'[x] = uheap[x]
        /\ uheap' \in [UserObjects -> Fields] /\ ucache' \in [Users -> UserObjects \cup {None}]
    BY <1>1, <1>3, <2>2, <2>3, <2>4 DEF UserTypes
  <2>6. \A v \in Users \ {u} : CacheStays(v)
    BY <1>1, <2>3, <2>5 DEF CacheStays, UserTypes
  <2>7. CacheIsNew(u)
    BY <1>3, <2>1, <2>2, <2>4, <2>5 DEF CacheIsNew
  <2>8. \A v \in Users : ucache[v] \notin FreeUsers
    BY <1>1 DEF FreeUsers, Range, UserTypes
  <2>9. \A v \in Users : RowStays(v)
    BY DEF RowStays
  <2>10. \A v, x \in Users : ucache'[v] \in FreeUsers /\ ucache'[v] = ucache'[x] => v = x
    BY <2>5, <2>8
  <2> QED
    BY <1>1, <2>5, <2>6, <2>7, <2>9, <2>10 DEF RowsAndCache, UserTypes
<1> QED
  BY <1>2, <1>3 DEF LookUp
\* A quick-key call has no user.
LEMMA QuickKeepsUsers ==
    ASSUME UserInv, KeyInv, KeyInv', NEW c \in QuickCalls,
           AskDayKey(c) \/ QuickStep(c) \/ GiveDayKey(c)
    PROVE  UserInv'
<1>1. UserTypes /\ UserPlaces /\ Places /\ c \in Calls /\ c \notin Tokens
      /\ c \notin TrialCalls \cup EditCalls \cup StartCalls
  BY UserCalls DEF UserInv, KeyInv
<1>2. PICK p \in {"qadd", "qsave", "qtag", "kwrite", "kwritten", "done"} :
        Goto(c, p) /\ at[c] \in QuickPlaces
  <2>1. at[c] \in QuickPlaces
    BY <1>1 DEF Places
  <2> QED
    BY <2>1 DEF AskDayKey, QuickStep, GiveDayKey, AddDayClient, InsertDayKey, TagDayKey,
                WriteKey, DayKeyReady
<1>3. UNCHANGED <<urow, uheap, ucache, who, uobj, uimage, kept, given, late, astray,
                  loaded, planned, login>>
  <2> USE DEF userVars, history, loginVars, outside, Same
  <2>1. CASE AskDayKey(c)
    BY <2>1 DEF AskDayKey
  <2>2. CASE QuickStep(c)
    BY <2>2 DEF QuickStep, AddDayClient, InsertDayKey, TagDayKey, WriteKey
  <2>3. CASE GiveDayKey(c)
    BY <2>3 DEF GiveDayKey, DayKeyReady
  <2> QED
    BY <2>1, <2>2, <2>3
<1>4. Moves(c, p, None) /\ who'[c] = None /\ kept[c] = None /\ at'[c] = p
  <2>1. who[c] = None /\ kept[c] = None
    BY <1>1 DEF UserPlaces
  <2>2. Moves(c, p, None)
    BY <1>2, <1>3, <2>1, SameUserMoves
  <2> QED
    BY <1>1, <2>1, <2>2, OneMoves
<1>5. Walks(c)
  BY <1>1, <1>2, <1>3, <1>4 DEF Walks, SavePlaces, QuickPlaces
<1> QED
  BY <1>1, <1>3, <1>4, <1>5, PlainKeeps

\* A start that goes on without a change to its user.
LEMMA StartWalks ==
    ASSUME UserInv, KeyInv, KeyInv', NEW c \in StartCalls, NEW p, Goto(c, p), at[c] # "none",
           p \in {"attach", "done", "kwrite", "kwritten"}, at[c] \notin SavePlaces,
           kept[c] = None \/ p \in HandPlaces,
           UNCHANGED <<urow, uheap, ucache, who, uobj, uimage, kept, given, late, astray,
                       loaded, planned, login>>
    PROVE  UserInv'
<1>1. UserTypes /\ UserPlaces /\ Places /\ c \in Calls /\ c \notin Tokens
      /\ c \notin TrialCalls \cup EditCalls \cup QuickCalls
  BY UserCalls DEF UserInv, KeyInv
<1>2. who[c] \in Users /\ Moves(c, p, who[c])
  BY <1>1, SameUserMoves DEF UserPlaces
<1>3. at'[c] = p /\ who'[c] = who[c]
  BY <1>1, <1>2, OneMoves
<1>4. at[c] # "install"
  BY <1>1 DEF Places, StartPlaces, HandPlaces, SavePlaces
<1>5. Walks(c)
  BY <1>1, <1>2, <1>3, <1>4 DEF Walks, SavePlaces
<1> QED
  BY <1>1, <1>2, <1>5, PlainKeeps

\* POST /users/register, in its two steps.
LEMMA RegisterKeepsUsers ==
    ASSUME UserInv, KeyInv, KeyInv', NEW c \in StartCalls, Register(c), Same
    PROVE  UserInv'
<1>1. UserTypes /\ UserPlaces /\ RowsInv /\ LoginsInv /\ Places /\ c \in Calls /\ c \notin Tokens
      /\ c \notin TrialCalls \cup EditCalls \cup QuickCalls
  BY UserCalls DEF UserInv, KeyInv
<1>2. /\ UNCHANGED <<who, uobj, uimage, kept, given, late, loaded, planned, login>>
      /\ at[c] \in {"register", "registered"}
  BY DEF Register, InsertUser, CacheNewUser, history, Same, outside, loginVars
<1>3. PICK u \in Users : u = who[c]
  BY <1>1, <1>2 DEF UserPlaces
<1>4. kept[c] = None /\ Blank \in Fields /\ Blank.trial = 0
  BY <1>1, <1>2 DEF Places, Blank, Fields, HandPlaces, SavePlaces
<1>5. CASE at[c] = "register" /\ InsertUser(c, "registered", "none")
  <2>1. PICK p : p = (IF urow[u] = None THEN "registered" ELSE "none")
    OBVIOUS
  <2>2. /\ Goto(c, p) /\ UNCHANGED <<uheap, ucache, astray>>
        /\ urow' = IF urow[u] = None THEN [urow EXCEPT ![u] = Blank] ELSE urow
    BY <1>3, <1>5, <2>1 DEF InsertUser, history
  <2>3. Moves(c, p, u)
    BY <1>2, <1>3, <2>2, SameUserMoves
  <2>4. at'[c] = p /\ who'[c] = u
    BY <1>1, <2>3, OneMoves
  <2>5. urow' \in Rows /\ urow'[u] # None /\ \A v \in Users : RowStays(v)
    BY <1>1, <1>4, <2>2, UserCalls DEF UserTypes, Rows, RowStays
  <2>6. RowsAndCache
    <3>1. \A v \in Users : ucache[v] \notin FreeUsers
      BY <1>1 DEF FreeUsers, Range, UserTypes
    <3> QED
      BY <1>1, <2>2, <2>5, <3>1 DEF RowsAndCache, UserTypes, CacheStays
  <2>7. Walks(c)
    BY <1>1, <1>3, <1>4, <1>5, <2>1, <2>4, <2>5 DEF Walks, SavePlaces
  <2>8. LoginsInv'
    BY <1>1, <1>2, <2>3, LoginsAreLeft
  <2> QED
    BY <1>1, <1>2, <2>1, <2>2, <2>3, <2>6, <2>7, <2>8, MovesKeep
<1>6. CASE at[c] = "registered" /\ CacheNewUser(c, "claim")
  <2>1. PICK o : o = FreshUser
    OBVIOUS
  <2>2. /\ Goto(c, "claim") /\ UNCHANGED urow
        /\ uheap' = [uheap EXCEPT ![o] = Blank] /\ ucache' = [ucache EXCEPT ![u] = o]
        /\ astray' = IF ucache[u] = None THEN astray ELSE astray \cup {u}
    BY <1>3, <1>6, <2>1 DEF CacheNewUser
  <2>3. Moves(c, "claim", u)
    BY <1>2, <1>3, <2>2, SameUserMoves
  <2>4. at'[c] = "claim" /\ who'[c] = u
    BY <1>1, <2>3, OneMoves
  <2>5. o \in FreeUsers /\ o \in UserObjects /\ \A v \in Users : ucache[v] # o
    <3>1. FreshUser \in FreeUsers
      BY <1>1, FreshUserIsFree DEF UserTypes
    <3> QED
      BY <1>1, <2>1, <3>1 DEF FreeUsers, Range, UserTypes
  <2>6. /\ ucache'[u] = o /\ uheap'[o] = Blank
        /\ \A v \in Users \ {u} : ucache'[v] = ucache[v]
        /\ \A x \in UserObjects \ {o} : uheap'[x] = uheap[x]
        /\ uheap' \in [UserObjects -> Fields] /\ ucache' \in [Users -> UserObjects \cup {None}]
    BY <1>1, <1>4, <2>2, <2>5 DEF UserTypes
  <2>7. urow[u] # None
    BY <1>1, <1>3, <1>6 DEF RowsInv
  <2>9. ucache[u] = None \/ u \in astray'
    BY <2>2
  <2>10. RowsAndCache
    <3>1. \A v \in Users \ {u} : CacheStays(v)
      BY <1>1, <2>5, <2>6 DEF CacheStays, UserTypes
    <3>2. CacheIsNew(u)
      BY <1>4, <2>2, <2>5, <2>6, <2>7, <2>9 DEF CacheIsNew
    <3>3. \A v \in Users : ucache[v] \notin FreeUsers
      BY <1>1 DEF FreeUsers, Range, UserTypes
    <3>4. \A v \in Users : RowStays(v)
      BY <2>2 DEF RowStays
    <3>5. \A v, x \in Users : ucache'[v] \in FreeUsers /\ ucache'[v] = ucache'[x] => v = x
      BY <2>6, <3>3
    <3> QED
      BY <1>1, <2>2, <2>6, <3>1, <3>2, <3>4, <3>5 DEF RowsAndCache, UserTypes
  <2>11. Walks(c)
    BY <1>1, <1>3, <1>4, <1>6, <2>4 DEF Walks, SavePlaces
  <2>12. LoginsInv'
    BY <1>1, <1>2, <2>3, LoginsAreLeft
  <2> QED
    BY <1>1, <1>2, <2>2, <2>3, <2>10, <2>11, <2>12, MovesKeep
<1> QED
  BY <1>5, <1>6 DEF Register
\* The object of the key becomes the cached one, and a claim sets the flag.
LEMMA KeySavedKeepsUsers ==
    ASSUME UserInv, KeyInv, KeyInv', NEW c \in StartCalls, KeySaved(c), Same
    PROVE  UserInv'
<1>1. UserTypes /\ UserPlaces /\ RowsInv /\ LoginsInv /\ Places /\ c \in Calls /\ c \notin Tokens
      /\ c \notin TrialCalls \cup EditCalls \cup QuickCalls
  BY UserCalls DEF UserInv, KeyInv
<1>2. /\ at[c] = "kwritten" /\ at[c] \notin SavePlaces
      /\ UNCHANGED <<urow, ucache, who, kept, loaded, planned, login>>
  BY DEF KeySaved, Same, outside, loginVars, SavePlaces
<1>3. CASE kept[c] = None
  <2>1. Goto(c, "attach") /\ UNCHANGED <<uheap, uobj, uimage, given, late, astray>>
    BY <1>3 DEF KeySaved, history
  <2> QED
    BY <1>2, <1>3, <2>1, StartWalks
<1>4. CASE kept[c] # None
  <2>1. PICK u \in Users : u = who[c]
    BY <1>1, <1>4, HoldersOwned
  <2>2. ucache[u] # None
    BY <1>1, <1>4, <2>1 DEF RowsInv
  <2>3. PICK o \in UserObjects : o = ucache[u]
    BY <1>1, <2>2 DEF UserTypes
  <2>4. PICK new : new = [uheap[o] EXCEPT !.trial = 1]
    OBVIOUS
  <2>5. new \in Fields /\ new.trial = 1
    BY <1>1, <2>4 DEF UserTypes, Fields
  <2>6. SaveUser(c, o, new, "uwrite") /\ given' = given \cup {u}
    BY <1>4, <2>1, <2>3, <2>4 DEF KeySaved, InstallTrial
  <2>7. who' = [who EXCEPT ![c] = u] /\ at' = [at EXCEPT ![c] = "uwrite"]
    BY <1>1, <1>2, <2>1, <2>6 DEF UserTypes, SaveUser, Goto
  <2>8. LoginsInv'
    BY <1>1, <1>2, <2>7, LoginsAreLeft DEF UserInv, Moves
  <2>9. uimage[c] = None /\ "uwrite" \in Saves
    BY <1>1, <1>2 DEF UserPlaces, Saves
  <2> QED
    BY <1>1, <1>2, <1>4, <2>1, <2>2, <2>3, <2>5, <2>6, <2>7, <2>8, <2>9, SaveKeepsUsers
<1> QED
  BY <1>3, <1>4

\* users.server_id is saved as well, from the object of the claim.
LEMMA EditServerKeepsUsers ==
    ASSUME UserInv, KeyInv, NEW c \in StartCalls, EditServer(c), Same
    PROVE  UserInv'
<1>1. UserTypes /\ UserPlaces /\ RowsInv /\ LoginsInv /\ Places /\ c \in Calls /\ c \notin Tokens
      /\ c \notin TrialCalls \cup EditCalls \cup QuickCalls
  BY UserCalls DEF UserInv, KeyInv
<1>2. /\ at[c] = "uwritten" /\ Recached(c) /\ SaveUser(c, kept[c], uheap[kept[c]], "swrite")
      /\ UNCHANGED <<urow, who, kept, given, loaded, planned, login>>
  BY DEF EditServer, Same, outside, loginVars
<1>3. kept[c] # None /\ uobj[c] # None /\ uimage[c] = None /\ at[c] # "install"
      /\ "swrite" \in Saves
  BY <1>1, <1>2 DEF UserPlaces, SavePlaces, Saves
<1>4. PICK u \in Users : u = who[c]
  BY <1>1, <1>3, HoldersOwned
<1>5. PICK o \in UserObjects : o = kept[c]
  BY <1>1, <1>3 DEF UserTypes
<1>6. /\ Holds(c, o) /\ ucache[u] # None /\ uheap[o] \in Fields
      /\ ucache' = [ucache EXCEPT ![u] = uobj[c]]
  BY <1>1, <1>2, <1>3, <1>4, <1>5 DEF UserTypes, Holds, RowsInv, Recached
<1>7. who' = [who EXCEPT ![c] = u] /\ at' = [at EXCEPT ![c] = "swrite"]
  BY <1>1, <1>2, <1>4 DEF UserTypes, SaveUser, Goto
<1>8. LoginsInv'
  BY <1>1, <1>2, <1>7, LoginsAreLeft DEF UserInv, Moves
<1>9. SaveUser(c, o, uheap[o], "swrite")
  BY <1>2, <1>5
<1>10. PICK new \in Fields : new = uheap[o]
  BY <1>6
<1> QED
  BY <1>1, <1>2, <1>3, <1>4, <1>6, <1>7, <1>8, <1>9, <1>10, SaveKeepsUsers

\* POST /landing/claim is answered.
LEMMA InstalledKeepsUsers ==
    ASSUME UserInv, KeyInv, NEW c \in StartCalls, TrialInstalled(c), Same
    PROVE  UserInv'
<1>1. UserTypes /\ UserPlaces /\ LoginsInv /\ c \in Calls /\ c \notin Tokens /\ KeyTypes
      /\ c \notin QuickCalls
  BY UserCalls DEF UserInv, KeyInv
<1>2. /\ at[c] \in {"uwritten", "swritten"} /\ Recached(c) /\ Goto(c, "attach")
      /\ uobj' = [uobj EXCEPT ![c] = None] /\ kept' = [kept EXCEPT ![c] = None]
      /\ UNCHANGED <<urow, uheap, uimage, who, given, late, astray, loaded, planned, login>>
  BY DEF TrialInstalled, history, Same, outside, loginVars
<1>6. LoginsInv'
  <2>1. Moves(c, "attach", who[c])
    BY <1>2, SameUserMoves
  <2> QED
    BY <1>1, <1>2, <2>1, LoginsAreLeft
<1> QED
  BY <1>2, <1>6, ReleaseKeepsUsers

\* A user asks: the call is theirs from now on.
LEMMA AskedKeeps ==
    ASSUME UserInv, KeyInv, KeyInv', NEW c \in StartCalls \cup TrialCalls, NEW u \in Users,
           Asks(c, u), who' = [who EXCEPT ![c] = u], NEW p, Goto(c, p), RowsAndCache,
           UNCHANGED <<urow, uobj, uimage, kept, given, late, astray, loaded, planned, login>>,
           \/ c \in StartCalls /\ p \in {"register", "mark"}
           \/ c \in TrialCalls /\ (p = "done" \/ (p = "add" /\ ucache'[u] # None))
    PROVE  UserInv'
<1>1. UserTypes /\ UserPlaces /\ LoginsInv /\ c \in Calls /\ c \notin Tokens
      /\ c \notin EditCalls \cup QuickCalls
  BY UserCalls DEF UserInv
<1>2. Moves(c, p, u)
  BY DEF Moves, Goto
<1>3. at'[c] = p /\ who'[c] = u /\ at[c] = "none" /\ who[c] \in {None, u}
  BY <1>1, <1>2, OneMoves DEF Asks
<1>4. kept[c] = None
  BY <1>1, <1>3 DEF UserPlaces, HandPlaces, SavePlaces
<1>5. Walks(c)
  <2>1. c \in TrialCalls => p \in TrialPlaces
    BY UserCalls DEF TrialPlaces
  <2>2. p \notin SavePlaces \cup {"upgrade", "install", "registered", "attached", "none"}
    BY DEF SavePlaces
  <2>3. at[c] \notin SavePlaces \cup {"install"}
    BY <1>3 DEF SavePlaces
  <2>4. p \in {"add", "tsave", "install"} => ucache'[u] # None
    OBVIOUS
  <2> QED
    BY <1>1, <1>3, <1>4, <2>1, <2>2, <2>3, <2>4 DEF Walks
<1>6. LoginsInv'
  BY <1>1, <1>2, LoginsAreLeft
<1>7. p # "install"
  OBVIOUS
<1> QED
  BY <1>1, <1>2, <1>5, <1>6, <1>7, MovesKeep

\* /start landing_<uid> and every step it leads to.
LEMMA StartKeepsUsers ==
    ASSUME UserInv, KeyInv, KeyInv', NEW c \in StartCalls,
           (\E u \in Users : StartLanding(c, u)) \/ StartStep(c)
    PROVE  UserInv'
<1>1. UserTypes /\ UserPlaces /\ Places /\ c \in Calls
  BY UserCalls DEF UserInv, KeyInv
<1>2. ASSUME NEW u \in Users, StartLanding(c, u) PROVE UserInv'
  <2> USE DEF history, Same, outside, loginVars
  <2>1. LookUp(u) /\ Asks(c, u) /\ who' = [who EXCEPT ![c] = u]
    BY <1>2 DEF StartLanding, Start
  <2>2. UNCHANGED <<urow, uobj, uimage, kept, given, late, astray, loaded, planned, login>>
    BY <1>2 DEF StartLanding, Start
  <2>3. PICK p \in {"register", "mark"} : Goto(c, p)
    BY <1>2 DEF StartLanding, Start
  <2>4. RowsAndCache
    BY <2>1, <2>2, LookUpKeeps
  <2> QED
    BY <2>1, <2>2, <2>3, <2>4, AskedKeeps
<1>3. ASSUME NEW kind \in {"claim", "mark"}, Same, AlreadyTheirs(c, kind) \/ Refused(c, kind)
      PROVE  UserInv'
  <2>1. at[c] = kind /\ kind # "none" /\ kept[c] = None /\ kind \notin SavePlaces
    BY <1>1, <1>3 DEF AlreadyTheirs, Refused, Places, HandPlaces, SavePlaces
  <2>2. UNCHANGED <<urow, uheap, ucache, who, uobj, uimage, kept, given, late, astray,
                    loaded, planned, login>>
    BY <1>3 DEF AlreadyTheirs, Refused, userVars, history, Same, outside, loginVars
  <2>3. PICK p \in {"attach", "done"} : Goto(c, p)
    BY <1>3 DEF AlreadyTheirs, Refused
  <2> QED
    BY <2>1, <2>2, <2>3, StartWalks
<1>4. ASSUME Same, Mark(c) \/ Upgrade(c) \/ WriteKey(c) PROVE UserInv'
  <2>1. at[c] \in {"mark", "upgrade", "kwrite"}
    BY <1>4 DEF Mark, Open, Upgrade, WriteKey
  <2>2. PICK p \in {"kwrite", "kwritten"} : Goto(c, p)
    BY <1>4 DEF Mark, Upgrade, SaveKey, WriteKey
  <2>3. UNCHANGED <<urow, uheap, ucache, who, uobj, uimage, kept, given, late, astray,
                    loaded, planned, login>>
    BY <1>4 DEF Mark, Upgrade, SaveKey, WriteKey, userVars, history, Same, outside, loginVars
  <2>4. at[c] # "none" /\ at[c] \notin SavePlaces /\ p \in HandPlaces
    BY <2>1 DEF SavePlaces, HandPlaces
  <2> QED
    BY <2>2, <2>3, <2>4, StartWalks
<1>5. ASSUME Same, Claim(c) PROVE UserInv'
  <2>1. Goto(c, "upgrade") /\ who' = who /\ UNCHANGED login
    BY <1>5 DEF Claim, Same, loginVars
  <2>2. LoginsInv'
    <3>1. Moves(c, "upgrade", who[c])
      BY <2>1, SameUserMoves
    <3>2. c \notin Tokens
      BY UserCalls
    <3> QED
      BY <1>1, <2>1, <3>1, <3>2, LoginsAreLeft DEF UserInv
  <2> QED
    BY <1>5, <2>2, ClaimKeepsUsers
<1> QED
  BY <1>2, <1>3, <1>4, <1>5, RegisterKeepsUsers, KeySavedKeepsUsers, EditServerKeepsUsers,
     InstalledKeepsUsers DEF StartStep
\* POST /keys/trial: a step that gives nothing yet, or has given all.
LEMMA TrialWalks ==
    ASSUME UserInv, KeyInv, KeyInv', NEW c \in TrialCalls, NEW p, Goto(c, p),
           (at[c] = "add" /\ p = "tsave") \/ (at[c] = "gift" /\ p = "done"),
           UNCHANGED <<urow, uheap, ucache, who, uobj, uimage, kept, given, late, astray,
                       loaded, planned, login>>
    PROVE  UserInv'
<1>1. UserTypes /\ UserPlaces /\ RowsInv /\ c \in Calls /\ c \notin Tokens
      /\ c \notin StartCalls \cup EditCalls \cup QuickCalls
  BY UserCalls DEF UserInv
<1>2. who[c] \in Users /\ Moves(c, p, who[c]) /\ kept[c] = None
  BY <1>1, SameUserMoves DEF UserPlaces
<1>3. at'[c] = p /\ who'[c] = who[c]
  BY <1>1, <1>2, OneMoves
<1>4. p = "tsave" => ucache[who[c]] # None
  BY <1>1 DEF RowsInv
<1>5. Walks(c)
  BY <1>1, <1>2, <1>3, <1>4 DEF Walks, SavePlaces, TrialPlaces
<1> QED
  BY <1>1, <1>2, <1>5, PlainKeeps

\* The row of the trial key is inserted.
LEMMA TrialKeyKeepsUsers ==
    ASSUME UserInv, KeyInv, KeyInv', NEW c \in TrialCalls, InsertTrialKey(c), Same
    PROVE  UserInv'
<1>1. UserTypes /\ UserPlaces /\ RowsInv /\ LoginsInv /\ c \in Calls /\ c \notin Tokens
      /\ c \notin StartCalls \cup EditCalls \cup QuickCalls
  BY UserCalls DEF UserInv
<1>2. /\ at[c] = "tsave" /\ Goto(c, "install")
      /\ given' = given \cup {who[c]}
      /\ UNCHANGED <<urow, uheap, ucache, who, uobj, uimage, kept, late, astray,
                     loaded, planned, login>>
  BY DEF InsertTrialKey, userVars, Same, outside, loginVars
<1>3. PICK u \in Users : u = who[c]
  BY <1>1, <1>2 DEF UserPlaces
<1>4. Moves(c, "install", u) /\ kept[c] = None /\ ucache[u] # None
  BY <1>1, <1>2, <1>3, SameUserMoves DEF UserPlaces, RowsInv
<1>5. at'[c] = "install" /\ who'[c] = u
  BY <1>1, <1>4, OneMoves
<1>6. Walks(c)
  BY <1>1, <1>2, <1>3, <1>4, <1>5 DEF Walks, SavePlaces, TrialPlaces
<1>8. RowsAndCache /\ LoginsInv'
  BY <1>1, <1>2, <1>4, SameRowsAndCache, LoginsAreLeft
<1> QED
  BY <1>1, <1>2, <1>3, <1>4, <1>6, <1>8, MovesKeep

\* The flag is set; PATCH /users/{tg_id} saves a row as well.
LEMMA FlagKeepsUsers ==
    ASSUME UserInv, KeyInv, KeyInv', Same,
           NEW c, (c \in TrialCalls /\ SetTrial(c))
                  \/ (c \in EditCalls /\ \E u \in Users : EditUser(c, u))
    PROVE  UserInv'
<1>1. UserTypes /\ UserPlaces /\ RowsInv /\ LoginsInv /\ c \in Calls /\ c \notin Tokens
      /\ c \notin StartCalls \cup QuickCalls
  BY UserCalls DEF UserInv
<1>2. UNCHANGED <<urow, ucache, kept, loaded, planned, login>>
  BY DEF SetTrial, EditUser, Edit, Same, outside, loginVars
<1>3. at[c] \in {"none", "install"} /\ uimage[c] = None /\ "uwrite" \in Saves
  <2>1. at[c] \in {"none", "install"}
    BY DEF SetTrial, EditUser, Edit, Asks
  <2> QED
    BY <1>1, <2>1 DEF UserPlaces, Saves
<1>4. CASE c \in TrialCalls /\ SetTrial(c)
  <2>1. PICK u \in Users : u = who[c]
    BY <1>1, <1>4 DEF UserPlaces, SetTrial
  <2>2. ucache[u] # None
    BY <1>1, <1>4, <2>1 DEF RowsInv, SetTrial
  <2>3. PICK o \in UserObjects : o = ucache[u]
    BY <1>1, <2>2 DEF UserTypes
  <2>4. PICK new : new = [uheap[o] EXCEPT !.trial = 1]
    OBVIOUS
  <2>5. new \in Fields /\ new.trial = 1
    BY <1>1, <2>4 DEF UserTypes, Fields
  <2>6. SaveUser(c, o, new, "uwrite") /\ who' = who /\ given' = given \cup {u}
    BY <1>4, <2>1, <2>3, <2>4 DEF SetTrial, InstallTrial
  <2>7. who' = [who EXCEPT ![c] = u] /\ at' = [at EXCEPT ![c] = "uwrite"]
    BY <1>1, <2>1, <2>6 DEF UserTypes, SaveUser, Goto
  <2>8. LoginsInv'
    BY <1>1, <1>2, <2>7, LoginsAreLeft DEF UserInv, Moves
  <2> QED
    BY <1>1, <1>2, <1>3, <2>1, <2>2, <2>3, <2>5, <2>6, <2>7, <2>8, SaveKeepsUsers
<1>5. CASE c \in EditCalls /\ \E u \in Users : EditUser(c, u)
  <2>1. PICK u \in Users : EditUser(c, u)
    BY <1>5
  <2>2. /\ at[c] = "none" /\ who[c] \in {None, u} /\ ucache[u] # None
        /\ who' = [who EXCEPT ![c] = u]
    BY <2>1 DEF EditUser, Edit, Asks
  <2>3. PICK o \in UserObjects : o = ucache[u]
    BY <1>1, <2>2 DEF UserTypes
  <2>4. PICK trial \in 0..1 :
          /\ SaveUser(c, o, [uheap[o] EXCEPT !.trial = trial], "uwrite")
          /\ given' = IF trial = 1 THEN given \cup {u} ELSE given \ {u}
    BY <2>1, <2>3 DEF EditUser, Edit
  <2>5. PICK new : new = [uheap[o] EXCEPT !.trial = trial]
    OBVIOUS
  <2>6. new \in Fields /\ new.trial = trial /\ (trial = 0 \/ trial = 1)
    BY <1>1, <2>5 DEF UserTypes, Fields
  <2>7. SaveUser(c, o, new, "uwrite")
    BY <2>4, <2>5
  <2>8. at' = [at EXCEPT ![c] = "uwrite"]
    BY <2>7 DEF SaveUser, Goto
  <2>9. LoginsInv'
    BY <1>1, <1>2, <2>2, <2>8, LoginsAreLeft DEF UserInv, Moves
  <2>10. c \notin StartCalls \cup TrialCalls
    BY <1>5, UserCalls
  <2> QED
    BY <1>1, <1>2, <1>3, <2>2, <2>3, <2>4, <2>6, <2>7, <2>9, <2>10, SaveKeepsUsers
<1> QED
  BY <1>4, <1>5

\* The saved object is cached again, and the request goes on or ends.
LEMMA SavedKeepsUsers ==
    ASSUME UserInv, KeyInv, Same,
           NEW c, (c \in TrialCalls /\ TrialSaved(c)) \/ (c \in EditCalls /\ EditSaved(c))
    PROVE  UserInv'
<1>1. UserTypes /\ UserPlaces /\ LoginsInv /\ c \in Calls /\ c \notin Tokens /\ KeyTypes
      /\ c \notin StartCalls
  BY UserCalls DEF UserInv, KeyInv
<1>2. /\ at[c] = "uwritten" /\ Recached(c) /\ uobj' = [uobj EXCEPT ![c] = None]
      /\ UNCHANGED <<urow, uheap, uimage, who, kept, given, late, astray, loaded, planned,
                     login>>
  BY DEF TrialSaved, EditSaved, history, Same, outside, loginVars
<1>3. kept' = [kept EXCEPT ![c] = None]
  BY <1>1, <1>2 DEF UserPlaces, UserTypes
<1>4. PICK p : Goto(c, p) /\ (c \in TrialCalls => p \in {"gift", "done"})
                          /\ (c \in EditCalls => p = "done")
  BY UserCalls DEF TrialSaved, EditSaved
<1>5. LoginsInv'
  <2>1. Moves(c, p, who[c])
    BY <1>2, <1>4, SameUserMoves
  <2> QED
    BY <1>1, <1>2, <2>1, LoginsAreLeft
<1> QED
  BY <1>2, <1>3, <1>4, <1>5, ReleaseKeepsUsers

\* POST /keys/trial and PATCH /users/{tg_id}.
LEMMA OthersKeepUsers ==
    ASSUME UserInv, KeyInv, KeyInv',
           \/ \E c \in TrialCalls : (\E u \in Users : AskForTrial(c, u)) \/ TrialStep(c)
           \/ \E c \in EditCalls : (\E u \in Users : EditUser(c, u)) \/ EditSaved(c)
    PROVE  UserInv'
<1>1. UserTypes
  BY DEF UserInv
<1>2. ASSUME NEW c \in TrialCalls, NEW u \in Users, AskForTrial(c, u) PROVE UserInv'
  <2>1. /\ Asks(c, u) /\ who' = [who EXCEPT ![c] = u]
        /\ UNCHANGED <<urow, uheap, ucache, uobj, uimage, kept, given, late, astray, loaded,
                       planned, login>>
    BY <1>2 DEF AskForTrial, AskTrial, userVars, history, Same, outside, loginVars
  <2>2. PICK p : Goto(c, p) /\ (p = "done" \/ (p = "add" /\ ucache[u] # None))
    BY <1>2 DEF AskForTrial, AskTrial
  <2>3. RowsAndCache
    BY <1>1, <2>1, SameRowsAndCache
  <2> QED
    BY <2>1, <2>2, <2>3, AskedKeeps
<1>3. ASSUME NEW c \in TrialCalls, Same, AddTrialClient(c) \/ WriteGift(c) PROVE UserInv'
  <2>1. UNCHANGED <<urow, uheap, ucache, who, uobj, uimage, kept, given, late, astray,
                    loaded, planned, login>>
    BY <1>3 DEF AddTrialClient, WriteGift, userVars, history, Same, outside, loginVars
  <2>2. PICK p : Goto(c, p) /\ ((at[c] = "add" /\ p = "tsave") \/ (at[c] = "gift" /\ p = "done"))
    BY <1>3 DEF AddTrialClient, WriteGift
  <2> QED
    BY <2>1, <2>2, TrialWalks
<1>4. ASSUME NEW c \in TrialCalls, TrialStep(c) PROVE UserInv'
  BY <1>3, <1>4, TrialKeyKeepsUsers, FlagKeepsUsers, SavedKeepsUsers DEF TrialStep
<1>5. ASSUME NEW c \in EditCalls, (\E u \in Users : EditUser(c, u)) \/ EditSaved(c) PROVE UserInv'
  BY <1>5, FlagKeepsUsers, SavedKeepsUsers DEF EditUser, EditSaved
<1> QED
  BY <1>2, <1>4, <1>5

\* landing._attach_referral_if_any: the row, the cached user, the redemption.
LEMMA AttachKeepsUsers ==
    ASSUME UserInv, KeyInv, KeyInv', NEW c \in Calls, AttachStep(c)
    PROVE  UserInv'
<1>1. UserTypes /\ UserPlaces /\ RowsInv /\ ObjectsApart /\ LoginsInv /\ Places
  BY DEF UserInv, KeyInv
<1>2. /\ at[c] \in {"attach", "attached", "redeem"} /\ at[c] # "none" /\ at[c] \notin SavePlaces
      /\ UNCHANGED <<who, uobj, uimage, kept, given, late, astray, loaded, planned, login>>
  BY DEF AttachStep, Attach, AttachToCached, Redeem, history, Same, outside, loginVars,
         SavePlaces
<1>3. c \notin QuickCalls /\ c \notin TrialCalls /\ c \notin EditCalls /\ kept[c] = None
  BY <1>1, <1>2
     DEF Places, UserPlaces, QuickPlaces, TrialPlaces, EditPlaces, HandPlaces, SavePlaces
<1>4. PICK u \in Users : u = who[c]
  BY <1>1, <1>2, <1>3 DEF UserPlaces
<1>5. PICK p : Goto(c, p) /\ \/ p = "attached" /\ at[c] = "attach"
                             \/ p \in {"redeem", "done"}
  BY DEF AttachStep, Attach, AttachToCached, Redeem
<1>6. Moves(c, p, u)
  BY <1>2, <1>4, <1>5, SameUserMoves
<1>7. at'[c] = p /\ who'[c] = u
  BY <1>6, OneMoves
<1>8. LoginsInv'
  BY <1>1, <1>2, <1>6, LoginsAreLeft
<1>9. RowsAndCache /\ (p = "attached" => urow'[u] # None)
  <2>1. CASE Attach(c)
    <3>1. UNCHANGED <<uheap, ucache>>
      BY <2>1 DEF Attach
    <3>2. CASE UNCHANGED urow /\ p # "attached"
      BY <1>1, <3>1, <3>2, SameRowsAndCache
    <3>3. CASE Attachable(c) /\ urow' = [urow EXCEPT ![u].ref = RefOf[c]]
      <4>1. urow[u] # None /\ RefOf[c] \in Range(RefOf) \ {None}
        BY <1>4, <3>3, VisitorUsers DEF Attachable, BringsReferrer, Range
      <4>2. urow[u] \in Fields
        BY <1>1, <4>1 DEF UserTypes, Rows
      <4>3. PICK new : new = [urow[u] EXCEPT !.ref = RefOf[c]]
        OBVIOUS
      <4>4. new \in Fields /\ new.trial = urow[u].trial
        BY <4>1, <4>2, <4>3 DEF Fields
      <4>5. urow' \in Rows /\ urow'[u] = new /\ \A v \in Users \ {u} : urow'[v] = urow[v]
        BY <1>1, <3>3, <4>3, <4>4 DEF UserTypes, Rows
      <4>6. \A v \in Users : RowStays(v)
        BY <4>1, <4>4, <4>5, UserCalls DEF RowStays
      <4>7. \A v \in Users : ucache[v] \notin FreeUsers
        BY <1>1 DEF FreeUsers, Range, UserTypes
      <4> QED
        BY <1>1, <3>1, <4>4, <4>5, <4>6, <4>7, UserCalls DEF RowsAndCache, UserTypes, CacheStays
    <3>4. (UNCHANGED urow /\ p # "attached")
          \/ (Attachable(c) /\ urow' = [urow EXCEPT ![u].ref = RefOf[c]])
      <4>1. CASE Attachable(c)
        BY <1>4, <2>1, <4>1 DEF Attach
      <4>2. CASE ~Attachable(c)
        <5>1. Goto(c, "done") /\ UNCHANGED urow
          BY <2>1, <4>2 DEF Attach
        <5>2. at'[c] = "done"
          BY <5>1 DEF Goto, KeyInv, KeyTypes
        <5> QED
          BY <1>7, <5>1, <5>2
      <4> QED
        BY <4>1, <4>2
    <3> QED
      BY <3>2, <3>3, <3>4
  <2>2. CASE AttachToCached(c)
    <3>1. PICK o : o = IF ucache[u] = None THEN FreshUser ELSE ucache[u]
      OBVIOUS
    <3>2. PICK now : now = IF ucache[u] = None THEN urow[u] ELSE uheap[o]
      OBVIOUS
    <3>3. PICK new : new = [now EXCEPT !.ref = RefOf[c]]
      OBVIOUS
    <3>4. /\ at[c] = "attached" /\ UNCHANGED urow /\ p # "attached"
          /\ uheap' = [uheap EXCEPT ![o] = new] /\ ucache' = [ucache EXCEPT ![u] = o]
      <4>1. Goto(c, "redeem")
        BY <2>2 DEF AttachToCached
      <4>2. at'[c] = "redeem"
        BY <4>1 DEF Goto, KeyInv, KeyTypes
      <4> QED
        BY <1>4, <1>7, <2>2, <3>1, <3>2, <3>3, <4>2 DEF AttachToCached
    <3>5. urow[u] # None
      BY <1>1, <1>4, <3>4 DEF RowsInv
    <3>6. FreshUser \in FreeUsers
      BY <1>1, FreshUserIsFree DEF UserTypes
    <3>7. o \in UserObjects /\ (ucache[u] = None => o \in FreeUsers)
      BY <1>1, <3>1, <3>6 DEF FreeUsers, UserTypes
    <3>8. now \in Fields /\ RefOf[c] \in Range(RefOf)
      BY <1>1, <3>1, <3>2, <3>5, <3>7, VisitorUsers DEF UserTypes, Rows, Range
    <3>9. new \in Fields /\ new.trial = now.trial
      BY <3>3, <3>8 DEF Fields
    <3>10. /\ ucache'[u] = o /\ uheap'[o] = new
           /\ \A v \in Users \ {u} : ucache'[v] = ucache[v]
           /\ \A x \in UserObjects \ {o} : uheap'[x] = uheap[x]
           /\ uheap' \in [UserObjects -> Fields] /\ ucache' \in [Users -> UserObjects \cup {None}]
      BY <1>1, <3>4, <3>7, <3>9 DEF UserTypes
    <3>11. \A v \in Users : ucache[v] \notin FreeUsers
      BY <1>1 DEF FreeUsers, Range, UserTypes
    <3>12. \A v \in Users \ {u} : ucache[v] # o
      BY <1>1, <3>1, <3>6, <3>11, UserCalls DEF ObjectsApart
    <3>13. \A v \in Users \ {u} : CacheStays(v)
      BY <1>1, <3>10, <3>12 DEF CacheStays, UserTypes
    <3>14. CacheStays(u) \/ CacheIsNew(u)
      <4>1. CASE ucache[u] # None
        BY <3>1, <3>2, <3>9, <3>10, <4>1 DEF CacheStays
      <4>2. CASE ucache[u] = None
        <5>1. new.trial = 0
          BY <1>1, <3>2, <3>5, <3>9, <4>2 DEF RowsInv
        <5> QED
          BY <3>4, <3>5, <3>7, <3>10, <4>2, <5>1 DEF CacheIsNew
      <4> QED
        BY <4>1, <4>2
    <3>15. \A v, x \in Users : ucache'[v] \in FreeUsers /\ ucache'[v] = ucache'[x] => v = x
      BY <3>10, <3>11
    <3> QED
      BY <1>1, <3>4, <3>10, <3>13, <3>14, <3>15 DEF RowsAndCache, UserTypes, RowStays
  <2>3. CASE Redeem(c)
    <3>1. UNCHANGED <<urow, uheap, ucache>> /\ Goto(c, "done")
      BY <2>3 DEF Redeem
    <3>2. at'[c] = "done"
      BY <3>1 DEF Goto, KeyInv, KeyTypes
    <3> QED
      BY <1>1, <1>7, <3>1, <3>2, SameRowsAndCache
  <2> QED
    BY <2>1, <2>2, <2>3 DEF AttachStep
<1>10. Walks(c)
  <2>1. p \in {"attached", "redeem", "done"}
    BY <1>5
  <2> QED
    BY <1>2, <1>3, <1>4, <1>7, <1>9, <2>1 DEF Walks, SavePlaces, LoginPlaces
<1> QED
  BY <1>2, <1>5, <1>6, <1>8, <1>9, <1>10, MovesKeep
\* A request that fails, wherever it is.
LEMMA AbortKeepsUsers ==
    ASSUME UserInv, KeyInv, KeyInv', NEW c \in Calls, Aborts(c) \/ (c \in StartCalls /\ PanelFails(c))
    PROVE  UserInv'
<1>1. UserTypes /\ UserPlaces /\ LoginsInv /\ Places
  BY DEF UserInv, KeyInv
<1>2. UNCHANGED <<urow, uheap, ucache, who, given, astray, loaded, planned, login>>
  BY DEF Aborts, PanelFails, UpgradeFails, userVars, loginVars
<1>3. Goto(c, After(c)) /\ at[c] \notin {"none", "done", "answered", "register", "install"}
  BY DEF Aborts, PanelFails, UpgradeFails, After
<1>4. Moves(c, After(c), who[c])
  BY <1>2, <1>3, SameUserMoves
<1>5. LoginsInv'
  BY <1>1, <1>2, <1>3, <1>4, LoginsAreLeft
<1>6. /\ uobj' = [uobj EXCEPT ![c] = None] /\ uimage' = [uimage EXCEPT ![c] = None]
      /\ kept' = [kept EXCEPT ![c] = None]
      /\ late' = (IF uimage[c] = None THEN late ELSE late \cup {who[c]})
  <2>1. CASE Aborts(c)
    BY <2>1 DEF Aborts
  <2>2. CASE PanelFails(c)
    <3>1. uobj[c] = None /\ uimage[c] = None /\ UNCHANGED <<uobj, uimage, late>>
      BY <1>1, <2>2 DEF PanelFails, UpgradeFails, UserPlaces, Saves, SavePlaces
    <3> QED
      BY <1>1, <2>2, <3>1 DEF PanelFails, UpgradeFails, UserTypes
  <2> QED
    BY <2>1, <2>2
<1>7. CASE c \notin QuickCalls
  <2>1. PICK place : place = After(c)
    OBVIOUS
  <2> QED
    BY <1>2, <1>3, <1>5, <1>6, <1>7, <2>1, DropKeepsUsers DEF After
<1>8. CASE c \in QuickCalls
  <2>1. /\ at[c] \notin SavePlaces /\ at[c] # "install" /\ who[c] = None /\ After(c) = "done"
        /\ c \notin Tokens \cup StartCalls \cup TrialCalls \cup EditCalls
    BY <1>1, <1>8, UserCalls DEF Places, UserPlaces, QuickPlaces, SavePlaces, After
  <2>2. uobj[c] = None /\ uimage[c] = None /\ kept[c] = None
    BY <1>1, <2>1 DEF UserPlaces, Saves, SavePlaces
  <2>3. UNCHANGED <<uobj, uimage, kept, late>>
    BY <1>1, <1>6, <2>2 DEF UserTypes
  <2>4. at'[c] = "done" /\ who'[c] = who[c]
    BY <1>4, <2>1, OneMoves
  <2>5. Walks(c)
    BY <1>8, <2>1, <2>2, <2>4 DEF Walks, SavePlaces
  <2>6. RowsAndCache
    BY <1>1, <1>2, SameRowsAndCache
  <2> QED
    BY <1>2, <1>4, <1>5, <2>1, <2>3, <2>5, <2>6, MovesKeep
<1> QED
  BY <1>7, <1>8

\* GET /users/{tg_id}, a user who comes by an invitation, and the day of a key.
LEMMA RowsKeepUsers ==
    ASSUME UserInv, KeyInv, KeyInv',
           \/ \E k \in Keys : DayIsOver(k)
           \/ \E u \in planned.invited : RegisterInvited(u)
           \/ \E u \in Users : ReadUser(u)
    PROVE  UserInv'
<1>1. UserTypes /\ LoginsInv /\ RowsInv
  BY DEF UserInv
<1> DEFINE alone == UNCHANGED <<at, who, uobj, uimage, kept, given, late, astray, planned,
                                loaded, login>>
<1>2. ASSUME RowsAndCache, alone PROVE UserInv'
  <2>1. LoginsInv'
    BY <1>1, <1>2, LoginsStay DEF Still
  <2> QED
    BY <1>2, <2>1, StandKeeps DEF UsersLoaded
<1>3. ASSUME NEW k \in Keys, DayIsOver(k) PROVE UserInv'
  <2>1. alone /\ UNCHANGED <<urow, uheap, ucache>>
    BY <1>3 DEF DayIsOver, accountVars, userVars, callVars, history, loginVars
  <2> QED
    BY <1>1, <1>2, <2>1, SameRowsAndCache
<1>4. ASSUME NEW u \in planned.invited, RegisterInvited(u) PROVE UserInv'
  <2>1. alone /\ UNCHANGED <<uheap, ucache>>
    BY <1>4 DEF RegisterInvited, RegisterElsewhere, callVars, history, Same, outside,
                loginVars
  <2>2. u \in Users /\ urow[u] = None /\ urow' = [urow EXCEPT ![u] = Blank]
    BY <1>1, <1>4 DEF RegisterInvited, RegisterElsewhere, UserTypes
  <2>3. Blank \in Fields /\ Blank.trial = 0
    BY DEF Blank, Fields
  <2>4. urow' \in Rows /\ \A v \in Users : RowStays(v)
    BY <1>1, <2>2, <2>3 DEF UserTypes, Rows, RowStays
  <2>5. \A v \in Users : ucache[v] \notin FreeUsers
    BY <1>1 DEF FreeUsers, Range, UserTypes
  <2>6. RowsAndCache
    BY <1>1, <2>1, <2>4, <2>5 DEF RowsAndCache, UserTypes, CacheStays
  <2> QED
    BY <1>2, <2>1, <2>6
<1>5. ASSUME NEW u \in Users, ReadUser(u) PROVE UserInv'
  <2>1. alone /\ UNCHANGED urow /\ LookUp(u)
    BY <1>5 DEF ReadUser, callVars, history, Same, outside, loginVars
  <2>2. RowsAndCache
    BY <2>1, LookUpKeeps
  <2> QED
    BY <1>2, <2>1, <2>2
<1> QED
  BY <1>3, <1>4, <1>5

\* A login that has a user keeps it until its poll.
LEMMA LoginRowsKeep ==
    ASSUME UserInv, KeyInv, KeyInv', UNCHANGED <<accountVars, loaded, planned>>,
           \A t \in Tokens :
              \/ login'[t] = login[t]
              \/ login'[t].status = "confirmed" /\ login[t].status = "pending"
                 /\ login'[t].user \in Users
              \/ login'[t].status \in {"pending", "deleted"} /\ login[t].status = "none"
              \/ login'[t].status = "deleted"
    PROVE  UserInv'
<1>1. UserTypes /\ LoginsInv
  BY DEF UserInv
<1>2. UNCHANGED <<at, who, uobj, uimage, kept, given, late, astray, planned, loaded,
                  urow, uheap, ucache>>
  BY DEF accountVars, userVars, callVars, history
<1>3. LoginsInv'
  BY <1>1, <1>2 DEF LoginsInv
<1>4. RowsAndCache
  BY <1>1, <1>2, SameRowsAndCache
<1> QED
  BY <1>2, <1>3, <1>4, StandKeeps DEF UsersLoaded

\* The login, from its start to its answer.
LEMMA LoginsKeepUsers ==
    ASSUME UserInv, KeyInv, KeyInv', TableInv, PollInv,
           \/ \E b \in Browsers : Login(b) \/ CompleteLogin(b)
           \/ \E t \in Tokens : AnswerLogin(t)
           \/ LoginGoesOn
    PROVE  UserInv'
<1>1. UserTypes /\ UserPlaces /\ LoginsInv
  BY DEF UserInv
<1>2. ASSUME NEW b \in Browsers, Login(b) PROVE UserInv'
  <2>1. UNCHANGED <<accountVars, loaded, planned>>
    BY <1>2 DEF Login, outside
  <2>2. PICK t \in Tokens : login[t].status = "none" /\ Create(t, b, KeyInCookie(b))
    BY <1>2 DEF Login, StartLogin
  <2>3. PICK gone \in SUBSET (lapsed \ {t}) :
           login' = [s \in Tokens |->
              CASE s = t -> [status |-> "pending", user |-> None, uid |-> KeyInCookie(b), browser |-> b]
                [] s \in gone -> [login[s] EXCEPT !.status = "deleted"]
                [] OTHER -> login[s]]
    BY <2>2 DEF Create
  <2>4. ASSUME NEW s \in Tokens
        PROVE  \/ login'[s] = login[s]
               \/ login'[s].status \in {"pending", "deleted"} /\ login[s].status = "none"
               \/ login'[s].status = "deleted"
    <3>1. CASE s = t
      BY <2>2, <2>3, <3>1
    <3>2. CASE s # t /\ s \in gone
      <4>1. login'[s] = [login[s] EXCEPT !.status = "deleted"]
        BY <2>3, <3>2
      <4> QED
        BY <4>1, RowOf
    <3>3. CASE s # t /\ s \notin gone
      BY <2>3, <3>3
    <3> QED
      BY <3>1, <3>2, <3>3
  <2> QED
    BY <2>1, <2>4, LoginRowsKeep
<1>3. ASSUME NEW b \in Browsers, CompleteLogin(b) PROVE UserInv'
  <2>1. PICK t \in Tokens : t = poll[b] /\ Consumable(t)
    BY <1>3 DEF CompleteLogin, Consume, PollInv
  <2>2. /\ login' = [login EXCEPT ![t].status = "used"]
        /\ who' = [who EXCEPT ![t] = login[t].user] /\ Goto(t, "attach")
        /\ UNCHANGED <<urow, uheap, ucache, uobj, uimage, kept, given, late, astray, loaded,
                       planned>>
    BY <1>3, <2>1
       DEF CompleteLogin, Consume, userVars, history, outside
  <2>3. /\ t \in Calls /\ t \notin QuickCalls \cup StartCalls \cup TrialCalls \cup EditCalls
        /\ login[t].user \in Users /\ at[t] = "none" /\ who[t] = None
    BY <1>1, <2>1, UserCalls DEF Consumable, LoginsInv
  <2>4. PICK u \in Users : u = login[t].user
    BY <2>3
  <2>5. Moves(t, "attach", u)
    BY <2>2, <2>4 DEF Moves, Goto
  <2>6. at'[t] = "attach" /\ who'[t] = u /\ \A d \in Calls \ {t} : Still(d)
    BY <2>3, <2>5, OneMoves
  <2>7. kept[t] = None
    BY <1>1, <2>3 DEF UserPlaces
  <2>8. Walks(t)
    BY <2>3, <2>6, <2>7 DEF Walks, SavePlaces, LoginPlaces
  <2>9. LoginsInv'
    <3>1. login'[t].status = "used" /\ \A s \in Tokens \ {t} : login'[s] = login[s]
      BY <2>2, RowOf DEF TableInv
    <3>2. \A s \in Tokens \ {t} : Still(s)
      BY <2>6, UserCalls
    <3> QED
      BY <1>1, <3>1, <3>2 DEF LoginsInv, Still
  <2>10. RowsAndCache
    BY <1>1, <2>2, SameRowsAndCache
  <2> QED
    BY <2>2, <2>3, <2>5, <2>8, <2>9, <2>10, MovesKeep
<1>4. ASSUME NEW t \in Tokens, AnswerLogin(t) PROVE UserInv'
  <2>1. /\ at[t] = "done" /\ Goto(t, "answered")
        /\ UNCHANGED <<urow, uheap, ucache, who, uobj, uimage, kept, given, late, astray,
                       loaded, planned, login>>
    BY <1>4 DEF AnswerLogin, AnswerConfirmed, userVars, history, outside
  <2>2. t \in Calls /\ t \notin QuickCalls \cup StartCalls \cup TrialCalls \cup EditCalls
    BY UserCalls
  <2>3. who[t] \in Users /\ kept[t] = None /\ Moves(t, "answered", who[t])
    BY <1>1, <2>1, <2>2, SameUserMoves DEF UserPlaces
  <2>4. at'[t] = "answered" /\ who'[t] = who[t]
    BY <2>2, <2>3, OneMoves
  <2>5. Walks(t)
    BY <2>1, <2>2, <2>3, <2>4 DEF Walks, SavePlaces, LoginPlaces
  <2> QED
    BY <2>1, <2>2, <2>3, <2>5, PlainKeeps
<1>5. ASSUME LoginGoesOn PROVE UserInv'
  <2>1. UNCHANGED <<accountVars, loaded, planned>>
    BY <1>5 DEF LoginGoesOn, outside
  <2>2. CASE UNCHANGED login
    BY <2>1, <2>2, LoginRowsKeep
  <2>3. ASSUME NEW t \in Tokens, NEW u \in Users, Confirmable(t),
               login' = [login EXCEPT ![t].status = "confirmed", ![t].user = u]
        PROVE  UserInv'
    <3>1. /\ login'[t].status = "confirmed" /\ login'[t].user = u
          /\ \A s \in Tokens \ {t} : login'[s] = login[s]
      <4>1. login'[t] = [[login[t] EXCEPT !.status = "confirmed"] EXCEPT !.user = u]
        BY <2>3 DEF TableInv
      <4>2. login'[t].status = "confirmed" /\ login'[t].user = u
        BY <4>1, RowOf
      <4> QED
        BY <2>3, <4>2 DEF TableInv
    <3> QED
      BY <2>1, <2>3, <3>1, LoginRowsKeep DEF Confirmable
  <2>4. \/ UNCHANGED login
        \/ \E t \in Tokens, u \in Users :
              Confirmable(t) /\ login' = [login EXCEPT ![t].status = "confirmed", ![t].user = u]
    <3>1. ASSUME NEW t \in Tokens, LoginStep(t)
          PROVE  \/ UNCHANGED login
                 \/ \E u \in Users :
                       Confirmable(t)
                       /\ login' = [login EXCEPT ![t].status = "confirmed", ![t].user = u]
      BY <3>1 DEF LoginStep, Lapse, Confirm, ExplainConfirm, ExplainPoll
    <3>2. ASSUME NEW b \in Browsers, BrowserStep(b) PROVE UNCHANGED login
      BY <3>2 DEF BrowserStep, PollInVain, Logout, Receive, Lose
    <3> QED
      BY <1>5, <3>1, <3>2 DEF LoginGoesOn
  <2> QED
    BY <2>2, <2>3, <2>4
<1> QED
  BY <1>2, <1>3, <1>4, <1>5

\* loading() reads the table of users as it is.
LEMMA ReadTableKeepsUsers ==
    ASSUME UserInv, KeyInv, KeyInv', ReadTable
    PROVE  UserInv'
<1>1. UserTypes /\ LoginsInv
  BY DEF UserInv
<1>2. /\ UNCHANGED <<at, who, uobj, uimage, kept, given, late, astray, planned, urow, uheap,
                     ucache, login>>
      /\ loaded' \in {[table |-> "users", rows |-> urow], [table |-> "keys", rows |-> krow]}
  BY DEF ReadTable, accountVars, userVars, callVars, history, loginVars
<1>3. LoginsInv'
  BY <1>1, <1>2, LoginsStay DEF Still
<1>4. RowsAndCache
  BY <1>1, <1>2, SameRowsAndCache
<1>5. UsersLoaded' => loaded'.rows = urow'
  BY <1>2 DEF UsersLoaded
<1> QED
  BY <1>2, <1>3, <1>4, <1>5, StandKeeps

-----------------------------------------------------------------------------
(* The cache is filled anew                                                *)

\* loading() finds a new object for every user that needs one ...
LEMMA NewUserPlaces ==
    ASSUME UserTypes, NEW renew \in SUBSET Users
    PROVE  \E f \in [renew -> FreeUsers] : IsInjective(f)
<1>1. IsFiniteSet(renew) /\ Cardinality(renew) <= Cardinality(Users)
  BY FS_Subset, VisitorUsers
<1>2. IsFiniteSet(FreeUsers) /\ Cardinality(FreeUsers) >= Cardinality(Users)
  <2>1. ucache = [u \in Users |-> ucache[u]] /\ uobj = [c \in Calls |-> uobj[c]]
        /\ kept = [c \in Calls |-> kept[c]]
    BY DEF UserTypes
  <2> QED
    BY <2>1, RoomForUsers
<1>3. Cardinality(renew) <= Cardinality(FreeUsers)
  <2>1. /\ Cardinality(renew) \in Nat /\ Cardinality(FreeUsers) \in Nat
        /\ Cardinality(Users) \in Nat
    BY <1>1, <1>2, FS_CardinalityType, VisitorUsers
  <2> QED
    BY <1>1, <1>2, <2>1
<1> QED
  BY <1>1, <1>2, <1>3, SmallerGoesIn

\* ... that nobody else uses.
LEMMA UserPlacesAreNew ==
    ASSUME UserTypes, NEW renew, NEW new \in [renew -> FreeUsers], IsInjective(new)
    PROVE  /\ \A u \in renew : new[u] \in UserObjects /\ new[u] # None
           /\ \A u \in renew : \A v \in Users : new[u] # ucache[v]
           /\ \A u \in renew : \A c \in Calls : ~Holds(c, new[u])
           /\ \A u, v \in renew : new[u] = new[v] => u = v
<1>1. \A u \in renew : new[u] \in FreeUsers
  OBVIOUS
<1>2. FreeUsers \subseteq UserObjects /\ None \notin UserObjects
  BY UserCalls DEF FreeUsers
<1>3. /\ \A o \in FreeUsers, v \in Users : o # ucache[v]
      /\ \A o \in FreeUsers, c \in Calls : o # uobj[c] /\ o # kept[c]
  BY DEF FreeUsers, HeldUsers, Range, UserTypes
<1>4. \A u, v \in renew : new[u] = new[v] => u = v
  BY DEF IsInjective
<1> QED
  BY <1>1, <1>2, <1>3, <1>4 DEF Holds

\* A reloaded user whom nobody worked for, and whose row was read as it is, shows
\* what was shown before.
LEMMA FillUsersKeeps ==
    ASSUME UserInv, KeyInv, FillCache, loaded.table = "users"
    PROVE  UserInv'
<1>1. UserTypes /\ UserPlaces /\ LoginsInv /\ RowsInv /\ ObjectsApart /\ UsersLoaded
  BY DEF UserInv, UsersLoaded, FillCache
<1>2. /\ loaded' = None /\ astray' = astray \cup Unsettled(loaded.rows)
      /\ UNCHANGED <<urow, at, who, uobj, uimage, kept, given, late, planned, login>>
  BY DEF FillCache, loginVars
<1> DEFINE rows == loaded.rows
           renew == {u \in Users : rows[u] # None /\ ucache[u] \in HeldUsers \cup {None}}
           new == CHOOSE f \in [renew -> FreeUsers] : IsInjective(f)
           place == [u \in Users |-> IF u \in renew THEN new[u] ELSE ucache[u]]
<1>3. rows \in Rows /\ \A u \in Users : rows[u] # None => urow[u] # None
  BY <1>1 DEF UserTypes, RowsInv
<1>4. /\ ucache' = place
      /\ uheap' = [o \in UserObjects |->
                      IF \E u \in Users : rows[u] # None /\ place[u] = o
                      THEN rows[CHOOSE u \in Users : place[u] = o] ELSE uheap[o]]
  BY DEF FillCache, Reloaded
<1>5. /\ \A u \in renew : new[u] \in UserObjects /\ new[u] # None
      /\ \A u \in renew : \A v \in Users : new[u] # ucache[v]
      /\ \A u \in renew : \A c \in Calls : ~Holds(c, new[u])
      /\ \A u, v \in renew : new[u] = new[v] => u = v
  <2>1. renew \in SUBSET Users
    OBVIOUS
  <2> HIDE DEF renew
  <2>2. \E f \in [renew -> FreeUsers] : IsInjective(f)
    BY <1>1, <2>1, NewUserPlaces
  <2>3. new \in [renew -> FreeUsers] /\ IsInjective(new)
    BY <2>2
  <2> HIDE DEF new
  <2> QED
    BY <1>1, <2>1, <2>3, UserPlacesAreNew
<1>6. \A u \in Users : u \in renew => rows[u] # None
  OBVIOUS
<1>7. \A u \in Users : rows[u] # None /\ ucache[u] = None => u \in renew
  OBVIOUS
<1>8. \A u \in Users : place[u] = (IF u \in renew THEN new[u] ELSE ucache[u])
  OBVIOUS
<1>9. renew \subseteq Users
  OBVIOUS
<1>10. PICK fresh : fresh = new
  OBVIOUS
<1>11. PICK needy : needy = renew
  OBVIOUS
<1>12. PICK read : read = rows
  OBVIOUS
<1> HIDE DEF rows, renew, new
<1>13. /\ needy \subseteq Users
       /\ \A u \in needy : fresh[u] \in UserObjects /\ fresh[u] # None
       /\ \A u \in needy : \A v \in Users : fresh[u] # ucache[v]
       /\ \A u \in needy : \A c \in Calls : ~Holds(c, fresh[u])
       /\ \A u, v \in needy : fresh[u] = fresh[v] => u = v
  BY <1>5, <1>9, <1>10, <1>11
<1>14. /\ \A u \in needy : read[u] # None
       /\ \A u \in Users : read[u] # None /\ ucache[u] = None => u \in needy
       /\ read \in Rows /\ \A u \in Users : read[u] # None => urow[u] # None
  <2>1. \A u \in needy : read[u] # None
    BY <1>6, <1>9, <1>11, <1>12
  <2>2. \A u \in Users : read[u] # None /\ ucache[u] = None => u \in needy
    BY <1>7, <1>11, <1>12, Zenon
  <2>3. read \in Rows /\ \A u \in Users : read[u] # None => urow[u] # None
    BY <1>3, <1>12, Zenon
  <2> QED
    BY <2>1, <2>2, <2>3
<1>15. /\ \A u \in Users : ucache'[u] = (IF u \in needy THEN fresh[u] ELSE ucache[u])
       /\ ucache' = [u \in Users |-> ucache'[u]]
  BY <1>4, <1>8, <1>10, <1>11
<1>16. uheap' = [o \in UserObjects |->
                    IF \E u \in Users : read[u] # None /\ ucache'[u] = o
                    THEN read[CHOOSE u \in Users : ucache'[u] = o] ELSE uheap[o]]
  BY <1>4, <1>12
<1> HIDE DEF place
<1>17. \A u, v \in Users : ucache'[u] # None /\ ucache'[u] = ucache'[v] => u = v
  BY <1>1, <1>13, <1>15 DEF ObjectsApart
<1>18. \A u \in Users : read[u] # None => ucache'[u] # None
  BY <1>13, <1>14, <1>15
<1>19. \A u \in Users : ucache[u] # None => ucache'[u] # None
  BY <1>13, <1>15
<1>20. ucache' \in [Users -> UserObjects \cup {None}]
  BY <1>1, <1>13, <1>15 DEF UserTypes
<1>21. ASSUME NEW u \in Users, read[u] # None PROVE uheap'[ucache'[u]] = read[u]
  <2>1. (CHOOSE v \in Users : ucache'[v] = ucache'[u]) = u
    BY <1>17, <1>18, <1>21
  <2>2. ucache'[u] \in UserObjects
    BY <1>18, <1>20, <1>21
  <2>3. uheap'[ucache'[u]] = read[CHOOSE v \in Users : ucache'[v] = ucache'[u]]
    BY <1>16, <1>21, <2>2
  <2> QED
    BY <2>1, <2>3, Zenon
<1>22. ASSUME NEW u \in Users, read[u] = None, ucache'[u] # None
       PROVE  ucache'[u] = ucache[u] /\ uheap'[ucache[u]] = uheap[ucache[u]]
  <2>1. ucache'[u] = ucache[u] /\ ucache'[u] \in UserObjects
    BY <1>14, <1>15, <1>20, <1>22
  <2>2. ~ \E v \in Users : read[v] # None /\ ucache'[v] = ucache'[u]
    BY <1>17, <1>22
  <2> QED
    BY <1>16, <2>1, <2>2
<1>23. UserTypes'
  <2>1. ASSUME NEW o \in UserObjects PROVE uheap'[o] \in Fields
    <3>1. CASE \E u \in Users : read[u] # None /\ ucache'[u] = o
      <4>1. PICK u \in Users : read[u] # None /\ ucache'[u] = o
        BY <3>1
      <4> QED
        BY <1>14, <1>21, <4>1 DEF Rows
    <3>2. CASE ~ \E u \in Users : read[u] # None /\ ucache'[u] = o
      BY <1>1, <1>16, <3>2 DEF UserTypes
    <3> QED
      BY <3>1, <3>2
  <2>2. uheap' \in [UserObjects -> Fields]
    BY <1>16, <2>1
  <2>3. ~UsersLoaded'
    BY <1>2 DEF UsersLoaded
  <2> QED
    BY <1>1, <1>2, <1>20, <2>2, <2>3 DEF UserTypes
<1>24. UserPlaces'
  BY <1>1, <1>2 DEF UserPlaces
<1>25. LoginsInv'
  BY <1>1, <1>2, LoginsStay DEF Still
<1>26. RowsInv'
  <2>1. \A u \in Users : ucache'[u] # None => urow[u] # None
    BY <1>1, <1>14, <1>15 DEF RowsInv
  <2>2. \A u \in Users : ucache'[u] = None /\ urow[u] # None => urow[u].trial = 0
    BY <1>1, <1>19 DEF RowsInv
  <2>3. ASSUME NEW c \in Calls, uobj[c] # None \/ kept[c] # None PROVE ucache'[who[c]] # None
    <3>1. who[c] \in Users
      BY <1>1, <2>3, HoldersOwned DEF KeyInv
    <3> QED
      BY <1>1, <1>19, <2>3, <3>1 DEF RowsInv
  <2>4. ASSUME NEW c \in Calls, at[c] \in {"add", "tsave", "install"} PROVE ucache'[who[c]] # None
    <3>1. at[c] \notin QuickPlaces /\ at[c] # "none"
      BY <2>4 DEF QuickPlaces
    <3>2. who[c] \in Users
      BY <1>1, <3>1 DEF UserPlaces, KeyInv, Places
    <3> QED
      BY <1>1, <1>19, <2>4, <3>2 DEF RowsInv
  <2>5. ~UsersLoaded'
    BY <1>2 DEF UsersLoaded
  <2> QED
    BY <1>1, <1>2, <2>1, <2>2, <2>3, <2>4, <2>5 DEF RowsInv
<1>27. ObjectsApart'
  <2>1. \A c \in Calls, u \in Users : Holds(c, ucache'[u]) => who[c] = u
    BY <1>1, <1>13, <1>15 DEF ObjectsApart
  <2> QED
    BY <1>1, <1>2, <1>17, <2>1 DEF ObjectsApart, Holds
<1>28. FlagsInv'
  <2> SUFFICES ASSUME NEW u \in Users, u \notin astray' PROVE FlagInv(u)'
    BY DEF FlagsInv
  <2>1. u \notin astray /\ u \notin Unsettled(read)
    BY <1>2, <1>12 DEF rows
  <2>2. /\ u \notin late /\ read[u] = urow[u]
        /\ \A c \in Calls : who[c] = u => at[c] \in Resting
    BY <2>1 DEF Unsettled, InFlight
  <2>3. FlagInv(u)
    BY <2>1 DEF UserInv, FlagsInv
  <2>4. \A c \in Calls : who[c] = u => uobj[c] = None /\ kept[c] = None /\ uimage[c] = None
    BY <1>1, <2>2 DEF UserPlaces, Resting, Saves, SavePlaces, HandPlaces
  <2>5. ucache[u] # None => urow[u].trial = uheap[ucache[u]].trial
    BY <2>2, <2>3, <2>4 DEF FlagInv, RowAgrees
  <2>6. ucache'[u] # None => read[u] # None
    BY <1>1, <1>13, <1>14, <1>15, <2>2 DEF RowsInv
  <2>7. ucache'[u] # None => uheap'[ucache'[u]].trial = urow[u].trial
    BY <1>21, <2>2, <2>6
  <2>8. u \in given => Flagged(u)
    BY <2>2, <2>3 DEF FlagInv, Resting
  <2>9. Flagged(u) => Flagged(u)'
    BY <1>19, <2>5, <2>7 DEF Flagged
  <2>10. ASSUME Flagged(u)' PROVE Flagged(u)
    <3>1. ucache'[u] # None /\ urow[u].trial = 1 /\ urow[u] # None
      BY <2>2, <2>6, <2>7, <2>10 DEF Flagged
    <3> QED
      BY <1>1, <2>5, <3>1 DEF Flagged, RowsInv
  <2>11. ucache'[u] # None => RowAgrees(u)'
    BY <1>2, <2>4, <2>7 DEF RowAgrees
  <2>12. \A c \in Calls : who'[c] = u => \A o \in UserObjects : Holds(c, o)' => o = ucache'[u]
    BY <1>2, <2>4 DEF Holds
  <2> QED
    BY <1>2, <2>3, <2>8, <2>9, <2>10, <2>11, <2>12 DEF FlagInv
<1> QED
  BY <1>23, <1>24, <1>25, <1>26, <1>27, <1>28 DEF UserInv

\* Reloaded keys leave the users alone, but for those under way.
LEMMA FillCacheKeepsUsers ==
    ASSUME UserInv, KeyInv, KeyInv', FillCache
    PROVE  UserInv'
<1>1. UserTypes /\ UserPlaces /\ LoginsInv
  BY DEF UserInv
<1>2. CASE loaded.table # "users"
  <2>1. /\ loaded' = None
        /\ UNCHANGED <<urow, uheap, ucache, at, who, uobj, uimage, kept, given, late, astray,
                       planned, login>>
    BY <1>2 DEF FillCache, loginVars
  <2>2. RowsAndCache /\ LoginsInv'
    BY <1>1, <2>1, SameRowsAndCache, LoginsStay DEF Still
  <2>3. ~UsersLoaded'
    BY <2>1 DEF UsersLoaded
  <2> QED
    BY <2>1, <2>2, <2>3, StandKeeps
<1> QED
  BY <1>2, FillUsersKeeps

\* The next process has read the rows as they are, and no request is under way.
LEMMA RestartKeepsUsers ==
    ASSUME UserInv, KeyInv, Restart
    PROVE  UserInv'
<1> DEFINE uo == CHOOSE f \in [Users -> UserObjects] : IsInjective(f)
<1>1. UserTypes /\ UserPlaces /\ LoginsInv /\ RowsInv /\ ObjectsApart
  BY DEF UserInv
<1>2. /\ loaded' = None
      /\ astray' = astray \cup Unsettled(urow)
      /\ at' = [c \in Calls |-> IF c \in InFlight THEN After(c) ELSE at[c]]
      /\ uobj' = [c \in Calls |-> None] /\ uimage' = [c \in Calls |-> None]
      /\ kept' = [c \in Calls |-> None]
      /\ ucache' = [u \in Users |-> IF urow[u] = None THEN None ELSE uo[u]]
      /\ uheap' = [o \in UserObjects |->
                      IF \E u \in Users : urow[u] # None /\ uo[u] = o
                      THEN urow[CHOOSE u \in Users : uo[u] = o] ELSE Blank]
      /\ UNCHANGED <<urow, who, given, late, planned, login>>
  BY DEF Restart
<1>3. uo \in [Users -> UserObjects] /\ \A u, v \in Users : uo[u] = uo[v] => u = v
  <2>1. Cardinality(Users) <= Cardinality(UserObjects)
    <3>1. /\ Cardinality(Users) \in Nat /\ Cardinality(Calls) \in Nat
          /\ Cardinality(UserObjects) \in Nat
      BY FS_CardinalityType, VisitorKeys, VisitorUsers
    <3> QED
      BY <3>1, VisitorUsers
  <2>2. \E f \in [Users -> UserObjects] : IsInjective(f)
    BY <2>1, SmallerGoesIn, VisitorUsers
  <2>3. uo \in [Users -> UserObjects] /\ IsInjective(uo)
    BY <2>2
  <2> HIDE DEF uo
  <2> QED
    BY <2>3 DEF IsInjective
<1> HIDE DEF uo
<1>4. ASSUME NEW u \in Users, urow[u] # None
      PROVE  ucache'[u] = uo[u] /\ uo[u] \in UserObjects /\ uo[u] # None /\ uheap'[uo[u]] = urow[u]
  <2>1. (CHOOSE v \in Users : uo[v] = uo[u]) = u
    BY <1>3
  <2>2. uo[u] \in UserObjects /\ uo[u] # None
    BY <1>3, UserCalls
  <2>3. uheap'[uo[u]] = urow[CHOOSE v \in Users : uo[v] = uo[u]]
    BY <1>2, <1>4, <2>2
  <2>4. uheap'[uo[u]] = urow[u]
    BY <2>1, <2>3, Zenon
  <2> QED
    BY <1>2, <1>4, <2>2, <2>4
<1>5. \A u \in Users : urow[u] = None => ucache'[u] = None
  BY <1>2
<1>6. ASSUME NEW c \in Calls
      PROVE  /\ at'[c] \in Resting
             /\ c \notin InFlight => at'[c] = at[c]
             /\ c \in InFlight => at'[c] = After(c)
  BY <1>2 DEF InFlight, Resting, After
<1>7. UserTypes'
  <2>1. ASSUME NEW o \in UserObjects PROVE uheap'[o] \in Fields
    <3>1. CASE \E u \in Users : urow[u] # None /\ uo[u] = o
      <4>1. PICK u \in Users : urow[u] # None /\ uo[u] = o
        BY <3>1
      <4> QED
        BY <1>1, <1>4, <4>1 DEF UserTypes, Rows
    <3>2. CASE ~ \E u \in Users : urow[u] # None /\ uo[u] = o
      <4>1. uheap'[o] = Blank
        BY <1>2, <3>2
      <4> QED
        BY <4>1 DEF Blank, Fields
    <3> QED
      BY <3>1, <3>2
  <2>2. uheap' \in [UserObjects -> Fields]
    BY <1>2, <2>1
  <2>3. ucache' \in [Users -> UserObjects \cup {None}]
    BY <1>2, <1>4, <1>5
  <2>4. ~UsersLoaded'
    BY <1>2 DEF UsersLoaded
  <2> QED
    BY <1>1, <1>2, <2>2, <2>3, <2>4 DEF UserTypes
<1>8. UserPlaces'
  <2>1. ASSUME NEW c \in Tokens PROVE at'[c] \in LoginPlaces
    BY <1>1, <1>6, UserCalls DEF UserPlaces, After, LoginPlaces
  <2>2. ASSUME NEW c \in TrialCalls PROVE at'[c] \in TrialPlaces
    BY <1>1, <1>6, UserCalls DEF UserPlaces, After, TrialPlaces
  <2>3. ASSUME NEW c \in EditCalls PROVE at'[c] \in EditPlaces
    BY <1>1, <1>6, UserCalls DEF UserPlaces, After, EditPlaces
  <2>4. ASSUME NEW c \in Calls \ QuickCalls, at'[c] # "none" PROVE who'[c] \in Users
    <3>1. at[c] # "none"
      BY <1>2, <1>6, <2>4 DEF InFlight, Resting
    <3> QED
      BY <1>1, <1>2, <3>1 DEF UserPlaces
  <2>5. ASSUME NEW c \in Calls
        PROVE  at'[c] \notin Saves \cup SavePlaces \cup {"upgrade"}
               /\ uimage'[c] = None /\ uobj'[c] = None /\ kept'[c] = None
    BY <1>2, <1>6 DEF Resting, Saves, SavePlaces
  <2> QED
    BY <1>1, <1>2, <2>1, <2>2, <2>3, <2>4, <2>5, UserCalls DEF UserPlaces
<1>9. LoginsInv'
  <2>1. \A t \in Tokens : Still(t) \/ at[t] # "none"
    BY <1>2, <1>6, UserCalls DEF Still, InFlight, Resting
  <2> QED
    BY <1>1, <1>2, <2>1, LoginsStay
<1>10. RowsInv'
  <2>1. \A c \in Calls : uobj'[c] = None /\ kept'[c] = None
        /\ at'[c] \notin {"add", "tsave", "install", "registered", "attached"}
    BY <1>2, <1>6 DEF Resting
  <2>2. ~UsersLoaded'
    BY <1>2 DEF UsersLoaded
  <2> QED
    BY <1>2, <1>4, <1>5, <2>1, <2>2 DEF RowsInv
<1>11. ObjectsApart'
  <2>1. \A c \in Calls : \A o : ~HoldsThen(c, o)
    BY <1>2 DEF HoldsThen
  <2>2. \A u, v \in Users : ucache'[u] # None /\ ucache'[u] = ucache'[v] => u = v
    BY <1>3, <1>4, <1>5
  <2> QED
    BY <2>1, <2>2 DEF ObjectsApart, Holds, HoldsThen
<1>12. FlagsInv'
  <2> SUFFICES ASSUME NEW u \in Users, u \notin astray' PROVE FlagInv(u)'
    BY DEF FlagsInv
  <2>1. u \notin astray /\ u \notin Unsettled(urow)
    BY <1>2
  <2>2. u \notin late /\ \A c \in Calls : who[c] = u => at[c] \in Resting
    BY <2>1 DEF Unsettled, InFlight
  <2>3. FlagInv(u)
    BY <2>1 DEF UserInv, FlagsInv
  <2>4. \A c \in Calls : who[c] = u => uimage[c] = None
    BY <1>1, <2>2 DEF UserPlaces, Resting, Saves
  <2>5. ucache[u] # None => urow[u] # None /\ urow[u].trial = uheap[ucache[u]].trial
    BY <1>1, <2>2, <2>3, <2>4 DEF FlagInv, RowAgrees, RowsInv
  <2>6. Flagged(u)' <=> urow[u] # None /\ urow[u].trial = 1
    BY <1>4, <1>5 DEF Flagged
  <2>7. Flagged(u)' <=> Flagged(u)
    BY <1>1, <2>5, <2>6 DEF Flagged, RowsInv
  <2>8. u \in given => Flagged(u)
    BY <2>2, <2>3 DEF FlagInv, Resting
  <2>9. ucache'[u] # None => RowAgrees(u)'
    BY <1>2, <1>4, <1>5 DEF RowAgrees
  <2> QED
    BY <1>2, <2>3, <2>7, <2>8, <2>9 DEF FlagInv, Holds
<1> QED
  BY <1>7, <1>8, <1>9, <1>10, <1>11, <1>12 DEF UserInv

-----------------------------------------------------------------------------
(* All steps                                                               *)

\* No step breaks what holds of the users.
LEMMA UserInvStep ==
    ASSUME UserInv, KeyInv, OwnInv, PollInv, [Next]_vars
    PROVE  UserInv'
<1>1. KeyInv' /\ planned.calls \subseteq Calls
  BY KeyInvStep DEF KeyInv, KeyTypes
<1>2. CASE \E c \in QuickCalls \cap planned.calls : AskDayKey(c) \/ QuickStep(c) \/ GiveDayKey(c)
  BY <1>1, <1>2, QuickKeepsUsers
<1>3. CASE \E c \in StartCalls \cap planned.calls :
              (\E u \in Users : StartLanding(c, u)) \/ StartStep(c) \/ PanelFails(c)
  BY <1>1, <1>3, StartKeepsUsers, AbortKeepsUsers
<1>4. CASE \/ \E c \in TrialCalls \cap planned.calls :
                 (\E u \in Users : AskForTrial(c, u)) \/ TrialStep(c)
           \/ \E c \in EditCalls \cap planned.calls :
                 (\E u \in Users : EditUser(c, u)) \/ EditSaved(c)
  BY <1>1, <1>4, OthersKeepUsers
<1>5. CASE \E c \in planned.calls : SaveStep(c) \/ AttachStep(c) \/ Aborts(c)
  <2>1. PICK c \in Calls : SaveStep(c) \/ AttachStep(c) \/ Aborts(c)
    BY <1>1, <1>5
  <2>2. CASE SaveStep(c)
    <3>1. LoginsInv'
      <4>1. PICK p : Goto(c, p)
        BY <2>2 DEF SaveStep, WriteUser
      <4>2. who' = who /\ UNCHANGED login /\ at[c] # "none"
        BY <2>2 DEF SaveStep, WriteUser, Same, loginVars
      <4>3. Moves(c, p, who[c])
        BY <4>1, <4>2, SameUserMoves
      <4> QED
        BY <4>2, <4>3, LoginsAreLeft DEF UserInv
    <3> QED
      BY <1>1, <2>2, <3>1, WriteKeepsUsers
  <2> QED
    BY <1>1, <2>1, <2>2, AttachKeepsUsers, AbortKeepsUsers
<1>6. CASE \/ \E b \in Browsers : Login(b) \/ CompleteLogin(b)
           \/ \E t \in Tokens : AnswerLogin(t)
           \/ LoginGoesOn
  BY <1>1, <1>6, LoginsKeepUsers DEF OwnInv
<1>7. CASE \/ \E k \in Keys : DayIsOver(k)
           \/ \E u \in planned.invited : RegisterInvited(u)
           \/ \E u \in Users : ReadUser(u)
  BY <1>1, <1>7, RowsKeepUsers
<1>8. CASE ReadTable \/ FillCache \/ Restart
  BY <1>1, <1>8, ReadTableKeepsUsers, FillCacheKeepsUsers, RestartKeepsUsers
<1>9. CASE UNCHANGED vars
  <2>1. UNCHANGED <<accountVars, loaded, planned, login>>
    BY <1>9 DEF vars, outside, loginVars
  <2> QED
    BY <1>1, <2>1, LoginRowsKeep
<1> QED
  BY <1>2, <1>3, <1>4, <1>5, <1>6, <1>7, <1>8, <1>9 DEF Next

\* It holds of every behaviour.
LEMMA UserInvariant == Spec => []UserInv
<1>1. Init => PollInv
  BY DEF Init, LoginInit, PollInv
<1>2. Spec => []PollInv
  BY <1>1, PollKeeps, PTL DEF Spec
<1> QED
  BY <1>2, InitUsers, UserInvStep, KeyInvariant, OwnInvariant, PTL DEF Spec

\* Between two requests the cached user, whom POST /keys/trial asks, says whether
\* the user has a trial, however the saves of the whole row overlapped or failed,
\* unless the object was replaced under a call or by an old row; so does the row,
\* once it was saved with no other save under way (installation_trial, update_user).
THEOREM TrialIsRecordedHolds == Spec => []TrialIsRecorded
<1>1. ASSUME UserInv PROVE TrialIsRecorded
  <2> SUFFICES ASSUME Quiet, NEW u \in Users \ astray, ucache[u] # None
               PROVE  /\ uheap[ucache[u]].trial = 1 <=> u \in given
                      /\ u \notin late => (urow[u].trial = 1 <=> u \in given)
    BY DEF TrialIsRecorded
  <2>1. FlagInv(u)
    BY <1>1 DEF UserInv, FlagsInv
  <2>2. \A c \in Calls : at[c] \in Resting
    BY DEF Quiet, InFlight
  <2>3. \A c \in Calls : at[c] # "install" /\ uimage[c] = None
    BY <1>1, <2>2 DEF UserInv, UserPlaces, Saves, Resting
  <2>4. Flagged(u) <=> u \in given
    BY <2>1, <2>3 DEF FlagInv
  <2>5. u \notin late => urow[u].trial = uheap[ucache[u]].trial
    BY <2>1, <2>3 DEF FlagInv, RowAgrees
  <2> QED
    BY <2>4, <2>5 DEF Flagged
<1> QED
  BY <1>1, UserInvariant, PTL
=============================================================================
