----------------------------- MODULE PanelProofs -----------------------------
(***************************************************************************)
(* The theorems about the 3x-ui panel and what hangs on it, each for every *)
(* value of the constants.                                                 *)
(*                                                                         *)
(* The circuit breaker: the clock of the model and the history agree, and  *)
(* the count of failures never exceeds the streak (Timing).                *)
(*                                                                         *)
(* The panel client: every step of its sessions is a step of the breaker's *)
(* specification or leaves the breaker alone, so that the breaker's        *)
(* theorems hold for the client.                                           *)
(*                                                                         *)
(* The approved inbounds: reloads of the cache, jobs that bring the        *)
(* clients to what is approved, and the locks of the keys (InboundInv).    *)
(*                                                                         *)
(* The synchronisation: the pages read so far are the first clients of the *)
(* panel, so that a complete list has every key at rest (PanelInv).        *)
(***************************************************************************)
EXTENDS PanelClient, ApprovedInbounds, PanelSync, FiniteSetTheorems, TLAPS

-----------------------------------------------------------------------------
(* The circuit breaker                                                     *)

\* How the breaker's timer and counter relate to what has really happened.
Timing ==
    /\ state = "open" => sinceOpen + wait = ResetTimeout
    /\ state = "half_open" => sinceOpen = ResetTimeout
    /\ failures <= streak

BreakerInv == TypeOK /\ Timing /\ ClosedBelowLimit

LEMMA InitBreakerInv == Init => BreakerInv
  BY BreakerConstants DEF Init, BreakerInv, TypeOK, Timing, ClosedBelowLimit, States

\* A call that is refused, or let in by a closed or half-open breaker.
LEMMA CallKeepsInv ==
    ASSUME BreakerInv, NEW c \in Calls, Call(c)
    PROVE  BreakerInv'
  <1>1. /\ state' \in States /\ successes' \in 0 .. SuccessThreshold - 1
        /\ \/ state' = state
           \/ state = "open" /\ wait = 0 /\ state' = "half_open"
    BY BreakerConstants DEF BreakerInv, TypeOK, States, Call, Elapsed
  <1>2. running' \subseteq Calls
    BY DEF BreakerInv, TypeOK, Call, Elapsed
  <1>3. UNCHANGED <<failures, wait, streak, sinceOpen>>
    BY DEF Call
  <1>. QED
    BY <1>1, <1>2, <1>3, BreakerConstants DEF BreakerInv, TypeOK, Timing, ClosedBelowLimit, States

\* What leaves the panel's side in order: the sets of calls.
LEMMA LeaveKeepsSets ==
    ASSUME TypeOK, NEW c, Leave(c)
    PROVE  running' \subseteq Calls
  BY DEF TypeOK, Leave

LEMMA SucceedKeepsInv ==
    ASSUME BreakerInv, NEW c \in Calls, Succeed(c)
    PROVE  BreakerInv'
  <1>1. /\ state' \in States /\ successes' \in 0 .. SuccessThreshold - 1
        /\ \/ state' = state
           \/ state = "half_open" /\ state' = "closed"
    BY BreakerConstants DEF BreakerInv, TypeOK, States, Succeed, OnSuccess
  <1>2. failures' = 0 /\ streak' = 0 /\ UNCHANGED <<wait, sinceOpen>>
    BY DEF Succeed, OnSuccess
  <1>3. running' \subseteq Calls
    BY LeaveKeepsSets DEF BreakerInv, Succeed
  <1>. QED
    BY <1>1, <1>2, <1>3, BreakerConstants DEF BreakerInv, TypeOK, Timing, ClosedBelowLimit, States

LEMMA FailKeepsInv ==
    ASSUME BreakerInv, NEW c \in Calls, Fail(c)
    PROVE  BreakerInv'
  <1>1. /\ successes' = 0
        /\ \/ state = "half_open" /\ state' = "open" /\ Opened /\ failures' = failures
           \/ /\ state # "half_open" /\ failures' = More(failures)
              /\ \/ failures + 1 >= FailMax /\ state' = "open" /\ Opened
                 \/ failures + 1 < FailMax /\ UNCHANGED <<state, wait, sinceOpen>>
    BY BreakerConstants DEF BreakerInv, TypeOK, Fail, OnFailure
  <1>2. streak' = More(streak)
    BY DEF Fail
  <1>3. running' \subseteq Calls
    BY LeaveKeepsSets DEF BreakerInv, Fail
  <1>. QED
    BY <1>1, <1>2, <1>3, BreakerConstants
    DEF BreakerInv, TypeOK, Timing, ClosedBelowLimit, States, More, Opened

LEMMA TickKeepsInv == BreakerInv /\ Tick => BreakerInv'
  BY BreakerConstants DEF BreakerInv, TypeOK, Timing, ClosedBelowLimit, States, Tick

LEMMA StutterKeepsInv == BreakerInv /\ UNCHANGED vars => BreakerInv'
  BY DEF BreakerInv, TypeOK, Timing, ClosedBelowLimit, vars, breaker, history

LEMMA NextKeepsInv == BreakerInv /\ [Next]_vars => BreakerInv'
  BY CallKeepsInv, SucceedKeepsInv, FailKeepsInv, TickKeepsInv, StutterKeepsInv
  DEF Next

LEMMA BreakerInvariant == Spec => []BreakerInv
  BY InitBreakerInv, NextKeepsInv, PTL DEF Spec

\* Every reachable state of the breaker is well typed.
THEOREM BreakerTypeCorrect == Spec => []TypeOK
  BY BreakerInvariant, PTL DEF BreakerInv

\* A closed breaker has counted fewer than fail_max failures.
THEOREM BreakerBelowLimit == Spec => []ClosedBelowLimit
  BY BreakerInvariant, PTL DEF BreakerInv

\* One step of TripsOnlyOnStreak: only a failing call opens a closed breaker.
LEMMA TripStep ==
    ASSUME BreakerInv, [Next]_vars, state = "closed", state' = "open"
    PROVE  streak' >= FailMax
  <1>1. PICK c \in Calls : Fail(c)
    BY DEF Next, Call, Succeed, OnSuccess, Elapsed, Tick, vars, breaker
  <1>2. failures + 1 >= FailMax /\ streak' = More(streak)
    BY <1>1 DEF Fail, OnFailure
  <1>. QED
    BY <1>2, BreakerConstants DEF BreakerInv, TypeOK, Timing, More

\* The breaker trips only on a streak of fail_max failures.
THEOREM BreakerTripsOnStreak == Spec => TripsOnlyOnStreak
  <1>1. BreakerInv /\ [Next]_vars => [state = "closed" /\ state' = "open" => streak' >= FailMax]_vars
    BY TripStep
  <1>. QED
    BY <1>1, BreakerInvariant, PTL DEF Spec, TripsOnlyOnStreak

\* One step of RestsWhenOpen: only Call lets a call in.
LEMMA RestStep ==
    ASSUME BreakerInv, [Next]_vars, ~(running' \subseteq running), state # "closed"
    PROVE  sinceOpen = ResetTimeout
  <1>1. PICK c \in Calls : Call(c)
    BY DEF Next, Succeed, Fail, Leave, Tick, vars, breaker
  <1>2. state' # "open"
    BY <1>1 DEF Call
  <1>3. CASE state = "half_open"
    BY <1>3 DEF BreakerInv, Timing
  <1>4. CASE state = "open"
    <2>1. wait = 0
      BY <1>1, <1>2, <1>4 DEF Call, Elapsed
    <2>. QED
      BY <2>1, <1>4, BreakerConstants DEF BreakerInv, TypeOK, Timing
  <1>. QED
    BY <1>3, <1>4 DEF BreakerInv, TypeOK, States

\* No call reaches the panel before reset_timeout has passed.
THEOREM BreakerRests == Spec => RestsWhenOpen
  <1>1. BreakerInv /\ [Next]_vars
        => [running' \subseteq running \/ state = "closed" \/ sinceOpen = ResetTimeout]_vars
    BY RestStep
  <1>. QED
    BY <1>1, BreakerInvariant, PTL DEF Spec, RestsWhenOpen

-----------------------------------------------------------------------------
(* The client is a user of the breaker                                     *)


\* The steps of one coroutine.
LEMMA WorkStep ==
    ASSUME NEW c \in Calls, Work(c)
    PROVE  Call(c) \/ Succeed(c) \/ Fail(c) \/ UNCHANGED vars
  <1>1. CASE Login(c) \/ SendAdd(c)
    BY <1>1 DEF Login, SendAdd
  <1>2. CASE LoggedIn(c) \/ AddAnswered(c) \/ AddRejected(c)
    BY <1>2 DEF LoggedIn, AddAnswered, AddRejected
  <1>3. CASE LoginFails(c) \/ AddFails(c)
    BY <1>3 DEF LoginFails, AddFails
  <1>4. CASE Begin(c) \/ Csrf(c) \/ PostLogin(c) \/ AddOnPanel(c) \/ Link(c)
    BY <1>4 DEF Begin, Csrf, PostLogin, AddOnPanel, Link
  <1>5. CASE Read(c) \/ ReadFails(c) \/ List(c)
    BY <1>5 DEF Read, ReadFails, List
  <1>6. CASE Write(c) \/ WriteRejected(c) \/ WriteFails(c) \/ WriteAnswered(c) \/ WriteLost(c)
    BY <1>6 DEF Write, WriteRejected, WriteFails, WriteAnswered, WriteLost
  <1>. QED
    BY <1>1, <1>2, <1>3, <1>4, <1>5, <1>6 DEF Work

\* Every step of the client is one of the breaker, or none of its business.
LEMMA ClientStep == [ClientNext]_clientVars => [Next]_vars
  <1>1. ASSUME NEW c \in Calls, Work(c) PROVE [Next]_vars
    BY <1>1, WorkStep DEF Next
  <1>2. TimePasses => [Next]_vars
    BY DEF TimePasses, Next
  <1>3. PanelDown \/ PanelUp => [Next]_vars
    BY DEF PanelDown, PanelUp
  <1>4. UNCHANGED clientVars => [Next]_vars
    BY DEF clientVars
  <1>. QED
    BY <1>1, <1>2, <1>3, <1>4 DEF ClientNext

\* The panel client implements the breaker's specification.
THEOREM ClientUsesBreaker == ClientSpec => UsesBreaker
  <1>1. ClientInit => Init
    BY DEF ClientInit
  <1>. QED
    BY <1>1, ClientStep, PTL DEF ClientSpec, Spec, UsesBreaker

\* The breaker rests in use as it does by itself.
THEOREM ClientRests == ClientSpec => RestsWhenOpen
  BY ClientUsesBreaker, BreakerRests, PTL DEF UsesBreaker

-----------------------------------------------------------------------------
(* What a coroutine has done by the place it is at                         *)

\* A client none of whose fields fell back to the default.
Whole == [date : 1..2, rest : 1..2]

\* The places after the one request that changes the client.
Posted == {"adding", "added", "rejected", "link", "sent"}

CallInv(c) ==
    /\ sent[c] = 0 \/ (sent[c] = 1 /\ at[c] \in Posted)
    /\ at[c] \in {"added", "link", "sent"} => done[c]
    /\ body[c] # None => body[c] \in Whole
    /\ at[c] = "write" /\ op[c] \in Writes => body[c] # None

CallTypes ==
    /\ at \in [Calls -> Places] /\ op \in [Calls -> Ops \cup {None}]
    /\ sent \in [Calls -> Nat] /\ done \in [Calls -> BOOLEAN]
    /\ body \in [Calls -> Client \cup {None}]

ClientInv ==
    /\ CallTypes
    /\ \A c \in Calls : CallInv(c)
    /\ panel # None => panel \in Whole
    /\ ~phantom

LEMMA InitClientInv == ClientInit => ClientInv
  BY ClientConstants DEF ClientInit, ClientInv, CallTypes, CallInv, Created, Whole, Places, Ops, Client, Posted

\* An operation ends, and what it reports has happened.
LEMMA EndKeeps ==
    ASSUME ClientInv, NEW c \in Calls, NEW r, End(c, r),
           r = TRUE /\ op[c] \in Truthful => done[c],
           panel' # None => panel' \in Whole
    PROVE  ClientInv'
  <1>1. CallTypes'
    BY DEF ClientInv, CallTypes, End, Places
  <1>2. ~phantom'
    BY DEF ClientInv, End
  <1>3. ASSUME NEW d \in Calls PROVE CallInv(d)'
    <2>1. CASE d = c
      BY <2>1 DEF ClientInv, CallTypes, CallInv, End, Posted, Writes
    <2>2. CASE d # c
      BY <2>2 DEF ClientInv, CallTypes, CallInv, End
    <2>. QED
      BY <2>1, <2>2
  <1>. QED
    BY <1>1, <1>2, <1>3 DEF ClientInv

\* An operation ends with an error and reports nothing.
LEMMA ErrorKeeps ==
    ASSUME ClientInv, NEW c \in Calls, End(c, OnError(op[c])) \/ End(c, None) \/ End(c, FALSE),
           panel' # None => panel' \in Whole
    PROVE  ClientInv'
  <1>1. None # TRUE /\ OnError(op[c]) # TRUE
    BY ClientConstants DEF OnError
  <1>. QED
    BY <1>1, EndKeeps

\* An operation goes on, without a report.
LEMMA GoesOnKeeps ==
    ASSUME ClientInv, NEW c \in Calls, CallTypes', phantom' = phantom,
           \A d \in Calls \ {c} : /\ at'[d] = at[d] /\ op'[d] = op[d] /\ sent'[d] = sent[d]
                                  /\ done'[d] = done[d] /\ body'[d] = body[d],
           CallInv(c)', panel' # None => panel' \in Whole
    PROVE  ClientInv'
  <1>1. ASSUME NEW d \in Calls PROVE CallInv(d)'
    BY DEF ClientInv, CallInv
  <1>. QED
    BY <1>1 DEF ClientInv

\* The login: nothing has been sent yet.
LEMMA LoginKeeps ==
    ASSUME ClientInv, NEW c \in Calls,
           Begin(c) \/ Login(c) \/ Csrf(c) \/ PostLogin(c) \/ LoggedIn(c) \/ LoginFails(c)
    PROVE  ClientInv'
  <1>1. CASE Begin(c)
    <2>1. PICK o \in Ops : /\ op' = [op EXCEPT ![c] = o]
                           /\ at' = [at EXCEPT ![c] = IF authed[c] THEN First(o) ELSE "login"]
      BY <1>1, ClientConstants DEF Begin
    <2>2. CallTypes'
      BY <1>1, <2>1 DEF ClientInv, CallTypes, Begin, First, Places
    <2>3. CallInv(c)'
      BY <1>1, <2>1 DEF ClientInv, CallTypes, CallInv, Begin, First, Posted, Writes, Ops
    <2>. QED
      BY <1>1, <2>1, <2>2, <2>3, GoesOnKeeps DEF Begin, ClientInv, CallTypes
  <1>2. CASE Login(c)
    <2>1. CASE c \in running'
      BY <1>2, <2>1, GoesOnKeeps DEF Login, Goto, ClientInv, CallTypes, CallInv, Places, Posted, Writes
    <2>2. CASE c \notin running'
      BY <1>2, <2>2, ErrorKeeps DEF Login, ClientInv
    <2>. QED
      BY <2>1, <2>2
  <1>3. CASE Csrf(c) \/ PostLogin(c)
    BY <1>3, GoesOnKeeps DEF Csrf, PostLogin, Goto, ClientInv, CallTypes, CallInv, Places, Posted
  <1>4. CASE LoggedIn(c)
    BY <1>4, GoesOnKeeps DEF LoggedIn, Goto, First, ClientInv, CallTypes, CallInv, Places, Posted, Writes
  <1>5. CASE LoginFails(c)
    <2>1. CASE Again(c)
      BY <1>5, <2>1, GoesOnKeeps DEF LoginFails, Again, ClientInv, CallTypes, CallInv, Places, Posted
    <2>2. CASE End(c, IF op[c] = "add" THEN None ELSE OnError(op[c]))
      BY <1>5, <2>2, ErrorKeeps DEF LoginFails, ClientInv
    <2>. QED
      BY <1>5, <2>1, <2>2 DEF LoginFails
  <1>. QED
    BY <1>1, <1>2, <1>3, <1>4, <1>5

\* add_client through the breaker.
LEMMA AddKeeps ==
    ASSUME ClientInv, NEW c \in Calls,
           SendAdd(c) \/ AddOnPanel(c) \/ AddAnswered(c) \/ AddRejected(c) \/ AddFails(c) \/ Link(c)
    PROVE  ClientInv'
  <1>1. CASE SendAdd(c)
    <2>1. CASE c \in running'
      BY <1>1, <2>1, ClientConstants, GoesOnKeeps
      DEF SendAdd, Counted, Goto, ClientInv, CallTypes, CallInv, Places, Posted, Writes
    <2>2. CASE c \notin running'
      BY <1>1, <2>2, EndKeeps DEF SendAdd, ClientInv
    <2>. QED
      BY <2>1, <2>2
  <1>2. CASE AddOnPanel(c)
    <2>1. panel' # None => panel' \in Whole
      BY <1>2 DEF AddOnPanel, Created, Whole, ClientInv
    <2>2. CallTypes'
      BY <1>2 DEF AddOnPanel, Goto, ClientInv, CallTypes, Places
    <2>3. CallInv(c)'
      BY <1>2 DEF AddOnPanel, Accepts, Goto, ClientInv, CallTypes, CallInv, Posted, Writes
    <2>. QED
      BY <1>2, <2>1, <2>2, <2>3, GoesOnKeeps DEF AddOnPanel, Goto, ClientInv, CallTypes
  <1>3. CASE AddAnswered(c)
    BY <1>3, GoesOnKeeps
    DEF AddAnswered, Goto, ClientInv, CallTypes, CallInv, Places, Posted, Writes
  <1>4. CASE AddRejected(c)
    BY <1>4, EndKeeps DEF AddRejected, ClientInv
  <1>5. CASE AddFails(c)
    BY <1>5, ErrorKeeps DEF AddFails, Failed, ClientInv
  <1>6. CASE Link(c)
    BY <1>6, EndKeeps DEF Link, ClientInv, CallInv
  <1>. QED
    BY <1>1, <1>2, <1>3, <1>4, <1>5, <1>6

\* A client written back has the fields it was read with and those to change.
LEMMA PayloadIsWhole ==
    ASSUME NEW c \in Calls, body[c] \in Whole
    PROVE  Payload(c) \in Whole
  BY DEF Payload, Changed, Extended, Edited, Restored, Whole

\* The operations around the breaker.
LEMMA WriteKeeps ==
    ASSUME ClientInv, NEW c \in Calls,
           \/ Read(c) \/ ReadFails(c) \/ List(c)
           \/ Write(c) \/ WriteRejected(c) \/ WriteFails(c) \/ WriteAnswered(c) \/ WriteLost(c)
    PROVE  ClientInv'
  <1>1. CASE Read(c)
    BY <1>1, ClientConstants, GoesOnKeeps
    DEF Read, Goto, ClientInv, CallTypes, CallInv, Places, Posted, Writes, Whole, Client
  <1>2. CASE ReadFails(c) \/ List(c)
    <2>1. CASE (ReadFails(c) /\ op[c] = "delete") \/ (List(c) /\ Answers(c))
      BY <2>1, EndKeeps DEF ReadFails, List, Truthful, ClientInv
    <2>2. CASE (ReadFails(c) /\ op[c] # "delete") \/ (List(c) /\ ~Answers(c))
      <3>1. End(c, OnError(op[c]))
        BY <2>2 DEF ReadFails, List, Failed
      <3>. QED
        BY <2>2, <3>1, ErrorKeeps DEF ReadFails, List, ClientInv
    <2>. QED
      BY <1>2, <2>1, <2>2
  <1>3. CASE Write(c)
    <2>1. panel' # None => panel' \in Whole
      BY <1>3, PayloadIsWhole DEF Write, ClientInv, CallInv
    <2>. QED
      BY <1>3, <2>1, ClientConstants, GoesOnKeeps
      DEF Write, Counted, Goto, ClientInv, CallTypes, CallInv, Places, Posted, Writes
  <1>4. CASE WriteRejected(c)
    <2>1. CASE End(c, OnError(op[c]))
      BY <1>4, <2>1, ErrorKeeps DEF WriteRejected, ClientInv
    <2>2. CASE op[c] = "delete" /\ End(c, TRUE)
      BY <1>4, <2>2, EndKeeps DEF WriteRejected, Truthful, ClientInv
    <2>. QED
      BY <1>4, <2>1, <2>2 DEF WriteRejected
  <1>5. CASE WriteFails(c) \/ WriteLost(c)
    BY <1>5, ErrorKeeps DEF WriteFails, WriteLost, Failed, ClientInv
  <1>6. CASE WriteAnswered(c)
    <2>1. CASE op[c] = "extend"
      BY <1>6, <2>1, GoesOnKeeps
      DEF WriteAnswered, Goto, ClientInv, CallTypes, CallInv, Places, Posted, Writes
    <2>2. CASE op[c] # "extend"
      BY <1>6, <2>2, EndKeeps DEF WriteAnswered, ClientInv, CallInv
    <2>. QED
      BY <2>1, <2>2
  <1>. QED
    BY <1>1, <1>2, <1>3, <1>4, <1>5, <1>6

LEMMA ClientInvariant == ClientSpec => []ClientInv
  <1>1. ASSUME ClientInv, NEW c \in Calls, Work(c) PROVE ClientInv'
    BY <1>1, LoginKeeps, AddKeeps, WriteKeeps DEF Work
  <1>2. ClientInv /\ (TimePasses \/ PanelDown \/ PanelUp) => ClientInv'
    BY DEF TimePasses, PanelDown, PanelUp, sessions, calls, ClientInv, CallTypes, CallInv
  <1>3. ClientInv /\ UNCHANGED clientVars => ClientInv'
    BY DEF clientVars, sessions, calls, ClientInv, CallTypes, CallInv
  <1>4. ClientInv /\ [ClientNext]_clientVars => ClientInv'
    BY <1>1, <1>2, <1>3 DEF ClientNext
  <1>. QED
    BY <1>4, InitClientInv, PTL DEF ClientSpec

\* No request that changes a client is sent twice by the retries.
THEOREM ClientSentOnce == ClientSpec => []SentOnce
  <1>1. ClientInv => SentOnce
    <2>1. SUFFICES ASSUME ClientInv, NEW c \in Calls PROVE sent[c] <= 1
      BY DEF SentOnce
    <2>. QED
      BY <2>1 DEF ClientInv, CallInv
  <1>. QED
    BY <1>1, ClientInvariant, PTL

\* What is reported as done is done.
THEOREM ClientTrueIsDone == ClientSpec => []TrueIsDone
  <1>1. ClientInv => TrueIsDone
    BY DEF ClientInv, TrueIsDone
  <1>. QED
    BY <1>1, ClientInvariant, PTL

\* No field of a client is reset by writing it back.
THEOREM ClientNothingZeroed == ClientSpec => []NothingZeroed
  <1>1. ClientInv => NothingZeroed
    BY DEF ClientInv, NothingZeroed, Whole
  <1>. QED
    BY <1>1, ClientInvariant, PTL

-----------------------------------------------------------------------------
(* Approved inbounds                                                       *)

\* The reload that holds the lock has read the table after every change whose
\* own reload is over.
ReloadInv ==
    /\ \A r \in Reloaders : stage[r] = "fill" => lock = r
    /\ lock # Nil => stage[lock] = "fill" /\ seen[lock] # Nil
    /\ (\A r \in Reloaders : stage[r] \notin {"reload", "seed"}) =>
          (IF lock = Nil THEN cached ELSE seen[lock]) = approved

\* What a client may be brought to: a set that was approved at some time, or
\* the fallback, and not the empty set.
Wholes == (ever \cup {Env}) \ {{}}
Active(s) == set[s] \notin {"off", "over"}

GoalInv ==
    /\ approved \in ever /\ cached \in ever
    /\ lock # Nil => seen[lock] \in ever
    /\ \A r \in Requests :
          stage[r] \in {"collect", "start"} \/ job[r] = "running" => target[r] \in Wholes
    /\ \A k \in NewKeys : create[k] # "none" => chosen[k] \in Wholes
    /\ \A s \in Setters : Active(s) => goal[s] \in Wholes

JobInv ==
    /\ \A r \in Requests : job[r] # "none" => stage[r] = "over"
    /\ \A r, q \in Requests : job[r] = "running" /\ job[q] = "running" => r = q
    /\ \A r \in Requests : job[r] = "running" => last \in {r, Nil}
    /\ \A r \in Requests : job[r] = "done" => queue[r] = {}
    /\ \A w \in Workers : Active(w) => job[w[1]] = "running" /\ goal[w] = target[w[1]]

\* A key is changed only once it has a row, and it has none while it is created.
RowInv ==
    /\ \A k \in NewKeys : create[k] # "over" => k \notin rows
    /\ \A k \in NewKeys : create[k] = "save" => client[k] = chosen[k]
    /\ \A r \in Requests : emails[r] \subseteq rows /\ queue[r] \subseteq rows
    /\ \A s \in Setters : Active(s) => key[s] \in rows
    /\ \A s \in Edits : Active(s) => key[s] = KeyOf[s]

\* Two who change one client are an edit and another, and the key is marked.
Apart(s, t) == key[s] \in mixed /\ (s \in Edits \/ t \in Edits)
Alone ==
    \A s, t \in Setters :
        s # t /\ Changing(s) /\ Changing(t) /\ key[s] = key[t] => Apart(s, t)

Progress(s) ==
    LET k == key[s] IN
    /\ set[s] = "attach" => missing[s] = goal[s] \ client[k] /\ extra[s] = client[k] \ goal[s]
    /\ set[s] = "detach" =>
          k \in flawed \/ (goal[s] \subseteq client[k] /\ extra[s] = client[k] \ goal[s])
    /\ set[s] = "verify" => k \in flawed \/ client[k] = goal[s]

Halfway(s) == set[s] \in {"attach", "detach", "verify"}

SetInv ==
    /\ \A s \in Setters : key[s] \notin mixed => Progress(s)
    /\ \A k \in rows \ (flawed \cup mixed) :
          (\A s \in Setters : Halfway(s) => key[s] # k) => client[k] \in ever \cup {Env}

Worked(k) == \E w \in Workers : w[1] = last /\ Active(w) /\ key[w] = k

Settled(k) ==
    /\ \A s \in Setters : Changing(s) /\ key[s] = k => goal[s] = target[last]
    /\ k \in flawed \/ client[k] = target[last]

LastInv ==
    last # Nil /\ job[last] \in {"running", "done"} =>
        \A k \in emails[last] \ mixed :
            k \in queue[last] \/ Worked(k) \/ k \in failed[last] \/ Settled(k)

\* The groups of variables that the actions leave alone.
USE DEF tables, requests, jobs, clients, creation, settings, bounds, record

\* Who takes part, and in which roles.
LEMMA Kinds ==
    /\ Requests \subseteq Reloaders /\ Loader \in Reloaders /\ Loader \notin Requests
    /\ Nil \notin Reloaders /\ Nil \notin Keys /\ Nil \notin Sets
    /\ \A r \in Reloaders : r \in Requests \/ r = Loader
    /\ Approvals \subseteq Requests /\ Revocations \subseteq Requests /\ Syncs \subseteq Requests
    /\ \A s \in Setters : s \in Workers \/ s \in Renewals \/ s \in Edits
    /\ Workers \subseteq Setters /\ Renewals \subseteq Setters /\ Edits \subseteq Setters
    /\ \A w \in Workers : w[1] \in Requests /\ w \notin Renewals /\ w \notin Edits
    /\ \A s \in Renewals \cup Edits : s \notin Workers /\ KeyOf[s] \in Keys
    /\ \A s \in Edits : s \notin Renewals
    /\ OldKeys \subseteq Keys /\ NewKeys \subseteq Keys
    /\ \A k \in Keys : k \in OldKeys <=> k \notin NewKeys
  BY InboundConstants DEF Requests, Reloaders, Setters, Workers, Keys

\* The approved ids are a set of inbounds.
LEMMA ApprovedIdsTyped ==
    ASSUME InboundTypeOK PROVE ApprovedIds \in Sets
  BY InboundConstants DEF InboundTypeOK, ApprovedIds

\* The types hold before anything has run.
LEMMA InboundInitTyped == InboundInit => InboundTypeOK
  BY InboundConstants, Kinds DEF InboundInit, InboundTypeOK, Sets

\* Requests and reloads.
LEMMA RequestsTyped ==
    ASSUME InboundTypeOK, NEW r \in Requests,
           \/ Add(r) \/ Lookup(r) \/ CountRows(r) \/ RemoveRow(r) \/ AskSync(r)
           \/ Resolve(r) \/ Collect(r) \/ StartJob(r) \/ Cancel(r) \/ EndJob(r)
    PROVE  InboundTypeOK'
<1> USE Kinds DEF InboundTypeOK, Enter, Approve, ComesIn
<1>1. CASE Add(r)
  <2>1. AboutOf[r] \in Inbounds
    BY <1>1, InboundConstants DEF Add
  <2> QED
    BY <1>1, <2>1 DEF Add, Sets
<1>2. CASE Lookup(r)
  BY <1>2 DEF Lookup
<1>3. CASE CountRows(r)
  BY <1>3 DEF CountRows
<1>4. CASE RemoveRow(r)
  <2>1. approved \ {AboutOf[r]} \in Sets
    BY DEF Sets
  <2>2. CASE MayRemove(r)
    <3>1. approved' \in Sets /\ ever' \subseteq Sets
      <4>1. approved' = approved \ {AboutOf[r]} /\ ever' = ever \cup {approved'}
        BY <1>4, <2>2 DEF RemoveRow
      <4> QED
        BY <2>1, <4>1
    <3>2. /\ stage' = [stage EXCEPT ![r] = "reload"] /\ seen' = [seen EXCEPT ![r] = Nil]
          /\ r \in Reloaders /\ r # Loader
      BY <1>4, <2>2 DEF RemoveRow
    <3> QED
      BY <1>4, <3>1, <3>2 DEF RemoveRow
  <2>3. CASE ~MayRemove(r)
    BY <1>4, <2>3 DEF RemoveRow
  <2> QED
    BY <2>2, <2>3
<1>5. CASE AskSync(r)
  BY <1>5 DEF AskSync
<1>6. CASE Resolve(r)
  <2>1. PICK asked \in Asked(r) :
           target' = [target EXCEPT ![r] = asked] /\ ever' = ever \cup {asked}
    BY <1>6 DEF Resolve
  <2>2. asked \in Sets
    BY <2>1, ApprovedIdsTyped DEF Asked, Sets
  <2> QED
    BY <1>6, <2>1, <2>2 DEF Resolve
<1>7. CASE Collect(r)
  BY <1>7 DEF Collect
<1>8. CASE StartJob(r)
  BY <1>8 DEF StartJob
<1>9. CASE Cancel(r)
  BY <1>9 DEF Cancel
<1>10. CASE EndJob(r)
  BY <1>10 DEF EndJob
<1> QED
  BY <1>1, <1>2, <1>3, <1>4, <1>5, <1>6, <1>7, <1>8, <1>9, <1>10

\* A reload of the cache of approved ids keeps the types.
LEMMA ReloadsTyped ==
    ASSUME InboundTypeOK, ReloadInv, RowInv,
           \/ \E r \in Reloaders : ReloadRead(r) \/ ReloadFill(r)
           \/ Load \/ Seed \/ Restart
    PROVE  InboundTypeOK'
<1> USE Kinds DEF InboundTypeOK, Enter, Approve, ComesIn
<1>1. ASSUME NEW r \in Reloaders, ReloadRead(r) PROVE InboundTypeOK'
  BY <1>1 DEF ReloadRead
<1>2. ASSUME NEW r \in Reloaders, ReloadFill(r) PROVE InboundTypeOK'
  <2>1. seen[r] \in Sets
    BY <1>2 DEF ReloadFill, ReloadInv
  <2> QED
    BY <1>2, <2>1 DEF ReloadFill, AfterReload
<1>3. CASE Load
  BY <1>3 DEF Load
<1>4. CASE Seed
  BY <1>4, InboundConstants DEF Seed, Sets
<1>5. CASE Restart
  <2>1. approved' \in Sets /\ cached' \in Sets /\ ever' \subseteq Sets
    BY <1>5, InboundConstants DEF Restart
  <2>2. /\ stage' \in [Reloaders -> {"idle", "change", "reload", "fill", "resolve", "collect",
                                      "start", "seed", "over"}]
        /\ stage'[Loader] = "idle"
    BY <1>5 DEF Restart
  <2>3. /\ seen' \in [Reloaders -> Sets \cup {Nil}] /\ lock' = Nil
        /\ job' \in [Requests -> {"none", "running", "done", "cancelled", "lost"}]
        /\ queue' \in [Requests -> SUBSET Keys]
    BY <1>5 DEF Restart
  <2>4. create' \in [NewKeys -> {"none", "panel", "save", "over"}]
    BY <1>5 DEF Restart
  <2>5. flawed' \subseteq Keys
    <3>1. ASSUME NEW s \in Setters, Changing(s) PROVE key[s] \in Keys
      BY <3>1 DEF RowInv, Changing, Active
    <3> QED
      BY <1>5, <3>1 DEF Restart
  <2>6. /\ set' \in [Setters -> {"off", "wait", "read", "attach", "detach", "verify", "over"}]
        /\ key' \in [Setters -> Keys \cup {Nil}]
    BY <1>5 DEF Restart
  <2>7. goal' \in [Setters -> Sets] /\ missing' \in [Setters -> Sets] /\ extra' \in [Setters -> Sets]
    BY <1>5 DEF Restart, Sets
  <2>8. /\ faults' \in Nat
        /\ UNCHANGED <<target, emails, failed, canceled, rows, client, chosen, loads, mixed, last>>
    BY <1>5 DEF Restart, Fault
  <2> QED
    BY <2>1, <2>2, <2>3, <2>4, <2>5, <2>6, <2>7, <2>8
<1> QED
  BY <1>1, <1>2, <1>3, <1>4, <1>5

\* Callers of set_inbounds, and creations.
LEMMA SettersTyped ==
    ASSUME InboundTypeOK, RowInv, NEW s \in Setters, SetStep(s)
    PROVE  InboundTypeOK'
<1> USE Kinds DEF InboundTypeOK, Move, Return
<1>0. Active(s) => key[s] \in Keys
  BY DEF RowInv
<1>1. CASE CallSet(s)
  <2>1. KeyOf[s] \in Keys
    BY <1>1 DEF CallSet
  <2> QED
    BY <1>1, <2>1, ApprovedIdsTyped DEF CallSet, Join
<1>2. CASE Take(s)
  <2>1. PICK k \in queue[s[1]] : queue' = [queue EXCEPT ![s[1]] = @ \ {k}] /\ key' = [key EXCEPT ![s] = k]
    BY <1>2 DEF Take
  <2>2. s \in Workers /\ s[1] \in Requests /\ k \in Keys
    BY <1>2, <2>1 DEF Take
  <2> QED
    BY <1>2, <2>1, <2>2 DEF Take
<1>3. CASE LockKey(s)
  <2>1. key[s] \in Keys
    BY <1>0, <1>3 DEF LockKey, Active
  <2> QED
    BY <1>3, <2>1 DEF LockKey, Join
<1>4. CASE ReadClient(s)
  <2>1. key[s] \in Keys
    BY <1>0, <1>4 DEF ReadClient, Active
  <2>2. goal[s] \ client[key[s]] \in Sets /\ client[key[s]] \ goal[s] \in Sets
    BY <2>1 DEF Sets
  <2> QED
    BY <1>4, <2>2 DEF ReadClient
<1>5. CASE Attach(s)
  <2>1. key[s] \in Keys
    BY <1>0, <1>5 DEF Attach, Active
  <2>2. PICK part \in SUBSET missing[s] :
           /\ client' = [client EXCEPT ![key[s]] = @ \cup part]
           /\ faults' \in {faults, faults + 1} /\ flawed' \in {flawed, flawed \cup {key[s]}}
    BY <1>5 DEF Attach, Fault
  <2>3. client[key[s]] \cup part \in Sets /\ {} \in Sets
    BY <2>1 DEF Sets
  <2>4. client' \in [Keys -> Sets] /\ flawed' \subseteq Keys /\ faults' \in Nat
    BY <2>1, <2>2, <2>3
  <2> QED
    BY <1>5, <2>3, <2>4 DEF Attach
<1>6. CASE Detach(s)
  <2>1. key[s] \in Keys
    BY <1>0, <1>6 DEF Detach, Active
  <2>2. PICK part \in SUBSET extra[s] :
           /\ client' = [client EXCEPT ![key[s]] = @ \ part]
           /\ faults' \in {faults, faults + 1} /\ flawed' \in {flawed, flawed \cup {key[s]}}
    BY <1>6 DEF Detach, Fault
  <2>3. client[key[s]] \ part \in Sets /\ {} \in Sets
    BY <2>1 DEF Sets
  <2>4. client' \in [Keys -> Sets] /\ flawed' \subseteq Keys /\ faults' \in Nat
    BY <2>1, <2>2, <2>3
  <2>5. /\ set' \in [Setters -> {"off", "wait", "read", "attach", "detach", "verify", "over"}]
        /\ goal' \in [Setters -> Sets] /\ extra' \in [Setters -> Sets]
    <3>1. CASE s \in Workers
      BY <1>6, <2>3, <3>1 DEF Detach
    <3>2. CASE s \notin Workers
      <4>1. /\ set' = [set EXCEPT ![s] = "over"] /\ goal' = [goal EXCEPT ![s] = {}]
            /\ extra' = [extra EXCEPT ![s] = {}]
        BY <1>6, <3>2 DEF Detach
      <4> QED
        BY <2>3, <4>1
    <3> QED
      BY <3>1, <3>2
  <2> QED
    BY <1>6, <2>4, <2>5 DEF Detach
<1>7. CASE Verify(s)
  <2>1. s \in Workers /\ key[s] \in Keys /\ s[1] \in Requests
    BY <1>0, <1>7 DEF Verify, Active
  <2>2. {} \in Sets
    BY DEF Sets
  <2> QED
    BY <1>7, <2>1, <2>2 DEF Verify
<1>8. CASE CallFails(s)
  <2>1. key[s] \in Keys
    BY <1>0, <1>8 DEF CallFails, Active
  <2>2. {} \in Sets
    BY DEF Sets
  <2>3. faults' \in Nat
    BY <1>8 DEF CallFails, Fault
  <2>4. /\ set' \in [Setters -> {"off", "wait", "read", "attach", "detach", "verify", "over"}]
        /\ goal' = [goal EXCEPT ![s] = {}]
    BY <1>8 DEF CallFails
  <2>5. failed' \in [Requests -> SUBSET Keys] /\ key' \in [Setters -> Keys \cup {Nil}]
    <3>1. CASE s \in Workers
      <4>1. s[1] \in Requests
        BY <3>1
      <4>2. failed' = [failed EXCEPT ![s[1]] = @ \cup {key[s]}] /\ key' = [key EXCEPT ![s] = Nil]
        BY <1>8, <3>1 DEF CallFails
      <4> QED
        BY <2>1, <4>1, <4>2
    <3>2. CASE s \notin Workers
      BY <1>8, <3>2 DEF CallFails
    <3> QED
      BY <3>1, <3>2
  <2>6. UNCHANGED <<tables, requests, job, queue, canceled, clients, creation, missing, extra, loads, record>>
    BY <1>8 DEF CallFails
  <2> QED
    BY <2>2, <2>3, <2>4, <2>5, <2>6
<1> QED
  BY <1>1, <1>2, <1>3, <1>4, <1>5, <1>6, <1>7, <1>8 DEF SetStep

\* A creation keeps the types.
LEMMA CreationsTyped ==
    ASSUME InboundTypeOK, NEW k \in NewKeys, ChooseSet(k) \/ AddClient(k) \/ SaveKey(k)
    PROVE  InboundTypeOK'
<1> USE Kinds DEF InboundTypeOK
<1>1. CASE ChooseSet(k)
  BY <1>1, ApprovedIdsTyped DEF ChooseSet
<1>2. CASE AddClient(k)
  BY <1>2 DEF AddClient
<1>3. CASE SaveKey(k)
  BY <1>3 DEF SaveKey
<1> QED
  BY <1>1, <1>2, <1>3

\* The types are kept by every step.
LEMMA InboundNextTyped ==
    ASSUME InboundTypeOK, ReloadInv, RowInv, [InboundNext]_inboundVars
    PROVE  InboundTypeOK'
<1>1. CASE InboundNext
  BY <1>1, RequestsTyped, ReloadsTyped, SettersTyped, CreationsTyped DEF InboundNext
<1>2. CASE UNCHANGED inboundVars
  BY <1>2 DEF inboundVars, InboundTypeOK
<1> QED
  BY <1>1, <1>2

-----------------------------------------------------------------------------
(* The cache and the table                                                 *)

\* No reload runs at first, and the cache is what the table holds.
LEMMA InitReload == InboundInit => ReloadInv
  BY Kinds DEF InboundInit, ReloadInv

\* A reload reads the table under its lock and publishes what it read
\* before the lock is free again.
LEMMA NextReload ==
    ASSUME InboundTypeOK, ReloadInv, [InboundNext]_inboundVars
    PROVE  ReloadInv'
<1> USE Kinds DEF InboundTypeOK, ReloadInv, Enter, Approve, ComesIn
<1>1. ASSUME NEW r \in Requests, Add(r) PROVE ReloadInv'
  BY <1>1 DEF Add
<1>2. ASSUME NEW r \in Requests, Lookup(r) PROVE ReloadInv'
  BY <1>2 DEF Lookup
<1>3. ASSUME NEW r \in Requests, CountRows(r) PROVE ReloadInv'
  BY <1>3 DEF CountRows
<1>4. ASSUME NEW r \in Requests, RemoveRow(r) PROVE ReloadInv'
  BY <1>4 DEF RemoveRow
<1>5. ASSUME NEW r \in Requests, AskSync(r) PROVE ReloadInv'
  BY <1>5 DEF AskSync
<1>6. ASSUME NEW r \in Requests, Resolve(r) PROVE ReloadInv'
  BY <1>6 DEF Resolve
<1>7. ASSUME NEW r \in Requests, Collect(r) PROVE ReloadInv'
  BY <1>7 DEF Collect
<1>8. ASSUME NEW r \in Requests, StartJob(r) PROVE ReloadInv'
  BY <1>8 DEF StartJob
<1>9. ASSUME NEW r \in Requests, Cancel(r) \/ EndJob(r) PROVE ReloadInv'
  BY <1>9 DEF Cancel, EndJob
<1>10. ASSUME NEW r \in Reloaders, ReloadRead(r) PROVE ReloadInv'
  BY <1>10 DEF ReloadRead, LockIsFree
<1>11. ASSUME NEW r \in Reloaders, ReloadFill(r) PROVE ReloadInv'
  BY <1>11 DEF ReloadFill, AfterReload
<1>12. CASE Load
  BY <1>12 DEF Load
<1>13. CASE Seed
  BY <1>13 DEF Seed
<1>14. CASE Restart
  BY <1>14 DEF Restart
<1>15. ASSUME NEW s \in Setters, SetStep(s) PROVE ReloadInv'
  BY <1>15 DEF SetStep, CallSet, ReadClient, Attach, Detach, Take, LockKey, Verify, CallFails
<1>16. ASSUME NEW k \in NewKeys, ChooseSet(k) \/ AddClient(k) \/ SaveKey(k) PROVE ReloadInv'
  BY <1>16 DEF ChooseSet, AddClient, SaveKey
<1>17. CASE UNCHANGED inboundVars
  BY <1>17 DEF inboundVars
<1> QED
  BY <1>1, <1>2, <1>3, <1>4, <1>5, <1>6, <1>7, <1>8, <1>9, <1>10, <1>11, <1>12, <1>13,
     <1>14, <1>15, <1>16, <1>17 DEF InboundNext

-----------------------------------------------------------------------------
(* Keys and their rows                                                     *)

\* At first the keys with a row are the old ones.
LEMMA InitRow == InboundInit => RowInv
  BY Kinds DEF InboundInit, RowInv, Active

\* What the calls in flight are about is not touched.
LEMMA RowStays ==
    ASSUME RowInv, UNCHANGED <<rows, client, create, chosen, set, key>>,
           \A r \in Requests : emails'[r] \subseteq rows /\ queue'[r] \subseteq rows
    PROVE  RowInv'
  BY DEF RowInv, Active

\* A row is saved after its client is created, and every change begins at a
\* row.
LEMMA NextRow ==
    ASSUME InboundTypeOK, RowInv, [InboundNext]_inboundVars
    PROVE  RowInv'
<1>1. ASSUME NEW r \in Requests,
             \/ Add(r) \/ Lookup(r) \/ CountRows(r) \/ RemoveRow(r) \/ AskSync(r)
             \/ Resolve(r) \/ Cancel(r) \/ EndJob(r)
      PROVE  RowInv'
  BY <1>1, RowStays DEF RowInv, Add, Lookup, CountRows, RemoveRow, AskSync, Resolve, Cancel, EndJob
<1>2. ASSUME NEW r \in Requests, Collect(r) PROVE RowInv'
  BY <1>2, RowStays DEF RowInv, InboundTypeOK, Collect
<1>3. ASSUME NEW r \in Requests, StartJob(r) PROVE RowInv'
  BY <1>3, RowStays DEF RowInv, InboundTypeOK, StartJob
<1>4. ASSUME NEW r \in Reloaders, ReloadRead(r) \/ ReloadFill(r) PROVE RowInv'
  BY <1>4, RowStays DEF RowInv, ReloadRead, ReloadFill
<1>5. CASE Load \/ Seed
  BY <1>5, RowStays DEF RowInv, Load, Seed
<1>6. CASE Restart
  BY <1>6, Kinds DEF RowInv, InboundTypeOK, Restart, Active
<1>7. ASSUME NEW k \in NewKeys, ChooseSet(k) PROVE RowInv'
  BY <1>7 DEF RowInv, InboundTypeOK, ChooseSet, Active
<1>8. ASSUME NEW k \in NewKeys, AddClient(k) PROVE RowInv'
  BY <1>8, Kinds DEF RowInv, InboundTypeOK, AddClient, Active
<1>9. ASSUME NEW k \in NewKeys, SaveKey(k) PROVE RowInv'
  BY <1>9, Kinds DEF RowInv, InboundTypeOK, SaveKey, Active
<1>10. ASSUME NEW s \in Setters, CallSet(s) PROVE RowInv'
  BY <1>10, Kinds DEF RowInv, InboundTypeOK, CallSet, Active, Move
<1>11. ASSUME NEW s \in Setters, Take(s) PROVE RowInv'
  BY <1>11, Kinds DEF RowInv, InboundTypeOK, Take, Active, Move
<1>12. ASSUME NEW s \in Setters, LockKey(s) \/ ReadClient(s) PROVE RowInv'
  BY <1>12, Kinds DEF RowInv, InboundTypeOK, LockKey, ReadClient, Active, Move
<1>13. ASSUME NEW s \in Setters, Attach(s) PROVE RowInv'
  BY <1>13, Kinds DEF RowInv, InboundTypeOK, Attach, Active, Move
<1>14. ASSUME NEW s \in Setters, Detach(s) PROVE RowInv'
  BY <1>14, Kinds DEF RowInv, InboundTypeOK, Detach, Active, Move, Return
<1>15. ASSUME NEW s \in Setters, Verify(s) PROVE RowInv'
  BY <1>15, Kinds DEF RowInv, InboundTypeOK, Verify, Active, Move, Return
<1>16. ASSUME NEW s \in Setters, CallFails(s) PROVE RowInv'
  BY <1>16, Kinds DEF RowInv, InboundTypeOK, CallFails, Active, Move, Return
<1>17. CASE UNCHANGED inboundVars
  BY <1>17 DEF inboundVars, RowInv, Active
<1> QED
  BY <1>1, <1>2, <1>3, <1>4, <1>5, <1>6, <1>7, <1>8, <1>9, <1>10, <1>11, <1>12, <1>13,
     <1>14, <1>15, <1>16, <1>17 DEF InboundNext, SetStep

-----------------------------------------------------------------------------
(* Jobs and their workers                                                  *)

\* No job runs at first.
LEMMA InitJob == InboundInit => JobInv
  BY Kinds DEF InboundInit, JobInv, Active

\* A step that leaves the requests, the jobs and the places of the workers
\* alone keeps the invariant of the jobs.
LEMMA JobStays ==
    ASSUME JobInv, UNCHANGED <<job, queue, target, set, goal>>,
           last' \in {last, Nil},
           \A r \in Requests : stage[r] = "over" => stage'[r] = "over"
    PROVE  JobInv'
  BY DEF JobInv, Active

\* A job starts alone, and its workers end with it.
LEMMA NextJob ==
    ASSUME InboundTypeOK, JobInv, [InboundNext]_inboundVars
    PROVE  JobInv'
<1>1. ASSUME NEW r \in Requests,
             \/ Add(r) \/ Lookup(r) \/ CountRows(r) \/ RemoveRow(r) \/ AskSync(r)
             \/ Collect(r) \/ Cancel(r)
      PROVE  JobInv'
  BY <1>1, JobStays, Kinds
     DEF InboundTypeOK, Add, Lookup, CountRows, RemoveRow, AskSync, Collect, Cancel, Enter, ComesIn
<1>2. ASSUME NEW r \in Requests, Resolve(r) PROVE JobInv'
  BY <1>2, Kinds DEF JobInv, InboundTypeOK, Resolve, Enter, Active
<1>3. ASSUME NEW r \in Requests, StartJob(r) PROVE JobInv'
  BY <1>3, Kinds DEF JobInv, InboundTypeOK, StartJob, Enter, Active, NoJobRuns
<1>4. ASSUME NEW r \in Requests, EndJob(r) PROVE JobInv'
  BY <1>4, Kinds DEF JobInv, InboundTypeOK, EndJob, Active
<1>5. ASSUME NEW r \in Reloaders, ReloadRead(r) \/ ReloadFill(r) PROVE JobInv'
  BY <1>5, JobStays, Kinds DEF InboundTypeOK, ReloadRead, ReloadFill, Enter
<1>6. CASE Load \/ Seed
  BY <1>6, JobStays, Kinds DEF InboundTypeOK, Load, Seed, Enter
<1>7. CASE Restart
  BY <1>7, Kinds DEF JobInv, InboundTypeOK, Restart, Active
<1>8. ASSUME NEW k \in NewKeys, ChooseSet(k) \/ AddClient(k) \/ SaveKey(k) PROVE JobInv'
  BY <1>8, JobStays DEF ChooseSet, AddClient, SaveKey
<1>9. ASSUME NEW s \in Setters, CallSet(s) PROVE JobInv'
  BY <1>9, Kinds DEF JobInv, InboundTypeOK, CallSet, Active, Move
<1>10. ASSUME NEW s \in Setters, Take(s) PROVE JobInv'
  BY <1>10, Kinds DEF JobInv, InboundTypeOK, Take, Active, Move
<1>11. ASSUME NEW s \in Setters, LockKey(s) \/ ReadClient(s) \/ Attach(s) PROVE JobInv'
  BY <1>11, Kinds DEF JobInv, InboundTypeOK, LockKey, ReadClient, Attach, Active, Move
<1>12. ASSUME NEW s \in Setters, Detach(s) PROVE JobInv'
  BY <1>12, Kinds DEF JobInv, InboundTypeOK, Detach, Active, Move, Return
<1>13. ASSUME NEW s \in Setters, Verify(s) PROVE JobInv'
  BY <1>13, Kinds DEF JobInv, InboundTypeOK, Verify, Active, Move, Return
<1>14. ASSUME NEW s \in Setters, CallFails(s) PROVE JobInv'
  BY <1>14, Kinds DEF JobInv, InboundTypeOK, CallFails, Active, Move, Return
<1>15. CASE UNCHANGED inboundVars
  BY <1>15 DEF inboundVars, JobInv, Active
<1> QED
  BY <1>1, <1>2, <1>3, <1>4, <1>5, <1>6, <1>7, <1>8, <1>9, <1>10, <1>11, <1>12, <1>13,
     <1>14, <1>15 DEF InboundNext, SetStep

-----------------------------------------------------------------------------
(* What the clients are brought to                                         *)

\* At first what is approved was approved.
LEMMA InitGoal == InboundInit => GoalInv
  BY Kinds DEF InboundInit, GoalInv, Active

\* What callers are given is whole.
LEMMA ApprovedIsWhole ==
    ASSUME GoalInv PROVE ApprovedIds \in Wholes
  BY InboundConstants DEF GoalInv, ApprovedIds, Wholes

\* A step that leaves the sets alone that clients may be brought to keeps
\* the invariant of the goals.
LEMMA GoalStays ==
    ASSUME GoalInv, InboundTypeOK, UNCHANGED <<job, target, set, goal, create, chosen>>,
           ever \subseteq ever', approved' \in ever', cached' \in ever',
           lock' # Nil => seen'[lock'] \in ever',
           \A r \in Requests : stage'[r] \in {"collect", "start"} => stage[r] \in {"collect", "start"}
    PROVE  GoalInv'
  BY DEF GoalInv, Active, Wholes

\* Every goal is taken from what was approved at the time, or is the
\* fallback.
LEMMA NextGoal ==
    ASSUME InboundTypeOK, GoalInv, JobInv, ReloadInv, [InboundNext]_inboundVars
    PROVE  GoalInv'
<1>1. ASSUME NEW r \in Requests, Add(r) \/ Lookup(r) \/ CountRows(r) \/ AskSync(r)
      PROVE  GoalInv'
  BY <1>1, GoalStays, Kinds
     DEF InboundTypeOK, GoalInv, ReloadInv, Add, Lookup, CountRows, AskSync, Enter, ComesIn, Approve
<1>2. ASSUME NEW r \in Requests, RemoveRow(r) PROVE GoalInv'
  BY <1>2, GoalStays, Kinds DEF InboundTypeOK, GoalInv, ReloadInv, RemoveRow, Enter, Approve
<1>3. ASSUME NEW r \in Requests, Resolve(r) PROVE GoalInv'
  <2>1. PICK asked \in Asked(r) :
           target' = [target EXCEPT ![r] = asked] /\ ever' = ever \cup {asked}
    BY <1>3 DEF Resolve
  <2>2. ApprovedIds \in Wholes
    BY ApprovedIsWhole
  <2>3. asked # {}
    <3>1. ApprovedIds # {}
      BY <2>2 DEF Wholes
    <3>2. CASE r \in Syncs
      <4>1. asked \in (SUBSET ApprovedIds) \ {{}}
        BY <2>1, <3>2 DEF Asked
      <4> QED
        BY <4>1
    <3>3. CASE r \notin Syncs
      BY <2>1, <3>1, <3>3 DEF Asked
    <3> QED
      BY <3>2, <3>3
  <2>4. asked \in Wholes'
    <3>1. asked \in ever'
      BY <2>1
    <3> QED
      BY <2>3, <3>1 DEF Wholes
  <2> QED
    BY <1>3, <2>1, <2>4, Kinds DEF GoalInv, JobInv, InboundTypeOK, Resolve, Enter, Active, Wholes
<1>4. ASSUME NEW r \in Requests, Collect(r) PROVE GoalInv'
  BY <1>4, GoalStays, Kinds DEF InboundTypeOK, GoalInv, Collect, Enter
<1>5. ASSUME NEW r \in Requests, StartJob(r) PROVE GoalInv'
  BY <1>5, Kinds DEF GoalInv, InboundTypeOK, StartJob, Enter, Active, Wholes
<1>6. ASSUME NEW r \in Requests, Cancel(r) \/ EndJob(r) PROVE GoalInv'
  BY <1>6 DEF GoalInv, InboundTypeOK, Cancel, EndJob, Active, Wholes
<1>7. ASSUME NEW r \in Reloaders, ReloadRead(r) PROVE GoalInv'
  BY <1>7, GoalStays, Kinds DEF InboundTypeOK, GoalInv, ReloadRead, Enter
<1>8. ASSUME NEW r \in Reloaders, ReloadFill(r) PROVE GoalInv'
  BY <1>8, GoalStays, Kinds DEF InboundTypeOK, GoalInv, ReloadInv, ReloadFill, AfterReload, Enter
<1>9. CASE Load \/ Seed
  BY <1>9, GoalStays, Kinds DEF InboundTypeOK, GoalInv, Load, Seed, Enter, Approve
<1>10. CASE Restart
  BY <1>10, Kinds DEF GoalInv, InboundTypeOK, Restart, Active, Wholes, Approve
<1>11. ASSUME NEW k \in NewKeys, ChooseSet(k) PROVE GoalInv'
  BY <1>11, ApprovedIsWhole DEF GoalInv, InboundTypeOK, ChooseSet, Active, Wholes
<1>12. ASSUME NEW k \in NewKeys, AddClient(k) \/ SaveKey(k) PROVE GoalInv'
  BY <1>12 DEF GoalInv, InboundTypeOK, AddClient, SaveKey, Active, Wholes
<1>13. ASSUME NEW s \in Setters, CallSet(s) PROVE GoalInv'
  BY <1>13, ApprovedIsWhole DEF GoalInv, InboundTypeOK, CallSet, Active, Wholes, Move
<1>14. ASSUME NEW s \in Setters, Take(s) PROVE GoalInv'
  BY <1>14, Kinds DEF GoalInv, InboundTypeOK, Take, Active, Wholes, Move
<1>15. ASSUME NEW s \in Setters, LockKey(s) \/ ReadClient(s) \/ Attach(s) PROVE GoalInv'
  BY <1>15, Kinds DEF GoalInv, InboundTypeOK, LockKey, ReadClient, Attach, Active, Wholes, Move
<1>16. ASSUME NEW s \in Setters, Detach(s) \/ Verify(s) \/ CallFails(s) PROVE GoalInv'
  BY <1>16, Kinds
     DEF GoalInv, InboundTypeOK, Detach, Verify, CallFails, Active, Wholes, Move, Return
<1>17. CASE UNCHANGED inboundVars
  BY <1>17 DEF inboundVars, GoalInv, Active, Wholes
<1> QED
  BY <1>1, <1>2, <1>3, <1>4, <1>5, <1>6, <1>7, <1>8, <1>9, <1>10, <1>11, <1>12, <1>13,
     <1>14, <1>15, <1>16, <1>17 DEF InboundNext, SetStep

-----------------------------------------------------------------------------
(* The lock of a key                                                       *)

\* Nobody changes a client at first.
LEMMA InitAlone == InboundInit => Alone
  BY DEF InboundInit, Alone, Changing

\* A step after which nobody changes a client who did not change it before
\* keeps the changes apart.
LEMMA AloneStays ==
    ASSUME Alone, mixed \subseteq mixed',
           \A s \in Setters : Changing(s)' => Changing(s) /\ key'[s] = key[s]
    PROVE  Alone'
  BY DEF Alone, Apart

\* One more comes in: it is marked, or nobody who takes the lock is at this key.
LEMMA AloneJoins ==
    ASSUME Alone, NEW s \in Setters, Join(s, key'[s]),
           \A t \in Setters : t # s /\ Changing(t)' => Changing(t) /\ key'[t] = key[t],
           s \in Edits \/ KeyIsFree(key'[s])
    PROVE  Alone'
<1>1. mixed \subseteq mixed'
  BY DEF Join
<1>2. ASSUME NEW t \in Setters, t # s, Changing(t), key[t] = key'[s]
      PROVE  key'[s] \in mixed' /\ (s \in Edits \/ t \in Edits)
  <2>1. CASE s \in Edits \/ t \in Edits
    BY <1>2, <2>1 DEF Join, Meets
  <2>2. CASE s \notin Edits /\ t \notin Edits
    <3>1. KeyIsFree(key[t]) /\ t \in Locking
      BY <1>2, <2>2, Kinds DEF Locking
    <3> QED
      BY <1>2, <3>1 DEF KeyIsFree
  <2> QED
    BY <2>1, <2>2
<1>3. ASSUME NEW t \in Setters, NEW q \in Setters, t # q, Changing(t)', Changing(q)',
             key'[t] = key'[q]
      PROVE  Apart(t, q)'
  <2>1. CASE t = s
    BY <1>2, <1>3, <2>1 DEF Apart
  <2>2. CASE q = s
    BY <1>2, <1>3, <2>2 DEF Apart
  <2>3. CASE t # s /\ q # s
    BY <1>1, <1>3, <2>3 DEF Alone, Apart
  <2> QED
    BY <2>1, <2>2, <2>3
<1> QED
  BY <1>3 DEF Alone

\* A change of a client begins once the lock of the key is free.
LEMMA NextAlone ==
    ASSUME InboundTypeOK, RowInv, Alone, [InboundNext]_inboundVars
    PROVE  Alone'
<1>1. ASSUME NEW r \in Requests,
             \/ Add(r) \/ Lookup(r) \/ CountRows(r) \/ RemoveRow(r) \/ AskSync(r)
             \/ Resolve(r) \/ Collect(r) \/ StartJob(r) \/ Cancel(r) \/ EndJob(r)
      PROVE  Alone'
  BY <1>1, AloneStays DEF Add, Lookup, CountRows, RemoveRow, AskSync, Resolve, Collect,
     StartJob, Cancel, EndJob, Changing
<1>2. ASSUME NEW r \in Reloaders, ReloadRead(r) \/ ReloadFill(r) PROVE Alone'
  BY <1>2, AloneStays DEF ReloadRead, ReloadFill, Changing
<1>3. ASSUME NEW k \in NewKeys, ChooseSet(k) \/ AddClient(k) \/ SaveKey(k) PROVE Alone'
  BY <1>3, AloneStays DEF ChooseSet, AddClient, SaveKey, Changing
<1>4. CASE Load \/ Seed
  BY <1>4, AloneStays DEF Load, Seed, Changing
<1>5. CASE Restart
  BY <1>5, AloneStays DEF Restart, Changing
<1>6. ASSUME NEW s \in Setters, CallSet(s) PROVE Alone'
  <2>1. key'[s] = KeyOf[s] /\ (s \in Edits \/ KeyIsFree(key'[s]))
    BY <1>6, Kinds DEF CallSet, InboundTypeOK
  <2>2. \A t \in Setters : t # s /\ Changing(t)' => Changing(t) /\ key'[t] = key[t]
    BY <1>6 DEF CallSet, InboundTypeOK, Move, Changing
  <2>3. Join(s, key'[s])
    BY <1>6, <2>1 DEF CallSet
  <2> QED
    BY <2>1, <2>2, <2>3, AloneJoins
<1>7. ASSUME NEW s \in Setters, LockKey(s) PROVE Alone'
  <2>1. KeyIsFree(key'[s]) /\ Join(s, key'[s])
    BY <1>7 DEF LockKey
  <2>2. \A t \in Setters : t # s /\ Changing(t)' => Changing(t) /\ key'[t] = key[t]
    BY <1>7 DEF LockKey, InboundTypeOK, Move, Changing
  <2> QED
    BY <2>1, <2>2, AloneJoins
<1>8. ASSUME NEW s \in Setters, Take(s) \/ ReadClient(s) \/ Attach(s) PROVE Alone'
  BY <1>8, AloneStays DEF Take, ReadClient, Attach, InboundTypeOK, Move, Changing
<1>9. ASSUME NEW s \in Setters, Detach(s) PROVE Alone'
  BY <1>9, AloneStays DEF Detach, InboundTypeOK, Move, Return, Changing
<1>10. ASSUME NEW s \in Setters, CallFails(s) PROVE Alone'
  BY <1>10, AloneStays DEF CallFails, InboundTypeOK, Move, Return, Changing
<1>12. ASSUME NEW s \in Setters, Verify(s) PROVE Alone'
  <2>1. /\ Changing(s) /\ ~Changing(s)'
        /\ \A t \in Setters \ {s} : (Changing(t)' <=> Changing(t)) /\ key'[t] = key[t]
    BY <1>12 DEF Verify, InboundTypeOK, Move, Return, Changing
  <2>2. \/ mixed \subseteq mixed'
        \/ mixed' = mixed \ {key[s]} /\ ~Meets(s, key[s])
    BY <1>12 DEF Verify
  <2>3. CASE mixed' = mixed \ {key[s]} /\ ~Meets(s, key[s])
    <3>1. \A t \in Setters : t # s /\ Changing(t) => key[t] # key[s]
      BY <2>1, <2>3 DEF Alone, Apart, Meets
    <3> QED
      BY <2>1, <2>3, <3>1 DEF Alone, Apart
  <2>4. CASE mixed \subseteq mixed'
    BY <2>1, <2>4, AloneStays
  <2> QED
    BY <2>2, <2>3, <2>4<1>11. CASE UNCHANGED inboundVars
  BY <1>11, AloneStays DEF inboundVars, Changing
<1> QED
  BY <1>1, <1>2, <1>3, <1>4, <1>5, <1>6, <1>7, <1>8, <1>9, <1>10, <1>11, <1>12
     DEF InboundNext, SetStep

-----------------------------------------------------------------------------
(* The clients                                                             *)

\* At first the clients are as their rows say.
LEMMA InitClient == InboundInit => SetInv
  BY Kinds DEF InboundInit, SetInv, Progress

\* A step that leaves the clients and the changes under way alone keeps the
\* invariant of the clients.
LEMMA ClientStays ==
    ASSUME SetInv, UNCHANGED <<rows, client, flawed, mixed, set, key, goal, missing, extra>>,
           ever \subseteq ever'
    PROVE  SetInv'
  BY DEF SetInv, Progress, Halfway

\* A caller that has not read the client yet comes, waits or goes.
LEMMA ClientWaits ==
    ASSUME InboundTypeOK, SetInv, NEW s \in Setters,
           UNCHANGED <<rows, client, flawed, missing, extra, ever>>, mixed \subseteq mixed',
           ~Halfway(s), ~Halfway(s)',
           \A t \in Setters \ {s} : set'[t] = set[t] /\ key'[t] = key[t] /\ goal'[t] = goal[t]
    PROVE  SetInv'
<1>1. ASSUME NEW t \in Setters, key'[t] \notin mixed' PROVE Progress(t)'
  <2>1. CASE t = s
    BY <2>1 DEF Progress, Halfway
  <2>2. CASE t # s
    <3>1. Progress(t)
      BY <1>1, <2>2 DEF SetInv
    <3> QED
      BY <2>2, <3>1 DEF Progress
  <2> QED
    BY <2>1, <2>2
<1>2. ASSUME NEW k \in rows \ (flawed \cup mixed'), \A t \in Setters : Halfway(t)' => key'[t] # k
      PROVE  client[k] \in ever \cup {Env}
  <2>1. \A t \in Setters : Halfway(t) => key[t] # k
    BY <1>2 DEF Halfway
  <2> QED
    BY <1>2, <2>1 DEF SetInv
<1> QED
  BY <1>1, <1>2 DEF SetInv

\* Of the callers at a key that no edit is mixed up with, the one at work is the
\* only one that has read its client.
LEMMA OthersAreAway ==
    ASSUME Alone, NEW s \in Setters, Changing(s), key[s] \notin mixed
    PROVE  \A t \in Setters \ {s} : Changing(t) => key[t] # key[s]
  BY DEF Alone, Apart

\* The one at work at the client takes a step.
LEMMA ClientWorks ==
    ASSUME InboundTypeOK, RowInv, SetInv, NEW s \in Setters, Changing(s),
           UNCHANGED <<rows, ever>>,
           \A k \in Keys \ {key[s]} : /\ client'[k] = client[k]
                                      /\ k \in flawed' <=> k \in flawed
                                      /\ k \in mixed' <=> k \in mixed,
           \A t \in Setters \ {s} : /\ set'[t] = set[t] /\ key'[t] = key[t] /\ goal'[t] = goal[t]
                                    /\ missing'[t] = missing[t] /\ extra'[t] = extra[t],
           key[s] \notin mixed' => \A t \in Setters \ {s} : Changing(t) => key[t] # key[s],
           Halfway(s)' => key'[s] = key[s],
           key[s] \notin mixed' /\ Halfway(s)' => Progress(s)',
           key[s] \notin mixed' /\ ~Halfway(s)' /\ key[s] \notin flawed' =>
                client'[key[s]] \in ever \cup {Env}
    PROVE  SetInv'
<1>1. ASSUME NEW t \in Setters, t # s, ~Halfway(t) PROVE Progress(t)'
  BY <1>1 DEF Progress, Halfway
<1>2. ASSUME NEW t \in Setters, key'[t] \notin mixed', t # s, Halfway(t) PROVE Progress(t)'
  <2>0. key[t] \in Keys
    BY <1>2 DEF RowInv, Active, Halfway, InboundTypeOK
  <2>1. key[t] # key[s] /\ key'[t] = key[t]
    BY <1>2 DEF Halfway, Changing
  <2>2. Progress(t)
    BY <1>2, <2>0, <2>1 DEF SetInv
  <2> QED
    BY <1>2, <2>0, <2>1, <2>2 DEF Progress
<1>3. ASSUME key'[s] \notin mixed' PROVE Progress(s)'
  BY <1>3 DEF Progress, Halfway
<1>4. ASSUME NEW k \in rows \ (flawed' \cup mixed'), \A t \in Setters : Halfway(t)' => key'[t] # k
      PROVE  client'[k] \in ever \cup {Env}
  <2>1. CASE k = key[s]
    BY <1>4, <2>1
  <2>2. CASE k # key[s]
    <3>1. \A t \in Setters : Halfway(t) => key[t] # k
      BY <1>4, <2>2 DEF Halfway
    <3> QED
      BY <1>4, <2>2, <3>1 DEF SetInv, InboundTypeOK
  <2> QED
    BY <2>1, <2>2
<1> QED
  BY <1>1, <1>2, <1>3, <1>4 DEF SetInv

\* A locked change attaches what is missing, then detaches what is left
\* over, and leaves its goal.
LEMMA NextClient ==
    ASSUME InboundTypeOK, GoalInv, RowInv, Alone, SetInv, [InboundNext]_inboundVars
    PROVE  SetInv'
<1>1. ASSUME NEW r \in Requests,
             \/ Add(r) \/ Lookup(r) \/ CountRows(r) \/ RemoveRow(r) \/ AskSync(r)
             \/ Resolve(r) \/ Collect(r) \/ StartJob(r) \/ Cancel(r) \/ EndJob(r)
      PROVE  SetInv'
  BY <1>1, ClientStays DEF Add, Lookup, CountRows, RemoveRow, AskSync, Resolve, Collect,
     StartJob, Cancel, EndJob, Approve
<1>2. ASSUME NEW r \in Reloaders, ReloadRead(r) \/ ReloadFill(r) PROVE SetInv'
  BY <1>2, ClientStays DEF ReloadRead, ReloadFill
<1>3. CASE Load \/ Seed
  BY <1>3, ClientStays DEF Load, Seed, Approve
<1>4. CASE Restart
  <2>1. \A s \in Setters : ~Halfway(s)'
    BY <1>4 DEF Restart, Halfway
  <2>2. ASSUME NEW k \in rows \ (flawed' \cup mixed) PROVE client[k] \in ever' \cup {Env}
    <3>1. \A s \in Setters : Halfway(s) => key[s] # k
      BY <1>4, <2>2 DEF Restart, Halfway, Changing
    <3>2. k \in rows \ (flawed \cup mixed) /\ ever \subseteq ever'
      BY <1>4, <2>2 DEF Restart, Approve
    <3> QED
      BY <2>2, <3>1, <3>2 DEF SetInv
  <2>3. UNCHANGED <<rows, client, mixed>>
    BY <1>4 DEF Restart
  <2> QED
    BY <2>1, <2>2, <2>3 DEF SetInv, Progress, Halfway
<1>5. ASSUME NEW k \in NewKeys, ChooseSet(k) PROVE SetInv'
  BY <1>5, ClientStays DEF ChooseSet
<1>6. ASSUME NEW k \in NewKeys, AddClient(k) PROVE SetInv'
  <2>1. k \notin rows
    BY <1>6 DEF AddClient, RowInv
  <2>2. \A q \in Keys : q # k => client'[q] = client[q]
    BY <1>6 DEF AddClient, InboundTypeOK
  <2>3. ASSUME NEW s \in Setters, key[s] \notin mixed PROVE Progress(s)'
    <3>1. CASE Active(s)
      <4>1. key[s] # k /\ key[s] \in Keys
        BY <2>1, <3>1 DEF RowInv, InboundTypeOK
      <4> QED
        BY <1>6, <2>2, <2>3, <4>1 DEF AddClient, SetInv, Progress
    <3>2. CASE ~Active(s)
      BY <1>6, <3>2 DEF AddClient, Progress, Active
    <3> QED
      BY <3>1, <3>2
  <2>4. ASSUME NEW q \in rows \ (flawed \cup mixed), \A s \in Setters : Halfway(s) => key[s] # q
        PROVE  client'[q] \in ever \cup {Env}
    BY <2>1, <2>2, <2>4 DEF SetInv, InboundTypeOK
  <2> QED
    BY <1>6, <2>3, <2>4 DEF AddClient, SetInv, Halfway
<1>7. ASSUME NEW k \in NewKeys, SaveKey(k) PROVE SetInv'
  <2>1. client[k] \in ever \cup {Env}
    BY <1>7 DEF SaveKey, RowInv, GoalInv, Wholes
  <2> QED
    BY <1>7, <2>1 DEF SaveKey, SetInv, Progress, Halfway
<1>8. ASSUME NEW s \in Setters, CallSet(s) \/ Take(s) \/ LockKey(s) PROVE SetInv'
  BY <1>8, ClientWaits DEF CallSet, Take, LockKey, InboundTypeOK, Move, Halfway, Join
<1>9. ASSUME NEW s \in Setters, ReadClient(s) PROVE SetInv'
  <2>1. /\ missing'[s] = goal[s] \ client[key[s]] /\ extra'[s] = client[key[s]] \ goal[s]
        /\ set'[s] = "attach" /\ Changing(s)
        /\ UNCHANGED <<rows, client, flawed, mixed, ever, key, goal>>
    BY <1>9 DEF ReadClient, InboundTypeOK, Move, Changing
  <2>2. \A t \in Setters \ {s} : set'[t] = set[t] /\ missing'[t] = missing[t] /\ extra'[t] = extra[t]
    BY <1>9 DEF ReadClient, InboundTypeOK, Move
  <2>3. Progress(s)' /\ Halfway(s)'
    BY <2>1 DEF Progress, Halfway
  <2> QED
    BY <2>1, <2>2, <2>3, OthersAreAway, ClientWorks
<1>10. ASSUME NEW s \in Setters, Attach(s) PROVE SetInv'
  <2>0. key[s] \in Keys
    BY <1>10 DEF Attach, RowInv, Active, InboundTypeOK
  <2>1. /\ set[s] = "attach" /\ set'[s] = "detach" /\ Changing(s)
        /\ UNCHANGED <<rows, ever, mixed, key, goal, extra>>
    BY <1>10 DEF Attach, InboundTypeOK, Move, Changing
  <2>2. \A t \in Setters \ {s} : set'[t] = set[t] /\ missing'[t] = missing[t]
    BY <1>10 DEF Attach, InboundTypeOK, Move
  <2>3. /\ \A k \in Keys \ {key[s]} : client'[k] = client[k] /\ (k \in flawed' <=> k \in flawed)
        /\ key[s] \in flawed' \/ (client'[key[s]] = client[key[s]] \cup missing[s])
    BY <1>10, <2>0 DEF Attach, InboundTypeOK
  <2>4. ASSUME key[s] \notin mixed PROVE Progress(s)'
    <3>1. missing[s] = goal[s] \ client[key[s]] /\ extra[s] = client[key[s]] \ goal[s]
      BY <2>1, <2>4 DEF SetInv, Progress
    <3> QED
      BY <2>1, <2>3, <3>1 DEF Progress
  <2>5. Halfway(s)'
    BY <2>1 DEF Halfway
  <2> QED
    BY <2>1, <2>2, <2>3, <2>4, <2>5, OthersAreAway, ClientWorks
<1>11. ASSUME NEW s \in Setters, Detach(s) PROVE SetInv'
  <2>0. key[s] \in Keys /\ goal[s] \in ever \cup {Env}
    BY <1>11 DEF Detach, RowInv, GoalInv, Wholes, Active, InboundTypeOK
  <2>1. /\ set[s] = "detach" /\ set'[s] \in {"verify", "over"} /\ Changing(s)
        /\ set'[s] = "verify" => goal'[s] = goal[s]
        /\ UNCHANGED <<rows, ever, mixed, key, missing>>
    BY <1>11 DEF Detach, InboundTypeOK, Move, Return, Changing
  <2>2. \A t \in Setters \ {s} : set'[t] = set[t] /\ goal'[t] = goal[t] /\ extra'[t] = extra[t]
    BY <1>11 DEF Detach, InboundTypeOK, Move, Return
  <2>3. /\ \A k \in Keys \ {key[s]} : client'[k] = client[k] /\ (k \in flawed' <=> k \in flawed)
        /\ key[s] \in flawed' \/ (client'[key[s]] = client[key[s]] \ extra[s] /\ key[s] \notin flawed)
    BY <1>11, <2>0 DEF Detach, InboundTypeOK
  <2>4. ASSUME key[s] \notin mixed PROVE key[s] \in flawed' \/ client'[key[s]] = goal[s]
    <3>1. key[s] \in flawed \/ (goal[s] \subseteq client[key[s]] /\ extra[s] = client[key[s]] \ goal[s])
      BY <2>1, <2>4 DEF SetInv, Progress
    <3> QED
      BY <2>3, <3>1
  <2>5. key[s] \notin mixed /\ Halfway(s)' => Progress(s)'
    BY <2>1, <2>4 DEF Progress, Halfway
  <2>6. key[s] \notin mixed /\ key[s] \notin flawed' => client'[key[s]] \in ever \cup {Env}
    BY <2>0, <2>4
  <2> QED
    BY <2>1, <2>2, <2>3, <2>5, <2>6, OthersAreAway, ClientWorks
<1>12. ASSUME NEW s \in Setters, Verify(s) PROVE SetInv'
  <2>0. key[s] \in Keys /\ goal[s] \in ever \cup {Env}
    BY <1>12 DEF Verify, RowInv, GoalInv, Wholes, Active, InboundTypeOK
  <2>1. /\ set[s] = "verify" /\ set'[s] = "off" /\ Changing(s)
        /\ UNCHANGED <<rows, ever, client, missing, extra>>
    BY <1>12 DEF Verify, InboundTypeOK, Move, Return, Changing
  <2>2. \A t \in Setters \ {s} : set'[t] = set[t] /\ goal'[t] = goal[t] /\ key'[t] = key[t]
    BY <1>12 DEF Verify, InboundTypeOK, Move, Return
  <2>3. \A k \in Keys \ {key[s]} : /\ k \in flawed' <=> k \in flawed
                                   /\ k \in mixed' <=> k \in mixed
    BY <1>12, <2>0 DEF Verify
  <2>4. key[s] \notin mixed' /\ key[s] \notin flawed' => client[key[s]] = goal[s]
    <3>1. CASE Reached(s)
      BY <3>1 DEF Reached
    <3>2. CASE ~Reached(s)
      BY <1>12, <2>1, <3>2 DEF Verify, SetInv, Progress
    <3> QED
      BY <3>1, <3>2
  <2>5. key[s] \notin mixed' => \A t \in Setters \ {s} : Changing(t) => key[t] # key[s]
    <3>1. CASE key[s] \notin mixed
      BY <2>1, <3>1, OthersAreAway
    <3>2. CASE key[s] \in mixed /\ key[s] \notin mixed'
      <4>1. ~Meets(s, key[s])
        BY <1>12, <3>2 DEF Verify
      <4> QED
        BY <2>1, <4>1 DEF Meets, Alone, Apart
    <3> QED
      BY <3>1, <3>2
  <2>6. ~Halfway(s)'
    BY <2>1 DEF Halfway
  <2> QED
    BY <2>0, <2>1, <2>2, <2>3, <2>4, <2>5, <2>6, ClientWorks
<1>13. ASSUME NEW s \in Setters, CallFails(s) PROVE SetInv'
  <2>0. key[s] \in Keys /\ goal[s] \in ever \cup {Env}
    BY <1>13 DEF CallFails, RowInv, GoalInv, Wholes, Active, InboundTypeOK
  <2>1. /\ set[s] \in {"read", "verify"} /\ set'[s] \in {"off", "over"}
        /\ UNCHANGED <<rows, ever, client, missing, extra, flawed, mixed>>
    BY <1>13 DEF CallFails, InboundTypeOK, Move, Return
  <2>2. \A t \in Setters \ {s} : set'[t] = set[t] /\ goal'[t] = goal[t] /\ key'[t] = key[t]
    BY <1>13 DEF CallFails, InboundTypeOK, Move, Return
  <2>3. ~Halfway(s)' /\ Changing(s)
    BY <2>1 DEF Halfway, Changing
  <2>4. CASE set[s] = "read"
    BY <2>1, <2>2, <2>3, <2>4, ClientWaits DEF Halfway
  <2>5. CASE set[s] = "verify"
    <3>1. key[s] \notin mixed => key[s] \in flawed \/ client[key[s]] = goal[s]
      BY <2>5 DEF SetInv, Progress
    <3> QED
      BY <2>0, <2>1, <2>2, <2>3, <3>1, OthersAreAway, ClientWorks
  <2> QED
    BY <2>1, <2>4, <2>5
<1>14. CASE UNCHANGED inboundVars
  BY <1>14, ClientStays DEF inboundVars
<1> QED
  BY <1>1, <1>2, <1>3, <1>4, <1>5, <1>6, <1>7, <1>8, <1>9, <1>10, <1>11, <1>12, <1>13, <1>14
     DEF InboundNext, SetStep

-----------------------------------------------------------------------------
(* The job that was started last                                           *)

\* There is no last job at first.
LEMMA InitLast == InboundInit => LastInv
  BY DEF InboundInit, LastInv

\* Nothing happens to the job or to the keys.
LEMMA LastStays ==
    ASSUME LastInv, JobInv, InboundTypeOK, UNCHANGED <<job, queue, failed, client, set, key, goal>>,
           flawed' = flawed, mixed' = mixed, last' \in {last, Nil},
           \A r \in Requests : stage[r] = "over" => emails'[r] = emails[r] /\ target'[r] = target[r]
    PROVE  LastInv'
<1> SUFFICES ASSUME last # Nil, last' = last, job[last] \in {"running", "done"} PROVE LastInv'
  BY DEF LastInv
<1>1. last \in Requests /\ stage[last] = "over"
  BY DEF InboundTypeOK, JobInv
<1> QED
  BY <1>1 DEF LastInv, Worked, Settled, Changing, Active

\* A caller takes a step.  What it does to keys that were done is right: it has
\* the same goal, or is away; and if it leaves its key, the key is done.
LEMMA LastWorks ==
    ASSUME LastInv, InboundTypeOK, NEW s \in Setters,
           UNCHANGED <<job, emails, target>>, last' \in {last, Nil},
           \A t \in Setters \ {s} : set'[t] = set[t] /\ key'[t] = key[t] /\ goal'[t] = goal[t],
           last' # Nil /\ job[last] \in {"running", "done"} =>
              \A k \in emails[last] \ mixed' : k \in mixed => Settled(k)',
           last' # Nil /\ job[last] \in {"running", "done"} =>
              \A k \in emails[last] \ mixed :
                 /\ k \in queue[last] => k \in queue'[last] \/ Worked(k)'
                 /\ s \in Workers /\ s[1] = last /\ Active(s) /\ key[s] = k =>
                       Worked(k)' \/ k \in failed'[last] \/ Settled(k)'
                 /\ k \in failed[last] => k \in failed'[last]
                 /\ Settled(k) => Settled(k)'
    PROVE  LastInv'
<1> SUFFICES ASSUME last # Nil, last' = last, job[last] \in {"running", "done"},
                    NEW k \in emails[last] \ mixed', k \notin mixed
             PROVE  k \in queue'[last] \/ Worked(k)' \/ k \in failed'[last] \/ Settled(k)'
  BY DEF LastInv
<1>1. k \in queue[last] \/ Worked(k) \/ k \in failed[last] \/ Settled(k)
  BY DEF LastInv
<1>2. CASE Worked(k)
  <2>1. PICK w \in Workers : w[1] = last /\ Active(w) /\ key[w] = k
    BY <1>2 DEF Worked
  <2>2. CASE w = s
    BY <2>1, <2>2
  <2>3. CASE w # s
    <3>1. Active(w)' /\ key'[w] = k
      BY <2>1, <2>3, Kinds DEF Active
    <3> QED
      BY <2>1, <3>1 DEF Worked
  <2> QED
    BY <2>2, <2>3
<1> QED
  BY <1>1, <1>2

\* While the job at hand is the last one, its workers have its set for a goal.
LEMMA WorkersGoal ==
    ASSUME InboundTypeOK, JobInv, NEW w \in Workers, Active(w), last # Nil
    PROVE  w[1] = last /\ goal[w] = target[last]
  BY Kinds DEF JobInv

\* A caller that begins, or goes without having changed anything.
LEMMA LastComes ==
    ASSUME InboundTypeOK, JobInv, RowInv, LastInv, NEW s \in Setters,
           CallSet(s) \/ Take(s) \/ LockKey(s) \/ ReadClient(s)
    PROVE  LastInv'
<1> USE DEF InboundTypeOK
<1>1. /\ UNCHANGED <<job, emails, target, failed, client, flawed>> /\ last' \in {last, Nil}
      /\ mixed \subseteq mixed'
      /\ \A t \in Setters \ {s} : set'[t] = set[t] /\ key'[t] = key[t] /\ goal'[t] = goal[t]
  BY DEF CallSet, Take, LockKey, ReadClient, Move, Join
<1>2. ASSUME last' # Nil, NEW k, Settled(k), Changing(s)', key'[s] = k
      PROVE  goal'[s] = target[last]
  <2>1. CASE CallSet(s)
    BY <1>2, <2>1 DEF CallSet
  <2>2. CASE Take(s)
    BY <1>2, <2>2 DEF Take, Move, Changing
  <2>3. CASE LockKey(s)
    <3>1. s \in Workers /\ Active(s) /\ last # Nil /\ UNCHANGED goal
      BY <1>1, <1>2, <2>3 DEF LockKey, Active
    <3> QED
      BY <3>1, WorkersGoal
  <2>4. CASE ReadClient(s)
    <3>1. Changing(s) /\ UNCHANGED <<key, goal>>
      BY <2>4 DEF ReadClient, Changing
    <3> QED
      BY <1>2, <3>1 DEF Settled
  <2> QED
    BY <2>1, <2>2, <2>3, <2>4
<1>3. ASSUME last' # Nil, NEW k, Settled(k) PROVE Settled(k)'
  <2>1. last' = last
    BY <1>1, <1>3
  <2>2. ASSUME NEW t \in Setters, Changing(t)', key'[t] = k PROVE goal'[t] = target[last]
    <3>1. CASE t = s
      BY <1>2, <1>3, <2>2, <3>1
    <3>2. CASE t # s
      BY <1>1, <1>3, <2>2, <3>2 DEF Settled, Changing
    <3> QED
      BY <3>1, <3>2
  <2> QED
    BY <1>1, <1>3, <2>1, <2>2 DEF Settled
<1>4. ASSUME last' # Nil, last \in Requests, NEW k \in queue[last]
      PROVE  k \in queue'[last] \/ Worked(k)'
  <2>1. CASE Take(s)
    <3>1. PICK q \in queue[s[1]] : queue' = [queue EXCEPT ![s[1]] = @ \ {q}] /\ key' = [key EXCEPT ![s] = q]
      BY <2>1 DEF Take
    <3>2. CASE k \notin queue'[last]
      <4>1. s[1] = last /\ q = k
        BY <1>4, <3>1, <3>2
      <4>2. s \in Workers /\ set'[s] = "wait" /\ key'[s] = k
        BY <2>1, <3>1, <4>1 DEF Take, Move
      <4>3. last' = last
        BY <1>1, <1>4
      <4> QED
        BY <4>1, <4>2, <4>3 DEF Worked, Active
    <3> QED
      BY <3>2
  <2>2. CASE ~Take(s)
    BY <1>4, <2>2 DEF CallSet, LockKey, ReadClient
  <2> QED
    BY <2>1, <2>2
<1>5. ASSUME last' # Nil, NEW k, s \in Workers, s[1] = last, Active(s), key[s] = k PROVE Worked(k)'
  <2>1. LockKey(s) \/ ReadClient(s)
    BY <1>5, Kinds DEF Active, CallSet, Take
  <2>2. Active(s)' /\ key'[s] = k
    BY <1>5, <2>1 DEF LockKey, ReadClient, Move, Active
  <2>3. last' = last
    BY <1>1, <1>5
  <2> QED
    BY <1>5, <2>2, <2>3 DEF Worked
<1> QED
  BY <1>1, <1>3, <1>4, <1>5, LastWorks

\* A caller at work: a client that has the set of the job already keeps it.
LEMMA LastChanges ==
    ASSUME InboundTypeOK, JobInv, RowInv, Alone, SetInv, LastInv, NEW s \in Setters,
           Attach(s) \/ Detach(s)
    PROVE  LastInv'
<1> USE DEF InboundTypeOK
<1>1. /\ UNCHANGED <<job, queue, emails, target, failed, last, key, mixed>>
      /\ \A t \in Setters \ {s} : set'[t] = set[t] /\ key'[t] = key[t] /\ goal'[t] = goal[t]
      /\ Changing(s) /\ key[s] \in Keys
      /\ s \in Workers => Active(s)'
      /\ Changing(s)' => goal'[s] = goal[s]
  <2>1. key[s] \in Keys
    BY DEF Attach, Detach, RowInv, Active
  <2>2. CASE Attach(s)
    BY <2>1, <2>2 DEF Attach, Move, Changing, Active
  <2>3. CASE Detach(s)
    BY <2>1, <2>3 DEF Detach, Move, Return, Changing, Active
  <2> QED
    BY <2>2, <2>3
<1>2. ASSUME last # Nil, NEW k \in Keys \ mixed, Settled(k) PROVE Settled(k)'
  <2>1. \A t \in Setters : Changing(t)' /\ key'[t] = k => goal'[t] = target[last]
    <3>1. \A t \in Setters : Changing(t)' => Changing(t)
      BY <1>1 DEF Changing
    <3> QED
      BY <1>1, <1>2, <3>1 DEF Settled
  <2>2. CASE key[s] = k
    <3>1. goal[s] = target[last] /\ (k \in flawed \/ client[k] = target[last])
      BY <1>1, <1>2, <2>2 DEF Settled
    <3>2. k \in flawed => k \in flawed'
      BY DEF Attach, Detach
    <3>3. CASE Attach(s)
      <4>1. k \in flawed' \/ client'[k] = client[k] \cup missing[s]
        BY <1>1, <2>2, <3>3 DEF Attach
      <4>2. missing[s] = goal[s] \ client[k]
        BY <1>2, <2>2, <3>3 DEF Attach, SetInv, Progress
      <4> QED
        BY <1>1, <2>1, <3>1, <3>2, <4>1, <4>2 DEF Settled
    <3>4. CASE Detach(s)
      <4>1. k \in flawed' \/ client'[k] = client[k] \ extra[s]
        BY <1>1, <2>2, <3>4 DEF Detach
      <4>2. k \in flawed \/ extra[s] = client[k] \ goal[s]
        BY <1>2, <2>2, <3>4 DEF Detach, SetInv, Progress
      <4> QED
        BY <1>1, <2>1, <3>1, <3>2, <4>1, <4>2 DEF Settled
    <3> QED
      BY <3>3, <3>4
  <2>3. CASE key[s] # k
    <3>1. client'[k] = client[k] /\ (k \in flawed' <=> k \in flawed)
      BY <1>1, <1>2, <2>3 DEF Attach, Detach
    <3> QED
      BY <1>1, <1>2, <2>1, <3>1 DEF Settled
  <2> QED
    BY <2>2, <2>3
<1>3. ASSUME last # Nil, NEW k, s \in Workers, s[1] = last, key[s] = k PROVE Worked(k)'
  BY <1>1, <1>3 DEF Worked
<1>4. \A r \in Requests : emails[r] \subseteq Keys
  OBVIOUS
<1> QED
  BY <1>1, <1>2, <1>3, <1>4, LastWorks

\* A worker is through with its key, or a call is given up.
LEMMA LastLeaves ==
    ASSUME InboundTypeOK, JobInv, RowInv, Alone, LastInv, NEW s \in Setters,
           Verify(s) \/ CallFails(s)
    PROVE  LastInv'
<1> USE DEF InboundTypeOK
<1>1. /\ UNCHANGED <<job, queue, emails, target, last, client>>
      /\ \A t \in Setters \ {s} : set'[t] = set[t] /\ key'[t] = key[t] /\ goal'[t] = goal[t]
      /\ Changing(s) /\ ~Changing(s)' /\ key[s] \in Keys
  <2>1. key[s] \in Keys
    BY DEF Verify, CallFails, RowInv, Active
  <2>2. CASE Verify(s)
    BY <2>1, <2>2 DEF Verify, Move, Return, Changing
  <2>3. CASE CallFails(s)
    BY <2>1, <2>3 DEF CallFails, Move, Return, Changing
  <2> QED
    BY <2>2, <2>3
<1>2. \A r \in Requests : failed[r] \subseteq failed'[r]
  BY Kinds DEF Verify, CallFails
<1>3. \A t \in Setters : Changing(t)' => Changing(t) /\ key'[t] = key[t] /\ goal'[t] = goal[t]
  BY <1>1 DEF Changing
<1>4. ASSUME last # Nil, NEW k, Settled(k) PROVE Settled(k)'
  <2>1. k \in flawed' \/ client[k] = target[last]
    <3>1. CASE k \in flawed /\ k \notin flawed'
      <4>1. key[s] = k /\ client[k] = goal[s]
        BY <3>1 DEF Verify, CallFails, Reached
      <4> QED
        BY <1>1, <1>4, <4>1 DEF Settled
    <3> QED
      BY <1>4, <3>1 DEF Settled
  <2> QED
    BY <1>1, <1>3, <1>4, <2>1 DEF Settled
<1>5. ASSUME last # Nil, NEW k, k \notin mixed, s \in Workers, s[1] = last, Active(s), key[s] = k
      PROVE  k \in failed'[last] \/ Settled(k)'
  <2>1. CASE k \notin failed'[last]
    <3>1. s[1] \in Requests
      BY <1>5, Kinds
    <3>2. Verify(s) /\ client[k] = goal[s]
      BY <1>5, <2>1, <3>1 DEF Verify, CallFails, Reached
    <3>3. client'[k] = target'[last]
      BY <1>1, <1>5, <3>2, WorkersGoal
    <3>4. ASSUME NEW t \in Setters, Changing(t)', key'[t] = k PROVE FALSE
      <4>1. t # s /\ Changing(t) /\ key[t] = k
        BY <1>1, <1>3, <3>4
      <4> QED
        BY <1>1, <1>5, <4>1 DEF Alone, Apart
    <3> QED
      BY <1>1, <3>3, <3>4 DEF Settled
  <2> QED
    BY <2>1
<1>6. ASSUME last # Nil, NEW k, k \in mixed, k \notin mixed' PROVE Settled(k)'
  <2>1. Verify(s) /\ key[s] = k /\ client[k] = goal[s] /\ ~Meets(s, k)
    BY <1>6 DEF Verify, CallFails, Reached
  <2>2. client'[k] = target'[last]
    BY <1>1, <1>6, <2>1, WorkersGoal DEF Verify, Active
  <2>3. ASSUME NEW t \in Setters, Changing(t)', key'[t] = k PROVE FALSE
    <3>1. t # s /\ Changing(t) /\ key[t] = k
      BY <1>1, <1>3, <2>3
    <3> QED
      BY <1>1, <2>1, <3>1 DEF Alone, Apart, Meets
  <2> QED
    BY <1>1, <2>2, <2>3 DEF Settled
<1> QED
  BY <1>1, <1>2, <1>4, <1>5, <1>6, LastWorks

\* Each key of the last job is still to come, at work, failed or brought to
\* the target.
LEMMA NextLast ==
    ASSUME InboundTypeOK, JobInv, RowInv, Alone, SetInv, LastInv, [InboundNext]_inboundVars
    PROVE  LastInv'
<1>1. ASSUME NEW r \in Requests,
             \/ Add(r) \/ Lookup(r) \/ CountRows(r) \/ RemoveRow(r) \/ AskSync(r) \/ Cancel(r)
      PROVE  LastInv'
  BY <1>1, LastStays DEF Add, Lookup, CountRows, RemoveRow, AskSync, Cancel, Approve
<1>2. ASSUME NEW r \in Requests, Resolve(r) \/ Collect(r) PROVE LastInv'
  BY <1>2, LastStays DEF Resolve, Collect, InboundTypeOK
<1>3. ASSUME NEW r \in Requests, StartJob(r) PROVE LastInv'
  <2>1. CASE NoJobRuns
    BY <1>3, <2>1 DEF StartJob, LastInv, InboundTypeOK
  <2>2. CASE ~NoJobRuns
    BY <1>3, <2>2, LastStays DEF StartJob
  <2> QED
    BY <2>1, <2>2
<1>4. ASSUME NEW r \in Requests, EndJob(r) PROVE LastInv'
  <2>1. job'[last] \in {"running", "done"} /\ last # Nil => job[last] \in {"running", "done"}
    BY <1>4 DEF EndJob, InboundTypeOK
  <2> QED
    BY <1>4, <2>1 DEF EndJob, LastInv, Worked, Settled, Changing, Active
<1>5. ASSUME NEW r \in Reloaders, ReloadRead(r) \/ ReloadFill(r) PROVE LastInv'
  BY <1>5, LastStays DEF ReloadRead, ReloadFill
<1>6. CASE Load \/ Seed
  BY <1>6, LastStays DEF Load, Seed, Approve
<1>7. CASE Restart
  BY <1>7 DEF Restart, LastInv, InboundTypeOK
<1>8. ASSUME NEW k \in NewKeys, ChooseSet(k) \/ SaveKey(k) PROVE LastInv'
  BY <1>8, LastStays DEF ChooseSet, SaveKey
<1>9. ASSUME NEW k \in NewKeys, AddClient(k) PROVE LastInv'
  <2> SUFFICES ASSUME last # Nil, job[last] \in {"running", "done"} PROVE LastInv'
    BY <1>9 DEF AddClient, LastInv
  <2>1. k \notin emails[last] /\ emails[last] \subseteq Keys
    BY <1>9 DEF AddClient, RowInv, InboundTypeOK
  <2>2. \A q \in emails[last] : client'[q] = client[q]
    BY <1>9, <2>1 DEF AddClient, InboundTypeOK
  <2>3. \A q \in emails[last] : (Worked(q)' <=> Worked(q)) /\ (Settled(q) => Settled(q)')
    BY <1>9, <2>2 DEF AddClient, Worked, Settled, Changing, Active
  <2> QED
    BY <1>9, <2>3 DEF AddClient, LastInv
<1>10. ASSUME NEW s \in Setters, SetStep(s) PROVE LastInv'
  BY <1>10, LastComes, LastChanges, LastLeaves DEF SetStep
<1>11. CASE UNCHANGED inboundVars
  BY <1>11, LastStays DEF inboundVars
<1> QED
  BY <1>1, <1>2, <1>3, <1>4, <1>5, <1>6, <1>7, <1>8, <1>9, <1>10, <1>11 DEF InboundNext

-----------------------------------------------------------------------------
(* Theorems about the approved inbounds                                    *)

InboundInv ==
    /\ InboundTypeOK /\ ReloadInv /\ GoalInv /\ JobInv /\ RowInv /\ Alone /\ SetInv /\ LastInv

\* The strengthening is inductive.
THEOREM InboundInvariant == InboundSpec => []InboundInv
<1>1. InboundInit => InboundInv
  BY InboundInitTyped, InitReload, InitGoal, InitJob, InitRow, InitAlone, InitClient, InitLast
     DEF InboundInv
<1>2. InboundInv /\ [InboundNext]_inboundVars => InboundInv'
  BY InboundNextTyped, NextReload, NextGoal, NextJob, NextRow, NextAlone, NextClient, NextLast
     DEF InboundInv
<1> QED
  BY <1>1, <1>2, PTL DEF InboundSpec

\* Once no change of the table waits for its reload, the cache is the table, in
\* whatever order reloads, loads and restarts overlap: _approved_reload_lock
\* makes the later reload read the later rows.
THEOREM CacheFollowsHolds == InboundSpec => []CacheFollows
<1>1. InboundInv => CacheFollows
  BY Kinds DEF InboundInv, ReloadInv, CacheFollows, InboundTypeOK
<1> QED
  BY <1>1, InboundInvariant, PTL

\* One job runs at a time, a client that nobody changes has a whole set unless
\* its last change failed or met an edit, and no change attaches nothing:
\* whatever subsets syncs ask for and whatever edits come between.
THEOREM JobsAreWholeHolds == InboundSpec => []JobsAreWhole
<1>1. InboundInv => OneJob
  BY DEF InboundInv, JobInv, OneJob
<1>2. InboundInv => WholeSets
  <2> SUFFICES ASSUME InboundInv, NEW k \in rows \ (flawed \cup mixed), AtRest(k)
               PROVE  client[k] \in ever \cup {Env}
    BY DEF WholeSets
  <2>1. \A s \in Setters : Halfway(s) => key[s] # k
    BY DEF Halfway, Changing, AtRest
  <2> QED
    BY <2>1 DEF InboundInv, SetInv
<1>3. InboundInv => SomethingToAttach
  BY DEF InboundInv, GoalInv, SomethingToAttach, Wholes, Changing, Active
<1> QED
  BY <1>1, <1>2, <1>3, InboundInvariant, PTL DEF JobsAreWhole

\* Once the last job has succeeded, each of its keys has the set that the job was
\* asked for, unless another caller brings a set of its own since, or a change
\* of the key failed or met an edit: set_inbounds reads the client again before
\* it reports success.
THEOREM ConvergedHolds == InboundSpec => []Converged
<1>1. InboundInv => Converged
  <2> SUFFICES ASSUME InboundInv, last # Nil, Succeeded(last),
                      NEW k \in emails[last] \ (flawed \cup mixed)
               PROVE  client[k] = target[last]
    BY DEF Converged
  <2>1. job[last] = "done" /\ failed[last] = {} /\ last \in Requests
    BY DEF Succeeded, InboundInv, InboundTypeOK
  <2>2. queue[last] = {}
    BY <2>1 DEF InboundInv, JobInv
  <2>3. ~Worked(k)
    BY <2>1 DEF Worked, InboundInv, JobInv
  <2>4. Settled(k)
    BY <2>1, <2>2, <2>3 DEF InboundInv, LastInv
  <2> QED
    BY <2>4 DEF Settled
<1> QED
  BY <1>1, InboundInvariant, PTL

\* The rest of the module is about other variables.
HIDE DEF tables, requests, jobs, clients, creation, settings, bounds, record
-----------------------------------------------------------------------------
(* The synchronisation of the panel                                        *)

\* An owner is told of a client that is on the panel; an email is used once.
ListedInv ==
    /\ \A e \in Emails : doing[e] = "none" => ~OnPanel(e)
    /\ \A e \in Emails : doing[e] \in {"insert", "cache"} \/ e \in told => OnPanel(e)

CalmInv ==
    /\ phase \in {"rest", "load"} => calm = {}
    /\ calm \subseteq told
    /\ \A e \in calm : doing[e] \in {"held", "save", "recache"}

Items(n) == {listed[i] : i \in 1..n}

\* While the pages are read: whole pages, the first clients of the panel.
PageInv ==
    phase = "pages" =>
        /\ page \in Nat \ {0} /\ count = (page - 1) * PageSize
        /\ count = 0 => snap = Nothing
        /\ ~moved => count <= Len(listed) /\ Known(snap) = Items(count)

Unread == phase \in {"rest", "load"}
Paired == phase \in {"restore", "restored", "cleanup", "cleaned", "traffic",
                     "updating", "updated"}

\* Once they are read: what is at rest is on the list, and only what is not
\* on it is cleaned up.
ListInv ==
    /\ Unread => count = 0 /\ page = 1 /\ snap = Nothing
    /\ ~Unread /\ phase # "pages" => moved \/ calm \subseteq Known(snap)
    /\ Paired => orphans \cap Known(snap) = {}
    /\ phase \in {"cleanup", "cleaned"} => todo \subseteq orphans
    /\ phase \in {"traffic", "updating", "updated"} => todo \subseteq Known(snap)
    /\ phase \in {"updating", "updated"} => cur \in Known(snap)

PanelInv == SyncTypeOK /\ ListedInv /\ CalmInv /\ PageInv /\ ListInv /\ CalmKeysSurvive

-----------------------------------------------------------------------------
\* Appending an email the sequence does not have.
LEMMA Appended ==
    ASSUME NEW s \in Seq(Emails), IsInjective(s), NEW e \in Emails, e \notin ToSet(s)
    PROVE  /\ Append(s, e) \in Seq(Emails) /\ IsInjective(Append(s, e))
           /\ ToSet(Append(s, e)) = ToSet(s) \cup {e}
           /\ Len(Append(s, e)) = Len(s) + 1
           /\ \A i \in 1..Len(s) : Append(s, e)[i] = s[i]
<1> DEFINE t == Append(s, e)
<1>1. /\ t \in Seq(Emails) /\ Len(t) = Len(s) + 1 /\ Len(s) \in Nat
      /\ \A i \in 1..Len(s) : t[i] = s[i]
      /\ t[Len(s) + 1] = e
      /\ DOMAIN s = 1..Len(s) /\ DOMAIN t = 1..Len(t)
  OBVIOUS
<1> HIDE DEF t
<1>2. \A i \in DOMAIN t : i \in 1..Len(s) \/ i = Len(s) + 1
  BY <1>1
<1>3. \A i \in DOMAIN s : s[i] # e
  BY DEF ToSet
<1>4. IsInjective(t)
  BY <1>1, <1>2, <1>3 DEF IsInjective
<1>5. ToSet(t) = ToSet(s) \cup {e}
  <2>1. \A x : x \in ToSet(t) => x \in ToSet(s) \cup {e}
    BY <1>1, <1>2 DEF ToSet
  <2>2. \A x \in ToSet(s) : x \in ToSet(t)
    BY <1>1 DEF ToSet
  <2>3. e \in ToSet(t)
    <3>1. Len(s) + 1 \in DOMAIN t
      BY <1>1
    <3>. QED  BY <1>1, <3>1 DEF ToSet
  <2>. QED  BY <2>1, <2>2, <2>3
<1>. QED  BY <1>1, <1>4, <1>5 DEF t

\* Taking one place out of an injective sequence.
LEMMA Removed ==
    ASSUME NEW s \in Seq(Emails), IsInjective(s), NEW n \in DOMAIN s
    PROVE  /\ RemoveAt(s, n) \in Seq(Emails) /\ IsInjective(RemoveAt(s, n))
           /\ ToSet(RemoveAt(s, n)) = ToSet(s) \ {s[n]}
<1> DEFINE t == RemoveAt(s, n)
           a == SubSeq(s, 1, n - 1)
           b == SubSeq(s, n + 1, Len(s))
<1>0. Len(s) \in Nat /\ DOMAIN s = 1..Len(s) /\ n \in 1..Len(s)
  OBVIOUS
<1>1. a \in Seq(Emails) /\ Len(a) = n - 1 /\ \A i \in 1..n - 1 : a[i] = s[i]
  BY <1>0
<1>2. /\ b \in Seq(Emails) /\ Len(b) = Len(s) - n
      /\ \A i \in 1..Len(s) - n : b[i] = s[i + n]
  BY <1>0
<1> HIDE DEF a, b, t
<1>3. t = a \o b
  BY DEF RemoveAt, a, b, t
<1>4. /\ t \in Seq(Emails) /\ Len(t) = Len(s) - 1
      /\ \A i \in 1..Len(t) : t[i] = IF i <= Len(a) THEN a[i] ELSE b[i - Len(a)]
  <2>1. Len(a) \in Nat /\ Len(b) \in Nat /\ Len(a) + Len(b) = Len(s) - 1
    BY <1>0, <1>1, <1>2
  <2>2. t \in Seq(Emails)
    <3>1. a \in Seq(Emails) /\ b \in Seq(Emails)
      BY <1>1, <1>2
    <3>2. a \o b \in Seq(Emails)
      BY <3>1
    <3>. QED  BY <3>2, <1>3
  <2>4. Len(t) = Len(a) + Len(b)
    <3>1. a \in Seq(Emails) /\ b \in Seq(Emails)
      BY <1>1, <1>2
    <3>2. Len(a \o b) = Len(a) + Len(b)
      BY <3>1
    <3>. QED  BY <3>2, <1>3
  <2>3. \A i \in 1..Len(a) + Len(b) : t[i] = IF i <= Len(a) THEN a[i] ELSE b[i - Len(a)]
    BY <1>1, <1>2, <1>3, <2>1
  <2>. QED  BY <2>1, <2>2, <2>3, <2>4
<1>5. \A i \in 1..Len(t) : t[i] = IF i < n THEN s[i] ELSE s[i + 1]
  <2> SUFFICES ASSUME NEW i \in 1..Len(t) PROVE t[i] = IF i < n THEN s[i] ELSE s[i + 1]
    OBVIOUS
  <2>1. CASE i < n
    BY <2>1, <1>0, <1>1, <1>4
  <2>2. CASE ~(i < n)
    <3>1. i - (n - 1) \in 1..Len(s) - n /\ i - (n - 1) + n = i + 1
      BY <2>2, <1>0, <1>4
    <3>2. t[i] = b[i - (n - 1)]
      BY <2>2, <1>0, <1>1, <1>4
    <3>. QED  BY <2>2, <3>1, <3>2, <1>2
  <2>. QED  BY <2>1, <2>2
<1>6. DOMAIN t = 1..Len(s) - 1
  BY <1>0, <1>4
<1>7. IsInjective(t)
  <2> SUFFICES ASSUME NEW i \in DOMAIN t, NEW j \in DOMAIN t, t[i] = t[j] PROVE i = j
    BY DEF IsInjective
  <2>1. PICK k \in 1..Len(s) : k = (IF i < n THEN i ELSE i + 1) /\ t[i] = s[k]
    BY <1>0, <1>4, <1>5, <1>6
  <2>2. PICK l \in 1..Len(s) : l = (IF j < n THEN j ELSE j + 1) /\ t[j] = s[l]
    BY <1>0, <1>4, <1>5, <1>6
  <2>3. k = l
    BY <2>1, <2>2, <1>0 DEF IsInjective
  <2>. QED  BY <2>1, <2>2, <2>3, <1>0, <1>6
<1>8. ToSet(t) = ToSet(s) \ {s[n]}
  <2>1. ASSUME NEW x \in ToSet(t) PROVE x \in ToSet(s) \ {s[n]}
    <3>1. PICK i \in DOMAIN t : x = t[i]
      BY DEF ToSet
    <3>2. PICK k \in 1..Len(s) : k = (IF i < n THEN i ELSE i + 1) /\ t[i] = s[k]
      BY <1>0, <1>4, <1>5, <1>6
    <3>3. k # n
      BY <3>2, <1>0, <1>6
    <3>4. s[k] # s[n]
      BY <3>3, <1>0 DEF IsInjective
    <3>. QED  BY <3>1, <3>2, <3>4, <1>0 DEF ToSet
  <2>2. ASSUME NEW x \in ToSet(s) \ {s[n]} PROVE x \in ToSet(t)
    <3>1. PICK k \in DOMAIN s : x = s[k]
      BY DEF ToSet
    <3>2. k # n
      BY <3>1
    <3>3. PICK i \in DOMAIN t : i = IF k < n THEN k ELSE k - 1
      BY <3>2, <1>0, <1>6
    <3>4. t[i] = s[k]
      BY <3>2, <3>3, <1>0, <1>4, <1>5, <1>6
    <3>. QED  BY <3>1, <3>4 DEF ToSet
  <2>. QED  BY <2>1, <2>2
<1>. QED  BY <1>4, <1>7, <1>8 DEF t

\* Without(e) is the panel's list without e.
LEMMA WithoutIs ==
    ASSUME SyncTypeOK, NEW e \in Emails
    PROVE  /\ Without(e) \in Seq(Emails) /\ IsInjective(Without(e))
           /\ ToSet(Without(e)) = ToSet(listed) \ {e}
<1>1. CASE OnPanel(e)
  <2>1. \E i \in DOMAIN listed : listed[i] = e
    BY <1>1 DEF OnPanel, ToSet
  <2>2. PlaceOf(e) \in DOMAIN listed /\ listed[PlaceOf(e)] = e
    BY <2>1 DEF PlaceOf
  <2>3. Without(e) = RemoveAt(listed, PlaceOf(e))
    BY <1>1 DEF Without
  <2>. QED  BY <2>2, <2>3, Removed DEF SyncTypeOK
<1>2. CASE ~OnPanel(e)
  BY <1>2 DEF Without, OnPanel, SyncTypeOK
<1>. QED  BY <1>1, <1>2
-----------------------------------------------------------------------------
\* What a request may do.
Request(e) ==
    \/ CreateClient(e) \/ CreateFails(e) \/ InsertFails(e) \/ Renew(e)
    \/ DeleteClient(e) \/ LookupFails(e) \/ DeleteFails(e) \/ RequestStep(e)

\* The key at hand, if there is one, has a date.
LEMMA AtHandTyped ==
    ASSUME SyncTypeOK, NEW e \in Emails
    PROVE  /\ KeyAtHand(e) \in Nat \cup {Absent}
           /\ Fetch(e) => keyCache' \in [Emails -> Nat \cup {Absent}]
  BY DEF SyncTypeOK, KeyAtHand, Fetch

\* A request changes the list only at its own email.
LEMMA RequestLists ==
    ASSUME SyncTypeOK, NEW e \in Emails, Request(e)
    PROVE  \/ listed' = listed /\ moved' = moved
           \/ /\ doing[e] = "none" /\ listed' = Append(listed, e) /\ moved' = moved
           \/ /\ Deletable(e) /\ listed' = Without(e) /\ e \notin told' /\ NoteMove
<1>1. CASE CreateClient(e) \/ CreateFails(e) \/ InsertFails(e) \/ Renew(e) \/ LookupFails(e)
  BY <1>1 DEF CreateClient, CreateFails, InsertFails, Renew, LookupFails, keys, sync
<1>2. CASE DeleteClient(e)
  BY <1>2 DEF DeleteClient
<1>3. CASE DeleteFails(e)
  BY <1>3 DEF DeleteFails
<1>4. CASE RequestStep(e)
  BY <1>4 DEF RequestStep, InsertRow, CacheRow, SaveDate, CacheDate, DropRow, Uncache, sync
<1>. QED  BY <1>1, <1>2, <1>3, <1>4 DEF Request

\* The list keeps its type, and what is on it changes at this email only.
LEMMA RequestKeepsList ==
    ASSUME SyncTypeOK, ListedInv, NEW e \in Emails, Request(e)
    PROVE  /\ listed' \in Seq(Emails) /\ IsInjective(listed')
           /\ \/ ToSet(listed') = ToSet(listed) /\ listed' = listed /\ moved' = moved
              \/ /\ ToSet(listed') = ToSet(listed) \cup {e} /\ moved' = moved
                 /\ Len(listed') = Len(listed) + 1
                 /\ \A i \in 1..Len(listed) : listed'[i] = listed[i]
                 /\ doing[e] = "none"
              \/ /\ ToSet(listed') = ToSet(listed) \ {e} /\ e \notin told'
                 /\ Deletable(e) /\ NoteMove
<1>1. CASE listed' = listed /\ moved' = moved
  BY <1>1 DEF SyncTypeOK
<1>2. CASE doing[e] = "none" /\ listed' = Append(listed, e) /\ moved' = moved
  <2>1. e \notin ToSet(listed)
    BY <1>2 DEF ListedInv, OnPanel
  <2>2. listed \in Seq(Emails) /\ IsInjective(listed)
    BY DEF SyncTypeOK
  <2>. QED  BY <1>2, <2>1, <2>2, Appended
<1>3. CASE Deletable(e) /\ listed' = Without(e) /\ e \notin told' /\ NoteMove
  BY <1>3, WithoutIs
<1>. QED  BY <1>1, <1>2, <1>3, RequestLists

\* A request keeps the types.
LEMMA RequestTyped ==
    ASSUME SyncTypeOK, ListedInv, NEW e \in Emails, Request(e)
    PROVE  SyncTypeOK'
<1>0. listed' \in Seq(Emails) /\ IsInjective(listed')
  BY RequestKeepsList
<1>1. CASE CreateClient(e)
  BY <1>0, <1>1 DEF SyncTypeOK, CreateClient, Does, RequestPlaces, sync
<1>2. CASE CreateFails(e)
  BY <1>0, <1>2, PanelSyncConstants DEF SyncTypeOK, CreateFails, Does, RequestPlaces, Mishap, sync
<1>3. CASE InsertFails(e)
  BY <1>0, <1>3, PanelSyncConstants DEF SyncTypeOK, InsertFails, Does, RequestPlaces, Mishap, sync, keys
<1>4. CASE Renew(e)
  <2>1. panelDate' \in [Emails -> Nat] /\ keyCache' \in [Emails -> Nat \cup {Absent}]
    BY <1>4, AtHandTyped DEF SyncTypeOK, Renew
  <2>. QED  BY <2>1, <1>0, <1>4 DEF SyncTypeOK, Renew, Does, RequestPlaces, sync
<1>5. CASE DeleteClient(e)
  <2>1. keyCache' \in [Emails -> Nat \cup {Absent}]
    BY <1>5, AtHandTyped DEF DeleteClient
  <2>2. moved' \in BOOLEAN
    BY <1>5 DEF DeleteClient, NoteMove
  <2>. QED  BY <2>1, <2>2, <1>0, <1>5 DEF SyncTypeOK, DeleteClient, Does, RequestPlaces
<1>6. CASE LookupFails(e)
  <2>1. keyCache' \in [Emails -> Nat \cup {Absent}]
    BY <1>6, AtHandTyped DEF LookupFails
  <2>. QED  BY <2>1, <1>0, <1>6, PanelSyncConstants DEF SyncTypeOK, LookupFails, Does, RequestPlaces, Mishap
<1>7. CASE DeleteFails(e)
  <2>1. keyCache' \in [Emails -> Nat \cup {Absent}]
    BY <1>7, AtHandTyped DEF DeleteFails
  <2>2. moved' \in BOOLEAN
    BY <1>7 DEF DeleteFails, NoteMove, SyncTypeOK
  <2>. QED  BY <2>1, <2>2, <1>0, <1>7, PanelSyncConstants DEF SyncTypeOK, DeleteFails, Mishap
<1>8. CASE RequestStep(e)
  <2>1. /\ row' \in [Emails -> Nat \cup {Absent}] /\ keyCache' \in [Emails -> Nat \cup {Absent}]
        /\ paid' \in [Emails -> Nat]
    <3>1. CASE InsertRow(e)
      <4>1. row' = row \/ row' = [row EXCEPT ![e] = 0]
        BY <3>1 DEF InsertRow
      <4>2. keyCache' = keyCache /\ paid' = paid
        BY <3>1 DEF InsertRow
      <4>3. [row EXCEPT ![e] = 0] \in [Emails -> Nat \cup {Absent}]
        BY DEF SyncTypeOK
      <4>. QED  BY <4>1, <4>2, <4>3 DEF SyncTypeOK
    <3>5. CASE CacheRow(e)
      BY <3>5 DEF SyncTypeOK, CacheRow
    <3>2. CASE SaveDate(e)
      BY <3>2 DEF SyncTypeOK, SaveDate
    <3>3. CASE CacheDate(e)
      <4>1. paid[e] + 1 \in Nat
        BY DEF SyncTypeOK
      <4>. QED  BY <3>3, <4>1 DEF SyncTypeOK, CacheDate
    <3>4. CASE DropRow(e) \/ Uncache(e)
      BY <3>4 DEF SyncTypeOK, DropRow, Uncache
    <3>. QED  BY <1>8, <3>1, <3>2, <3>3, <3>4, <3>5 DEF RequestStep
  <2>2. doing' \in [Emails -> RequestPlaces]
    BY <1>8 DEF SyncTypeOK, RequestStep, InsertRow, CacheRow, SaveDate, CacheDate, DropRow, Uncache,
                Does, RequestPlaces
  <2>3. /\ UNCHANGED <<panelDate, sync, mishaps>>
        /\ told' \subseteq Emails /\ dropped' \subseteq Emails
    BY <1>8 DEF SyncTypeOK, RequestStep, InsertRow, CacheRow, SaveDate, CacheDate, DropRow, Uncache
  <2>. QED  BY <2>1, <2>2, <2>3, <1>0 DEF SyncTypeOK, sync
<1>. QED  BY <1>1, <1>2, <1>3, <1>4, <1>5, <1>6, <1>7, <1>8 DEF Request

\* What a request leaves of the sync, and of the other keys.
LEMMA RequestLeaves ==
    ASSUME SyncTypeOK, NEW e \in Emails, Request(e)
    PROVE  /\ UNCHANGED <<phase, selected, page, count, snap, ids, orphans, todo, cur>>
           /\ \A f \in Emails \ {e} :
                 doing'[f] = doing[f] /\ row'[f] = row[f] /\ (f \in told' <=> f \in told)
           /\ calm' = calm \/ calm' = calm \ {e}
<1>1. CASE CreateClient(e) \/ CreateFails(e) \/ InsertFails(e) \/ Renew(e)
  BY <1>1 DEF SyncTypeOK, CreateClient, CreateFails, InsertFails, Renew, Does, keys, sync
<1>2. CASE DeleteClient(e) \/ LookupFails(e) \/ DeleteFails(e)
  BY <1>2 DEF SyncTypeOK, DeleteClient, LookupFails, DeleteFails, Does
<1>3. CASE RequestStep(e)
  BY <1>3 DEF SyncTypeOK, RequestStep, InsertRow, CacheRow, SaveDate, CacheDate, DropRow, Uncache,
              Does, sync
<1>. QED  BY <1>1, <1>2, <1>3 DEF Request

\* What a request makes of its own key.
LEMMA RequestWorks ==
    ASSUME SyncTypeOK, ListedInv, CalmInv, NEW e \in Emails, Request(e)
    PROVE  /\ doing'[e] # "none"
           /\ doing'[e] \in {"insert", "cache"} \/ e \in told' => OnPanel(e)'
           /\ e \in calm' => /\ e \in told' /\ doing'[e] \in {"held", "save", "recache"}
                             /\ row[e] # Absent => row'[e] # Absent
<1>1. CASE CreateClient(e)
  <2>1. OnPanel(e)'
    <3>1. e \notin ToSet(listed) /\ listed \in Seq(Emails) /\ IsInjective(listed)
      BY <1>1 DEF CreateClient, ListedInv, OnPanel, SyncTypeOK
    <3>. QED  BY <1>1, <3>1, Appended DEF CreateClient, OnPanel
  <2>2. doing'[e] = "insert" /\ calm' = calm
    BY <1>1 DEF CreateClient, Does, SyncTypeOK, sync
  <2>3. e \notin calm
    BY <1>1 DEF CreateClient, CalmInv
  <2>. QED  BY <2>1, <2>2, <2>3
<1>2. CASE CreateFails(e)
  <2>1. doing'[e] = "failed" /\ calm' = calm /\ told' = told
    BY <1>2 DEF CreateFails, Does, SyncTypeOK, sync
  <2>2. e \notin calm
    BY <1>2 DEF CreateFails, CalmInv
  <2>3. e \notin told
    BY <1>2 DEF CreateFails, ListedInv
  <2>. QED  BY <2>1, <2>2, <2>3
<1>3. CASE InsertFails(e)
  BY <1>3 DEF InsertFails, Does, SyncTypeOK, sync, keys, CalmInv, ListedInv, OnPanel
<1>4. CASE Renew(e)
  BY <1>4 DEF Renew, Does, SyncTypeOK, sync, CalmInv, ListedInv, OnPanel
<1>5. CASE DeleteClient(e) \/ LookupFails(e)
  BY <1>5 DEF DeleteClient, LookupFails, Does, SyncTypeOK
<1>6. CASE DeleteFails(e)
  BY <1>6 DEF DeleteFails, Deletable, SyncTypeOK
<1>7. CASE InsertRow(e)
  BY <1>7, PanelSyncConstants DEF InsertRow, Does, SyncTypeOK, sync, CalmInv, ListedInv, OnPanel
<1>8. CASE CacheRow(e)
  BY <1>8 DEF CacheRow, Does, SyncTypeOK, sync, CalmInv, ListedInv, OnPanel
<1>9. CASE SaveDate(e)
  <2>1. row[e] # Absent => row'[e] # Absent
    BY <1>9, PanelSyncConstants DEF SaveDate, SyncTypeOK
  <2>. QED  BY <1>9, <2>1 DEF SaveDate, Does, SyncTypeOK, sync, CalmInv, ListedInv, OnPanel
<1>10. CASE CacheDate(e)
  BY <1>10 DEF CacheDate, Does, SyncTypeOK, sync, CalmInv, ListedInv, OnPanel
<1>11. CASE DropRow(e) \/ Uncache(e)
  BY <1>11 DEF DropRow, Uncache, Does, SyncTypeOK, sync, CalmInv, ListedInv, OnPanel
<1>. QED  BY <1>1, <1>2, <1>3, <1>4, <1>5, <1>6, <1>7, <1>8, <1>9, <1>10, <1>11 DEF Request, RequestStep
-----------------------------------------------------------------------------
\* The smaller of two numbers.
LEMMA MinOfTwo ==
    ASSUME NEW a \in Nat, NEW b \in Nat
    PROVE  Min({a, b}) = IF a <= b THEN a ELSE b
<1>1. \E x \in {a, b} : \A y \in {a, b} : x =< y
  OBVIOUS
<1>2. Min({a, b}) \in {a, b} /\ \A y \in {a, b} : Min({a, b}) =< y
  BY <1>1 DEF Min
<1> HIDE DEF Min
<1>. QED  BY <1>2

\* The page at hand, when whole pages have been read.
LEMMA BatchIs ==
    ASSUME SyncTypeOK, page \in Nat \ {0}, count = (page - 1) * PageSize
    PROVE  /\ Batch \in Seq(Emails)
           /\ LastPage => Len(listed) <= count + Len(Batch)
           /\ ~LastPage => Len(Batch) = PageSize
           /\ ~LastPage /\ page' = page + 1 => count + Len(Batch) = (page' - 1) * PageSize
           /\ count <= Len(listed) =>
                 /\ count + Len(Batch) <= Len(listed)
                 /\ ToSet(Batch) = {listed[i] : i \in count + 1..count + Len(Batch)}
<1> DEFINE m == Min({page * PageSize, Len(listed)})
<1>1. Len(listed) \in Nat /\ count \in Nat /\ PageSize \in Nat \ {0} /\ listed \in Seq(Emails)
  BY PanelSyncConstants DEF SyncTypeOK
<1>2. page * PageSize = count + PageSize /\ page * PageSize \in Nat
  BY <1>1
<1>3. m = IF count + PageSize <= Len(listed) THEN count + PageSize ELSE Len(listed)
  BY <1>1, <1>2, MinOfTwo
<1>4. Batch = SubSeq(listed, count + 1, m)
  BY DEF Batch
<1> HIDE DEF m
<1>5. m \in Nat /\ m <= Len(listed) /\ count + 1 >= 1
  BY <1>1, <1>3
<1>6. CASE count + 1 <= m
  <2>1. /\ Batch \in Seq(Emails) /\ Len(Batch) = m - count
        /\ \A i \in 1..m - count : Batch[i] = listed[i + count]
    BY <1>1, <1>4, <1>5, <1>6
  <2>2. ToSet(Batch) = {listed[i] : i \in count + 1..m}
    <3>1. ASSUME NEW x \in ToSet(Batch) PROVE x \in {listed[i] : i \in count + 1..m}
      <4>1. PICK i \in 1..m - count : x = Batch[i]
        BY <2>1 DEF ToSet
      <4>2. i + count \in count + 1..m /\ x = listed[i + count]
        BY <4>1, <2>1, <1>1, <1>5
      <4>. QED  BY <4>2
    <3>2. ASSUME NEW x \in {listed[i] : i \in count + 1..m} PROVE x \in ToSet(Batch)
      <4>1. PICK i \in count + 1..m : x = listed[i]
        OBVIOUS
      <4>2. i - count \in 1..m - count /\ i - count + count = i
        BY <4>1, <1>1, <1>5
      <4>3. x = Batch[i - count] /\ i - count \in DOMAIN Batch
        BY <4>1, <4>2, <2>1
      <4>. QED  BY <4>3 DEF ToSet
    <3>. QED  BY <3>1, <3>2
  <2>3. count + Len(Batch) = m
    BY <2>1, <1>1, <1>5
  <2>4. Batch # <<>>
    BY <2>1, <1>1, <1>5, <1>6
  <2>5. LastPage => Len(listed) <= count + Len(Batch)
    BY <2>4 DEF LastPage
  <2>6. ~LastPage => m = count + PageSize
    BY <2>3, <1>1, <1>3 DEF LastPage
  <2>7. page' = page + 1 => (page' - 1) * PageSize = count + PageSize
    BY <1>1, <1>2
  <2>8. ~LastPage => Len(Batch) = PageSize
    BY <2>3, <2>6, <2>1, <1>1
  <2>9. count + Len(Batch) <= Len(listed)
    BY <2>3, <1>5
  <2>. QED  BY <2>1, <2>2, <2>3, <2>5, <2>6, <2>7, <2>8, <2>9
<1>7. CASE ~(count + 1 <= m)
  <2>1. Batch = <<>>
    BY <1>1, <1>4, <1>5, <1>7
  <2>2. Len(Batch) = 0 /\ ToSet(Batch) = {} /\ Batch \in Seq(Emails)
    BY <2>1 DEF ToSet
  <2>3. LastPage /\ Len(listed) <= count
    BY <2>1, <1>1, <1>3, <1>5, <1>7 DEF LastPage
  <2>4. {listed[i] : i \in count + 1..count + 0} = {}
    BY <1>1
  <2>. QED  BY <2>2, <2>3, <2>4, <1>1
<1>. QED  BY <1>6, <1>7

\* What is known after the page: what was known before, and what is on it.
LEMMA SeenIs ==
    ASSUME SyncTypeOK, page \in Nat \ {0}, count = (page - 1) * PageSize
    PROVE  /\ Seen \in [Emails -> Nat \cup {Absent}]
           /\ count <= Len(listed) /\ Known(snap) = Items(count) =>
                 Known(Seen) = Items(count + Len(Batch))
<1>1. Batch \in Seq(Emails) /\ Len(Batch) \in Nat /\ count \in Nat /\ Len(listed) \in Nat
  BY BatchIs DEF SyncTypeOK
<1>2. Seen \in [Emails -> Nat \cup {Absent}]
  BY DEF Seen, SyncTypeOK
<1>3. ToSet(Batch) \subseteq Emails
  BY <1>1 DEF ToSet
<1>4. Known(Seen) = Known(snap) \cup ToSet(Batch)
  BY <1>3, PanelSyncConstants DEF Known, Seen, SyncTypeOK
<1>5. ASSUME count <= Len(listed), Known(snap) = Items(count)
      PROVE  Known(Seen) = Items(count + Len(Batch))
  <2>1. Known(Seen) = {listed[i] : i \in 1..count}
                        \cup {listed[i] : i \in count + 1..count + Len(Batch)}
    BY <1>4, <1>5, BatchIs DEF Items
  <2>2. 1..count + Len(Batch) = (1..count) \cup (count + 1..count + Len(Batch))
    BY <1>1
  <2>. QED  BY <2>1, <2>2 DEF Items
<1>. QED  BY <1>2, <1>5

\* All the items are all the clients of the panel.
LEMMA ItemsAll ==
    ASSUME SyncTypeOK, NEW n \in Nat, Len(listed) <= n, n <= Len(listed)
    PROVE  Items(n) = ToSet(listed)
<1>1. n = Len(listed) /\ DOMAIN listed = 1..Len(listed)
  BY DEF SyncTypeOK
<1>. QED  BY <1>1 DEF Items, ToSet

\* No fewer items than clients: they are all the clients.
LEMMA ItemsCounted ==
    ASSUME SyncTypeOK, NEW n \in Nat, n <= Len(listed), Complete(Items(n))
    PROVE  Items(n) = ToSet(listed)
<1>1. DOMAIN listed = 1..Len(listed) /\ Len(listed) \in Nat
  BY DEF SyncTypeOK
<1> DEFINE f == [i \in 1..n |-> listed[i]]
<1>2. f \in [1..n -> Items(n)] /\ \A x \in Items(n) : \E i \in 1..n : f[i] = x
  BY DEF Items
<1>3. f \in Surjection(1..n, Items(n))
  BY <1>2 DEF Surjection
<1>4. IsFiniteSet(1..n) /\ Cardinality(1..n) = n
  BY FS_Interval
<1>5. Cardinality(Items(n)) <= n
  BY <1>3, <1>4, FS_Surjection
<1>6. IsFiniteSet(Items(n)) /\ Cardinality(Items(n)) \in Nat
  BY <1>3, <1>4, FS_Surjection, FS_CardinalityType
<1>7. Len(listed) <= n
  BY <1>1, <1>5, <1>6 DEF Complete
<1>. QED  BY <1>7, ItemsAll
-----------------------------------------------------------------------------
\* A step of the sync, whether it succeeds or fails.
SyncMove ==
    \/ SyncStep \/ PageFails \/ PageEmpty
    \/ \E e \in Emails : TrafficFails(e)

\* The sync leaves the panel and the requests alone.
LEMMA MoveLeaves == SyncMove => UNCHANGED <<listed, panelDate, owners>>
<1> SUFFICES ASSUME SyncMove PROVE UNCHANGED <<listed, panelDate, owners>>
  OBVIOUS
<1>1. CASE LoadRows \/ CacheRows \/ ReadPage \/ ReadLastPage \/ ReadInbounds \/ Compare
  BY <1>1 DEF LoadRows, CacheRows, ReadPage, ReadLastPage, ReadInbounds, Compare, keys
<1>2. CASE \E e \in Emails : RestoreKey(e) \/ DropOrphan(e) \/ TakeDate(e) \/ TrafficFails(e)
  BY <1>2 DEF RestoreKey, DropOrphan, TakeDate, TrafficFails, keys
<1>3. CASE CacheRestored \/ RestoreDone \/ UncacheOrphan \/ CleanupDone
  BY <1>3 DEF CacheRestored, RestoreDone, UncacheOrphan, CleanupDone, keys
<1>4. CASE UpdateRow \/ CacheUpdated \/ SyncDone \/ PageFails \/ PageEmpty
  BY <1>4 DEF UpdateRow, CacheUpdated, SyncDone, PageFails, PageEmpty, keys
<1>. QED  BY <1>1, <1>2, <1>3, <1>4 DEF SyncMove, SyncStep

\* The end of a sync forgets what it read.
LEMMA EndIs ==
    ASSUME EndSync
    PROVE  /\ phase' = "rest" /\ page' = 1 /\ count' = 0 /\ calm' = {} /\ moved' = FALSE
           /\ snap' = Nothing /\ selected' = Nothing /\ orphans' = {} /\ todo' = {} /\ ids' = {}
           /\ cur' = Absent
  BY DEF EndSync, Nothing

\* The sync keeps the types.
LEMMA MoveTyped ==
    ASSUME SyncTypeOK, PageInv, SyncMove
    PROVE  SyncTypeOK'
<1>0. UNCHANGED <<listed, panelDate, doing, told, dropped, paid>>
  BY MoveLeaves DEF owners
<1>1. Nothing \in [Emails -> Nat \cup {Absent}]
  BY DEF Nothing
<1>2. ASSUME EndSync, UNCHANGED <<row, keyCache>>, mishaps' \in 0..MaxFaults
      PROVE  SyncTypeOK'
  BY <1>0, <1>1, <1>2, EndIs DEF SyncTypeOK, Phases
<1>3. ASSUME NEW list \in [Emails -> Nat \cup {Absent}], GoOnWith(list),
             UNCHANGED <<row, keyCache>>, mishaps' \in 0..MaxFaults
      PROVE  SyncTypeOK'
  <2>1. CASE Complete(Known(list)) /\ Known(list) # {}
    BY <1>0, <1>3, <2>1 DEF GoOnWith, SyncTypeOK, Phases
  <2>. QED  BY <1>2, <1>3, <2>1 DEF GoOnWith
<1>4. CASE LoadRows
  BY <1>0, <1>4 DEF LoadRows, SyncTypeOK, Phases, keys
<1>5. CASE CacheRows
  BY <1>0, <1>1, <1>5 DEF CacheRows, SyncTypeOK, Phases
<1>6. CASE ReadPage
  <2>1. phase = "pages" /\ page \in Nat \ {0} /\ count = (page - 1) * PageSize
    BY <1>6 DEF ReadPage, PageInv
  <2>2. Seen \in [Emails -> Nat \cup {Absent}] /\ Len(Batch) \in Nat
    BY <2>1, SeenIs, BatchIs
  <2>. QED  BY <1>0, <1>6, <2>2 DEF ReadPage, SyncTypeOK, keys
<1>7. CASE ReadLastPage
  <2>1. phase = "pages" /\ page \in Nat \ {0} /\ count = (page - 1) * PageSize
    BY <1>7 DEF ReadLastPage, PageInv
  <2>2. Seen \in [Emails -> Nat \cup {Absent}]
    BY <2>1, SeenIs
  <2>. QED  BY <1>3, <1>7, <2>2 DEF ReadLastPage, keys, SyncTypeOK
<1>8. CASE PageEmpty
  <2>1. snap \in [Emails -> Nat \cup {Absent}] /\ GoOnWith(snap) /\ mishaps' \in 0..MaxFaults
    BY <1>8, PanelSyncConstants DEF PageEmpty, SyncTypeOK, Mishap
  <2>. QED  BY <1>3, <1>8, <2>1 DEF PageEmpty, keys
<1>9. CASE PageFails
  BY <1>2, <1>9, PanelSyncConstants DEF PageFails, SyncTypeOK, Mishap, keys
<1>10. CASE ReadInbounds
  <2>1. ToSet(listed) \subseteq Emails
    BY DEF ToSet, SyncTypeOK
  <2>2. ids' \subseteq Emails /\ mishaps' \in 0..MaxFaults
    BY <1>10, <2>1, PanelSyncConstants DEF ReadInbounds, SyncTypeOK, Mishap
  <2>. QED  BY <1>0, <1>10, <2>2 DEF ReadInbounds, SyncTypeOK, Phases, keys
<1>11. CASE Compare
  BY <1>0, <1>11 DEF Compare, SyncTypeOK, Phases, keys, Orphans, Known
<1>12. ASSUME NEW e \in Emails, RestoreKey(e) \/ DropOrphan(e) \/ TakeDate(e) \/ TrafficFails(e)
       PROVE  SyncTypeOK'
  <2>1. CASE RestoreKey(e)
    <3>1. row' = row \/ row' = [row EXCEPT ![e] = snap[e]]
      BY <2>1 DEF RestoreKey
    <3>. QED  BY <1>0, <2>1, <3>1 DEF RestoreKey, SyncTypeOK, Phases
  <2>2. CASE DropOrphan(e)
    <3>1. row' = row \/ row' = [row EXCEPT ![e] = Absent]
      BY <2>2 DEF DropOrphan
    <3>. QED  BY <1>0, <2>2, <3>1 DEF DropOrphan, SyncTypeOK, Phases
  <2>3. CASE TakeDate(e)
    <3>1. keyCache' = keyCache \/ keyCache' = [keyCache EXCEPT ![e] = snap[e]]
      BY <2>3 DEF TakeDate
    <3>. QED  BY <1>0, <2>3, <3>1 DEF TakeDate, SyncTypeOK, Phases
  <2>4. CASE TrafficFails(e)
    BY <1>0, <2>4, PanelSyncConstants DEF TrafficFails, SyncTypeOK, Mishap, keys
  <2>. QED  BY <1>12, <2>1, <2>2, <2>3, <2>4
<1>13. CASE CacheRestored
  <2>1. keyCache' \in [Emails -> Nat \cup {Absent}]
    BY <1>13 DEF CacheRestored, SyncTypeOK
  <2>. QED  BY <1>0, <1>13, <2>1 DEF CacheRestored, SyncTypeOK, Phases
<1>14. CASE RestoreDone
  BY <1>0, <1>14 DEF RestoreDone, SyncTypeOK, Phases, keys
<1>15. CASE UncacheOrphan
  BY <1>0, <1>15 DEF UncacheOrphan, SyncTypeOK, Phases
<1>16. CASE CleanupDone
  BY <1>0, <1>16 DEF CleanupDone, SyncTypeOK, Phases, keys, Known
<1>17. CASE UpdateRow
  <2>1. row' \in [Emails -> Nat \cup {Absent}]
    BY <1>17 DEF UpdateRow, SyncTypeOK
  <2>. QED  BY <1>0, <1>17, <2>1 DEF UpdateRow, SyncTypeOK, Phases
<1>18. CASE CacheUpdated
  <2>1. keyCache' \in [Emails -> Nat \cup {Absent}]
    BY <1>18 DEF CacheUpdated, SyncTypeOK
  <2>. QED  BY <1>0, <1>18, <2>1 DEF CacheUpdated, SyncTypeOK, Phases
<1>19. CASE SyncDone
  BY <1>2, <1>19 DEF SyncDone, SyncTypeOK, keys
<1>. QED  BY <1>4, <1>5, <1>6, <1>7, <1>8, <1>9, <1>10, <1>11, <1>12, <1>13, <1>14, <1>15,
             <1>16, <1>17, <1>18, <1>19 DEF SyncMove, SyncStep
-----------------------------------------------------------------------------
\* What the restart does.
LEMMA RestartIs ==
    ASSUME SyncTypeOK, ProcessRestart
    PROVE  /\ UNCHANGED <<listed, panelDate, row, told, dropped, paid>>
           /\ EndSync
           /\ doing' \in [Emails -> RequestPlaces]
           /\ \A e \in Emails : doing'[e] \in {"none", "held", "gone", "failed"}
           /\ \A e \in Emails : doing'[e] = "none" => doing[e] = "none"
<1>1. \A e \in Emails :
        doing'[e] = CASE doing[e] = "insert" -> "failed"
                      [] doing[e] \in {"cache", "save", "recache", "drop", "uncache"} -> "held"
                      [] OTHER -> doing[e]
  BY DEF ProcessRestart
<1>2. \A e \in Emails : doing[e] \in RequestPlaces
  BY DEF SyncTypeOK
<1>3. DOMAIN doing' = Emails /\ doing' = [e \in Emails |-> doing'[e]]
  BY DEF ProcessRestart
<1>4. \A e \in Emails : /\ doing'[e] \in {"none", "held", "gone", "failed"}
                        /\ doing'[e] = "none" => doing[e] = "none"
  BY <1>1, <1>2 DEF RequestPlaces
<1>5. doing' \in [Emails -> RequestPlaces]
  BY <1>3, <1>4 DEF RequestPlaces
<1>. QED  BY <1>4, <1>5 DEF ProcessRestart

\* The types are kept by every step.
LEMMA SyncTyped ==
    SyncTypeOK /\ ListedInv /\ PageInv /\ [SyncNext]_syncVars => SyncTypeOK'
<1> SUFFICES ASSUME SyncTypeOK, ListedInv, PageInv, [SyncNext]_syncVars PROVE SyncTypeOK'
  OBVIOUS
<1>1. ASSUME NEW e \in Emails, Request(e) PROVE SyncTypeOK'
  BY <1>1, RequestTyped
<1>2. CASE SyncMove
  BY <1>2, MoveTyped
<1>3. CASE ProcessRestart
  <2>1. keyCache' = row /\ mishaps' \in 0..MaxFaults
    BY <1>3, PanelSyncConstants DEF ProcessRestart, Mishap, SyncTypeOK
  <2>2. Nothing \in [Emails -> Nat \cup {Absent}]
    BY DEF Nothing
  <2>3. /\ UNCHANGED <<listed, panelDate, row, told, dropped, paid>>
        /\ doing' \in [Emails -> RequestPlaces] /\ EndSync
    BY <1>3, RestartIs
  <2>4. /\ phase' = "rest" /\ page' = 1 /\ count' = 0 /\ calm' = {} /\ moved' = FALSE
        /\ snap' = Nothing /\ selected' = Nothing /\ orphans' = {} /\ todo' = {} /\ ids' = {}
        /\ cur' = Absent
    BY <2>3, EndIs
  <2>. QED  BY <2>1, <2>2, <2>3, <2>4 DEF SyncTypeOK, Phases
<1>4. CASE UNCHANGED syncVars
  BY <1>4 DEF syncVars, keys, owners, sync, SyncTypeOK
<1>. QED  BY <1>1, <1>2, <1>3, <1>4 DEF SyncNext, Request, SyncMove

\* What is told of is on the panel, after every step.
LEMMA SyncListed ==
    SyncTypeOK /\ ListedInv /\ CalmInv /\ [SyncNext]_syncVars => ListedInv'
<1> SUFFICES ASSUME SyncTypeOK, ListedInv, CalmInv, [SyncNext]_syncVars PROVE ListedInv'
  OBVIOUS
<1>1. ASSUME NEW e \in Emails, Request(e) PROVE ListedInv'
  <2>1. \A f \in Emails \ {e} : /\ OnPanel(f)' <=> OnPanel(f)
                                /\ doing'[f] = doing[f] /\ (f \in told' <=> f \in told)
    BY <1>1, RequestKeepsList, RequestLeaves DEF OnPanel
  <2>2. /\ doing'[e] # "none"
        /\ doing'[e] \in {"insert", "cache"} \/ e \in told' => OnPanel(e)'
    BY <1>1, RequestWorks
  <2>. QED  BY <2>1, <2>2 DEF ListedInv
<1>2. CASE SyncMove
  BY <1>2, MoveLeaves DEF ListedInv, OnPanel, owners
<1>3. CASE ProcessRestart
  <2>1. \A e \in Emails : doing'[e] \notin {"insert", "cache"} /\ (doing'[e] = "none" => doing[e] = "none")
    BY <1>3, RestartIs
  <2>. QED  BY <1>3, <2>1, RestartIs DEF ListedInv, OnPanel
<1>4. CASE UNCHANGED syncVars
  BY <1>4 DEF syncVars, keys, owners, ListedInv, OnPanel
<1>. QED  BY <1>1, <1>2, <1>3, <1>4 DEF SyncNext, Request, SyncMove

\* What a step of the sync makes of its phase, its list and the keys at rest.
LEMMA MoveLists ==
    ASSUME SyncTypeOK, PageInv, ListInv, CalmInv, SyncMove
    PROVE  \/ EndSync /\ UNCHANGED row
           \/ phase = "rest" /\ phase' = "load" /\ UNCHANGED <<row, page, count, snap, calm, moved>>
           \/ /\ phase = "load" /\ phase' = "pages" /\ UNCHANGED <<row, page, count, snap, moved>>
              /\ calm' = {e \in told : doing[e] = "held" /\ row[e] # Absent}
           \/ ReadPage
           \/ /\ phase = "pages" /\ phase' = "inbounds" /\ UNCHANGED <<row, calm, moved>>
              /\ moved \/ Known(snap') = ToSet(listed)
           \/ /\ ~Unread /\ phase # "pages" /\ ~Unread' /\ phase' # "pages"
              /\ UNCHANGED <<snap, calm, moved>>
<1>1. CASE LoadRows
  BY <1>1 DEF LoadRows, keys
<1>2. CASE CacheRows
  BY <1>2 DEF CacheRows
<1>3. CASE ReadPage
  BY <1>3
<1>4. ASSUME NEW list, GoOnWith(list), phase = "pages", UNCHANGED row,
             moved \/ (Complete(Known(list)) => Known(list) = ToSet(listed))
      PROVE  \/ EndSync /\ UNCHANGED row
             \/ /\ phase = "pages" /\ phase' = "inbounds" /\ UNCHANGED <<row, calm, moved>>
                /\ moved \/ Known(snap') = ToSet(listed)
  BY <1>4 DEF GoOnWith
<1>5. CASE ReadLastPage
  <2>1. phase = "pages" /\ page \in Nat \ {0} /\ count = (page - 1) * PageSize
    BY <1>5 DEF ReadLastPage, PageInv
  <2>2. /\ Len(Batch) \in Nat /\ count \in Nat /\ Len(listed) \in Nat
        /\ Len(listed) <= count + Len(Batch)
        /\ count <= Len(listed) => count + Len(Batch) <= Len(listed)
    <3>1. Batch \in Seq(Emails) /\ LastPage
      BY <1>5, <2>1, BatchIs DEF ReadLastPage
    <3>2. Len(Batch) \in Nat /\ count \in Nat /\ Len(listed) \in Nat
      BY <3>1 DEF SyncTypeOK
    <3>. QED  BY <2>1, <3>1, <3>2, BatchIs
  <2>3. ~moved => Known(Seen) = Items(count + Len(Batch)) /\ count <= Len(listed)
    BY <2>1, SeenIs DEF PageInv
  <2>4. ~moved => Known(Seen) = ToSet(listed)
    BY <2>2, <2>3, ItemsAll
  <2>. QED  BY <1>4, <1>5, <2>4 DEF ReadLastPage, keys
<1>6. CASE PageEmpty
  <2>1. ~moved => count <= Len(listed) /\ Known(snap) = Items(count)
    BY <1>6 DEF PageEmpty, PageInv
  <2>2. count \in Nat
    BY DEF SyncTypeOK
  <2>3. ~moved => (Complete(Known(snap)) => Known(snap) = ToSet(listed))
    BY <2>1, <2>2, ItemsCounted
  <2>. QED  BY <1>4, <1>6, <2>3 DEF PageEmpty, keys
<1>7. CASE PageFails \/ SyncDone
  BY <1>7 DEF PageFails, SyncDone, keys
<1>8. CASE ReadInbounds \/ Compare \/ (\E e \in Emails : RestoreKey(e))
  BY <1>8 DEF ReadInbounds, Compare, RestoreKey, Unread
<1>9. CASE \E e \in Emails : DropOrphan(e) \/ TakeDate(e) \/ TrafficFails(e)
  BY <1>9 DEF DropOrphan, TakeDate, TrafficFails, Unread
<1>10. CASE CacheRestored \/ RestoreDone \/ UncacheOrphan \/ CleanupDone
  BY <1>10 DEF CacheRestored, RestoreDone, UncacheOrphan, CleanupDone, Unread
<1>11. CASE UpdateRow \/ CacheUpdated
  BY <1>11 DEF UpdateRow, CacheUpdated, Unread
<1>. QED  BY <1>1, <1>2, <1>3, <1>5, <1>6, <1>7, <1>8, <1>9, <1>10, <1>11 DEF SyncMove, SyncStep

\* What is at rest is told of and is not being created or deleted.
LEMMA SyncCalm ==
    SyncTypeOK /\ ListedInv /\ CalmInv /\ PageInv /\ ListInv /\ [SyncNext]_syncVars => CalmInv'
<1> SUFFICES ASSUME SyncTypeOK, ListedInv, CalmInv, PageInv, ListInv, [SyncNext]_syncVars
             PROVE  CalmInv'
  OBVIOUS
<1>1. ASSUME NEW e \in Emails, Request(e) PROVE CalmInv'
  <2>1. phase' = phase /\ calm' \subseteq calm
    BY <1>1, RequestLeaves
  <2>2. \A f \in calm' \ {e} : f \in told' /\ doing'[f] \in {"held", "save", "recache"}
    BY <1>1, <2>1, RequestLeaves DEF CalmInv, SyncTypeOK
  <2>3. e \in calm' => e \in told' /\ doing'[e] \in {"held", "save", "recache"}
    BY <1>1, RequestWorks
  <2>. QED  BY <2>1, <2>2, <2>3 DEF CalmInv
<1>2. CASE SyncMove
  <2>1. UNCHANGED <<told, doing>>
    BY <1>2, MoveLeaves DEF owners
  <2>2. CASE ReadPage
    BY <2>1, <2>2 DEF ReadPage, CalmInv
  <2>3. CASE EndSync
    BY <2>1, <2>3, EndIs DEF CalmInv
  <2>. QED  BY <1>2, <2>1, <2>2, <2>3, MoveLists DEF CalmInv, Unread
<1>3. CASE ProcessRestart
  BY <1>3, RestartIs, EndIs DEF CalmInv
<1>4. CASE UNCHANGED syncVars
  BY <1>4 DEF syncVars, keys, owners, sync, CalmInv
<1>. QED  BY <1>1, <1>2, <1>3, <1>4 DEF SyncNext, Request, SyncMove

\* The pages read so far are the first clients of the panel.
LEMMA SyncPages ==
    SyncTypeOK /\ ListedInv /\ CalmInv /\ PageInv /\ ListInv /\ [SyncNext]_syncVars => PageInv'
<1> SUFFICES ASSUME SyncTypeOK, ListedInv, CalmInv, PageInv, ListInv, [SyncNext]_syncVars,
                    phase' = "pages"
             PROVE  PageInv'
  BY DEF PageInv
<1>0. Len(listed) \in Nat /\ count \in Nat /\ PageSize \in Nat \ {0}
  BY PanelSyncConstants DEF SyncTypeOK
<1>1. ASSUME NEW e \in Emails, Request(e) PROVE PageInv'
  <2>1. UNCHANGED <<phase, page, count, snap>>
    BY <1>1, RequestLeaves
  <2>2. /\ page \in Nat \ {0} /\ count = (page - 1) * PageSize
        /\ count = 0 => snap = Nothing
        /\ ~moved => count <= Len(listed) /\ Known(snap) = Items(count)
    BY <2>1 DEF PageInv
  <2>3. CASE listed' = listed /\ moved' = moved
    BY <2>1, <2>2, <2>3 DEF PageInv, Items, Known, Nothing
  <2>4. CASE /\ moved' = moved /\ Len(listed') = Len(listed) + 1
             /\ \A i \in 1..Len(listed) : listed'[i] = listed[i]
    <3>1. ~moved => \A i \in 1..count : listed'[i] = listed[i]
      BY <2>2, <2>4, <1>0
    <3>2. ~moved => Items(count)' = Items(count)
      BY <2>1, <3>1 DEF Items
    <3>3. ~moved => count <= Len(listed')
      BY <2>2, <2>4, <1>0
    <3>. QED  BY <2>1, <2>2, <2>4, <3>2, <3>3 DEF PageInv, Known, Nothing
  <2>5. CASE NoteMove /\ listed' \in Seq(Emails)
    <3>1. ~moved' => count = 0 /\ ~moved
      <4>1. phase = "pages"
        BY <2>1
      <4>2. CASE count > 0
        BY <4>1, <4>2, <2>5 DEF NoteMove
      <4>3. CASE ~(count > 0)
        <5>1. count = 0
          BY <4>3, <1>0
        <5>2. moved' = moved
          BY <4>3, <2>5 DEF NoteMove, SyncTypeOK
        <5>. QED  BY <5>1, <5>2
      <4>. QED  BY <4>2, <4>3
    <3>2. Len(listed') \in Nat
      BY <2>5
    <3>3. count = 0 => Items(count)' = {} /\ Known(snap)' = {}
      <4>1. 1..0 = {}
        OBVIOUS
      <4>. QED  BY <2>1, <2>2, <4>1 DEF Items, Known, Nothing
    <3>4. ~moved' => count' <= Len(listed') /\ Known(snap)' = Items(count)'
      BY <2>1, <3>1, <3>2, <3>3
    <3>. QED  BY <2>1, <2>2, <3>4 DEF PageInv, Nothing
  <2>. QED  BY <1>1, <2>3, <2>4, <2>5, RequestKeepsList
<1>2. CASE SyncMove
  <2>1. listed' = listed
    BY <1>2, MoveLeaves
  <2>2. CASE phase = "load" /\ UNCHANGED <<page, count, snap, moved>>
    <3>1. count = 0 /\ page = 1 /\ snap = Nothing
      BY <2>2 DEF ListInv, Unread
    <3>2. Items(0) = {} /\ Known(Nothing) = {}
      <4>1. 1..0 = {}
        OBVIOUS
      <4>. QED  BY <4>1 DEF Items, Known, Nothing
    <3>3. (1 - 1) * PageSize = 0
      BY <1>0
    <3>4. Items(0)' = {}
      <4>1. 1..0 = {}
        OBVIOUS
      <4>. QED  BY <4>1 DEF Items
    <3>5. Known(snap') = {} /\ count' = 0 /\ page' = 1 /\ snap' = Nothing
      BY <2>2, <3>1, <3>2
    <3>. QED  BY <2>1, <3>3, <3>4, <3>5, <1>0 DEF PageInv, Known, Nothing, Items
  <2>3. CASE ReadPage
    <3>1. /\ page \in Nat \ {0} /\ count = (page - 1) * PageSize
          /\ ~moved => count <= Len(listed) /\ Known(snap) = Items(count)
      BY <2>3 DEF ReadPage, PageInv
    <3>2. /\ ~LastPage /\ snap' = Seen /\ count' = count + Len(Batch) /\ page' = page + 1
          /\ moved' = moved
      BY <2>3 DEF ReadPage
    <3>3. Len(Batch) = PageSize /\ count' = (page' - 1) * PageSize
      BY <3>1, <3>2, BatchIs
    <3>4. count' # 0 /\ page' \in Nat \ {0}
      BY <3>1, <3>2, <3>3, <1>0
    <3>5. ~moved => count' <= Len(listed') /\ Known(Seen) = Items(count')
      BY <2>1, <3>1, <3>2, BatchIs, SeenIs
    <3>6. ~moved' => count' <= Len(listed') /\ Known(snap)' = Items(count)'
      BY <2>1, <3>2, <3>5 DEF Known, Items
    <3>. QED  BY <3>3, <3>4, <3>6 DEF PageInv
  <2>. QED  BY <1>2, <2>2, <2>3, MoveLists, EndIs
<1>3. CASE ProcessRestart
  BY <1>3, RestartIs, EndIs
<1>4. CASE UNCHANGED syncVars
  BY <1>4 DEF syncVars, keys, owners, sync, PageInv, Items, Known, Nothing
<1>. QED  BY <1>1, <1>2, <1>3, <1>4 DEF SyncNext, Request, SyncMove
\* Once the list is read, what is at rest is on it, and the clean-up is for
\* what is not.
LEMMA SyncLists ==
    SyncTypeOK /\ ListedInv /\ CalmInv /\ PageInv /\ ListInv /\ [SyncNext]_syncVars => ListInv'
<1> SUFFICES ASSUME SyncTypeOK, ListedInv, CalmInv, PageInv, ListInv, [SyncNext]_syncVars
             PROVE  ListInv'
  OBVIOUS
<1>1. ASSUME NEW e \in Emails, Request(e) PROVE ListInv'
  <2>1. UNCHANGED <<phase, page, count, snap, orphans, todo, cur>> /\ calm' \subseteq calm
    BY <1>1, RequestLeaves
  <2>2. moved => moved'
    BY <1>1, RequestLists DEF NoteMove
  <2>. QED  BY <2>1, <2>2 DEF ListInv, Unread, Paired, Known, Nothing
<1>2. ASSUME EndSync PROVE ListInv'
  BY <1>2, EndIs DEF ListInv, Unread, Paired, Nothing
<1>3. CASE SyncMove
  <2>1. Unread' => count' = 0 /\ page' = 1 /\ snap' = Nothing'
    <3>1. CASE ReadPage
      BY <3>1 DEF ReadPage, Unread
    <3>. QED  BY <1>2, <1>3, <3>1, MoveLists DEF ListInv, Unread, Nothing
  <2>2. ~Unread' /\ phase' # "pages" => moved' \/ calm' \subseteq Known(snap)'
    <3>1. CASE ReadPage
      BY <3>1 DEF ReadPage
    <3>2. CASE phase = "pages" /\ UNCHANGED calm /\ (moved \/ Known(snap') = ToSet(listed)) /\ UNCHANGED moved
      <4>1. calm \subseteq ToSet(listed)
        BY DEF CalmInv, ListedInv, OnPanel, SyncTypeOK
      <4>. QED  BY <3>2, <4>1 DEF Known
    <3>3. CASE ~Unread /\ phase # "pages" /\ UNCHANGED <<snap, calm, moved>>
      BY <3>3 DEF ListInv, Known
    <3>. QED  BY <1>2, <1>3, <3>1, <3>2, <3>3, MoveLists DEF ListInv, Unread
  <2> DEFINE Rest ==
          /\ Paired => orphans \cap Known(snap) = {}
          /\ phase \in {"cleanup", "cleaned"} => todo \subseteq orphans
          /\ phase \in {"traffic", "updating", "updated"} => todo \subseteq Known(snap)
          /\ phase \in {"updating", "updated"} => cur \in Known(snap)
  <2>3. Rest'
    <3>0. Rest
      BY DEF ListInv
    <3>1. CASE LoadRows \/ CacheRows \/ ReadPage \/ ReadInbounds
      BY <3>1 DEF LoadRows, CacheRows, ReadPage, ReadInbounds, Paired
    <3>2. ASSUME NEW list, GoOnWith(list), phase = "pages" PROVE Rest'
      BY <1>2, <3>2 DEF GoOnWith, Paired, ListInv
    <3>3. CASE ReadLastPage \/ PageEmpty
      BY <3>2, <3>3 DEF ReadLastPage, PageEmpty
    <3>4. CASE PageFails \/ SyncDone
      BY <1>2, <3>4 DEF PageFails, SyncDone, ListInv
    <3>5. CASE Compare
      BY <3>5 DEF Compare, Paired, Orphans, Known
    <3>6. CASE \E e \in Emails : RestoreKey(e)
      BY <3>0, <3>6 DEF RestoreKey, Paired, Known
    <3>7. CASE \E e \in Emails : DropOrphan(e)
      BY <3>0, <3>7 DEF DropOrphan, Paired, Known
    <3>8. CASE \E e \in Emails : TakeDate(e)
      BY <3>0, <3>8 DEF TakeDate, Paired, Known
    <3>9. CASE \E e \in Emails : TrafficFails(e)
      BY <3>0, <3>9 DEF TrafficFails, Paired, Known
    <3>10. CASE CacheRestored \/ RestoreDone \/ UncacheOrphan \/ CleanupDone
      BY <3>0, <3>10 DEF CacheRestored, RestoreDone, UncacheOrphan, CleanupDone, Paired, Known
    <3>11. CASE UpdateRow \/ CacheUpdated
      BY <3>0, <3>11 DEF UpdateRow, CacheUpdated, Paired, Known
    <3>. QED  BY <1>3, <3>1, <3>3, <3>4, <3>5, <3>6, <3>7, <3>8, <3>9, <3>10, <3>11
              DEF SyncMove, SyncStep
  <2>. QED  BY <2>1, <2>2, <2>3 DEF ListInv
<1>4. CASE ProcessRestart
  BY <1>2, <1>4, RestartIs
<1>5. CASE UNCHANGED syncVars
  BY <1>5 DEF syncVars, keys, owners, sync, ListInv, Unread, Paired, Known, Nothing
<1>. QED  BY <1>1, <1>3, <1>4, <1>5 DEF SyncNext, Request, SyncMove

\* No step takes the row of a key at rest.
LEMMA SyncRows ==
    PanelInv /\ [SyncNext]_syncVars => CalmKeysSurvive'
<1> SUFFICES ASSUME PanelInv, [SyncNext]_syncVars, ~moved' PROVE \A e \in calm' : row'[e] # Absent
  BY DEF CalmKeysSurvive
<1> USE DEF PanelInv
<1>1. ASSUME NEW e \in Emails, Request(e) PROVE \A f \in calm' : row'[f] # Absent
  <2>1. ~moved
    BY <1>1, RequestLists DEF NoteMove
  <2>2. calm' \subseteq calm /\ calm \subseteq Emails
    BY <1>1, RequestLeaves DEF SyncTypeOK
  <2>3. \A f \in calm : row[f] # Absent
    BY <2>1 DEF CalmKeysSurvive
  <2>4. \A f \in Emails \ {e} : row'[f] = row[f]
    BY <1>1, RequestLeaves
  <2>5. e \in calm' => row'[e] # Absent
    BY <1>1, <2>2, <2>3, RequestWorks
  <2>. QED  BY <2>2, <2>3, <2>4, <2>5
<1>2. CASE SyncMove
  <2>1. CASE EndSync
    BY <2>1, EndIs
  <2>2. CASE phase = "load" /\ calm' = {e \in told : doing[e] = "held" /\ row[e] # Absent} /\ UNCHANGED row
    BY <2>2
  <2>3. CASE UNCHANGED <<row, calm, moved>>
    BY <2>3 DEF CalmKeysSurvive
  <2>4. CASE ReadPage
    BY <2>3, <2>4 DEF ReadPage, keys
  <2>5. CASE ~Unread /\ phase # "pages" /\ UNCHANGED <<snap, calm, moved>>
    <3>1. /\ \A f \in calm : row[f] # Absent
          /\ calm \subseteq Known(snap) /\ calm \subseteq Emails
      BY <2>5 DEF CalmKeysSurvive, ListInv, SyncTypeOK
    <3>2. ASSUME NEW e \in Emails, RestoreKey(e) \/ TakeDate(e) \/ TrafficFails(e)
          PROVE  \A f \in calm : row'[f] # Absent
      <4>1. \A f \in calm \ {e} : row'[f] = row[f]
        BY <3>1, <3>2 DEF RestoreKey, TakeDate, TrafficFails, keys, SyncTypeOK
      <4>2. e \in calm => row'[e] = row[e]
        BY <3>1, <3>2 DEF RestoreKey, TakeDate, TrafficFails, keys, SyncTypeOK
      <4>. QED  BY <3>1, <4>1, <4>2
    <3>3. ASSUME NEW e \in Emails, DropOrphan(e)
          PROVE  \A f \in calm : row'[f] # Absent
      <4>1. e \notin calm
        BY <3>1, <3>3 DEF DropOrphan, ListInv, Paired
      <4>2. \A f \in Emails \ {e} : row'[f] = row[f]
        BY <3>3 DEF DropOrphan, SyncTypeOK
      <4>. QED  BY <3>1, <4>1, <4>2
    <3>4. CASE UpdateRow
      <4>1. cur \in Emails /\ snap[cur] # Absent
        BY <3>4 DEF UpdateRow, ListInv, Known
      <4>2. \A f \in Emails : row[f] # Absent => row'[f] # Absent
        BY <3>4, <4>1 DEF UpdateRow, SyncTypeOK
      <4>. QED  BY <2>5, <3>1, <4>2
    <3>5. CASE ReadInbounds \/ Compare \/ CacheRestored \/ RestoreDone
      BY <3>1, <3>5 DEF ReadInbounds, Compare, CacheRestored, RestoreDone, keys
    <3>6. CASE UncacheOrphan \/ CleanupDone \/ CacheUpdated \/ SyncDone
      <4>1. row' = row
        BY <3>6 DEF UncacheOrphan, CleanupDone, CacheUpdated, SyncDone, keys
      <4>. QED  BY <2>5, <3>1, <4>1
    <3>7. CASE LoadRows \/ CacheRows \/ ReadLastPage \/ PageFails \/ PageEmpty
      BY <2>5, <3>7 DEF LoadRows, CacheRows, ReadLastPage, PageFails, PageEmpty, Unread
    <3>8. \A f \in calm : row'[f] # Absent
      BY <1>2, <2>4, <3>2, <3>3, <3>4, <3>5, <3>6, <3>7, <2>5 DEF SyncMove, SyncStep, ReadPage
    <3>. QED  BY <2>5, <3>8
  <2>. QED  BY <1>2, <2>1, <2>2, <2>3, <2>4, <2>5, MoveLists
<1>3. CASE ProcessRestart
  BY <1>3, RestartIs, EndIs
<1>4. CASE UNCHANGED syncVars
  BY <1>4 DEF syncVars, keys, sync, CalmKeysSurvive
<1>. QED  BY <1>1, <1>2, <1>3, <1>4 DEF SyncNext, Request, SyncMove

\* Nothing is listed, told of or read when the process first starts.
LEMMA InitPanel == SyncInit => PanelInv
<1> SUFFICES ASSUME SyncInit PROVE PanelInv
  OBVIOUS
<1>1. ToSet(listed) = {}
  BY DEF SyncInit, ToSet
<1>2. IsInjective(listed) /\ listed \in Seq(Emails)
  BY DEF SyncInit, IsInjective
<1>3. SyncTypeOK
  <2>1. Nothing \in [Emails -> Nat \cup {Absent}]
    BY DEF Nothing
  <2>2. [e \in Emails |-> 0] \in [Emails -> Nat] /\ [e \in Emails |-> "none"] \in [Emails -> RequestPlaces]
    BY DEF RequestPlaces
  <2>3. "rest" \in Phases /\ 0 \in 0..MaxFaults
    BY PanelSyncConstants DEF Phases
  <2>. QED  BY <1>2, <2>1, <2>2, <2>3 DEF SyncInit, SyncTypeOK
<1>4. ListedInv /\ CalmInv /\ PageInv /\ ListInv /\ CalmKeysSurvive
  BY <1>1 DEF SyncInit, ListedInv, OnPanel, CalmInv, PageInv, ListInv, Unread, Paired,
              CalmKeysSurvive
<1>. QED  BY <1>3, <1>4 DEF PanelInv

\* The strengthening is inductive.
THEOREM PanelInvariant == SyncSpec => []PanelInv
<1>1. PanelInv /\ [SyncNext]_syncVars => PanelInv'
  BY SyncTyped, SyncListed, SyncCalm, SyncPages, SyncLists, SyncRows DEF PanelInv
<1>. QED  BY InitPanel, <1>1, PTL DEF SyncSpec

\* The panel, the table and the sync keep their types.
THEOREM SyncTypeCorrect == SyncSpec => []SyncTypeOK
<1>1. PanelInv => SyncTypeOK
  BY DEF PanelInv
<1>. QED  BY <1>1, PanelInvariant, PTL

\* However many keys, pages, renewals and failures there are: a key at rest
\* keeps its row through a sync no client left the panel under, and a key
\* whose owner was told of it is a client of the panel.
THEOREM KeysStayHolds == SyncSpec => []KeysStay
<1>1. PanelInv => KeysStay
  <2> SUFFICES ASSUME PanelInv PROVE KeysStay
    OBVIOUS
  <2>1. NoPhantom
    BY DEF PanelInv, ListedInv, NoPhantom, SyncTypeOK
  <2>. QED  BY <2>1 DEF PanelInv, KeysStay
<1>. QED  BY <1>1, PanelInvariant, PTL
=============================================================================
