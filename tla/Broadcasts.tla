----------------------------- MODULE Broadcasts -----------------------------
(***************************************************************************)
(* Broadcasts of the admin: creating one, the runner that sends it batch   *)
(* by batch (services/broadcasts/runner.py) over the tables broadcasts and *)
(* broadcast_recipients, cancelling, and going on after a restart.         *)
(* Recipients are numbers, as tg_id orders a batch.                        *)
(***************************************************************************)
EXTENDS Naturals, FiniteSets, FiniteSetsExt

CONSTANTS
    Broadcasts,     \* requests to create a broadcast, and what they create
    Procs,          \* backend processes
    Audience,       \* per broadcast: who is in its segment
    BatchSize,
    MaxAttempts,    \* max_attempts of _deliver
    MaxInRow,       \* max_failures_in_row
    MaxFaults,      \* bound on lost answers, failed statements and restarts
    None

Recipients == UNION {Audience[b] : b \in Broadcasts}
Tasks == Procs \X Broadcasts

ASSUME BroadcastConstants ==
    /\ IsFiniteSet(Broadcasts) /\ IsFiniteSet(Recipients) /\ Recipients \subseteq Nat
    /\ {BatchSize, MaxAttempts, MaxInRow} \subseteq Nat \ {0}
    /\ MaxFaults \in Nat

VARIABLES
    status,         \* broadcasts.status, "none" without a row
    rcp,            \* broadcast_recipients.status
    got,            \* how often a message of the broadcast reached a recipient
    create,         \* per broadcast: place of POST /admin/broadcasts
    cancel,         \* per broadcast: place of POST .../cancel
    home,           \* per broadcast: the process that serves these requests
    at,             \* per task: place of BroadcastRunner.run
    batch,          \* per task: recipients claimed and not yet recorded
    result, tries,  \* per task: outcome and attempts of the message at hand
    inRow,          \* per task: failures in a row
    outcome,        \* per task: what finish is going to write
    faults

tables == <<status, rcp>>
requests == <<create, cancel, home>>
runner == <<at, batch, result, tries, inRow, outcome>>
vars == <<tables, got, requests, runner, faults>>

Active == {"running", "cancel_requested"}
Final == {"done", "canceled", "failed"}
Delivery == {"sent", "blocked", "failed"}

TypeOK ==
    /\ status \in [Broadcasts -> Active \cup Final \cup {"none"}]
    /\ rcp \in [Broadcasts -> [Recipients -> Delivery \cup {"none", "pending", "sending"}]]
    /\ got \in [Broadcasts -> [Recipients -> Nat]]
    /\ create \in [Broadcasts -> {"idle", "copy", "insert", "audit", "over"}]
    /\ cancel \in [Broadcasts -> {"idle", "audit", "over"}]
    /\ home \in [Broadcasts -> Procs \cup {None}]
    /\ at \in [Tasks -> {"off", "begin", "release", "status", "claim", "deliver",
                         "record", "giveup", "finish"}]
    /\ batch \in [Tasks -> SUBSET Recipients]
    /\ result \in [Tasks -> Delivery \cup {None, "unauthorized"}]
    /\ tries \in [Tasks -> 0..MaxAttempts - 1]
    /\ inRow \in [Tasks -> 0..MaxInRow]
    /\ outcome \in [Tasks -> Final \cup {None}]
    /\ faults \in 0..MaxFaults

Init ==
    /\ status = [b \in Broadcasts |-> "none"]
    /\ rcp = [b \in Broadcasts |-> [u \in Recipients |-> "none"]]
    /\ got = [b \in Broadcasts |-> [u \in Recipients |-> 0]]
    /\ create = [b \in Broadcasts |-> "idle"]
    /\ cancel = [b \in Broadcasts |-> "idle"]
    /\ home = [b \in Broadcasts |-> None]
    /\ at = [t \in Tasks |-> "off"]
    /\ batch = [t \in Tasks |-> {}]
    /\ result = [t \in Tasks |-> None]
    /\ tries = [t \in Tasks |-> 0]
    /\ inRow = [t \in Tasks |-> 0]
    /\ outcome = [t \in Tasks |-> None]
    /\ faults = 0

Fault == faults < MaxFaults /\ faults' = faults + 1

Goto(t, place) == at' = [at EXCEPT ![t] = place]

ActiveIds == {b \in Broadcasts : status[b] \in Active}

IsRunning(p, b) == at[<<p, b>>] # "off"

-----------------------------------------------------------------------------
(* admin_create_broadcast                                                  *)

\* No broadcast is seen to run; otherwise 409.
AskCreate(p, b) ==
    /\ create[b] = "idle"
    /\ create' = [create EXCEPT ![b] = IF ActiveIds = {} THEN "copy" ELSE "over"]
    /\ home' = [home EXCEPT ![b] = p]
    /\ UNCHANGED <<tables, got, cancel, runner, faults>>

\* The control copy reaches the admin, or the request ends.
ControlCopy(b) ==
    /\ create[b] = "copy"
    /\ \E next \in {"insert", "over"} : create' = [create EXCEPT ![b] = next]
    /\ UNCHANGED <<tables, got, cancel, home, runner, faults>>

\* Mutant: the transaction does not look for a running broadcast again.
NoneRuns_Unchecked == TRUE
NoneRuns == ActiveIds = {}

\* BroadcastRepository.create: one transaction under the advisory lock.
InsertBroadcast(b) ==
    /\ create[b] = "insert"
    /\ IF NoneRuns
       THEN /\ status' = [status EXCEPT ![b] = "running"]
            /\ rcp' = [rcp EXCEPT ![b] = [u \in Recipients |->
                                             IF u \in Audience[b] THEN "pending" ELSE "none"]]
            /\ create' = [create EXCEPT ![b] = "audit"]
       ELSE /\ create' = [create EXCEPT ![b] = "over"]
            /\ UNCHANGED tables
    /\ UNCHANGED <<got, cancel, home, runner, faults>>

\* After the audit entry: BroadcastJobs.start.
StartTask(b) ==
    /\ create[b] = "audit"
    /\ create' = [create EXCEPT ![b] = "over"]
    /\ IF IsRunning(home[b], b) THEN UNCHANGED at ELSE Goto(<<home[b], b>>, "begin")
    /\ UNCHANGED <<tables, got, cancel, home, batch, result, tries, inRow, outcome, faults>>

-----------------------------------------------------------------------------
(* admin_cancel_broadcast                                                  *)

\* request_cancel; of a broadcast that is not running nothing is changed.
AskCancel(b) ==
    /\ status[b] = "running" /\ cancel[b] = "idle"
    /\ status' = [status EXCEPT ![b] = "cancel_requested"]
    /\ cancel' = [cancel EXCEPT ![b] = "audit"]
    /\ UNCHANGED <<rcp, got, create, home, runner, faults>>

\* Mutant: what is over is closed once more.
Close_Again(b, how) == status' = [status EXCEPT ![b] = how]
Close(b, how) == status' = [status EXCEPT ![b] = IF @ \in Active THEN how ELSE @]

\* After the audit entry: without a task the request closes the broadcast.
EndCancel(b) ==
    /\ cancel[b] = "audit"
    /\ cancel' = [cancel EXCEPT ![b] = "over"]
    /\ IF IsRunning(home[b], b) THEN UNCHANGED status ELSE Close(b, "canceled")
    /\ UNCHANGED <<rcp, got, create, home, runner, faults>>

-----------------------------------------------------------------------------
(* BroadcastRunner.run                                                     *)

\* repo.get: a broadcast that is over is left alone.
Begin(t) ==
    /\ at[t] = "begin"
    /\ Goto(t, IF status[t[2]] \in Active THEN "release" ELSE "off")
    /\ UNCHANGED <<tables, got, requests, batch, result, tries, inRow, outcome, faults>>

\* Mutant: also what has its outcome is put back into the queue.
Released_All(b, users) ==
    [rcp EXCEPT ![b] = [u \in Recipients |->
        IF u \in users \cap Audience[b] THEN "pending" ELSE @[u]]]

Released(b, users) ==
    [rcp EXCEPT ![b] = [u \in Recipients |->
        IF u \in users /\ @[u] = "sending" THEN "pending" ELSE @[u]]]

\* release_claimed for all: what the last process had claimed.
Release(t) ==
    /\ at[t] = "release"
    /\ rcp' = Released(t[2], Recipients)
    /\ Goto(t, "status")
    /\ UNCHANGED <<status, got, requests, batch, result, tries, inRow, outcome, faults>>

EndWith(t, how) == outcome' = [outcome EXCEPT ![t] = how] /\ Goto(t, "finish")

\* Before each batch: is it still to go on?
CheckStatus(t) ==
    /\ at[t] = "status"
    /\ IF status[t[2]] = "running" THEN Goto(t, "claim") /\ UNCHANGED outcome
                                   ELSE EndWith(t, "canceled")
    /\ UNCHANGED <<tables, got, requests, batch, result, tries, inRow, faults>>

Pending(b) == {u \in Recipients : rcp[b][u] = "pending"}
NextBatch(b) == {u \in Pending(b) : Cardinality({v \in Pending(b) : v < u}) < BatchSize}

Claimed(b) ==
    [rcp EXCEPT ![b] = [u \in Recipients |-> IF u \in NextBatch(b) THEN "sending" ELSE @[u]]]

\* claim: UPDATE ... FOR UPDATE SKIP LOCKED.
Claim(t) ==
    /\ at[t] = "claim"
    /\ batch' = [batch EXCEPT ![t] = NextBatch(t[2])]
    /\ rcp' = Claimed(t[2])
    /\ IF NextBatch(t[2]) = {} THEN EndWith(t, "done")
                               ELSE Goto(t, "deliver") /\ UNCHANGED outcome
    /\ UNCHANGED <<status, got, requests, result, tries, inRow, faults>>

Receives(t) == got' = [got EXCEPT ![t[2]][Min(batch[t])] = @ + 1]

Answered(t, how) ==
    /\ result' = [result EXCEPT ![t] = how]
    /\ tries' = [tries EXCEPT ![t] = 0]
    /\ Goto(t, "record")

\* One attempt of _deliver that the Bot API answers for good.
Send(t) ==
    /\ at[t] = "deliver"
    /\ \/ Receives(t) /\ Answered(t, "sent")
       \/ UNCHANGED got /\ Answered(t, "blocked")
       \/ UNCHANGED got /\ Answered(t, "failed")
    /\ UNCHANGED <<tables, requests, batch, inRow, outcome, faults>>

\* Another attempt, if there is one left.
Again(t) ==
    IF tries[t] + 1 = MaxAttempts
    THEN Answered(t, "failed")
    ELSE tries' = [tries EXCEPT ![t] = @ + 1] /\ UNCHANGED <<result, at>>

\* 429: nothing was delivered.
TooMany(t) ==
    /\ at[t] = "deliver"
    /\ Again(t)
    /\ UNCHANGED <<tables, got, requests, batch, inRow, outcome, faults>>

\* The network fails after the message was delivered.
AnswerLost(t) ==
    /\ at[t] = "deliver"
    /\ Fault
    /\ Receives(t)
    /\ Again(t)
    /\ UNCHANGED <<tables, requests, batch, inRow, outcome>>

\* 401: the rest of the batch, with this recipient, is going to be released.
Unauthorized(t) ==
    /\ at[t] = "deliver"
    /\ Goto(t, "giveup")
    /\ tries' = [tries EXCEPT ![t] = 0]
    /\ UNCHANGED <<tables, got, requests, batch, result, inRow, outcome, faults>>

Recorded(t) == Min(batch[t])

Record(t) ==
    /\ at[t] = "record"
    /\ rcp' = [rcp EXCEPT ![t[2]][Recorded(t)] = result[t]]
    /\ batch' = [batch EXCEPT ![t] = @ \ {Min(@)}]
    /\ result' = [result EXCEPT ![t] = None]
    /\ inRow' = [inRow EXCEPT ![t] = IF result[t] = "failed" THEN @ + 1 ELSE 0]
    /\ Goto(t, IF inRow'[t] >= MaxInRow THEN "giveup"
               ELSE IF batch'[t] = {} THEN "status" ELSE "deliver")
    /\ UNCHANGED <<status, got, requests, tries, outcome, faults>>

\* release_claimed: an empty list means everybody.
Returned(t) == IF batch[t] = {} THEN Recipients ELSE batch[t]

\* Mutant: the runner goes on where it should give up.
GiveUp_GoesOn(t) ==
    /\ at[t] = "giveup"
    /\ rcp' = Released(t[2], Returned(t))
    /\ batch' = [batch EXCEPT ![t] = {}]
    /\ Goto(t, "status")
    /\ UNCHANGED <<status, got, requests, result, tries, inRow, outcome, faults>>

GiveUp(t) ==
    /\ at[t] = "giveup"
    /\ rcp' = Released(t[2], Returned(t))
    /\ batch' = [batch EXCEPT ![t] = {}]
    /\ EndWith(t, "failed")
    /\ UNCHANGED <<status, got, requests, result, tries, inRow, faults>>

\* A statement of _send_all raises, executed or not: the broadcast failed.
StepFails(t) ==
    /\ at[t] \in {"status", "claim", "record", "giveup"}
    /\ Fault
    /\ \/ UNCHANGED rcp
       \/ at[t] = "claim" /\ rcp' = Claimed(t[2])
       \/ at[t] = "record" /\ rcp' = [rcp EXCEPT ![t[2]][Recorded(t)] = result[t]]
       \/ at[t] = "giveup" /\ rcp' = Released(t[2], Returned(t))
    /\ EndWith(t, "failed")
    /\ batch' = [batch EXCEPT ![t] = {}]
    /\ result' = [result EXCEPT ![t] = None]
    /\ UNCHANGED <<status, got, requests, tries, inRow>>

TaskEnds(t) ==
    /\ Goto(t, "off")
    /\ outcome' = [outcome EXCEPT ![t] = None]
    /\ inRow' = [inRow EXCEPT ![t] = 0]

Finish(t) ==
    /\ at[t] = "finish"
    /\ Close(t[2], outcome[t])
    /\ TaskEnds(t)
    /\ UNCHANGED <<rcp, got, requests, batch, result, tries, faults>>

\* A statement outside _send_all raises: the task dies.
TaskDies(t) ==
    /\ at[t] \in {"begin", "release", "finish"}
    /\ Fault
    /\ TaskEnds(t)
    /\ UNCHANGED <<tables, got, requests, batch, result, tries>>

-----------------------------------------------------------------------------
\* A process restarts; lifespan resumes what is active, if it can read it.
Restart(p) ==
    /\ Fault
    /\ \E ids \in {ActiveIds, {}} :
          at' = [t \in Tasks |-> IF t[1] # p THEN at[t]
                                 ELSE IF t[2] \in ids THEN "begin" ELSE "off"]
    /\ batch' = [t \in Tasks |-> IF t[1] # p THEN batch[t] ELSE {}]
    /\ result' = [t \in Tasks |-> IF t[1] # p THEN result[t] ELSE None]
    /\ tries' = [t \in Tasks |-> IF t[1] # p THEN tries[t] ELSE 0]
    /\ inRow' = [t \in Tasks |-> IF t[1] # p THEN inRow[t] ELSE 0]
    /\ outcome' = [t \in Tasks |-> IF t[1] # p THEN outcome[t] ELSE None]
    /\ create' = [b \in Broadcasts |-> IF home[b] = p THEN "over" ELSE create[b]]
    /\ cancel' = [b \in Broadcasts |->
                    IF home[b] = p /\ cancel[b] = "audit" THEN "idle" ELSE cancel[b]]
    /\ UNCHANGED <<tables, got, home>>

RunnerStep(t) ==
    \/ Begin(t) \/ Release(t) \/ CheckStatus(t) \/ Claim(t)
    \/ Send(t) \/ TooMany(t) \/ Unauthorized(t)
    \/ Record(t) \/ GiveUp(t) \/ Finish(t)

Next ==
    \/ \E b \in Broadcasts :
          \/ \E p \in Procs : AskCreate(p, b)
          \/ ControlCopy(b) \/ InsertBroadcast(b) \/ StartTask(b)
          \/ AskCancel(b) \/ EndCancel(b)
    \/ \E t \in Tasks :
          \/ RunnerStep(t)
          \/ AnswerLost(t) \/ StepFails(t) \/ TaskDies(t)
    \/ \E p \in Procs : Restart(p)

Spec == Init /\ [][Next]_vars

\* Requests and tasks that run go on.
FairSpec ==
    /\ Spec
    /\ \A b \in Broadcasts : WF_vars(StartTask(b)) /\ WF_vars(EndCancel(b))
    /\ \A t \in Tasks : WF_vars(RunnerStep(t))
-----------------------------------------------------------------------------
(* Properties                                                              *)

\* "Only one broadcast runs at a time" (admin_create_broadcast): however
\* requests race, with cancels and restarts between, no two are active.
OneAtATime == Cardinality(ActiveIds) <= 1

\* A broadcast that is done has an outcome for every recipient, also when it
\* was broken off in the middle of a batch and taken up again.
DoneIsComplete ==
    \A b \in Broadcasts : status[b] = "done" =>
        \A u \in Audience[b] : rcp[b][u] \in Delivery

\* A message is sent twice only to the recipient at hand when an answer was
\* lost, a statement failed or the process stopped.
Extra(b, u) == IF got[b][u] > 1 THEN got[b][u] - 1 ELSE 0
Duplicates == [x \in Broadcasts \X Recipients |-> Extra(x[1], x[2])]
FewDuplicates == SumFunctionOnSet(Duplicates, Broadcasts \X Recipients) <= faults

\* What is over stays over: nothing is sent any more and the status stays,
\* although a cancel and the start of the task, or the end of the task and a
\* cancel, may meet.
OverIsOver ==
    [][\A b \in Broadcasts : status[b] \in Final =>
          status'[b] = status[b] /\ got'[b] = got[b]]_vars

\* Every active broadcast comes to an end, unless its task has died.
Ends ==
    \A b \in Broadcasts : status[b] \in Active ~>
        (status[b] \in Final \/ \A p \in Procs : ~IsRunning(p, b))

\* Done means once for everybody: none left out, no copies beyond the faults.
SentToAllOnce == DoneIsComplete /\ FewDuplicates

\* admin_cancel_broadcast: "who has got it keeps it, nobody else gets it".
CancelStops ==
    [][\A b \in Broadcasts : cancel[b] = "over" => got'[b] = got[b]]_vars

\* claim: "even two processes do not take one person twice".
TakenOnce ==
    \A p, q \in Procs, b \in Broadcasts :
        p # q => batch[<<p, b>>] \cap batch[<<q, b>>] = {}
=============================================================================
