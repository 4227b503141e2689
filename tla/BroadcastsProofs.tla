-------------------------- MODULE BroadcastsProofs --------------------------
(***************************************************************************)
(* The safety of broadcasts for any number of broadcasts, recipients,      *)
(* batch sizes, attempts and faults.  That one broadcast runs at a time    *)
(* holds for any number of processes.  That what is over stays over, that  *)
(* done means done for everybody and that duplicates are few holds for one *)
(* process, which is how the application is deployed: the argument is      *)
(* ClaimsHeld, where every claimed recipient is held, and a weight that    *)
(* counts, besides the duplicates there are, the ones that would arise if  *)
(* a message that has come were sent again.                                *)
(***************************************************************************)
EXTENDS Broadcasts, SumTheorems

\* The steps of a task: what it holds at each.
TaskPlaces ==
    \A t \in Tasks :
       /\ at[t] \in {"deliver", "record"} => batch[t] # {}
       /\ at[t] \notin {"deliver", "record", "giveup"} => batch[t] = {}
       /\ at[t] = "record" => result[t] \in Delivery
       /\ at[t] \notin {"giveup", "finish"} => inRow[t] < MaxInRow
       /\ at[t] = "finish" => outcome[t] \in Final

OneActive == \A a, b \in ActiveIds : a = b

\* A broadcast's requests and its row.
Requests ==
    \A b \in Broadcasts :
       /\ create[b] \in {"idle", "copy", "insert"}
             => status[b] = "none" /\ \A u \in Recipients : got[b][u] = 0
       /\ create[b] # "idle" => home[b] \in Procs
       /\ status[b] # "none" => \A u \in Audience[b] : rcp[b][u] # "none"

\* A task that is past its first look at the row has an active broadcast.
TasksActive == \A t \in Tasks : at[t] \notin {"off", "begin"} => status[t[2]] \in Active

\* What is claimed is in the batch of its task, or will be released.
ClaimsHeld ==
    \A t \in Tasks, u \in Recipients :
       /\ u \in batch[t] => rcp[t[2]][u] = "sending"
       /\ rcp[t[2]][u] = "sending" =>
             \/ u \in batch[t]
             \/ at[t] \in {"off", "begin", "release"}
             \/ at[t] = "finish" /\ outcome[t] = "failed"

\* Nobody is left.
Complete(b) == \A u \in Audience[b] : rcp[b][u] \in Delivery

DoneComplete ==
    /\ \A t \in Tasks : at[t] = "finish" /\ outcome[t] = "done" => Complete(t[2])
    /\ \A b \in Broadcasts : status[b] = "done" => Complete(b)

\* A message that has come but has no outcome yet and would be sent again.
AtHand(b, u) == \E t \in Tasks : t[2] = b /\ at[t] = "record" /\ u = Recorded(t)
Loose(b, u) ==
    IF got[b][u] >= 1 /\ rcp[b][u] \in {"pending", "sending"} /\ ~AtHand(b, u) THEN 1 ELSE 0

Weight == [x \in Broadcasts \X Recipients |-> Extra(x[1], x[2]) + Loose(x[1], x[2])]
FewWeights == SumFunctionOnSet(Weight, Broadcasts \X Recipients) <= faults

-----------------------------------------------------------------------------
(* Batches                                                                 *)

\* The smallest of a set of recipients is one of them.
LEMMA MinOf ==
    ASSUME NEW S \in SUBSET Recipients, S # {}
    PROVE  Min(S) \in S /\ \A u \in S : Min(S) <= u
<1>1. IsFiniteSet(S)
  BY BroadcastConstants, FS_Subset
<1>2. S \subseteq Int
  BY BroadcastConstants
<1>3. \E m \in S : \A u \in S : m <= u
  BY <1>1, <1>2, FiniteMinimum
<1> QED
  BY <1>3 DEF Min

\* A batch takes someone as long as someone is pending.
LEMMA BatchTakes ==
    ASSUME NEW b \in Broadcasts, NextBatch(b) = {}
    PROVE  Pending(b) = {}
<1> SUFFICES ASSUME Pending(b) # {} PROVE FALSE
  OBVIOUS
<1> DEFINE m == Min(Pending(b))
<1>1. m \in Pending(b) /\ \A u \in Pending(b) : m <= u
  BY MinOf DEF Pending
<1> HIDE DEF m
<1>2. {v \in Pending(b) : v < m} = {}
  <2>1. \A v \in Pending(b) : v \in Nat /\ m \in Nat
    BY <1>1, BroadcastConstants DEF Pending
  <2> QED
    BY <1>1, <2>1
<1>3. Cardinality({v \in Pending(b) : v < m}) = 0
  BY <1>2, FS_EmptySet, Zenon
<1>4. 0 < BatchSize
  BY BroadcastConstants
<1>5. m \in NextBatch(b)
  BY <1>1, <1>3, <1>4 DEF NextBatch
<1> QED
  BY <1>5

-----------------------------------------------------------------------------
(* Types and places                                                        *)

Typed == TypeOK /\ TaskPlaces

\* Types and places at first ...
LEMMA InitTyped == Init => Typed
<1> SUFFICES ASSUME Init PROVE Typed
  OBVIOUS
<1>1. TypeOK
  BY BroadcastConstants DEF Init, TypeOK
<1>2. TaskPlaces
  BY BroadcastConstants DEF Init, TaskPlaces
<1> QED
  BY <1>1, <1>2 DEF Typed

\* A task is of a process and a broadcast.
LEMMA TaskParts ==
    ASSUME NEW t \in Tasks
    PROVE  t[1] \in Procs /\ t[2] \in Broadcasts /\ t = <<t[1], t[2]>>
  BY DEF Tasks

\* The faults stay within their bound.
LEMMA FaultCount == TypeOK /\ Fault => faults' \in 0..MaxFaults
  BY BroadcastConstants DEF TypeOK, Fault

\* The requests.
LEMMA RequestTyped ==
    ASSUME Typed, NEW b \in Broadcasts,
           \/ \E p \in Procs : AskCreate(p, b)
           \/ ControlCopy(b) \/ InsertBroadcast(b) \/ StartTask(b)
           \/ AskCancel(b) \/ EndCancel(b)
    PROVE  Typed'
<1> USE DEF Typed
<1>1. CASE \E p \in Procs : AskCreate(p, b)
  <2>1. TypeOK'
    BY <1>1 DEF AskCreate, TypeOK, tables, runner
  <2>2. TaskPlaces'
    BY <1>1 DEF AskCreate, TaskPlaces, runner
  <2> QED
    BY <2>1, <2>2
<1>2. CASE ControlCopy(b)
  <2>1. TypeOK'
    BY <1>2 DEF ControlCopy, TypeOK, tables, runner
  <2>2. TaskPlaces'
    BY <1>2 DEF ControlCopy, TaskPlaces, runner
  <2> QED
    BY <2>1, <2>2
<1>3. CASE InsertBroadcast(b)
  <2> DEFINE queue == [u \in Recipients |-> IF u \in Audience[b] THEN "pending" ELSE "none"]
  <2>1. \/ status' = [status EXCEPT ![b] = "running"] /\ rcp' = [rcp EXCEPT ![b] = queue]
        \/ UNCHANGED tables
    BY <1>3 DEF InsertBroadcast
  <2>2. queue \in [Recipients -> Delivery \cup {"none", "pending", "sending"}]
    OBVIOUS
  <2> HIDE DEF queue
  <2>3. TypeOK'
    <3>1. rcp' \in [Broadcasts -> [Recipients -> Delivery \cup {"none", "pending", "sending"}]]
      BY <2>1, <2>2 DEF TypeOK, tables
    <3>2. status' \in [Broadcasts -> Active \cup Final \cup {"none"}]
      BY <2>1 DEF TypeOK, tables, Active
    <3>3. create' \in [Broadcasts -> {"idle", "copy", "insert", "audit", "over"}]
      <4>1. \/ create' = [create EXCEPT ![b] = "audit"]
            \/ create' = [create EXCEPT ![b] = "over"]
        BY <1>3 DEF InsertBroadcast
      <4> QED
        BY <4>1 DEF TypeOK
    <3> QED
      BY <1>3, <3>1, <3>2, <3>3 DEF InsertBroadcast, TypeOK, runner
  <2>4. TaskPlaces'
    BY <1>3 DEF InsertBroadcast, TaskPlaces, runner
  <2> QED
    BY <2>3, <2>4
<1>4. CASE StartTask(b)
  <2>1. TypeOK'
    BY <1>4 DEF StartTask, TypeOK, tables, Goto
  <2>2. ASSUME NEW t \in Tasks PROVE at'[t] = at[t] \/ (at'[t] = "begin" /\ at[t] = "off")
    BY <1>4 DEF StartTask, TypeOK, Goto, IsRunning
  <2>3. TaskPlaces'
    BY <1>4, <2>2 DEF StartTask, TaskPlaces
  <2> QED
    BY <2>1, <2>3
<1>5. CASE AskCancel(b)
  <2>1. TypeOK'
    BY <1>5 DEF AskCancel, TypeOK, runner, Active
  <2>2. TaskPlaces'
    BY <1>5 DEF AskCancel, TaskPlaces, runner
  <2> QED
    BY <2>1, <2>2
<1>6. CASE EndCancel(b)
  <2>1. TypeOK'
    BY <1>6 DEF EndCancel, TypeOK, runner, Close, Final
  <2>2. TaskPlaces'
    BY <1>6 DEF EndCancel, TaskPlaces, runner
  <2> QED
    BY <2>1, <2>2
<1> QED
  BY <1>1, <1>2, <1>3, <1>4, <1>5, <1>6
\* The steps of the runner before and after the messages.
LEMMA FrameTyped ==
    ASSUME Typed, NEW t \in Tasks,
           \/ Begin(t) \/ Release(t) \/ CheckStatus(t) \/ Claim(t)
           \/ GiveUp(t) \/ Finish(t) \/ TaskDies(t)
    PROVE  Typed'
<1> USE DEF Typed
<1>0. \A b \in Broadcasts, users \in SUBSET Recipients :
         Released(b, users) \in [Broadcasts -> [Recipients -> Delivery \cup {"none", "pending", "sending"}]]
  BY DEF Released, TypeOK
<1>1. CASE Begin(t)
  <2>1. TypeOK'
    BY <1>1 DEF Begin, TypeOK, Goto, tables, requests
  <2>2. TaskPlaces'
    BY <1>1 DEF Begin, TypeOK, TaskPlaces, Goto
  <2> QED
    BY <2>1, <2>2
<1>2. CASE Release(t)
  <2>1. TypeOK'
    <3>1. rcp' \in [Broadcasts -> [Recipients -> Delivery \cup {"none", "pending", "sending"}]]
      BY <1>0, <1>2, TaskParts DEF Release
    <3> QED
      BY <1>2, <3>1 DEF Release, TypeOK, Goto, requests
  <2>2. TaskPlaces'
    BY <1>2 DEF Release, TypeOK, TaskPlaces, Goto
  <2> QED
    BY <2>1, <2>2
<1>3. CASE CheckStatus(t)
  <2>1. TypeOK'
    BY <1>3 DEF CheckStatus, TypeOK, Goto, EndWith, tables, requests, Final
  <2>2. TaskPlaces'
    BY <1>3 DEF CheckStatus, TypeOK, TaskPlaces, Goto, EndWith, Final
  <2> QED
    BY <2>1, <2>2
<1>4. CASE Claim(t)
  <2>1. /\ NextBatch(t[2]) \in SUBSET Recipients
        /\ Claimed(t[2]) \in [Broadcasts -> [Recipients -> Delivery \cup {"none", "pending", "sending"}]]
    BY TaskParts DEF NextBatch, Pending, Claimed, TypeOK
  <2>2. /\ at[t] = "claim" /\ batch' = [batch EXCEPT ![t] = NextBatch(t[2])]
        /\ rcp' = Claimed(t[2])
        /\ \/ /\ NextBatch(t[2]) = {}
              /\ outcome' = [outcome EXCEPT ![t] = "done"] /\ Goto(t, "finish")
           \/ NextBatch(t[2]) # {} /\ Goto(t, "deliver") /\ UNCHANGED outcome
        /\ UNCHANGED <<status, got, requests, result, tries, inRow, faults>>
    BY <1>4 DEF Claim, EndWith
  <2>3. TypeOK'
    BY <2>1, <2>2 DEF TypeOK, Goto, requests, Final
  <2>4. TaskPlaces'
    BY <2>1, <2>2 DEF TypeOK, TaskPlaces, Goto, Final
  <2> QED
    BY <2>3, <2>4
<1>5. CASE GiveUp(t)
  <2>1. TypeOK'
    <3>1. Returned(t) \in SUBSET Recipients
      BY DEF Returned, TypeOK
    <3>2. rcp' \in [Broadcasts -> [Recipients -> Delivery \cup {"none", "pending", "sending"}]]
      BY <1>0, <1>5, <3>1, TaskParts DEF GiveUp
    <3> QED
      BY <1>5, <3>2 DEF GiveUp, TypeOK, Goto, EndWith, requests, Final
  <2>2. TaskPlaces'
    BY <1>5 DEF GiveUp, TypeOK, TaskPlaces, Goto, EndWith, Final
  <2> QED
    BY <2>1, <2>2
<1>6. CASE Finish(t)
  <2>1. outcome[t] \in Final
    BY <1>6 DEF Finish, TaskPlaces
  <2>2. TypeOK'
    BY <1>6, <2>1, TaskParts, BroadcastConstants DEF Finish, TypeOK, TaskEnds, Close, Goto, requests
  <2>3. TaskPlaces'
    BY <1>6, BroadcastConstants DEF Finish, TypeOK, TaskPlaces, TaskEnds, Goto
  <2> QED
    BY <2>2, <2>3
<1>7. CASE TaskDies(t)
  <2>1. TypeOK'
    BY <1>7, FaultCount, BroadcastConstants DEF TaskDies, TypeOK, TaskEnds, Goto, tables, requests
  <2>2. TaskPlaces'
    BY <1>7, BroadcastConstants DEF TaskDies, TypeOK, TaskPlaces, TaskEnds, Goto
  <2> QED
    BY <2>1, <2>2
<1> QED
  BY <1>1, <1>2, <1>3, <1>4, <1>5, <1>6, <1>7

\* An answer, or one attempt more.
LEMMA AnswerTyped ==
    ASSUME Typed, NEW t \in Tasks, at[t] = "deliver",
           (\E how \in Delivery : Answered(t, how)) \/ Again(t),
           UNCHANGED <<batch, inRow, outcome>>
    PROVE  /\ at' \in [Tasks -> {"off", "begin", "release", "status", "claim", "deliver",
                                 "record", "giveup", "finish"}]
           /\ result' \in [Tasks -> Delivery \cup {None, "unauthorized"}]
           /\ tries' \in [Tasks -> 0..MaxAttempts - 1]
           /\ TaskPlaces'
<1> USE DEF Typed
<1>1. \/ \E how \in Delivery : Answered(t, how)
      \/ tries[t] + 1 # MaxAttempts /\ tries' = [tries EXCEPT ![t] = @ + 1] /\ UNCHANGED <<result, at>>
  BY DEF Again, Delivery
<1>2. CASE \E how \in Delivery : Answered(t, how)
  <2>1. 0 \in 0..MaxAttempts - 1
    BY BroadcastConstants
  <2>2. PICK how \in Delivery : Answered(t, how)
    BY <1>2
  <2>3. /\ at' \in [Tasks -> {"off", "begin", "release", "status", "claim", "deliver",
                              "record", "giveup", "finish"}]
        /\ result' \in [Tasks -> Delivery \cup {None, "unauthorized"}]
        /\ tries' \in [Tasks -> 0..MaxAttempts - 1]
    BY <2>1, <2>2 DEF Answered, Goto, TypeOK
  <2>4. TaskPlaces'
    BY <2>2 DEF Answered, Goto, TypeOK, TaskPlaces
  <2> QED
    BY <2>3, <2>4
<1>3. CASE tries[t] + 1 # MaxAttempts /\ tries' = [tries EXCEPT ![t] = @ + 1] /\ UNCHANGED <<result, at>>
  <2>1. tries[t] \in 0..MaxAttempts - 1 /\ MaxAttempts \in Nat
    BY BroadcastConstants DEF TypeOK
  <2>2. tries[t] + 1 \in 0..MaxAttempts - 1
    BY <1>3, <2>1
  <2> QED
    BY <1>3, <2>2 DEF TypeOK, TaskPlaces
<1> QED
  BY <1>1, <1>2, <1>3

\* A message that has come.
LEMMA ReceivedTyped ==
    ASSUME Typed, NEW t \in Tasks, at[t] = "deliver"
    PROVE  /\ Recorded(t) \in batch[t] /\ Recorded(t) \in Recipients
           /\ Receives(t) => got' \in [Broadcasts -> [Recipients -> Nat]]
<1>1. Recorded(t) \in batch[t] /\ Recorded(t) \in Recipients
  BY MinOf DEF Typed, TypeOK, TaskPlaces, Recorded
<1>2. Receives(t) => got' \in [Broadcasts -> [Recipients -> Nat]]
  BY <1>1, TaskParts DEF Receives, Recorded, Typed, TypeOK
<1> QED
  BY <1>1, <1>2

\* An attempt to send a message.
LEMMA SendTyped ==
    ASSUME Typed, NEW t \in Tasks, Send(t) \/ TooMany(t) \/ AnswerLost(t) \/ Unauthorized(t)
    PROVE  Typed'
<1> USE DEF Typed
<1>1. CASE Send(t) \/ TooMany(t) \/ AnswerLost(t)
  <2>1. /\ at[t] = "deliver"
        /\ (\E how \in Delivery : Answered(t, how)) \/ Again(t)
        /\ UNCHANGED <<batch, inRow, outcome>>
        /\ UNCHANGED got \/ Receives(t)
        /\ UNCHANGED <<tables, requests>>
        /\ UNCHANGED faults \/ Fault
    BY <1>1 DEF Send, TooMany, AnswerLost, Delivery
  <2>2. got' \in [Broadcasts -> [Recipients -> Nat]]
    BY <2>1, ReceivedTyped DEF TypeOK
  <2>3. faults' \in 0..MaxFaults
    BY <2>1, FaultCount DEF TypeOK
  <2> QED
    BY <2>1, <2>2, <2>3, AnswerTyped DEF TypeOK, tables, requests
<1>2. CASE Unauthorized(t)
  <2>1. TypeOK'
    BY <1>2, BroadcastConstants DEF Unauthorized, TypeOK, Goto, tables, requests
  <2>2. TaskPlaces'
    BY <1>2 DEF Unauthorized, TypeOK, TaskPlaces, Goto
  <2> QED
    BY <2>1, <2>2
<1> QED
  BY <1>1, <1>2
\* The outcome of the recipient at hand is recorded, or a statement fails.
LEMMA RecordTyped ==
    ASSUME Typed, NEW t \in Tasks, Record(t)
    PROVE  Typed'
<1> USE DEF Typed
<1>1. /\ t[2] \in Broadcasts /\ at[t] = "record" /\ batch[t] # {} /\ result[t] \in Delivery
      /\ Recorded(t) \in batch[t] /\ Recorded(t) \in Recipients
  BY MinOf, TaskParts DEF Record, TypeOK, TaskPlaces, Recorded
<1>2. inRow[t] \in 0..MaxInRow - 1 /\ MaxInRow \in Nat \ {0}
  BY <1>1, BroadcastConstants DEF TypeOK, TaskPlaces
<1>3. /\ inRow' \in [Tasks -> 0..MaxInRow]
      /\ inRow'[t] \in 0..MaxInRow
      /\ \A s \in Tasks \ {t} : inRow'[s] = inRow[s]
  <2>1. inRow[t] + 1 \in 0..MaxInRow /\ 0 \in 0..MaxInRow
    BY <1>2
  <2>2. \/ inRow' = [inRow EXCEPT ![t] = inRow[t] + 1]
        \/ inRow' = [inRow EXCEPT ![t] = 0]
    BY DEF Record
  <2> QED
    BY <2>1, <2>2 DEF TypeOK
<1>4. \/ inRow'[t] >= MaxInRow /\ Goto(t, "giveup")
      \/ ~(inRow'[t] >= MaxInRow) /\ batch'[t] = {} /\ Goto(t, "status")
      \/ ~(inRow'[t] >= MaxInRow) /\ batch'[t] # {} /\ Goto(t, "deliver")
  BY DEF Record
<1>5. /\ rcp' \in [Broadcasts -> [Recipients -> Delivery \cup {"none", "pending", "sending"}]]
      /\ batch' \in [Tasks -> SUBSET Recipients]
      /\ \A s \in Tasks \ {t} : batch'[s] = batch[s]
      /\ result' \in [Tasks -> Delivery \cup {None, "unauthorized"}]
      /\ \A s \in Tasks \ {t} : result'[s] = result[s]
  BY <1>1 DEF Record, TypeOK
<1>6. TypeOK'
  <2>1. at' \in [Tasks -> {"off", "begin", "release", "status", "claim", "deliver",
                           "record", "giveup", "finish"}]
    BY <1>4 DEF Goto, TypeOK
  <2> QED
    BY <1>3, <1>5, <2>1 DEF Record, TypeOK, requests
<1>7. TaskPlaces'
  <2>1. ASSUME NEW s \in Tasks \ {t}
        PROVE  at'[s] = at[s] /\ batch'[s] = batch[s] /\ result'[s] = result[s]
               /\ inRow'[s] = inRow[s] /\ outcome'[s] = outcome[s]
    BY <1>3, <1>4, <1>5 DEF Record, Goto, TypeOK
  <2>2. /\ at'[t] \in {"giveup", "status", "deliver"}
        /\ at'[t] = "deliver" => batch'[t] # {}
        /\ at'[t] = "status" => batch'[t] = {}
        /\ at'[t] # "giveup" => inRow'[t] < MaxInRow
    BY <1>2, <1>3, <1>4 DEF Goto, TypeOK
  <2> QED
    BY <2>1, <2>2 DEF TaskPlaces
<1> QED
  BY <1>6, <1>7

\* A statement that fails.
LEMMA FailTyped ==
    ASSUME Typed, NEW t \in Tasks, StepFails(t)
    PROVE  Typed'
<1> USE DEF Typed
<1>1. t[2] \in Broadcasts
  BY TaskParts
<1>2. \/ rcp' = rcp
      \/ rcp' = Claimed(t[2])
      \/ at[t] = "record" /\ rcp' = [rcp EXCEPT ![t[2]][Recorded(t)] = result[t]]
      \/ rcp' = Released(t[2], Returned(t))
  BY DEF StepFails
<1>3. rcp' \in [Broadcasts -> [Recipients -> Delivery \cup {"none", "pending", "sending"}]]
  <2>1. CASE rcp' = rcp
    BY <2>1 DEF TypeOK
  <2>2. CASE rcp' = Claimed(t[2])
    BY <1>1, <2>2 DEF TypeOK, Claimed
  <2>3. CASE at[t] = "record" /\ rcp' = [rcp EXCEPT ![t[2]][Recorded(t)] = result[t]]
    BY <1>1, <2>3 DEF TypeOK, TaskPlaces
  <2>4. CASE rcp' = Released(t[2], Returned(t))
    BY <1>1, <2>4 DEF TypeOK, Released
  <2> QED
    BY <1>2, <2>1, <2>2, <2>3, <2>4
<1>4. TypeOK'
  BY <1>3, FaultCount DEF StepFails, TypeOK, EndWith, Goto, requests, Final
<1>5. TaskPlaces'
  BY DEF StepFails, TypeOK, TaskPlaces, EndWith, Goto, Final
<1> QED
  BY <1>4, <1>5

\* A process that restarts.
LEMMA RestartTyped ==
    ASSUME Typed, NEW p \in Procs, Restart(p)
    PROVE  Typed'
<1> USE DEF Typed
<1>1. PICK ids \in {ActiveIds, {}} :
         at' = [t \in Tasks |-> IF t[1] # p THEN at[t] ELSE IF t[2] \in ids THEN "begin" ELSE "off"]
  BY DEF Restart
<1>2. /\ at' \in [Tasks -> {"off", "begin", "release", "status", "claim", "deliver",
                            "record", "giveup", "finish"}]
      /\ batch' \in [Tasks -> SUBSET Recipients]
      /\ result' \in [Tasks -> Delivery \cup {None, "unauthorized"}]
      /\ tries' \in [Tasks -> 0..MaxAttempts - 1]
      /\ inRow' \in [Tasks -> 0..MaxInRow]
      /\ outcome' \in [Tasks -> Final \cup {None}]
  BY <1>1, BroadcastConstants DEF Restart, TypeOK
<1>3. TypeOK'
  BY <1>2, FaultCount DEF Restart, TypeOK, tables
<1>4. TaskPlaces'
  BY <1>1, BroadcastConstants DEF Restart, TaskPlaces
<1> QED
  BY <1>3, <1>4

\* ... and after every step.
LEMMA NextTyped == Typed /\ [Next]_vars => Typed'
<1> SUFFICES ASSUME Typed, [Next]_vars PROVE Typed'
  OBVIOUS
<1>1. CASE UNCHANGED vars
  BY <1>1 DEF Typed, vars, tables, requests, runner, TypeOK, TaskPlaces
<1>2. CASE Next
  BY <1>2, RequestTyped, FrameTyped, SendTyped, RecordTyped, FailTyped, RestartTyped
  DEF Next, RunnerStep
<1> QED
  BY <1>1, <1>2

-----------------------------------------------------------------------------
(* One broadcast at a time                                                 *)

\* At first no broadcast is active.
LEMMA InitOneActive == Init => OneActive
  BY DEF Init, OneActive, ActiveIds, Active

\* Only the transaction under the advisory lock makes a broadcast active,
\* and it looks first.
LEMMA NextOneActive == Typed /\ OneActive /\ [Next]_vars => OneActive'
<1> SUFFICES ASSUME Typed, OneActive, [Next]_vars PROVE OneActive'
  OBVIOUS
<1>1. CASE ActiveIds' \subseteq ActiveIds
  BY <1>1 DEF OneActive
<1>2. ASSUME NEW b \in Broadcasts, InsertBroadcast(b)
      PROVE  OneActive'
  <2>1. CASE ActiveIds = {}
    <3>1. \A c \in Broadcasts \ {b} : status'[c] = status[c]
      BY <1>2, <2>1 DEF InsertBroadcast, NoneRuns, Typed, TypeOK, tables
    <3>2. ActiveIds' \subseteq {b}
      BY <2>1, <3>1 DEF ActiveIds
    <3> QED
      BY <3>2 DEF OneActive
  <2>2. CASE ActiveIds # {}
    <3>1. status' = status
      BY <1>2, <2>2 DEF InsertBroadcast, NoneRuns, tables
    <3> QED
      BY <1>1, <3>1 DEF ActiveIds
  <2> QED
    BY <2>1, <2>2
<1>3. CASE \A b \in Broadcasts : status'[b] \in Active => status[b] \in Active
  BY <1>1, <1>3 DEF ActiveIds
<1>4. ASSUME NEW b \in Broadcasts, AskCancel(b)
      PROVE  \A c \in Broadcasts : status'[c] \in Active => status[c] \in Active
  BY <1>4 DEF AskCancel, Active, Typed, TypeOK
<1>5. ASSUME NEW b \in Broadcasts, EndCancel(b)
      PROVE  \A c \in Broadcasts : status'[c] \in Active => status[c] \in Active
  BY <1>5 DEF EndCancel, Close, Active, Typed, TypeOK
<1>6. ASSUME NEW t \in Tasks, Finish(t)
      PROVE  \A c \in Broadcasts : status'[c] \in Active => status[c] \in Active
  BY <1>6, TaskParts DEF Finish, Close, Active, Typed, TypeOK
<1>7. \/ status' = status
      \/ \E b \in Broadcasts : InsertBroadcast(b) \/ AskCancel(b) \/ EndCancel(b)
      \/ \E t \in Tasks : Finish(t)
  BY DEF Next, vars, tables, AskCreate, ControlCopy, StartTask, RunnerStep, Begin, Release,
     CheckStatus, Claim, Send, TooMany, Unauthorized, Record, GiveUp, AnswerLost, StepFails,
     TaskDies, Restart
<1> QED
  BY <1>2, <1>3, <1>4, <1>5, <1>6, <1>7

\* The invariant that needs no assumption on the processes.
LEMMA ActiveInv == Spec => [](Typed /\ OneActive)
<1>1. Init => Typed /\ OneActive
  BY InitTyped, InitOneActive
<1>2. Typed /\ OneActive /\ [Next]_vars => (Typed /\ OneActive)'
  BY NextTyped, NextOneActive
<1> QED
  BY <1>1, <1>2, PTL DEF Spec

\* Every table, request and task has its type, and a task has a batch where
\* it needs one.
THEOREM BroadcastTypes == Spec => []TypeOK
<1>1. Typed => TypeOK
  BY DEF Typed
<1> QED
  BY <1>1, ActiveInv, PTL

\* Only one broadcast runs at a time, in however many processes requests,
\* tasks, cancels and restarts interleave.
THEOREM OneAtATimeHolds == Spec => []OneAtATime
<1>1. OneActive => OneAtATime
  <2> SUFFICES ASSUME OneActive PROVE Cardinality(ActiveIds) <= 1
    BY DEF OneAtATime
  <2>1. CASE ActiveIds = {}
    <3>1. Cardinality(ActiveIds) = 0
      BY <2>1, FS_EmptySet, Zenon
    <3> QED
      BY <3>1
  <2>2. CASE ActiveIds # {}
    <3>1. PICK b : ActiveIds = {b}
      BY <2>2 DEF OneActive
    <3>2. Cardinality({b}) = 1
      BY FS_Singleton
    <3>3. Cardinality(ActiveIds) = 1
      BY <3>1, <3>2, Zenon
    <3> QED
      BY <3>3
  <2> QED
    BY <2>1, <2>2
<1> QED
  BY <1>1, ActiveInv, PTL
-----------------------------------------------------------------------------
(* With one process: the task of a broadcast and its row                   *)

OneProcess == \A p, q \in Procs : p = q

\* Then a broadcast has one task.
LEMMA OneTask ==
    ASSUME OneProcess, NEW s \in Tasks, NEW t \in Tasks, s[2] = t[2]
    PROVE  s = t
<1>1. s = <<s[1], s[2]>> /\ t = <<t[1], t[2]>> /\ s[1] \in Procs /\ t[1] \in Procs
  BY TaskParts
<1>2. s[1] = t[1]
  BY <1>1 DEF OneProcess
<1> QED
  BY <1>1, <1>2

\* What the steps do to a broadcast's row, its recipients and its messages.
LEMMA StatusSteps ==
    ASSUME Typed, [Next]_vars, NEW b \in Broadcasts
    PROVE  \/ status'[b] = status[b]
           \/ InsertBroadcast(b) /\ status'[b] = "running"
           \/ AskCancel(b) /\ status[b] = "running" /\ status'[b] = "cancel_requested"
           \/ /\ EndCancel(b) /\ ~IsRunning(home[b], b)
              /\ status[b] \in Active /\ status'[b] = "canceled"
           \/ \E t \in Tasks : /\ Finish(t) /\ t[2] = b
                               /\ status[b] \in Active /\ status'[b] = outcome[t]
<1>1. CASE status' = status
  BY <1>1
<1>2. ASSUME NEW c \in Broadcasts, InsertBroadcast(c)
      PROVE  status'[b] = status[b] \/ (InsertBroadcast(b) /\ status'[b] = "running")
  <2>1. CASE ActiveIds = {}
    BY <1>2, <2>1 DEF InsertBroadcast, NoneRuns, Typed, TypeOK
  <2>2. CASE ActiveIds # {}
    BY <1>2, <2>2 DEF InsertBroadcast, NoneRuns, tables
  <2> QED
    BY <2>1, <2>2
<1>3. ASSUME NEW c \in Broadcasts, AskCancel(c)
      PROVE  \/ status'[b] = status[b]
             \/ AskCancel(b) /\ status[b] = "running" /\ status'[b] = "cancel_requested"
  BY <1>3 DEF AskCancel, Typed, TypeOK
<1>4. ASSUME NEW c \in Broadcasts, EndCancel(c)
      PROVE  \/ status'[b] = status[b]
             \/ /\ EndCancel(b) /\ ~IsRunning(home[b], b)
                /\ status[b] \in Active /\ status'[b] = "canceled"
  BY <1>4 DEF EndCancel, Close, Typed, TypeOK
<1>5. ASSUME NEW t \in Tasks, Finish(t)
      PROVE  \/ status'[b] = status[b]
             \/ Finish(t) /\ t[2] = b /\ status[b] \in Active /\ status'[b] = outcome[t]
  BY <1>5, TaskParts DEF Finish, Close, Typed, TypeOK
<1>6. \/ status' = status
      \/ \E c \in Broadcasts : InsertBroadcast(c) \/ AskCancel(c) \/ EndCancel(c)
      \/ \E t \in Tasks : Finish(t)
  BY DEF Next, vars, tables, AskCreate, ControlCopy, StartTask, RunnerStep, Begin, Release,
     CheckStatus, Claim, Send, TooMany, Unauthorized, Record, GiveUp, AnswerLost, StepFails,
     TaskDies, Restart
<1> QED
  BY <1>1, <1>2, <1>3, <1>4, <1>5, <1>6

\* Only a task that sends makes a message come.
LEMMA GotSteps ==
    ASSUME Typed, [Next]_vars
    PROVE  \/ got' = got
           \/ \E t \in Tasks : Receives(t) /\ at[t] = "deliver" /\ (Send(t) \/ AnswerLost(t))
  BY DEF Next, vars, AskCreate, ControlCopy, InsertBroadcast, StartTask, AskCancel, EndCancel,
     RunnerStep, Begin, Release, CheckStatus, Claim, Send, TooMany, Unauthorized, Record, GiveUp,
     Finish, AnswerLost, StepFails, TaskDies, Restart

\* Where the recipients' rows change, and how: never to none for who is in
\* the segment, and only the new broadcast's become pending from nothing.
Resend(b, u) == rcp[b][u] \in {"pending", "sending"}

RcpStep(b) ==
    \/ rcp'[b] = rcp[b]
    \/ InsertBroadcast(b) /\ status'[b] = "running"
       /\ rcp'[b] = [u \in Recipients |-> IF u \in Audience[b] THEN "pending" ELSE "none"]
    \/ \E t \in Tasks :
          /\ t[2] = b /\ at[t] \in {"release", "claim", "record", "giveup"}
          /\ \/ Release(t) /\ rcp'[b] = Released(b, Recipients)[b]
             \/ (Claim(t) \/ StepFails(t)) /\ rcp'[b] = Claimed(b)[b]
             \/ (GiveUp(t) \/ StepFails(t)) /\ rcp'[b] = Released(b, Returned(t))[b]
             \/ /\ Record(t) \/ StepFails(t)
                /\ at[t] = "record" /\ result[t] \in Delivery
                /\ Recorded(t) \in batch[t] /\ Recorded(t) \in Recipients
                /\ rcp'[b] = [rcp[b] EXCEPT ![Recorded(t)] = result[t]]

\* Every step of a recipient's row is one of these.
LEMMA RcpSteps ==
    ASSUME Typed, [Next]_vars, NEW b \in Broadcasts
    PROVE  RcpStep(b)
<1> USE DEF RcpStep
<1>1. rcp' = rcp => RcpStep(b)
  OBVIOUS
<1>2. ASSUME NEW c \in Broadcasts, InsertBroadcast(c)
      PROVE  RcpStep(b)
  <2> DEFINE queue == [u \in Recipients |-> IF u \in Audience[c] THEN "pending" ELSE "none"]
  <2>1. CASE ActiveIds = {}
    <3>1. rcp' = [rcp EXCEPT ![c] = queue] /\ status' = [status EXCEPT ![c] = "running"]
      BY <1>2, <2>1 DEF InsertBroadcast, NoneRuns
    <3> HIDE DEF queue
    <3>2. rcp'[b] = rcp[b] \/ (b = c /\ rcp'[b] = queue /\ status'[b] = "running")
      BY <3>1 DEF Typed, TypeOK
    <3> QED
      BY <1>2, <3>2 DEF queue
  <2>2. CASE ActiveIds # {}
    BY <1>1, <1>2, <2>2 DEF InsertBroadcast, NoneRuns, tables
  <2> QED
    BY <2>1, <2>2
<1>3. ASSUME NEW t \in Tasks, Release(t) PROVE RcpStep(b)
  <2>1. CASE t[2] = b
    BY <1>3, <2>1 DEF Release
  <2>2. CASE t[2] # b
    BY <1>3, <2>2, TaskParts DEF Release, Released, Typed, TypeOK
  <2> QED
    BY <2>1, <2>2
<1>4. ASSUME NEW t \in Tasks, (Claim(t) \/ StepFails(t)), at[t] = "claim", rcp' = Claimed(t[2]) PROVE RcpStep(b)
  <2>1. CASE t[2] = b
    BY <1>4, <2>1
  <2>2. CASE t[2] # b
    BY <1>4, <2>2, TaskParts DEF Claimed, Typed, TypeOK
  <2> QED
    BY <2>1, <2>2
<1>5. ASSUME NEW t \in Tasks, (GiveUp(t) \/ StepFails(t)), at[t] = "giveup", rcp' = Released(t[2], Returned(t))
      PROVE RcpStep(b)
  <2>1. CASE t[2] = b
    BY <1>5, <2>1
  <2>2. CASE t[2] # b
    BY <1>5, <2>2, TaskParts DEF Released, Typed, TypeOK
  <2> QED
    BY <2>1, <2>2
<1>6. ASSUME NEW t \in Tasks, (Record(t) \/ StepFails(t)), at[t] = "record",
             rcp' = [rcp EXCEPT ![t[2]][Recorded(t)] = result[t]]
      PROVE RcpStep(b)
  <2>1. result[t] \in Delivery /\ Recorded(t) \in batch[t] /\ Recorded(t) \in Recipients
    BY <1>6, MinOf DEF Typed, TypeOK, TaskPlaces, Recorded
  <2>2. CASE t[2] = b
    <3>1. rcp'[b] = [rcp[b] EXCEPT ![Recorded(t)] = result[t]]
      BY <1>6, <2>2 DEF Typed, TypeOK
    <3> QED
      BY <1>6, <2>1, <2>2, <3>1
  <2>3. CASE t[2] # b
    BY <1>6, <2>3, TaskParts DEF Typed, TypeOK
  <2> QED
    BY <2>2, <2>3
<1>7. \/ rcp' = rcp
      \/ \E c \in Broadcasts : InsertBroadcast(c)
      \/ \E t \in Tasks :
            \/ Release(t)
            \/ (Claim(t) \/ StepFails(t)) /\ at[t] = "claim" /\ rcp' = Claimed(t[2])
            \/ (GiveUp(t) \/ StepFails(t)) /\ at[t] = "giveup" /\ rcp' = Released(t[2], Returned(t))
            \/ /\ Record(t) \/ StepFails(t)
               /\ at[t] = "record" /\ rcp' = [rcp EXCEPT ![t[2]][Recorded(t)] = result[t]]
  <2>1. ASSUME NEW t \in Tasks
        PROVE  /\ Claim(t) => at[t] = "claim" /\ rcp' = Claimed(t[2])
               /\ GiveUp(t) => at[t] = "giveup" /\ rcp' = Released(t[2], Returned(t))
               /\ Record(t) => at[t] = "record" /\ rcp' = [rcp EXCEPT ![t[2]][Recorded(t)] = result[t]]
               /\ StepFails(t) =>
                     \/ rcp' = rcp
                     \/ at[t] = "claim" /\ rcp' = Claimed(t[2])
                     \/ at[t] = "giveup" /\ rcp' = Released(t[2], Returned(t))
                     \/ at[t] = "record" /\ rcp' = [rcp EXCEPT ![t[2]][Recorded(t)] = result[t]]
    BY DEF Claim, GiveUp, Record, StepFails
  <2>2. \/ rcp' = rcp
        \/ \E c \in Broadcasts : InsertBroadcast(c)
        \/ \E t \in Tasks : Release(t) \/ Claim(t) \/ GiveUp(t) \/ Record(t) \/ StepFails(t)
    BY DEF Next, vars, tables, AskCreate, ControlCopy, StartTask, AskCancel, EndCancel,
       RunnerStep, Begin, CheckStatus, Send, TooMany, Unauthorized, Finish, AnswerLost,
       TaskDies, Restart
  <2> QED
    BY <2>1, <2>2
<1> HIDE DEF RcpStep
<1> QED
  BY <1>1, <1>2, <1>3, <1>4, <1>5, <1>6, <1>7
\* Nobody of the segment gets lost from the table, and who is sent to again
\* was to be sent to before.
LEMMA RcpKept ==
    ASSUME Typed, [Next]_vars, NEW b \in Broadcasts, NEW u \in Recipients
    PROVE  \/ InsertBroadcast(b) /\ status'[b] = "running"
              /\ rcp'[b][u] = (IF u \in Audience[b] THEN "pending" ELSE "none")
           \/ /\ rcp'[b][u] = "none" => rcp[b][u] = "none"
              /\ rcp'[b][u] \in {"pending", "sending"} => rcp[b][u] \in {"pending", "sending"}
<1>1. RcpStep(b)
  BY RcpSteps
<1>2. ASSUME NEW users, rcp'[b] = Released(b, users)[b]
      PROVE  /\ rcp'[b][u] = "none" => rcp[b][u] = "none"
             /\ rcp'[b][u] \in {"pending", "sending"} => rcp[b][u] \in {"pending", "sending"}
  BY <1>2 DEF Released, Typed, TypeOK
<1>3. ASSUME rcp'[b] = Claimed(b)[b]
      PROVE  /\ rcp'[b][u] = "none" => rcp[b][u] = "none"
             /\ rcp'[b][u] \in {"pending", "sending"} => rcp[b][u] \in {"pending", "sending"}
  BY <1>3 DEF Claimed, NextBatch, Pending, Typed, TypeOK
<1>4. ASSUME NEW t \in Tasks, result[t] \in Delivery, Recorded(t) \in Recipients,
             rcp'[b] = [rcp[b] EXCEPT ![Recorded(t)] = result[t]]
      PROVE  /\ rcp'[b][u] = "none" => rcp[b][u] = "none"
             /\ rcp'[b][u] \in {"pending", "sending"} => rcp[b][u] \in {"pending", "sending"}
  BY <1>4 DEF Delivery, Typed, TypeOK
<1> QED
  BY <1>1, <1>2, <1>3, <1>4 DEF RcpStep

\* At first there are no rows and no tasks.
LEMMA InitRow == Init => Requests /\ TasksActive
  BY TaskParts DEF Init, Requests, TasksActive

\* Every step keeps requests and rows in line.
LEMMA NextRequests == Typed /\ Requests /\ TasksActive /\ [Next]_vars => Requests'
<1> SUFFICES ASSUME Typed, Requests, TasksActive, [Next]_vars, NEW b \in Broadcasts
             PROVE  /\ create'[b] \in {"idle", "copy", "insert"}
                          => status'[b] = "none" /\ \A u \in Recipients : got'[b][u] = 0
                    /\ create'[b] # "idle" => home'[b] \in Procs
                    /\ status'[b] # "none" => \A u \in Audience[b] : rcp'[b][u] # "none"
  BY DEF Requests
<1>1. Typed'
  BY NextTyped
<1>2. /\ create'[b] \in {"idle", "copy", "insert"}
            => create[b] \in {"idle", "copy", "insert"} /\ ~(InsertBroadcast(b) /\ status'[b] = "running")
      /\ create'[b] # "idle" => home'[b] \in Procs
  <2>1. CASE create' = create /\ home' = home
    <3>1. InsertBroadcast(b) => create[b] = "insert" /\ create'[b] # create[b]
      BY DEF InsertBroadcast, Typed, TypeOK
    <3> QED
      BY <2>1, <3>1 DEF Requests
  <2>2. ASSUME NEW p \in Procs, NEW c \in Broadcasts, AskCreate(p, c)
        PROVE  /\ create'[b] \in {"idle", "copy", "insert"}
                     => create[b] \in {"idle", "copy", "insert"} /\ status'[b] = status[b]
               /\ create'[b] # "idle" => home'[b] \in Procs
    BY <2>2 DEF AskCreate, tables, Typed, TypeOK, Requests
  <2>3. ASSUME NEW c \in Broadcasts, ControlCopy(c)
        PROVE  /\ create'[b] \in {"idle", "copy", "insert"}
                     => create[b] \in {"idle", "copy", "insert"} /\ status'[b] = status[b]
               /\ create'[b] # "idle" => home'[b] \in Procs
    BY <2>3 DEF ControlCopy, tables, Typed, TypeOK, Requests
  <2>4. ASSUME NEW c \in Broadcasts, InsertBroadcast(c) \/ StartTask(c)
        PROVE  /\ create'[b] \in {"idle", "copy", "insert"} => create'[b] = create[b] /\ b # c
               /\ create'[b] # "idle" => home'[b] \in Procs
    <3>1. home' = home /\ create[c] \in {"insert", "audit"}
      BY <2>4 DEF InsertBroadcast, StartTask
    <3>2. create' = [create EXCEPT ![c] = "audit"] \/ create' = [create EXCEPT ![c] = "over"]
      BY <2>4 DEF InsertBroadcast, StartTask
    <3> QED
      BY <3>1, <3>2 DEF Typed, TypeOK, Requests
  <2>5. ASSUME NEW p \in Procs, Restart(p)
        PROVE  /\ create'[b] \in {"idle", "copy", "insert"} => create'[b] = create[b]
               /\ create'[b] # "idle" => home'[b] \in Procs
               /\ status' = status
    BY <2>5 DEF Restart, tables, Requests
  <2>6. \/ create' = create /\ home' = home
        \/ \E p \in Procs, c \in Broadcasts : AskCreate(p, c)
        \/ \E c \in Broadcasts : ControlCopy(c) \/ InsertBroadcast(c) \/ StartTask(c)
        \/ \E p \in Procs : Restart(p)
    BY DEF Next, vars, requests, AskCancel, EndCancel, RunnerStep, Begin, Release, CheckStatus,
       Claim, Send, TooMany, Unauthorized, Record, GiveUp, Finish, AnswerLost, StepFails, TaskDies
  <2>7. InsertBroadcast(b) => create'[b] \in {"audit", "over"}
    BY DEF InsertBroadcast, Typed, TypeOK
  <2> QED
    BY <2>1, <2>2, <2>3, <2>4, <2>5, <2>6, <2>7
<1>3. create[b] \in {"idle", "copy", "insert"} /\ ~(InsertBroadcast(b) /\ status'[b] = "running")
        => status'[b] = "none" /\ got'[b] = got[b]
  <2> SUFFICES ASSUME create[b] \in {"idle", "copy", "insert"},
                      ~(InsertBroadcast(b) /\ status'[b] = "running")
               PROVE  status'[b] = "none" /\ got'[b] = got[b]
    OBVIOUS
  <2>1. status[b] = "none"
    BY DEF Requests
  <2>2. status'[b] = "none"
    BY <2>1, StatusSteps DEF Active
  <2>3. \A t \in Tasks : at[t] = "deliver" => t[2] # b
    BY <2>1 DEF TasksActive, Active
  <2>4. got'[b] = got[b]
    <3>1. ASSUME NEW t \in Tasks, Receives(t), at[t] = "deliver" PROVE got'[b] = got[b]
      BY <2>3, <3>1 DEF Receives, Typed, TypeOK
    <3> QED
      BY <3>1, GotSteps
  <2> QED
    BY <2>2, <2>4
<1>4. status'[b] # "none" => \A u \in Audience[b] : rcp'[b][u] # "none"
  <2> SUFFICES ASSUME status'[b] # "none", NEW u \in Audience[b] PROVE rcp'[b][u] # "none"
    OBVIOUS
  <2>1. u \in Recipients
    BY DEF Recipients
  <2>2. CASE status[b] = "none"
    <3>1. InsertBroadcast(b) /\ status'[b] = "running"
      BY <2>2, StatusSteps DEF Active
    <3>2. rcp'[b] = [v \in Recipients |-> IF v \in Audience[b] THEN "pending" ELSE "none"]
      BY <2>2, <3>1 DEF InsertBroadcast, NoneRuns, tables, Typed, TypeOK
    <3> QED
      BY <2>1, <3>2
  <2>3. CASE status[b] # "none"
    BY <2>1, <2>3, RcpKept DEF Requests
  <2> QED
    BY <2>2, <2>3
<1> QED
  BY <1>2, <1>3, <1>4 DEF Requests
\* A running task has an active broadcast: a cancel closes a row only where
\* there is no task, and a task that ends closes its own.
LEMMA NextTasksActive ==
    ASSUME OneProcess, Typed, Requests, TasksActive, [Next]_vars
    PROVE  TasksActive'
<1>1. Typed'
  BY NextTyped
<1> SUFFICES ASSUME NEW t \in Tasks, at'[t] \notin {"off", "begin"}
             PROVE  status'[t[2]] \in Active
  BY DEF TasksActive
<1>2. t[1] \in Procs /\ t[2] \in Broadcasts
  BY TaskParts
<1>3. at[t] # "off" /\ status[t[2]] \in Active /\ ~Finish(t)
  <2>1. ~Finish(t) /\ ~TaskDies(t)
    BY DEF Finish, TaskDies, TaskEnds, Goto, Typed, TypeOK
  <2>2. ASSUME NEW b \in Broadcasts, StartTask(b)
        PROVE  at'[t] = "begin" \/ at'[t] = at[t]
    BY <2>2 DEF StartTask, Goto, Typed, TypeOK
  <2>3. ASSUME NEW s \in Tasks, RunnerStep(s) \/ AnswerLost(s) \/ StepFails(s) \/ TaskDies(s),
               at' # at
        PROVE  /\ s # t => at'[t] = at[t]
               /\ s = t => at[t] # "off" /\ (at[t] = "begin" => status[t[2]] \in Active)
    <3>1. s # t => at'[t] = at[t]
      BY <2>3 DEF RunnerStep, AnswerLost, StepFails, TaskDies, Begin, Release, CheckStatus,
         Claim, Send, TooMany, Unauthorized, Record, GiveUp, Finish, Again, Answered, EndWith,
         TaskEnds, Goto, Typed, TypeOK
    <3>2. at[s] # "off"
      BY <2>3 DEF RunnerStep, AnswerLost, StepFails, TaskDies, Begin, Release, CheckStatus,
         Claim, Send, TooMany, Unauthorized, Record, GiveUp, Finish
    <3>3. at[s] = "begin" => Begin(s) \/ TaskDies(s)
      BY <2>3 DEF RunnerStep, AnswerLost, StepFails, Release, CheckStatus,
         Claim, Send, TooMany, Unauthorized, Record, GiveUp, Finish
    <3>4. s = t /\ Begin(t) => status[t[2]] \in Active
      BY DEF Begin, Goto, Typed, TypeOK
    <3> QED
      BY <2>1, <3>1, <3>2, <3>3, <3>4
  <2>4. ASSUME NEW p \in Procs, Restart(p)
        PROVE  at'[t] = at[t]
    BY <2>4 DEF Restart
  <2>5. at'[t] = at[t] => at[t] # "off" /\ status[t[2]] \in Active
    BY DEF TasksActive
  <2>6. \/ at' = at
        \/ \E b \in Broadcasts : StartTask(b)
        \/ \E s \in Tasks : RunnerStep(s) \/ AnswerLost(s) \/ StepFails(s) \/ TaskDies(s)
        \/ \E p \in Procs : Restart(p)
    BY DEF Next, vars, runner, AskCreate, ControlCopy, InsertBroadcast, AskCancel, EndCancel
  <2> QED
    BY <2>1, <2>2, <2>3, <2>4, <2>5, <2>6 DEF TasksActive
<1>4. ASSUME NEW s \in Tasks, Finish(s), s[2] = t[2] PROVE FALSE
  BY <1>3, <1>4, OneTask
<1>5. ASSUME EndCancel(t[2]), ~IsRunning(home[t[2]], t[2])
      PROVE  FALSE
  <2>1. create[t[2]] # "idle"
    BY <1>2, <1>3 DEF Requests, Active
  <2>2. home[t[2]] = t[1]
    BY <1>2, <2>1 DEF Requests, OneProcess
  <2>3. at[t] = "off"
    BY <1>5, <2>2, TaskParts DEF IsRunning
  <2> QED
    BY <1>3, <2>3
<1> QED
  BY <1>2, <1>3, <1>4, <1>5, StatusSteps DEF Active
-----------------------------------------------------------------------------
(* With one process: who is claimed                                        *)

TaskStep(t) == RunnerStep(t) \/ AnswerLost(t) \/ StepFails(t) \/ TaskDies(t)

\* The step of a task touches no other task and no other broadcast's rows.
LEMMA OtherTask ==
    ASSUME Typed, NEW s \in Tasks, TaskStep(s)
    PROVE  /\ \A t \in Tasks : t # s =>
                 /\ at'[t] = at[t] /\ batch'[t] = batch[t]
                 /\ outcome'[t] = outcome[t] /\ result'[t] = result[t]
           /\ \A b \in Broadcasts : b # s[2] => rcp'[b] = rcp[b]
<1>1. /\ \A t \in Tasks : t # s => at'[t] = at[t]
      /\ \A t \in Tasks : t # s => batch'[t] = batch[t]
      /\ \A t \in Tasks : t # s => outcome'[t] = outcome[t]
      /\ \A t \in Tasks : t # s => result'[t] = result[t]
  BY DEF TaskStep, RunnerStep, AnswerLost, StepFails, TaskDies, Begin, Release, CheckStatus,
     Claim, Send, TooMany, Unauthorized, Record, GiveUp, Finish, Again, Answered, EndWith,
     TaskEnds, Goto, Typed, TypeOK
<1>2. ASSUME NEW b \in Broadcasts, b # s[2] PROVE rcp'[b] = rcp[b]
  <2>1. \/ rcp' = rcp
        \/ rcp' = Claimed(s[2])
        \/ \E users : rcp' = Released(s[2], users)
        \/ rcp' = [rcp EXCEPT ![s[2]][Recorded(s)] = result[s]]
    BY DEF TaskStep, RunnerStep, AnswerLost, StepFails, TaskDies, Begin, Release, CheckStatus,
       Claim, Send, TooMany, Unauthorized, Record, GiveUp, Finish, tables
  <2> QED
    BY <1>2, <2>1 DEF Claimed, Released, Typed, TypeOK
<1> QED
  BY <1>1, <1>2

\* The task's own steps.
LEMMA OwnClaims ==
    ASSUME Typed, ClaimsHeld, NEW t \in Tasks, TaskStep(t), NEW u \in Recipients
    PROVE  /\ u \in batch'[t] => rcp'[t[2]][u] = "sending"
           /\ rcp'[t[2]][u] = "sending" =>
                 \/ u \in batch'[t]
                 \/ at'[t] \in {"off", "begin", "release"}
                 \/ at'[t] = "finish" /\ outcome'[t] = "failed"
<1> USE DEF Typed
<1> DEFINE b == t[2]
<1>0. b \in Broadcasts
  BY TaskParts
<1>1. /\ u \in batch[t] => rcp[b][u] = "sending"
      /\ rcp[b][u] = "sending" =>
            \/ u \in batch[t]
            \/ at[t] \in {"off", "begin", "release"}
            \/ at[t] = "finish" /\ outcome[t] = "failed"
  BY DEF ClaimsHeld
<1>2. at[t] \notin {"deliver", "record", "giveup"} => batch[t] = {}
  BY DEF TaskPlaces
<1>3. CASE Begin(t) \/ Finish(t) \/ TaskDies(t)
  <2>1. batch'[t] = {} /\ at'[t] \in {"off", "release"}
    BY <1>2, <1>3 DEF Begin, Finish, TaskDies, TaskEnds, Goto, TypeOK
  <2> QED
    BY <2>1
<1>4. CASE Release(t)
  <2>1. batch'[t] = {} /\ rcp'[b][u] # "sending"
    BY <1>0, <1>2, <1>4 DEF Release, Released, TypeOK
  <2> QED
    BY <2>1
<1>5. CASE CheckStatus(t)
  <2>1. batch'[t] = {} /\ rcp' = rcp /\ at[t] = "status"
    BY <1>2, <1>5 DEF CheckStatus, tables
  <2> QED
    BY <1>1, <1>2, <2>1
<1>6. CASE Claim(t)
  <2>1. batch'[t] = NextBatch(b) /\ rcp' = Claimed(b) /\ at[t] = "claim"
    BY <1>6 DEF Claim, TypeOK
  <2>2. rcp[b][u] # "sending"
    BY <1>1, <1>2, <2>1
  <2>3. rcp'[b][u] = IF u \in NextBatch(b) THEN "sending" ELSE rcp[b][u]
    BY <1>0, <2>1 DEF Claimed, TypeOK
  <2> HIDE DEF b
  <2> QED
    BY <2>1, <2>2, <2>3 DEF b
<1>7. CASE Send(t) \/ TooMany(t) \/ AnswerLost(t) \/ Unauthorized(t)
  <2>1. batch' = batch /\ rcp' = rcp /\ at[t] = "deliver"
    BY <1>7 DEF Send, TooMany, AnswerLost, Unauthorized, tables
  <2> QED
    BY <1>1, <2>1
<1>8. CASE Record(t)
  <2>1. /\ at[t] = "record" /\ result[t] \in Delivery
        /\ Recorded(t) \in batch[t] /\ Recorded(t) \in Recipients
    BY <1>8, MinOf DEF Record, TypeOK, TaskPlaces, Recorded
  <2>2. batch'[t] = batch[t] \ {Recorded(t)}
    BY <1>8 DEF Record, Recorded, TypeOK
  <2>3. rcp'[b][u] = IF u = Recorded(t) THEN result[t] ELSE rcp[b][u]
    BY <1>0, <1>8, <2>1 DEF Record, TypeOK
  <2> QED
    BY <1>1, <2>1, <2>2, <2>3 DEF Delivery
<1>9. CASE GiveUp(t) \/ StepFails(t)
  <2>1. batch'[t] = {} /\ at'[t] = "finish" /\ outcome'[t] = "failed"
    BY <1>9 DEF GiveUp, StepFails, EndWith, Goto, TypeOK
  <2> QED
    BY <2>1
<1> QED
  BY <1>3, <1>4, <1>5, <1>6, <1>7, <1>8, <1>9 DEF TaskStep, RunnerStep

\* What a request does to the tasks and to who is claimed.
LEMMA RequestFrame ==
    ASSUME Typed, Requests, TasksActive, NEW c \in Broadcasts,
           \/ \E p \in Procs : AskCreate(p, c)
           \/ ControlCopy(c) \/ InsertBroadcast(c) \/ StartTask(c)
           \/ AskCancel(c) \/ EndCancel(c)
    PROVE  /\ batch' = batch /\ outcome' = outcome /\ result' = result
           /\ got' = got /\ faults' = faults
           /\ \A t \in Tasks : at'[t] = at[t] \/ (at[t] = "off" /\ at'[t] = "begin")
           /\ \A b \in Broadcasts :
                 \/ rcp'[b] = rcp[b]
                 \/ /\ InsertBroadcast(b) /\ create[b] = "insert" /\ status[b] = "none"
                    /\ \A t \in Tasks : t[2] = b => at[t] \in {"off", "begin"}
<1>1. /\ batch' = batch /\ outcome' = outcome /\ result' = result
      /\ got' = got /\ faults' = faults
  BY DEF AskCreate, ControlCopy, InsertBroadcast, StartTask, AskCancel, EndCancel, runner
<1>2. \A t \in Tasks : at'[t] = at[t] \/ (at[t] = "off" /\ at'[t] = "begin")
  BY DEF AskCreate, ControlCopy, InsertBroadcast, StartTask, AskCancel, EndCancel, runner,
     Goto, IsRunning, Typed, TypeOK
<1>3. ASSUME NEW b \in Broadcasts, rcp'[b] # rcp[b]
      PROVE  /\ InsertBroadcast(b) /\ create[b] = "insert" /\ status[b] = "none"
             /\ \A t \in Tasks : t[2] = b => at[t] \in {"off", "begin"}
  <2>1. InsertBroadcast(c)
    BY <1>3 DEF AskCreate, ControlCopy, StartTask, AskCancel, EndCancel, tables
  <2>2. b = c
    BY <1>3, <2>1 DEF InsertBroadcast, tables, Typed, TypeOK
  <2>3. create[b] = "insert"
    BY <2>1, <2>2 DEF InsertBroadcast
  <2>4. status[b] = "none"
    BY <2>3 DEF Requests
  <2>5. \A t \in Tasks : t[2] = b => at[t] \in {"off", "begin"}
    BY <2>4 DEF TasksActive, Active
  <2> QED
    BY <2>1, <2>2, <2>3, <2>4, <2>5
<1> QED
  BY <1>1, <1>2, <1>3

\* Whoever is claimed is held by the task, or will be released.
LEMMA NextClaims ==
    ASSUME OneProcess, Typed, Requests, TasksActive, ClaimsHeld, [Next]_vars
    PROVE  ClaimsHeld'
<1> SUFFICES ASSUME NEW t \in Tasks, NEW u \in Recipients
             PROVE  /\ u \in batch'[t] => rcp'[t[2]][u] = "sending"
                    /\ rcp'[t[2]][u] = "sending" =>
                          \/ u \in batch'[t]
                          \/ at'[t] \in {"off", "begin", "release"}
                          \/ at'[t] = "finish" /\ outcome'[t] = "failed"
  BY DEF ClaimsHeld
<1>1. t[1] \in Procs /\ t[2] \in Broadcasts
  BY TaskParts
<1>2. /\ u \in batch[t] => rcp[t[2]][u] = "sending"
      /\ rcp[t[2]][u] = "sending" =>
            \/ u \in batch[t]
            \/ at[t] \in {"off", "begin", "release"}
            \/ at[t] = "finish" /\ outcome[t] = "failed"
  BY DEF ClaimsHeld
<1>3. CASE UNCHANGED vars
  BY <1>2, <1>3 DEF vars, tables, runner
<1>4. ASSUME NEW c \in Broadcasts,
             \/ \E p \in Procs : AskCreate(p, c)
             \/ ControlCopy(c) \/ InsertBroadcast(c) \/ StartTask(c)
             \/ AskCancel(c) \/ EndCancel(c)
      PROVE  /\ u \in batch'[t] => rcp'[t[2]][u] = "sending"
             /\ rcp'[t[2]][u] = "sending" =>
                   \/ u \in batch'[t]
                   \/ at'[t] \in {"off", "begin", "release"}
                   \/ at'[t] = "finish" /\ outcome'[t] = "failed"
  <2>1. /\ batch' = batch /\ outcome' = outcome
        /\ at'[t] = at[t] \/ (at[t] = "off" /\ at'[t] = "begin")
        /\ rcp'[t[2]] = rcp[t[2]] \/ at[t] \in {"off", "begin"}
    BY <1>1, <1>4, RequestFrame
  <2>2. at[t] \in {"off", "begin"} => batch[t] = {}
    BY DEF Typed, TaskPlaces
  <2> QED
    BY <1>2, <2>1, <2>2
<1>5. ASSUME NEW s \in Tasks, TaskStep(s)
      PROVE  /\ u \in batch'[t] => rcp'[t[2]][u] = "sending"
             /\ rcp'[t[2]][u] = "sending" =>
                   \/ u \in batch'[t]
                   \/ at'[t] \in {"off", "begin", "release"}
                   \/ at'[t] = "finish" /\ outcome'[t] = "failed"
  <2>1. CASE s = t
    BY <1>5, <2>1, OwnClaims
  <2>2. CASE s # t
    <3>1. s[2] # t[2]
      BY <2>2, OneTask
    <3> QED
      BY <1>1, <1>2, <1>5, <2>2, <3>1, OtherTask
  <2> QED
    BY <2>1, <2>2
<1>6. ASSUME NEW p \in Procs, Restart(p)
      PROVE  batch'[t] = {} /\ at'[t] \in {"off", "begin"}
  BY <1>1, <1>6 DEF Restart, OneProcess
<1> QED
  BY <1>3, <1>4, <1>5, <1>6 DEF Next, TaskStep
\* Who has an outcome keeps one.
LEMMA CompleteStays ==
    ASSUME Typed, Requests, [Next]_vars, NEW b \in Broadcasts, status[b] # "none", Complete(b)
    PROVE  Complete(b)'
<1> SUFFICES ASSUME NEW u \in Audience[b] PROVE rcp'[b][u] \in Delivery
  BY DEF Complete
<1>1. u \in Recipients
  BY DEF Recipients
<1>2. ~InsertBroadcast(b)
  BY DEF InsertBroadcast, Requests
<1>3. rcp[b][u] \in Delivery
  BY DEF Complete
<1>4. rcp'[b][u] \in Delivery \cup {"none", "pending", "sending"}
  BY <1>1, NextTyped DEF Typed, TypeOK
<1> QED
  BY <1>1, <1>2, <1>3, <1>4, RcpKept DEF Delivery

\* An empty batch means that nobody is left.
LEMMA EmptyBatch ==
    ASSUME Typed, Requests, TasksActive, ClaimsHeld,
           NEW t \in Tasks, at[t] = "claim", NextBatch(t[2]) = {}
    PROVE  Complete(t[2])
<1> SUFFICES ASSUME NEW u \in Audience[t[2]] PROVE rcp[t[2]][u] \in Delivery
  BY DEF Complete
<1>1. t[2] \in Broadcasts
  BY TaskParts
<1>2. u \in Recipients
  BY <1>1 DEF Recipients
<1>3. rcp[t[2]][u] # "none"
  BY <1>1 DEF TasksActive, Requests, Active
<1>4. rcp[t[2]][u] # "sending"
  BY <1>2 DEF ClaimsHeld, Typed, TaskPlaces
<1>5. rcp[t[2]][u] # "pending"
  BY <1>1, <1>2, BatchTakes DEF Pending
<1> QED
  BY <1>1, <1>2, <1>3, <1>4, <1>5 DEF Typed, TypeOK

\* Only an empty batch makes a task end as done.
LEMMA DoneStep ==
    ASSUME Typed, [Next]_vars, NEW t \in Tasks, at'[t] = "finish", outcome'[t] = "done"
    PROVE  \/ at[t] = "finish" /\ outcome[t] = "done"
           \/ at[t] = "claim" /\ NextBatch(t[2]) = {}
<1>1. ASSUME TaskStep(t)
      PROVE  at[t] = "claim" /\ NextBatch(t[2]) = {}
  <2>1. CASE Claim(t)
    BY <2>1 DEF Claim, Goto, Typed, TypeOK
  <2>2. CASE CheckStatus(t) \/ GiveUp(t) \/ StepFails(t)
    BY <2>2 DEF CheckStatus, GiveUp, StepFails, EndWith, Goto, Typed, TypeOK
  <2>3. CASE \/ Begin(t) \/ Release(t) \/ Send(t) \/ TooMany(t) \/ Unauthorized(t)
             \/ Record(t) \/ Finish(t) \/ AnswerLost(t) \/ TaskDies(t)
    BY <2>3 DEF AnswerLost, TaskDies, Begin, Release, Send, TooMany, Unauthorized, Record,
       Finish, Again, Answered, TaskEnds, Goto, Typed, TypeOK
  <2> QED
    BY <1>1, <2>1, <2>2, <2>3 DEF TaskStep, RunnerStep
<1>2. ASSUME NEW s \in Tasks, TaskStep(s), s # t
      PROVE  at'[t] = at[t] /\ outcome'[t] = outcome[t]
  BY <1>2, OtherTask
<1>3. ASSUME NEW p \in Procs, Restart(p)
      PROVE  at'[t] = at[t] /\ outcome'[t] = outcome[t]
  BY <1>3 DEF Restart
<1>4. ASSUME NEW c \in Broadcasts,
             \/ \E p \in Procs : AskCreate(p, c)
             \/ ControlCopy(c) \/ InsertBroadcast(c) \/ StartTask(c)
             \/ AskCancel(c) \/ EndCancel(c)
      PROVE  at'[t] = at[t] /\ outcome'[t] = outcome[t]
  BY <1>4 DEF AskCreate, ControlCopy, InsertBroadcast, StartTask, AskCancel, EndCancel, runner,
     Goto, Typed, TypeOK
<1>5. UNCHANGED vars => at'[t] = at[t] /\ outcome'[t] = outcome[t]
  BY DEF vars, runner
<1> QED
  BY <1>1, <1>2, <1>3, <1>4, <1>5 DEF Next, TaskStep

\* Done stays done for everybody.
LEMMA NextDone ==
    ASSUME Typed, Requests, TasksActive, ClaimsHeld, DoneComplete, [Next]_vars
    PROVE  DoneComplete'
<1>1. ASSUME NEW t \in Tasks, at'[t] = "finish", outcome'[t] = "done"
      PROVE  Complete(t[2])'
  <2>1. t[2] \in Broadcasts
    BY TaskParts
  <2>2. Complete(t[2])
    BY <1>1, DoneStep, EmptyBatch DEF DoneComplete
  <2>3. status[t[2]] # "none"
    BY <1>1, DoneStep DEF TasksActive, Active
  <2> QED
    BY <2>1, <2>2, <2>3, CompleteStays
<1>2. ASSUME NEW b \in Broadcasts, status'[b] = "done"
      PROVE  Complete(b)'
  <2>1. \/ status[b] = "done"
        \/ \E t \in Tasks : Finish(t) /\ t[2] = b /\ status[b] \in Active /\ outcome[t] = "done"
    BY <1>2, StatusSteps
  <2>2. Complete(b)
    BY <2>1 DEF DoneComplete, Finish
  <2>3. status[b] # "none"
    BY <2>1 DEF Active
  <2> QED
    BY <2>2, <2>3, CompleteStays
<1> QED
  BY <1>1, <1>2 DEF DoneComplete
-----------------------------------------------------------------------------
(* With one process: the weight of a broadcast                             *)

WeightAt(b, u) == Extra(b, u) + Loose(b, u)

\* A step that does not make a message loose which was not.
Kept(b, u) ==
    /\ got'[b][u] = got[b][u]
    /\ (Resend(b, u) /\ ~AtHand(b, u))' => Resend(b, u) /\ ~AtHand(b, u)

\* Weights are numbers.
LEMMA WeightNat ==
    ASSUME NEW b \in Broadcasts, NEW u \in Recipients
    PROVE  /\ TypeOK => Extra(b, u) \in Nat /\ WeightAt(b, u) \in Nat
           /\ TypeOK' => Extra(b, u)' \in Nat /\ WeightAt(b, u)' \in Nat
           /\ Loose(b, u) \in {0, 1} /\ Loose(b, u)' \in {0, 1}
<1>1. (TypeOK => got[b][u] \in Nat) /\ (TypeOK' => got'[b][u] \in Nat)
  BY DEF TypeOK
<1>2. (TypeOK => Extra(b, u) \in Nat) /\ (TypeOK' => Extra(b, u)' \in Nat)
  BY <1>1 DEF Extra
<1>3. Loose(b, u) \in {0, 1} /\ Loose(b, u)' \in {0, 1}
  BY DEF Loose
<1> QED
  BY <1>2, <1>3 DEF WeightAt

\* What each kind of step adds to the weight of a recipient.
LEMMA WeightKept ==
    ASSUME TypeOK, TypeOK', NEW b \in Broadcasts, NEW u \in Recipients, got'[b][u] = got[b][u]
    PROVE  /\ WeightAt(b, u)' <= WeightAt(b, u) + 1
           /\ Kept(b, u) => WeightAt(b, u)' <= WeightAt(b, u)
<1>1. Extra(b, u)' = Extra(b, u)
  BY DEF Extra
<1>2. /\ Extra(b, u) \in Nat /\ Loose(b, u) \in {0, 1}
      /\ Extra(b, u)' \in Nat /\ Loose(b, u)' \in {0, 1}
  BY WeightNat
<1>3. Kept(b, u) => Loose(b, u)' = 0 \/ Loose(b, u) = 1
  <2>1. Loose(b, u)' # 0 => got'[b][u] >= 1 /\ (Resend(b, u) /\ ~AtHand(b, u))'
    BY DEF Loose, Resend
  <2>2. got[b][u] >= 1 /\ Resend(b, u) /\ ~AtHand(b, u) => Loose(b, u) = 1
    BY DEF Loose, Resend
  <2> QED
    BY <2>1, <2>2 DEF Kept
<1>4. \A e \in Nat, l, m \in {0, 1} : e + m <= e + l + 1 /\ (m = 0 \/ l = 1 => e + m <= e + l)
  OBVIOUS
<1> QED
  BY <1>1, <1>2, <1>3, <1>4 DEF WeightAt

\* A message that comes adds one at most, and nothing while it is at hand.
LEMMA WeightReceived ==
    ASSUME TypeOK, TypeOK', NEW b \in Broadcasts, NEW u \in Recipients,
           got'[b][u] = got[b][u] + 1, Resend(b, u), ~AtHand(b, u)
    PROVE  /\ WeightAt(b, u)' <= WeightAt(b, u) + 1
           /\ AtHand(b, u)' => WeightAt(b, u)' <= WeightAt(b, u)
<1>1. got[b][u] \in Nat
  BY DEF TypeOK
<1>2. WeightAt(b, u) = got[b][u]
  <2>1. Loose(b, u) = IF got[b][u] >= 1 THEN 1 ELSE 0
    BY DEF Loose, Resend
  <2> QED
    BY <1>1, <2>1 DEF WeightAt, Extra
<1>3. Extra(b, u)' = got[b][u]
  BY <1>1 DEF Extra
<1>4. Loose(b, u)' \in {0, 1} /\ (AtHand(b, u)' => Loose(b, u)' = 0)
  BY DEF Loose
<1> QED
  BY <1>1, <1>2, <1>3, <1>4 DEF WeightAt

\* What counts as at hand stays so while other tasks act.
LEMMA HandStays ==
    ASSUME Typed, NEW s \in Tasks, TaskStep(s), NEW b \in Broadcasts, NEW u \in Recipients,
           AtHand(b, u), ~ (at[s] = "record" /\ s[2] = b)
    PROVE  AtHand(b, u)'
<1>1. PICK t \in Tasks : t[2] = b /\ at[t] = "record" /\ u = Recorded(t)
  BY DEF AtHand
<1>2. at'[t] = at[t] /\ batch'[t] = batch[t]
  BY <1>1, OtherTask
<1> QED
  BY <1>1, <1>2 DEF AtHand, Recorded

\* A task makes nobody to be sent to who was not.
LEMMA ResendStays ==
    ASSUME Typed, NEW s \in Tasks, TaskStep(s), NEW b \in Broadcasts, NEW u \in Recipients,
           Resend(b, u)'
    PROVE  Resend(b, u)
<1>1. create' = create
  BY DEF TaskStep, RunnerStep, AnswerLost, StepFails, TaskDies, Begin, Release, CheckStatus,
     Claim, Send, TooMany, Unauthorized, Record, GiveUp, Finish, requests
<1>2. ~InsertBroadcast(b)
  BY <1>1 DEF InsertBroadcast, Typed, TypeOK
<1>3. [Next]_vars
  BY DEF Next, TaskStep
<1> QED
  BY <1>2, <1>3, RcpKept DEF Resend

\* A task that writes down an outcome, or fails to.
LEMMA RecordWeight ==
    ASSUME OneProcess, Typed, Typed', NEW s \in Tasks, TaskStep(s), at[s] = "record", got' = got
    PROVE  /\ s[2] \in Broadcasts /\ Recorded(s) \in Recipients
           /\ \A b \in Broadcasts, u \in Recipients :
                 /\ <<b, u>> # <<s[2], Recorded(s)>> => WeightAt(b, u)' <= WeightAt(b, u)
                 /\ WeightAt(b, u)' <= WeightAt(b, u) + 1
                 /\ Record(s) => WeightAt(b, u)' <= WeightAt(b, u)
<1>1. /\ s[2] \in Broadcasts /\ Recorded(s) \in Recipients /\ result[s] \in Delivery
  BY MinOf, TaskParts DEF Typed, TypeOK, TaskPlaces, Recorded
<1>2. ASSUME NEW b \in Broadcasts, NEW u \in Recipients, <<b, u>> # <<s[2], Recorded(s)>>
      PROVE  Kept(b, u)
  <2>1. CASE b # s[2]
    BY <2>1, HandStays, ResendStays DEF Kept
  <2>2. CASE b = s[2] /\ u # Recorded(s)
    <3>1. ~AtHand(b, u)
      BY <2>2, OneTask DEF AtHand
    <3> QED
      BY <3>1, ResendStays DEF Kept
  <2> QED
    BY <1>2, <2>1, <2>2
<1>3. ASSUME NEW b \in Broadcasts, NEW u \in Recipients, b = s[2], u = Recorded(s), Record(s)
      PROVE  Kept(b, u)
  <2>1. rcp'[b][u] = result[s]
    BY <1>1, <1>3 DEF Record, Typed, TypeOK
  <2> QED
    BY <1>1, <2>1 DEF Kept, Resend, Delivery
<1>4. ASSUME NEW b \in Broadcasts, NEW u \in Recipients
      PROVE  /\ WeightAt(b, u)' <= WeightAt(b, u) + 1
             /\ Kept(b, u) => WeightAt(b, u)' <= WeightAt(b, u)
  BY WeightKept DEF Typed
<1> QED
  BY <1>1, <1>2, <1>3, <1>4

\* A message that comes: it is at hand, or its answer was lost.
LEMMA ReceiveWeight ==
    ASSUME OneProcess, Typed, Typed', ClaimsHeld, NEW s \in Tasks, TaskStep(s),
           at[s] = "deliver", Receives(s)
    PROVE  /\ s[2] \in Broadcasts /\ Recorded(s) \in Recipients
           /\ \A b \in Broadcasts, u \in Recipients :
                 /\ <<b, u>> # <<s[2], Recorded(s)>> => WeightAt(b, u)' <= WeightAt(b, u)
                 /\ WeightAt(b, u)' <= WeightAt(b, u) + 1
                 /\ Send(s) => WeightAt(b, u)' <= WeightAt(b, u)
<1>1. s[2] \in Broadcasts /\ Recorded(s) \in batch[s] /\ Recorded(s) \in Recipients
  BY ReceivedTyped, TaskParts
<1>2. ASSUME NEW b \in Broadcasts, NEW u \in Recipients, <<b, u>> # <<s[2], Recorded(s)>>
      PROVE  WeightAt(b, u)' <= WeightAt(b, u)
  <2>1. got'[b][u] = got[b][u]
    BY <1>1, <1>2 DEF Receives, Recorded, Typed, TypeOK
  <2>2. Kept(b, u)
    BY <2>1, HandStays, ResendStays DEF Kept
  <2> QED
    BY <2>1, <2>2, WeightKept DEF Typed
<1>3. ASSUME NEW c \in Broadcasts, NEW r \in Recipients, c = s[2], r = Recorded(s)
      PROVE  /\ WeightAt(c, r)' <= WeightAt(c, r) + 1
             /\ AtHand(c, r)' => WeightAt(c, r)' <= WeightAt(c, r)
  <2>1. got'[c][r] = got[c][r] + 1
    BY <1>1, <1>3 DEF Receives, Recorded, Typed, TypeOK
  <2>2. Resend(c, r)
    BY <1>1, <1>3 DEF ClaimsHeld, Resend
  <2>3. ~AtHand(c, r)
    BY <1>3, OneTask DEF AtHand
  <2> QED
    BY <1>1, <2>1, <2>2, <2>3, WeightReceived DEF Typed
<1>4. ASSUME NEW c \in Broadcasts, NEW r \in Recipients, c = s[2], r = Recorded(s), Send(s)
      PROVE  AtHand(c, r)'
  <2>1. at'[s] = "record" /\ batch' = batch
    BY <1>4 DEF Send, Answered, Goto, Typed, TypeOK
  <2> QED
    BY <1>4, <2>1 DEF AtHand, Recorded
<1>5. \A b \in Broadcasts, u \in Recipients :
         WeightAt(b, u)' <= WeightAt(b, u) => WeightAt(b, u)' <= WeightAt(b, u) + 1
  <2>1. ASSUME NEW b \in Broadcasts, NEW u \in Recipients
        PROVE  WeightAt(b, u) \in Nat /\ WeightAt(b, u)' \in Nat
    BY WeightNat DEF Typed
  <2>2. \A i, j \in Nat : i <= j => i <= j + 1
    OBVIOUS
  <2> QED
    BY <2>1, <2>2
<1> QED
  BY <1>1, <1>2, <1>3, <1>4, <1>5
\* Every step either adds no weight, or is a fault and adds one at most, to
\* one recipient.
NoHeavier == \A b \in Broadcasts, u \in Recipients : WeightAt(b, u)' <= WeightAt(b, u)
OneHeavier ==
    \E c \in Broadcasts, r \in Recipients :
       \A b \in Broadcasts, u \in Recipients :
          /\ WeightAt(b, u)' <= WeightAt(b, u) + 1
          /\ <<b, u>> # <<c, r>> => WeightAt(b, u)' <= WeightAt(b, u)

\* A step of a task is one or the other.
LEMMA TaskWeight ==
    ASSUME OneProcess, Typed, Typed', ClaimsHeld, NEW s \in Tasks, TaskStep(s)
    PROVE  (NoHeavier /\ faults' \in {faults, faults + 1}) \/ (OneHeavier /\ faults' = faults + 1)
<1>1. ASSUME at[s] # "record", got' = got
      PROVE  NoHeavier
  <2> SUFFICES ASSUME NEW b \in Broadcasts, NEW u \in Recipients
               PROVE  WeightAt(b, u)' <= WeightAt(b, u)
    BY DEF NoHeavier
  <2>1. Kept(b, u)
    BY <1>1, HandStays, ResendStays DEF Kept
  <2> QED
    BY <2>1, <1>1, WeightKept DEF Typed
<1>2. CASE Record(s)
  <2>1. at[s] = "record" /\ got' = got /\ faults' = faults
    BY <1>2 DEF Record
  <2> QED
    BY <1>2, <2>1, RecordWeight DEF NoHeavier
<1>3. CASE StepFails(s)
  <2>1. got' = got /\ faults' = faults + 1
    BY <1>3 DEF StepFails, Fault
  <2>2. CASE at[s] = "record"
    <3>1. PICK c \in Broadcasts, r \in Recipients : c = s[2] /\ r = Recorded(s)
      BY <2>1, <2>2, RecordWeight
    <3>2. \A b \in Broadcasts, u \in Recipients :
             /\ WeightAt(b, u)' <= WeightAt(b, u) + 1
             /\ <<b, u>> # <<c, r>> => WeightAt(b, u)' <= WeightAt(b, u)
      BY <2>1, <2>2, <3>1, RecordWeight
    <3>3. OneHeavier
      BY <3>2 DEF OneHeavier
    <3> QED
      BY <2>1, <3>3
  <2> QED
    BY <1>1, <2>1, <2>2
<1>4. CASE AnswerLost(s)
  <2>1. at[s] = "deliver" /\ Receives(s) /\ faults' = faults + 1
    BY <1>4 DEF AnswerLost, Fault
  <2>2. PICK c \in Broadcasts, r \in Recipients : c = s[2] /\ r = Recorded(s)
    BY <2>1, ReceiveWeight
  <2>3. \A b \in Broadcasts, u \in Recipients :
           /\ WeightAt(b, u)' <= WeightAt(b, u) + 1
           /\ <<b, u>> # <<c, r>> => WeightAt(b, u)' <= WeightAt(b, u)
    BY <2>1, <2>2, ReceiveWeight
  <2>4. OneHeavier
    BY <2>3 DEF OneHeavier
  <2> QED
    BY <2>1, <2>4
<1>5. CASE Send(s)
  <2>1. at[s] = "deliver" /\ faults' = faults /\ (Receives(s) \/ got' = got)
    BY <1>5 DEF Send
  <2>2. Receives(s) => NoHeavier
    BY <1>5, <2>1, ReceiveWeight DEF NoHeavier
  <2> QED
    BY <1>1, <2>1, <2>2
<1>6. CASE \/ Begin(s) \/ Release(s) \/ CheckStatus(s) \/ Claim(s) \/ TooMany(s)
           \/ Unauthorized(s) \/ GiveUp(s) \/ Finish(s) \/ TaskDies(s)
  <2>1. got' = got /\ at[s] # "record" /\ faults' \in {faults, faults + 1}
    BY <1>6 DEF Begin, Release, CheckStatus, Claim, TooMany, Unauthorized, GiveUp, Finish,
       TaskDies, Fault
  <2> QED
    BY <1>1, <2>1
<1> QED
  BY <1>2, <1>3, <1>4, <1>5, <1>6 DEF TaskStep, RunnerStep

\* A restart forgets the one message at hand, if there is one.
LEMMA RestartWeight ==
    ASSUME OneProcess, Typed, Typed', OneActive, TasksActive, NEW p \in Procs, Restart(p)
    PROVE  (NoHeavier \/ OneHeavier) /\ faults' = faults + 1
<1>1. got' = got /\ rcp' = rcp /\ faults' = faults + 1
  BY DEF Restart, Fault, tables
<1>2. ASSUME NEW b \in Broadcasts, NEW u \in Recipients
      PROVE  /\ WeightAt(b, u)' <= WeightAt(b, u) + 1
             /\ ~AtHand(b, u) => WeightAt(b, u)' <= WeightAt(b, u)
  BY <1>1, WeightKept DEF Kept, Resend, Typed
<1>3. CASE \A t \in Tasks : at[t] # "record"
  BY <1>1, <1>2, <1>3 DEF NoHeavier, AtHand
<1>4. ASSUME NEW s \in Tasks, at[s] = "record"
      PROVE  OneHeavier
  <2>1. s[2] \in Broadcasts /\ Recorded(s) \in Recipients
    BY <1>4, MinOf, TaskParts DEF Typed, TypeOK, TaskPlaces, Recorded
  <2>2. PICK c \in Broadcasts, r \in Recipients : c = s[2] /\ r = Recorded(s)
    BY <2>1
  <2>3. ASSUME NEW b \in Broadcasts, NEW u \in Recipients, AtHand(b, u)
        PROVE  b = c /\ u = r
    <3>1. PICK t \in Tasks : t[2] = b /\ at[t] = "record" /\ u = Recorded(t)
      BY <2>3 DEF AtHand
    <3>2. t[2] = s[2]
      BY <1>4, <3>1, TaskParts DEF TasksActive, OneActive, ActiveIds
    <3>3. t = s
      BY <3>2, OneTask
    <3> QED
      BY <2>2, <3>1, <3>3
  <2> QED
    BY <1>2, <2>3 DEF OneHeavier
<1> QED
  BY <1>1, <1>3, <1>4

\* A request sends nothing, and a new broadcast has sent nothing.
LEMMA RequestWeight ==
    ASSUME Typed, Typed', Requests, TasksActive, NEW c \in Broadcasts,
           \/ \E p \in Procs : AskCreate(p, c)
           \/ ControlCopy(c) \/ InsertBroadcast(c) \/ StartTask(c)
           \/ AskCancel(c) \/ EndCancel(c)
    PROVE  NoHeavier /\ faults' = faults
<1>1. /\ batch' = batch /\ got' = got /\ faults' = faults
      /\ \A t \in Tasks : at'[t] = at[t] \/ (at[t] = "off" /\ at'[t] = "begin")
  BY RequestFrame
<1> SUFFICES ASSUME NEW b \in Broadcasts, NEW u \in Recipients
             PROVE  WeightAt(b, u)' <= WeightAt(b, u)
  BY <1>1 DEF NoHeavier
<1>2. CASE rcp'[b] = rcp[b]
  <2>1. AtHand(b, u)' = AtHand(b, u)
    BY <1>1 DEF AtHand, Recorded
  <2>2. Kept(b, u)
    BY <1>1, <1>2, <2>1 DEF Kept, Resend
  <2> QED
    BY <1>1, <2>2, WeightKept DEF Typed
<1>3. CASE create[b] = "insert"
  <2>1. got[b][u] = 0 /\ got'[b][u] = 0
    BY <1>1, <1>3 DEF Requests
  <2>2. WeightAt(b, u) = 0 /\ WeightAt(b, u)' = 0
    BY <2>1 DEF WeightAt, Extra, Loose
  <2> QED
    BY <2>2
<1> QED
  BY <1>2, <1>3, RequestFrame

\* So the weight never exceeds the faults.
LEMMA NextWeights ==
    ASSUME OneProcess, Typed, OneActive, Requests, TasksActive, ClaimsHeld, FewWeights, [Next]_vars
    PROVE  FewWeights'
<1> DEFINE S == Broadcasts \X Recipients
<1>1. IsFiniteSet(S)
  BY BroadcastConstants, FS_Product
<1>2. Typed'
  BY NextTyped
<1>3. /\ faults \in Nat /\ faults' \in Nat
      /\ (NoHeavier /\ faults' \in {faults, faults + 1}) \/ (OneHeavier /\ faults' = faults + 1)
  <2>1. faults \in Nat /\ faults' \in Nat
    BY <1>2 DEF Typed, TypeOK
  <2>2. CASE UNCHANGED vars
    <3>1. faults' = faults
      BY <2>2 DEF vars
    <3>2. NoHeavier
      <4> SUFFICES ASSUME NEW b \in Broadcasts, NEW u \in Recipients
                   PROVE  WeightAt(b, u)' <= WeightAt(b, u)
        BY DEF NoHeavier
      <4>1. WeightAt(b, u)' = WeightAt(b, u)
        BY <2>2 DEF vars, tables, runner, WeightAt, Extra, Loose, AtHand, Recorded
      <4>2. WeightAt(b, u) \in Nat
        BY WeightNat DEF Typed
      <4> QED
        BY <4>1, <4>2
    <3> QED
      BY <2>1, <3>1, <3>2
  <2>3. CASE Next
    <3>1. \/ \E c \in Broadcasts :
               \/ \E p \in Procs : AskCreate(p, c)
               \/ ControlCopy(c) \/ InsertBroadcast(c) \/ StartTask(c)
               \/ AskCancel(c) \/ EndCancel(c)
          \/ \E s \in Tasks : TaskStep(s)
          \/ \E p \in Procs : Restart(p)
      BY <2>3 DEF Next, TaskStep
    <3> QED
      BY <1>2, <2>1, <3>1, RequestWeight, TaskWeight, RestartWeight
  <2> QED
    BY <2>2, <2>3
<1> DEFINE f == Weight
           g == Weight'
<1>4. \A x \in S : /\ x[1] \in Broadcasts /\ x[2] \in Recipients /\ x = <<x[1], x[2]>>
                   /\ f[x] = WeightAt(x[1], x[2]) /\ g[x] = WeightAt(x[1], x[2])'
  BY DEF Weight, WeightAt
<1>5. \A x \in S : f[x] \in Nat /\ g[x] \in Nat
  BY <1>2, <1>4, WeightNat DEF Typed
<1>6. SumFunctionOnSet(f, S) <= faults
  BY DEF FewWeights
<1>7. SumFunctionOnSet(f, S) \in Nat /\ SumFunctionOnSet(g, S) \in Nat
  <2> HIDE DEF f, g, S
  <2> QED
    BY <1>1, <1>5, SumNat
<1>8. CASE NoHeavier /\ faults' \in {faults, faults + 1}
  <2>1. \A x \in S : g[x] <= f[x]
    BY <1>4, <1>8 DEF NoHeavier
  <2> HIDE DEF f, g, S
  <2>2. SumFunctionOnSet(g, S) <= SumFunctionOnSet(f, S)
    BY <1>1, <1>5, <2>1, SumBelow
  <2>3. SumFunctionOnSet(g, S) <= faults'
    BY <1>3, <1>6, <1>7, <1>8, <2>2
  <2> QED
    BY <2>3 DEF FewWeights, g, S
<1>9. CASE OneHeavier /\ faults' = faults + 1
  <2>1. PICK c \in Broadcasts, r \in Recipients :
           \A b \in Broadcasts, u \in Recipients :
              /\ WeightAt(b, u)' <= WeightAt(b, u) + 1
              /\ <<b, u>> # <<c, r>> => WeightAt(b, u)' <= WeightAt(b, u)
    BY <1>9 DEF OneHeavier
  <2> DEFINE a == <<c, r>>
  <2>2. a \in S
    OBVIOUS
  <2>3. \A x \in S : g[x] <= f[x] + 1 /\ (x # a => g[x] <= f[x])
    BY <1>4, <2>1
  <2> HIDE DEF f, g, S, a
  <2>4. SumFunctionOnSet(g, S) <= SumFunctionOnSet(f, S) + 1
    BY <1>1, <1>5, <2>2, <2>3, SumRises
  <2>5. SumFunctionOnSet(g, S) <= faults'
    BY <1>3, <1>6, <1>7, <1>9, <2>4
  <2> QED
    BY <2>5 DEF FewWeights, g, S
<1> QED
  BY <1>3, <1>8, <1>9
-----------------------------------------------------------------------------
(* With one process: the theorems                                          *)

BroadcastInv ==
    Typed /\ OneActive /\ Requests /\ TasksActive /\ ClaimsHeld /\ DoneComplete /\ FewWeights

\* The inductive invariant.
LEMMA InitBroadcastInv == Init => BroadcastInv
<1> SUFFICES ASSUME Init PROVE BroadcastInv
  OBVIOUS
<1>1. Typed /\ Requests /\ TasksActive
  BY InitTyped, InitRow
<1>2. OneActive
  BY DEF Init, OneActive, ActiveIds, Active
<1>3. ClaimsHeld /\ DoneComplete
  BY TaskParts DEF Init, ClaimsHeld, DoneComplete, Final
<1>4. FewWeights
  <2> DEFINE S == Broadcasts \X Recipients
  <2>1. IsFiniteSet(S)
    BY BroadcastConstants, FS_Product
  <2>2. \A x \in S : Weight[x] = 0
    BY DEF Weight, Extra, Loose, Init
  <2> HIDE DEF S
  <2>3. SumFunctionOnSet(Weight, S) = 0
    BY <2>1, <2>2, SumZero
  <2>4. faults = 0
    BY DEF Init
  <2> QED
    BY <2>3, <2>4 DEF FewWeights, S
<1> QED
  BY <1>1, <1>2, <1>3, <1>4 DEF BroadcastInv

\* It is one, with one process.
LEMMA BroadcastInvHolds == OneProcess => (Spec => []BroadcastInv)
<1> SUFFICES ASSUME OneProcess PROVE Spec => []BroadcastInv
  OBVIOUS
<1>1. Init => BroadcastInv
  BY InitBroadcastInv
<1>2. BroadcastInv /\ [Next]_vars => BroadcastInv'
  <2> SUFFICES ASSUME BroadcastInv, [Next]_vars PROVE BroadcastInv'
    OBVIOUS
  <2>1. /\ Typed /\ OneActive /\ Requests /\ TasksActive
        /\ ClaimsHeld /\ DoneComplete /\ FewWeights
    BY DEF BroadcastInv
  <2>2. Typed' /\ OneActive'
    BY <2>1, NextTyped, NextOneActive
  <2>3. Requests' /\ TasksActive' /\ ClaimsHeld'
    BY <2>1, NextRequests, NextTasksActive, NextClaims
  <2>4. DoneComplete' /\ FewWeights'
    BY <2>1, NextDone, NextWeights
  <2> QED
    BY <2>2, <2>3, <2>4 DEF BroadcastInv
<1> QED
  BY <1>1, <1>2, PTL DEF Spec

\* With one process: a broadcast that is done has an outcome for everybody in
\* its segment, and there are no more duplicates than faults.
THEOREM SentToAllOnceHolds == OneProcess => (Spec => []SentToAllOnce)
<1>1. BroadcastInv => SentToAllOnce
  <2> SUFFICES ASSUME BroadcastInv PROVE SentToAllOnce
    OBVIOUS
  <2>1. DoneIsComplete
    BY DEF BroadcastInv, DoneComplete, Complete, DoneIsComplete
  <2>2. FewDuplicates
    <3> DEFINE S == Broadcasts \X Recipients
    <3>1. IsFiniteSet(S)
      BY BroadcastConstants, FS_Product
    <3>2. \A x \in S : /\ Weight[x] \in Nat /\ Duplicates[x] \in Nat
                       /\ Duplicates[x] <= Weight[x]
      <4> SUFFICES ASSUME NEW b \in Broadcasts, NEW u \in Recipients
                   PROVE  /\ Weight[<<b, u>>] \in Nat /\ Duplicates[<<b, u>>] \in Nat
                          /\ Duplicates[<<b, u>>] <= Weight[<<b, u>>]
        OBVIOUS
      <4>1. /\ Weight[<<b, u>>] = Extra(b, u) + Loose(b, u)
            /\ Duplicates[<<b, u>>] = Extra(b, u)
        BY DEF Weight, Duplicates
      <4>2. Extra(b, u) \in Nat /\ Loose(b, u) \in {0, 1}
        BY WeightNat DEF BroadcastInv, Typed
      <4> QED
        BY <4>1, <4>2
    <3>3. SumFunctionOnSet(Weight, S) <= faults /\ faults \in Nat
      BY DEF BroadcastInv, FewWeights, Typed, TypeOK
    <3> HIDE DEF S
    <3>4. SumFunctionOnSet(Duplicates, S) <= SumFunctionOnSet(Weight, S)
      BY <3>1, <3>2, SumBelow
    <3>5. SumFunctionOnSet(Duplicates, S) \in Nat /\ SumFunctionOnSet(Weight, S) \in Nat
      BY <3>1, <3>2, SumNat
    <3>6. SumFunctionOnSet(Duplicates, S) <= faults
      BY <3>3, <3>4, <3>5
    <3> QED
      BY <3>6 DEF FewDuplicates, S
  <2> QED
    BY <2>1, <2>2 DEF SentToAllOnce
<1> QED
  BY <1>1, BroadcastInvHolds, PTL

\* With one process: no step changes the status of a broadcast that is over,
\* or sends a message of it.
THEOREM OverIsOverHolds == OneProcess => (Spec => OverIsOver)
<1> SUFFICES ASSUME OneProcess PROVE Spec => OverIsOver
  OBVIOUS
<1>1. ASSUME BroadcastInv, [Next]_vars, NEW b \in Broadcasts, status[b] \in Final
      PROVE  status'[b] = status[b] /\ got'[b] = got[b]
  <2>1. Typed /\ Requests /\ TasksActive
    BY <1>1 DEF BroadcastInv
  <2>2. status'[b] = status[b]
    <3>1. ~InsertBroadcast(b)
      BY <1>1, <2>1 DEF InsertBroadcast, Requests, Final
    <3> QED
      BY <1>1, <2>1, <3>1, StatusSteps DEF Final, Active
  <2>3. got'[b] = got[b]
    <3>1. ASSUME NEW t \in Tasks, Receives(t), at[t] = "deliver" PROVE got'[b] = got[b]
      <4>1. t[2] # b
        BY <1>1, <2>1, <3>1 DEF TasksActive, Active, Final
      <4> QED
        BY <2>1, <3>1, <4>1, TaskParts DEF Receives, Typed, TypeOK
    <3> QED
      BY <1>1, <2>1, <3>1, GotSteps
  <2> QED
    BY <2>2, <2>3
<1>2. BroadcastInv /\ [Next]_vars =>
         [\A b \in Broadcasts : status[b] \in Final =>
             status'[b] = status[b] /\ got'[b] = got[b]]_vars
  BY <1>1
<1>3. Spec => []BroadcastInv
  BY BroadcastInvHolds
<1> QED
  BY <1>2, <1>3, PTL DEF Spec, OverIsOver
=============================================================================
