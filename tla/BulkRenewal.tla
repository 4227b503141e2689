----------------------------- MODULE BulkRenewal ------------------------------
(***************************************************************************)
(* The mass renewal of all live paid keys: a background task per start, in *)
(* the memory of the process, with a pool of workers over one queue.  The  *)
(* endpoint lists the keys before it asks the registry for a start.  What  *)
(* one renewal does is KeyRenewal.                                         *)
(***************************************************************************)
EXTENDS Naturals, Sequences, FiniteSets, JobRegistry

CONSTANTS
    Emails,         \* the live paid keys
    Requests,       \* start requests; each may become a task
    Workers,        \* _CONCURRENCY of them
    KeepFinished,
    BulkRestarts

ASSUME BulkConstants ==
    /\ IsFiniteSet(Emails) /\ {"none", "ready", "over"} \cap Emails = {}
    /\ IsFiniteSet(Workers) /\ Workers # {}
    /\ KeepFinished \in Nat

VARIABLES
    asked,          \* where each request is
    listed,         \* the keys it found
    expected,       \* whether the admin sent the count of the preview
    registry,       \* _jobs in the order of insertion
    job,            \* what the registry holds of each task
    queue,          \* the keys a task has left
    worker,         \* what each worker of a task is doing
    cancelling,     \* tasks whose event is set
    taken, renewed, \* history: keys each task took up, and renewed
    restarts

bulkVars == <<asked, listed, expected, registry, job, queue, worker, cancelling,
              taken, renewed, restarts>>

NoTask == [status |-> "none", processed |-> 0, success |-> 0, failed |-> 0, total |-> 0]

BulkInit ==
    /\ asked = [r \in Requests |-> "none"]
    /\ listed = [r \in Requests |-> {}]
    /\ expected \in [Requests -> {0, Cardinality(Emails)}]
    /\ registry = <<>>
    /\ job = [r \in Requests |-> NoTask]
    /\ queue = [r \in Requests |-> {}]
    /\ worker = [r \in Requests |-> [w \in Workers |-> "none"]]
    /\ cancelling = {}
    /\ taken = [r \in Requests |-> [e \in Emails |-> 0]]
    /\ renewed = [r \in Requests |-> {}]
    /\ restarts = 0

Known == {registry[i] : i \in DOMAIN registry}
Active == {r \in Known : job[r].status = "running"}

-----------------------------------------------------------------------------
(* POST /keys/bulk-renewals                                                *)
\* list_active_paid_emails: a key may have expired since the preview.
ListKeys(r) ==
    /\ asked[r] = "none"
    /\ \E found \in SUBSET Emails :
          /\ Cardinality(Emails \ found) <= 1
          /\ listed' = [listed EXCEPT ![r] = found]
          /\ asked' = [asked EXCEPT ![r] =
                IF found = {} \/ (expected[r] > 0 /\ expected[r] # Cardinality(found))
                THEN "refused" ELSE "start"]
    /\ UNCHANGED <<expected, registry, job, queue, worker, cancelling, taken, renewed,
                   restarts>>

\* _prune drops the oldest finished ones.
Kept(seq, jobs) ==
    Pruned(seq, {i \in DOMAIN seq : jobs[seq[i]].status # "running"}, KeepFinished)

\* start: the check and the record without an await between.
CanStart == Active = {}
StartTask(r) ==
    /\ asked[r] = "start"
    /\ IF CanStart
       THEN /\ job' = [job EXCEPT ![r].status = "running",
                                  ![r].total = Cardinality(listed[r])]
            /\ registry' = Kept(Append(registry, r), job')
            /\ queue' = [queue EXCEPT ![r] = listed[r]]
            /\ worker' = [worker EXCEPT ![r] = [w \in Workers |-> "ready"]]
            /\ asked' = [asked EXCEPT ![r] = "started"]
       ELSE /\ asked' = [asked EXCEPT ![r] = "refused"]
            /\ UNCHANGED <<registry, job, queue, worker>>
    /\ UNCHANGED <<listed, expected, cancelling, taken, renewed,
                   restarts>>

-----------------------------------------------------------------------------
(* A worker                                                                *)
\* The event, then get_nowait: the worker ends or takes a key, in the fixed
\* order of the list.
TakeKey(r, w) ==
    /\ worker[r][w] = "ready"
    /\ IF r \in cancelling \/ queue[r] = {}
       THEN /\ worker' = [worker EXCEPT ![r][w] = "over"]
            /\ UNCHANGED <<queue, taken>>
       ELSE LET e == CHOOSE e \in queue[r] : TRUE
            IN /\ queue' = [queue EXCEPT ![r] = @ \ {e}]
               /\ worker' = [worker EXCEPT ![r][w] = e]
               /\ taken' = [taken EXCEPT ![r][e] = @ + 1]
    /\ UNCHANGED <<asked, listed, expected, registry, job, cancelling, renewed,
                   restarts>>

\* Mutant: a key that failed is not counted as processed.
Processed_Success(state, ok) ==
    IF ok THEN [state EXCEPT !.processed = @ + 1, !.success = @ + 1]
    ELSE [state EXCEPT !.failed = @ + 1]
\* The renewal succeeds, or any exception of it is counted and the next key
\* is taken.
Processed(state, ok) ==
    [state EXCEPT !.processed = @ + 1,
                  !.success = IF ok THEN @ + 1 ELSE @,
                  !.failed = IF ok THEN @ ELSE @ + 1]
RenewOne(r, w) ==
    /\ worker[r][w] \in Emails
    /\ \E ok \in BOOLEAN :
          /\ job' = [job EXCEPT ![r] = Processed(@, ok)]
          /\ renewed' = [renewed EXCEPT ![r] = IF ok THEN @ \cup {worker[r][w]} ELSE @]
    /\ worker' = [worker EXCEPT ![r][w] = "ready"]
    /\ UNCHANGED <<asked, listed, expected, registry, queue, cancelling, taken,
                   restarts>>

\* All workers gathered: done, or cancelled when the event is set.
EndTask(r) ==
    /\ job[r].status = "running" /\ r \in Known
    /\ \A w \in Workers : worker[r][w] = "over"
    /\ job' = [job EXCEPT ![r].status = IF r \in cancelling THEN "cancelled" ELSE "done"]
    /\ registry' = Kept(registry, job')
    /\ UNCHANGED <<asked, listed, expected, queue, worker, cancelling, taken, renewed,
                   restarts>>

\* POST .../cancel sets the event of a running task.
Cancel(r) ==
    /\ r \in Active /\ r \notin cancelling
    /\ cancelling' = cancelling \cup {r}
    /\ UNCHANGED <<asked, listed, expected, registry, job, queue, worker, taken, renewed,
                   restarts>>

\* The registry and its tasks are gone; what the workers did stays.
BulkRestart ==
    /\ restarts < BulkRestarts
    /\ restarts' = restarts + 1
    /\ registry' = <<>>
    /\ asked' = [r \in Requests |-> IF asked[r] = "start" THEN "refused" ELSE asked[r]]
    /\ job' = [r \in Requests |-> NoTask]
    /\ worker' = [r \in Requests |-> [w \in Workers |-> "none"]]
    /\ queue' = [r \in Requests |-> {}]
    /\ UNCHANGED <<listed, expected, cancelling, taken, renewed>>

BulkStep ==
    \/ \E r \in Requests :
          ListKeys(r) \/ StartTask(r) \/ EndTask(r) \/ Cancel(r)
          \/ \E w \in Workers : TakeKey(r, w) \/ RenewOne(r, w)
    \/ BulkRestart

-----------------------------------------------------------------------------
\* The figures an admin polls are the truth about the keys.  Tasks run one at a
\* time; a key is taken up at most once by a task; every key a finished task
\* took up is counted, as renewed or as failed; and a task reported done took
\* up every key it listed.
BulkAccounts ==
    /\ Cardinality({r \in Requests : \E w \in Workers : worker[r][w] \in Emails}) <= 1
    /\ \A r \in Requests, e \in Emails : taken[r][e] <= 1
    /\ \A r \in Known :
          LET took == {e \in Emails : taken[r][e] > 0}
              inHand == {w \in Workers : worker[r][w] \in Emails}
          IN /\ job[r].processed = Cardinality(took) - Cardinality(inHand)
             /\ job[r].success = Cardinality(renewed[r])
             /\ job[r].processed = job[r].success + job[r].failed
             /\ job[r].status # "running" => inHand = {}
             /\ job[r].status = "done" =>
                   took = listed[r] /\ job[r].processed = job[r].total

\* Not true: two requests that listed the keys before either started renew
\* them one after the other.
RenewedOnce ==
    \A e \in Emails : Cardinality({r \in Requests : e \in renewed[r]}) <= 1
=============================================================================
