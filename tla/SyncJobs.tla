------------------------------- MODULE SyncJobs -------------------------------
(***************************************************************************)
(* The registry of synchronisations.  An admin starts one and polls it by  *)
(* its id, the timer starts one every three hours, and only one may run.   *)
(* The locks around the flag and the registry hold no await, so each block *)
(* under them is one step.  What a synchronisation does is PanelSync.      *)
(***************************************************************************)
EXTENDS Naturals, Sequences, FiniteSets, JobRegistry

CONSTANTS
    JobIds,         \* as many as jobs are started
    KeepJobs,       \* finished jobs kept in the registry
    NoJob, Unknown,
    MaxRestarts

ASSUME SyncConstants ==
    /\ KeepJobs \in Nat
    /\ Unknown \notin JobIds \cup {NoJob}

VARIABLES
    syncing,        \* _sync_in_progress
    jobs,           \* _jobs in the order of insertion: [id, status]
    task,           \* what the task of each job is doing
    loaded,         \* history: jobs whose cache load went through
    told,           \* history: ids an admin was given, and not "unknown"
    refused,        \* history: the last id of a refusal, or NoJob
    later,          \* history: jobs finished after each job did
    syncRestarts

syncVars == <<syncing, jobs, task, loaded, told, refused, later, syncRestarts>>

Ids == {jobs[i].id : i \in DOMAIN jobs}
Status(j) == jobs[CHOOSE i \in DOMAIN jobs : jobs[i].id = j].status
Running == {j \in Ids : Status(j) = "running"}
FreeIds == {j \in JobIds : task[j] = "none"}

SyncInit ==
    /\ syncing = FALSE
    /\ jobs = <<>>
    /\ task = [j \in JobIds |-> "none"]
    /\ loaded = {}
    /\ told = {}
    /\ refused = NoJob
    /\ later = [j \in JobIds |-> 0]
    /\ syncRestarts = 0

-----------------------------------------------------------------------------
(* Starting: by an admin, whose request is answered at once, or by the     *)
(* timer, which skips its turn.                                            *)
\* Mutant: the flag alone is looked at, and a job just made is missed.
Busy_Flag == syncing
Busy == syncing \/ Running # {}

Register(j) ==
    /\ ~Busy
    /\ jobs' = Append(jobs, [id |-> j, status |-> "running"])
    /\ task' = [task EXCEPT ![j] = "ready"]
    /\ UNCHANGED <<syncing, loaded, refused, later, syncRestarts>>

StartJob ==
    \/ \E j \in FreeIds : Register(j) /\ told' = told \cup {j}
    \/ /\ Busy
       /\ refused' = IF Running = {} THEN Unknown ELSE CHOOSE j \in Running : TRUE
       /\ told' = told \cup (IF Running = {} THEN {} ELSE {refused'})
       /\ UNCHANGED <<syncing, jobs, task, loaded, later, syncRestarts>>

RunScheduled == \E j \in FreeIds : Register(j) /\ UNCHANGED told

-----------------------------------------------------------------------------
(* The task: run_sync_job around sync_cache                                *)
\* _set_job finishes the record and drops the oldest finished ones.
Finished(seq) == {i \in DOMAIN seq : seq[i].status # "running"}
SetJob(j, status) ==
    LET record == [id |-> j, status |-> status]
        done == IF j \notin Ids THEN Append(jobs, record)
                ELSE [i \in DOMAIN jobs |-> IF jobs[i].id = j THEN record ELSE jobs[i]]
    IN /\ jobs' = Pruned(done, Finished(done), KeepJobs)
       /\ later' = [k \in JobIds |->
                       IF k # j /\ k \in Ids /\ Status(k) # "running" THEN later[k] + 1
                       ELSE later[k]]

\* Another synchronisation in progress: the run is skipped, the job is done.
EnterSync(j) ==
    /\ task[j] = "ready"
    /\ IF syncing
       THEN SetJob(j, "done") /\ task' = [task EXCEPT ![j] = "over"] /\ UNCHANGED syncing
       ELSE /\ syncing' = TRUE
            /\ task' = [task EXCEPT ![j] = "load"]
            /\ UNCHANGED <<jobs, later>>
    /\ UNCHANGED <<loaded, told, refused, syncRestarts>>

LoadCache(j) ==
    /\ task[j] = "load"
    /\ loaded' = loaded \cup {j}
    /\ task' = [task EXCEPT ![j] = "panel"]
    /\ UNCHANGED <<syncing, jobs, told, refused, later, syncRestarts>>

\* The panel and the sweep swallow their failures, so a loaded cache is a
\* success.  The flag falls and the job is set without a wait between.
LeaveSync(j, status) ==
    /\ syncing' = FALSE
    /\ SetJob(j, status)
    /\ task' = [task EXCEPT ![j] = "over"]
    /\ UNCHANGED <<loaded, told, refused, syncRestarts>>
SyncPanel(j) == task[j] = "panel" /\ LeaveSync(j, "done")
LoadFails(j) == task[j] = "load" /\ LeaveSync(j, "error")

SyncRestart ==
    /\ syncRestarts < MaxRestarts
    /\ syncRestarts' = syncRestarts + 1
    /\ syncing' = FALSE
    /\ jobs' = <<>>
    /\ task' = [j \in JobIds |-> IF task[j] = "none" THEN "none" ELSE "over"]
    /\ told' = {}
    /\ refused' = NoJob
    /\ UNCHANGED <<loaded, later>>

SyncStep ==
    \/ StartJob \/ RunScheduled \/ SyncRestart
    \/ \E j \in JobIds : EnterSync(j) \/ LoadCache(j) \/ SyncPanel(j) \/ LoadFails(j)

-----------------------------------------------------------------------------
\* What an admin is told of a synchronisation is so.  One runs at a time; a job
\* reported done loaded the cache itself; a refusal names a job that can be
\* polled; and an id is forgotten only after as many later ones as are kept, or
\* with the process.
JobsAreHonest ==
    /\ Cardinality({j \in JobIds : task[j] \in {"load", "panel"}}) <= 1
    /\ \A j \in Ids : Status(j) = "done" => j \in loaded
    /\ refused # Unknown
    /\ \A j \in told : j \in Ids \/ later[j] >= KeepJobs
=============================================================================
