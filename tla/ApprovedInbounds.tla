-------------------------- MODULE ApprovedInbounds --------------------------
(***************************************************************************)
(* The set of approved inbounds: the table approved_inbounds, its cache,   *)
(* the admin requests that change it, the job that brings every client of  *)
(* the panel to it (services/core/panel/), and the other callers of        *)
(* set_inbounds.  The order of the set is left out.                        *)
(***************************************************************************)
EXTENDS Naturals, FiniteSets

CONSTANTS
    Inbounds, Env,          \* what the panel offers, and AVAILABLE_CONNECTIONS
    AtStart,                \* the possible tables when the process starts
    Approvals, Revocations, Syncs,  \* admin requests
    AboutOf,                \* the inbound of an approval or a revocation
    OldKeys, NewKeys,       \* keys with a row at the start, and keys to create
    Renewals, Edits,        \* callers of set_inbounds with and without the lock
    KeyOf,                  \* their key
    Concurrency,            \* _CONCURRENCY, the workers of a job
    MaxEvents,      \* bound on requests, other callers, creations, loads and faults
    Loader, Nil

Requests == Approvals \cup Revocations \cup Syncs
Reloaders == Requests \cup {Loader}
Workers == Requests \X (1..Concurrency)
Setters == Renewals \cup Edits \cup Workers
Keys == OldKeys \cup NewKeys

Sets == SUBSET Inbounds

\* AVAILABLE_CONNECTIONS names an inbound at least; the kinds of things are
\* distinct.
ASSUME InboundConstants ==
    /\ Env \in Sets \ {{}} /\ AtStart \subseteq Sets
    /\ AboutOf \in [Approvals \cup Revocations -> Inbounds]
    /\ KeyOf \in [Renewals \cup Edits -> Keys]
    /\ OldKeys \cap NewKeys = {} /\ (Renewals \cup Edits) \cap Workers = {}
    /\ Renewals \cap Edits = {} /\ Loader \notin Requests
    /\ Nil \notin Reloaders \cup Keys /\ \A s \in Sets : s # Nil

VARIABLES
    approved, cached,   \* the table and cache.approved_inbounds
    stage,              \* place of each request and of the load
    seen,               \* rows that a statement or a reload has read
    lock,               \* holder of _approved_reload_lock
    target, emails,     \* per request: what its job is going to do
    job, queue, failed, \* per request: state of its job
    canceled,           \* jobs whose cancel event is set
    rows, client,       \* keys with a row, and the inbounds of their clients
    create, chosen,     \* creation of a key: its place and its set
    set, key, goal, missing, extra,     \* per caller: place in set_inbounds
    loads, faults,
    ever, flawed, mixed, last   \* sets approved so far or asked for; keys whose last
                        \* change failed; keys that an edit changed together with
                        \* another caller; the job that was started last, until
                        \* another caller brings a set of its own

tables == <<approved, cached>>
requests == <<stage, seen, lock, target, emails>>
jobs == <<job, queue, failed, canceled>>
clients == <<rows, client>>
creation == <<create, chosen>>
settings == <<set, key, goal, missing, extra>>
bounds == <<loads, faults>>
record == <<ever, flawed, mixed, last>>
inboundVars == <<tables, requests, jobs, clients, creation, settings, bounds, record>>

InboundTypeOK ==
    /\ approved \in Sets /\ cached \in Sets
    /\ stage \in [Reloaders -> {"idle", "change", "reload", "fill", "resolve", "collect",
                             "start", "seed", "over"}]
    /\ stage[Loader] \in {"idle", "seed", "reload", "fill"}
    /\ seen \in [Reloaders -> Sets \cup {Nil}]
    /\ lock \in Reloaders \cup {Nil}
    /\ target \in [Requests -> Sets] /\ emails \in [Requests -> SUBSET Keys]
    /\ job \in [Requests -> {"none", "running", "done", "cancelled", "lost"}]
    /\ queue \in [Requests -> SUBSET Keys] /\ failed \in [Requests -> SUBSET Keys]
    /\ canceled \subseteq Requests
    /\ rows \subseteq Keys /\ client \in [Keys -> Sets]
    /\ create \in [NewKeys -> {"none", "panel", "save", "over"}]
    /\ chosen \in [NewKeys -> Sets]
    /\ set \in [Setters -> {"off", "wait", "read", "attach", "detach", "verify", "over"}]
    /\ key \in [Setters -> Keys \cup {Nil}]
    /\ goal \in [Setters -> Sets] /\ missing \in [Setters -> Sets] /\ extra \in [Setters -> Sets]
    /\ loads \in Nat /\ faults \in Nat
    /\ ever \subseteq Sets /\ flawed \subseteq Keys /\ mixed \subseteq Keys
    /\ last \in Requests \cup {Nil}

InboundInit ==
    /\ approved \in AtStart /\ cached = approved
    /\ stage = [r \in Reloaders |-> "idle"]
    /\ seen = [r \in Reloaders |-> Nil]
    /\ lock = Nil
    /\ target = [r \in Requests |-> {}] /\ emails = [r \in Requests |-> {}]
    /\ job = [r \in Requests |-> "none"]
    /\ queue = [r \in Requests |-> {}] /\ failed = [r \in Requests |-> {}]
    /\ canceled = {}
    /\ rows = OldKeys
    /\ client = [k \in Keys |-> IF k \in OldKeys THEN approved ELSE {}]
    /\ create = [k \in NewKeys |-> "none"] /\ chosen = [k \in NewKeys |-> {}]
    /\ set = [s \in Setters |-> "off"]
    /\ key = [s \in Setters |-> Nil]
    /\ goal = [s \in Setters |-> {}]
    /\ missing = [s \in Setters |-> {}] /\ extra = [s \in Setters |-> {}]
    /\ loads = 0 /\ faults = 0
    /\ ever = {approved} /\ flawed = {} /\ mixed = {} /\ last = Nil

Enter(r, place) == stage' = [stage EXCEPT ![r] = place]

Events ==
    Cardinality({r \in Requests : stage[r] # "idle"})
    + Cardinality({s \in Renewals \cup Edits : set[s] # "off"})
    + Cardinality({k \in NewKeys : create[k] # "none"})
    + loads + faults

Room == Events < MaxEvents
Fault == Room /\ faults' = faults + 1
ComesIn(r) == stage[r] = "idle" /\ Room

\* approved_inbound_ids: an empty cache stands for the set of the environment.
ApprovedIds == IF cached = {} THEN Env ELSE cached

\* The table gets a new value.
Approve(new) == approved' = new /\ ever' = ever \cup {new}

-----------------------------------------------------------------------------
(* Requests of the admin                                                   *)

\* approve: the panel has the inbound; it is added unless it is there.
Add(r) ==
    /\ r \in Approvals /\ ComesIn(r)
    /\ Approve(approved \cup {AboutOf[r]})
    /\ Enter(r, "reload")
    /\ UNCHANGED <<cached, seen, lock, target, emails, jobs, clients, creation, settings,
                   bounds, flawed, mixed, last>>

\* revoke: the inbound is looked up, and the statement that removes it begins
\* with the rows it sees.
Lookup(r) ==
    /\ r \in Revocations /\ ComesIn(r)
    /\ Enter(r, IF AboutOf[r] \in approved THEN "change" ELSE "over")
    /\ UNCHANGED <<tables, seen, lock, target, emails, jobs, clients, creation, settings,
                   bounds, record>>

CountRows(r) ==
    /\ r \in Revocations /\ stage[r] = "change" /\ seen[r] = Nil
    /\ seen' = [seen EXCEPT ![r] = approved]
    /\ UNCHANGED <<tables, stage, lock, target, emails, jobs, clients, creation, settings,
                   bounds, record>>

MayRemove(r) == AboutOf[r] \in approved /\ Cardinality(seen[r]) > 1

\* remove_if_not_last; otherwise 409.
RemoveRow(r) ==
    /\ r \in Revocations /\ stage[r] = "change" /\ seen[r] # Nil
    /\ seen' = [seen EXCEPT ![r] = Nil]
    /\ IF MayRemove(r)
       THEN Approve(approved \ {AboutOf[r]}) /\ Enter(r, "reload")
       ELSE Enter(r, "over") /\ UNCHANGED <<approved, ever>>
    /\ UNCHANGED <<cached, lock, target, emails, jobs, clients, creation, settings, bounds,
                   flawed, mixed, last>>

AskSync(r) ==
    /\ r \in Syncs /\ ComesIn(r)
    /\ Enter(r, "resolve")
    /\ UNCHANGED <<tables, seen, lock, target, emails, jobs, clients, creation, settings,
                   bounds, record>>

\* Mutant: the reload does not wait for another one.
LockIsFree_Never == TRUE
LockIsFree == lock = Nil

\* reload_approved_inbounds: rows are read and then cached, under the lock.
ReloadRead(r) ==
    /\ stage[r] = "reload" /\ LockIsFree
    /\ lock' = r
    /\ seen' = [seen EXCEPT ![r] = approved]
    /\ Enter(r, "fill")
    /\ UNCHANGED <<tables, target, emails, jobs, clients, creation, settings, bounds, record>>

AfterReload(r) == IF r = Loader THEN "idle" ELSE "resolve"

ReloadFill(r) ==
    /\ stage[r] = "fill"
    /\ cached' = seen[r]
    /\ lock' = Nil
    /\ seen' = [seen EXCEPT ![r] = Nil]
    /\ Enter(r, AfterReload(r))
    /\ UNCHANGED <<approved, target, emails, jobs, clients, creation, settings, bounds, record>>

\* What a request may ask for: a sync names any approved inbounds, one at
\* least, or none and means all; the others mean all.
Asked(r) == IF r \in Syncs THEN (SUBSET ApprovedIds) \ {{}} ELSE {ApprovedIds}

\* The target of the job is what is asked for at this moment; the panel must
\* have it, and the request may ask for no job at all.
Resolve(r) ==
    /\ r \in Requests /\ stage[r] = "resolve"
    /\ \E asked \in Asked(r) :
          target' = [target EXCEPT ![r] = asked] /\ ever' = ever \cup {asked}
    /\ \E place \in {"collect", "over"} : Enter(r, place)
    /\ UNCHANGED <<tables, seen, lock, emails, jobs, clients, creation, settings, bounds,
                   flawed, mixed, last>>

\* _run_sync: the e-mails of all keys; without any there is nothing to do.
Collect(r) ==
    /\ r \in Requests /\ stage[r] = "collect"
    /\ emails' = [emails EXCEPT ![r] = rows]
    /\ Enter(r, IF rows = {} THEN "over" ELSE "start")
    /\ UNCHANGED <<tables, seen, lock, target, jobs, clients, creation, settings, bounds,
                   record>>

NoJobRuns == \A r \in Requests : job[r] # "running"

\* InboundSyncJobs.start; 409 while a job runs.
StartJob(r) ==
    /\ r \in Requests /\ stage[r] = "start"
    /\ Enter(r, "over")
    /\ IF NoJobRuns
       THEN /\ job' = [job EXCEPT ![r] = "running"]
            /\ queue' = [queue EXCEPT ![r] = emails[r]]
            /\ last' = r
       ELSE UNCHANGED <<job, queue, last>>
    /\ UNCHANGED <<tables, seen, lock, target, emails, failed, canceled, clients, creation,
                   settings, bounds, ever, flawed, mixed>>

Cancel(r) ==
    /\ job[r] = "running" /\ r \notin canceled
    /\ canceled' = canceled \cup {r}
    /\ UNCHANGED <<tables, requests, job, queue, failed, clients, creation, settings,
                   bounds, record>>

-----------------------------------------------------------------------------
(* set_inbounds and its callers                                            *)

Move(s, place) == set' = [set EXCEPT ![s] = place]

\* The call is over.
Return(s, place) == Move(s, place) /\ goal' = [goal EXCEPT ![s] = {}]

\* renewal_lock is held by renewals and by the workers of a job.
Locking == Renewals \cup Workers
Changing(s) == set[s] \in {"read", "attach", "detach", "verify"}
\* Mutant: one who waits for the lock counts as its holder.
KeyIsFree_Waiting(k) == \A s \in Locking : key[s] = k => set[s] \in {"off", "over"}
\* Mutant: every caller has a lock of its own.
KeyIsFree_Always(k) == TRUE
KeyIsFree(k) == \A s \in Locking : key[s] = k => ~Changing(s)

\* A caller comes to a key that another changes, and one of them is an edit.
Meets(s, k) ==
    \E t \in Setters \ {s} :
        Changing(t) /\ key[t] = k /\ (s \in Edits \/ t \in Edits)
Join(s, k) == mixed' = IF Meets(s, k) THEN mixed \cup {k} ELSE mixed

\* bulk renewal under the lock, change of date or tariff without it.
CallSet(s) ==
    /\ s \in Renewals \cup Edits /\ set[s] = "off" /\ Room
    /\ KeyOf[s] \in rows
    /\ s \in Renewals => KeyIsFree(KeyOf[s])
    /\ key' = [key EXCEPT ![s] = KeyOf[s]]
    /\ goal' = [goal EXCEPT ![s] = ApprovedIds]
    /\ Move(s, "read") /\ Join(s, KeyOf[s])
    /\ last' = IF last # Nil /\ ApprovedIds # target[last] THEN Nil ELSE last
    /\ UNCHANGED <<tables, requests, jobs, clients, creation, missing, extra, bounds, ever,
                   flawed>>

\* A worker takes the next key, unless the job was canceled.
Take(w) ==
    LET r == w[1] IN
    /\ w \in Workers /\ set[w] = "off" /\ job[r] = "running" /\ r \notin canceled
    /\ \E k \in queue[r] : /\ queue' = [queue EXCEPT ![r] = @ \ {k}]
                           /\ key' = [key EXCEPT ![w] = k]
    /\ goal' = [goal EXCEPT ![w] = target[r]]
    /\ Move(w, "wait")
    /\ UNCHANGED <<tables, requests, job, failed, canceled, clients, creation, missing,
                   extra, bounds, record>>

LockKey(w) ==
    /\ w \in Workers /\ set[w] = "wait" /\ KeyIsFree(key[w])
    /\ Move(w, "read") /\ Join(w, key[w])
    /\ UNCHANGED <<tables, requests, jobs, clients, creation, key, goal, missing, extra,
                   bounds, ever, flawed, last>>

\* Only what differs is changed; nothing to change is a success.
ReadClient(s) ==
    LET now == client[key[s]] IN
    /\ set[s] = "read"
    /\ missing' = [missing EXCEPT ![s] = goal[s] \ now]
    /\ extra' = [extra EXCEPT ![s] = now \ goal[s]]
    /\ Move(s, "attach")
    /\ UNCHANGED <<tables, requests, jobs, clients, creation, key, goal, bounds, record>>

\* Each inbound is a call of its own; a failed one does not stop the others.
Attach(s) ==
    /\ set[s] = "attach"
    /\ \E done \in SUBSET missing[s] :
          /\ client' = [client EXCEPT ![key[s]] = @ \cup done]
          /\ IF done = missing[s] THEN UNCHANGED <<faults, flawed>>
                                  ELSE Fault /\ flawed' = flawed \cup {key[s]}
    /\ missing' = [missing EXCEPT ![s] = {}]
    /\ Move(s, "detach")
    /\ UNCHANGED <<tables, requests, jobs, rows, creation, key, goal, extra, loads, ever, mixed, last>>

Detach(s) ==
    /\ set[s] = "detach"
    /\ \E done \in SUBSET extra[s] :
          /\ client' = [client EXCEPT ![key[s]] = @ \ done]
          /\ IF done = extra[s] THEN UNCHANGED <<faults, flawed>>
                                ELSE Fault /\ flawed' = flawed \cup {key[s]}
    /\ extra' = [extra EXCEPT ![s] = {}]
    /\ IF s \in Workers THEN Move(s, "verify") /\ UNCHANGED goal ELSE Return(s, "over")
    /\ UNCHANGED <<tables, requests, jobs, rows, creation, key, missing, loads, ever, mixed, last>>

\* Mutant: the job believes every call.
Reached_Believed(w) == TRUE
Reached(w) == client[key[w]] = goal[w]

\* A worker reads the client again; what is not as wanted is a failure.
Verify(w) ==
    LET r == w[1] IN
    /\ w \in Workers /\ set[w] = "verify"
    /\ IF Reached(w)
       THEN /\ flawed' = flawed \ {key[w]}
            /\ mixed' = IF Meets(w, key[w]) THEN mixed ELSE mixed \ {key[w]}
            /\ UNCHANGED failed
       ELSE /\ failed' = [failed EXCEPT ![r] = @ \cup {key[w]}]
            /\ UNCHANGED <<flawed, mixed>>
    /\ Return(w, "off")
    /\ key' = [key EXCEPT ![w] = Nil]
    /\ UNCHANGED <<tables, requests, job, queue, canceled, clients, creation, missing,
                   extra, bounds, ever, last>>

\* The panel does not answer when the client is read.
CallFails(s) ==
    /\ set[s] \in {"read", "verify"} /\ Fault
    /\ IF s \in Workers
       THEN /\ failed' = [failed EXCEPT ![s[1]] = @ \cup {key[s]}]
            /\ key' = [key EXCEPT ![s] = Nil]
            /\ Return(s, "off")
       ELSE Return(s, "over") /\ UNCHANGED <<failed, key>>
    /\ UNCHANGED <<tables, requests, job, queue, canceled, clients, creation, missing,
                   extra, loads, record>>

\* The workers are through with the queue, or have stopped.
EndJob(r) ==
    /\ job[r] = "running"
    /\ queue[r] = {} \/ r \in canceled
    /\ \A w \in Workers : w[1] = r => set[w] = "off"
    /\ job' = [job EXCEPT ![r] = IF r \in canceled THEN "cancelled" ELSE "done"]
    /\ UNCHANGED <<tables, requests, queue, failed, canceled, clients, creation, settings,
                   bounds, record>>

-----------------------------------------------------------------------------
(* Creation of a key                                                       *)

ChooseSet(k) ==
    /\ create[k] = "none" /\ Room
    /\ chosen' = [chosen EXCEPT ![k] = ApprovedIds]
    /\ create' = [create EXCEPT ![k] = "panel"]
    /\ UNCHANGED <<tables, requests, jobs, clients, settings, bounds, record>>

AddClient(k) ==
    /\ create[k] = "panel"
    /\ client' = [client EXCEPT ![k] = chosen[k]]
    /\ create' = [create EXCEPT ![k] = "save"]
    /\ UNCHANGED <<tables, requests, jobs, rows, chosen, settings, bounds, record>>

SaveKey(k) ==
    /\ create[k] = "save"
    /\ rows' = rows \cup {k}
    /\ create' = [create EXCEPT ![k] = "over"]
    /\ UNCHANGED <<tables, requests, jobs, client, chosen, settings, bounds, record>>

-----------------------------------------------------------------------------
(* Loading of the cache, and a restart                                     *)

\* loading: a table without rows is filled from the environment.
Load ==
    /\ stage[Loader] = "idle" /\ Room
    /\ loads' = loads + 1
    /\ Enter(Loader, IF approved = {} THEN "seed" ELSE "reload")
    /\ UNCHANGED <<tables, seen, lock, target, emails, jobs, clients, creation, settings,
                   faults, record>>

Seed ==
    /\ stage[Loader] = "seed"
    /\ Approve(approved \cup Env)
    /\ Enter(Loader, "reload")
    /\ UNCHANGED <<cached, seen, lock, target, emails, jobs, clients, creation, settings,
                   bounds, flawed, mixed, last>>

\* The process stops and comes back with a loaded cache: requests, jobs and
\* calls are gone, clients in the middle of a change stay as they are.
Restart ==
    /\ Fault
    /\ Approve(IF approved = {} THEN Env ELSE approved)
    /\ cached' = IF approved = {} THEN Env ELSE approved
    /\ stage' = [r \in Reloaders |-> IF r = Loader \/ stage[r] = "idle" THEN "idle" ELSE "over"]
    /\ seen' = [r \in Reloaders |-> Nil]
    /\ lock' = Nil
    /\ job' = [r \in Requests |-> IF job[r] = "none" THEN "none" ELSE "lost"]
    /\ queue' = [r \in Requests |-> {}]
    /\ create' = [k \in NewKeys |-> IF create[k] = "none" THEN "none" ELSE "over"]
    /\ flawed' = flawed \cup {key[s] : s \in {s \in Setters : Changing(s)}}
    /\ set' = [s \in Setters |-> IF s \in Workers \/ set[s] = "off" THEN "off" ELSE "over"]
    /\ key' = [s \in Setters |-> Nil] /\ goal' = [s \in Setters |-> {}]
    /\ missing' = [s \in Setters |-> {}] /\ extra' = [s \in Setters |-> {}]
    /\ UNCHANGED <<target, emails, failed, canceled, clients, chosen, loads, mixed, last>>

SetStep(s) ==
    \/ CallSet(s) \/ ReadClient(s) \/ Attach(s) \/ Detach(s)
    \/ Take(s) \/ LockKey(s) \/ Verify(s) \/ CallFails(s)

InboundNext ==
    \/ \E r \in Requests :
          \/ Add(r) \/ Lookup(r) \/ CountRows(r) \/ RemoveRow(r) \/ AskSync(r)
          \/ Resolve(r) \/ Collect(r) \/ StartJob(r) \/ Cancel(r) \/ EndJob(r)
    \/ \E r \in Reloaders : ReloadRead(r) \/ ReloadFill(r)
    \/ \E s \in Setters : SetStep(s)
    \/ \E k \in NewKeys : ChooseSet(k) \/ AddClient(k) \/ SaveKey(k)
    \/ Load \/ Seed \/ Restart

InboundSpec == InboundInit /\ [][InboundNext]_inboundVars

\* The event loop runs every task that can go on, calls time out, and a lock
\* that is left goes to somebody who waits for it.
FairInboundSpec ==
    /\ InboundSpec
    /\ \A r \in Requests : WF_inboundVars(EndJob(r))
    /\ \A s \in Setters :
          WF_inboundVars(ReadClient(s) \/ Attach(s) \/ Detach(s)
                         \/ Verify(s) \/ Take(s) \/ LockKey(s))

-----------------------------------------------------------------------------
(* Properties                                                              *)

\* The table is never emptied (docstrings of remove_if_not_last and revoke).
\* It does not hold.
NeverEmpty == approved # {}

\* When no change is on its way to the cache, the cache is the table: of two
\* overlapping reloads the later one has read the later rows
\* (_approved_reload_lock).
CacheFollows ==
    (\A r \in Reloaders : stage[r] \notin {"reload", "fill", "seed"}) => cached = approved

\* One job at a time (the docstring of InboundSyncJobs.start).
OneJob == \A r, q \in Requests : job[r] = "running" /\ job[q] = "running" => r = q

AtRest(k) == \A s \in Setters : key[s] = k => ~Changing(s)

\* A client that nobody is changing, and whose last change neither failed nor met
\* an edit, has a set that was approved or asked for at some time, or the
\* fallback, never a mixture of two (comment of sync_one_client).
WholeSets ==
    \A k \in rows \ (flawed \cup mixed) : AtRest(k) => client[k] \in ever \cup {Env}

\* The lock of a key keeps a sync from mixing with the set_inbounds of another
\* caller: "the synchronisation must not mix with extend_client_key /
\* set_inbounds of the same key" (lines 35-36 of sync_jobs.py).  It does not
\* hold: the edits of the admin take no lock.
NeverMixed == \A k \in rows \ flawed : AtRest(k) => client[k] \in ever \cup {Env}

\* Callers of set_inbounds are given something to attach, even while the table
\* or the cache is empty: a key without inbounds has no VPN
\* (approved_inbound_ids).
SomethingToAttach ==
    /\ \A s \in Setters : Changing(s) => goal[s] # {}
    /\ \A k \in NewKeys : create[k] # "none" => chosen[k] # {}

\* All three, of the keys and the jobs that change them.
JobsAreWhole == OneJob /\ WholeSets /\ SomethingToAttach

Quiet ==
    /\ \A r \in Requests : stage[r] \in {"idle", "over"} /\ job[r] # "running"
    /\ \A s \in Setters : ~Changing(s)

Succeeded(r) == job[r] = "done" /\ failed[r] = {}

\* When the last job is done without failures, and no caller with another set
\* began meanwhile, every key it collected has the set that it was asked for
\* (docstring of admin_inbounds.py), but for those whose change by another
\* caller failed, or met an edit.
Converged ==
    Quiet /\ last # Nil /\ Succeeded(last) =>
        \A k \in emails[last] \ (flawed \cup mixed) : client[k] = target[last]

\* Two changes whose jobs both ran to the end without failures have both been
\* applied to the clients (the parameter sync of admin_revoke_inbound).
BothApplied ==
    Quiet /\ (\A r \in Requests : Succeeded(r)) =>
        \A k \in rows \ flawed : client[k] = approved

\* A job ends, whatever its calls answer and whoever holds the keys.
JobsEnd == []<>(\A r \in Requests : job[r] # "running")
=============================================================================
