----------------------------- MODULE KeyRenewal -----------------------------
(***************************************************************************)
(* The expiry of one key in its three stores - the keys row, the 3x-ui     *)
(* panel and the keys cache of each process - and everything that moves    *)
(* it: paid renewals (renewal_service.py) of the web application and of    *)
(* the sweep script, free renewals and both admin renewals, the two admin  *)
(* edits, the channel bonus and the cache reload of the scheduler.         *)
(*                                                                         *)
(* Time is counted in days.  One step is one database statement, one panel *)
(* operation or one stretch of Python between two awaits.                  *)
(***************************************************************************)
EXTENDS Naturals, FiniteSets, FiniteSetsExt

CONSTANTS
    Payments,       \* renew_key payments for this key
    Procs,          \* {"app"} or {"app", "sweep"}
    FreeRenewals,   \* PATCH /keys/{email} requests
    BulkRenewals,   \* renew_key_by_days of the admin and of a bulk job
    Edits,          \* admin requests changing the date or the tariff
    EditDates,      \* the dates an edit may set
    NamedTariffs,   \* whether a tariff that a request names is the trial's:
                    \* {FALSE}, {TRUE} or both
    Bonuses,        \* channel bonus claims of the owner of the key
    Period,         \* the days each renewal, payment or bonus adds
    InitialExpiry, TrialEnd,
    InitialTrials,  \* {TRUE}, {FALSE} or both: whether the key begins as a trial
    MaxNow,         \* bound on time
    MaxFaults,      \* bound on failures, crashes and runs taken over
    MaxReloads,     \* bound on cache reloads
    MaxTasks,       \* bound on the payments and requests of one behaviour
    None

PaidRuns == Payments \X Procs
OneShots == FreeRenewals \cup BulkRenewals \cup Edits \cup Bonuses
Runs     == PaidRuns \cup OneShots
ProcOf(r) == IF r \in PaidRuns THEN r[2] ELSE "app"
TaskOf(r) == IF r \in PaidRuns THEN r[1] ELSE r

\* Requests and payments are told apart, and the days are numbers.
ASSUME RenewalConstants ==
    /\ IsFiniteSet(Payments) /\ IsFiniteSet(OneShots)
    /\ "app" \in Procs
    /\ Payments \cap OneShots = {} /\ PaidRuns \cap OneShots = {}
    /\ FreeRenewals \cap (BulkRenewals \cup Edits \cup Bonuses) = {}
    /\ BulkRenewals \cap (Edits \cup Bonuses) = {} /\ Edits \cap Bonuses = {}
    /\ None \notin Runs /\ None \notin Nat /\ None # "claimed" /\ "claimed" \notin Runs
    /\ \A t \in Payments \cup FreeRenewals \cup BulkRenewals \cup Bonuses : Period[t] \in Nat
    /\ InitialExpiry \in Nat /\ TrialEnd \in Nat /\ InitialTrials \subseteq BOOLEAN
    /\ NamedTariffs \subseteq BOOLEAN
    /\ EditDates \subseteq Nat /\ IsFiniteSet(EditDates)
    /\ MaxNow \in Nat /\ MaxFaults \in Nat /\ MaxReloads \in Nat

Later(a, b) == IF a > b THEN a ELSE b

VARIABLES
    now,            \* today
    db,             \* the keys row: expiry_time, and tariff_id = TRIAL_TARIFF_ID
    panel,          \* expiryTime of the client on the panel
    cached,         \* per process: the key object in its cache
    lock,           \* per process: the run holding renewal_lock(email)
    reserved,       \* payments.renewal_expiry_time
    settled,        \* payments marked succeeded, each with its last process
    added,          \* one-shot runs that answered success
    flag,           \* the row of user_promo_claims: None, its uncommitted
                    \* claim, or "claimed"
    pc,             \* per run: its place
    work,           \* per run: the key object it works on
    snap,           \* rows the running cache reload has read, or None
    faults, reloads

stores == <<db, panel, cached>>
book   == <<reserved, settled, added, flag>>
vars   == <<now, stores, lock, book, pc, work, snap, faults, reloads>>

KeyObject == [expiry : Nat, trial : BOOLEAN]
Places == {"idle", "lock", "read", "guard", "panel", "save", "reset",
           "settle", "flag", "bonusSave", "over"}

TypeOK ==
    /\ now \in 0..MaxNow
    /\ db \in KeyObject /\ panel \in Nat
    /\ cached \in [Procs -> KeyObject]
    /\ lock \in [Procs -> Runs \cup {None}]
    /\ reserved \in [Payments -> Nat \cup {None}]
    /\ settled \subseteq PaidRuns /\ added \subseteq OneShots
    /\ flag \in Bonuses \cup {None, "claimed"}
    /\ pc \in [Runs -> Places]
    /\ work \in [Runs -> KeyObject]
    /\ snap \in KeyObject \cup {None}
    /\ faults \in 0..MaxFaults /\ reloads \in 0..MaxReloads

InitialKeys == {[expiry |-> InitialExpiry, trial |-> trial] : trial \in InitialTrials}

Init ==
    /\ now = 0
    /\ db \in InitialKeys /\ panel = InitialExpiry
    /\ cached = [c \in Procs |-> db]
    /\ lock = [c \in Procs |-> None]
    /\ reserved = [p \in Payments |-> None]
    /\ settled = {} /\ added = {} /\ flag = None
    /\ pc = [r \in Runs |-> "idle"]
    /\ work = [r \in Runs |-> db]
    /\ snap = None
    /\ faults = 0 /\ reloads = 0

Fault == faults < MaxFaults /\ faults' = faults + 1

\* The payments and requests that have begun; one that failed before it
\* stored anything counts as not begun.
Begun == {r \in OneShots : pc[r] # "idle"}
         \cup {p \in Payments : reserved[p] # None \/ \E c \in Procs : pc[<<p, c>>] # "idle"}

Room(r) == Cardinality(Begun \cup {TaskOf(r)}) <= MaxTasks

IsSettled(p) == \E c \in Procs : <<p, c>> \in settled

Goto(r, place) == pc' = [pc EXCEPT ![r] = place]

\* Where a run that is through, or gives up, can be found: a payment may be
\* routed again, the other requests are answered.
End(r) == IF r \in PaidRuns THEN "idle" ELSE "over"

-----------------------------------------------------------------------------
(* New expiry dates                                                        *)

\* Whether the tariff that a renewal applies can be the trial's; it is looked
\* up before the lock is taken.  PATCH /keys names one; for a payment it is
\* the one that the latest invoice request for the key named, for the fifteen
\* minutes the application caches it, and after that, as always in the sweep,
\* the key's own.
AppliedTariffs(r) ==
    (IF ProcOf(r) = "app" THEN NamedTariffs ELSE {})
    \cup (IF r \in PaidRuns THEN {work[r].trial} ELSE {})

\* KeyUpdater.refresh_key over ExpiryCalculator.key_duration: a trial key
\* counts from today plus what is left of the trial's own days, and the key
\* gets the tariff that is applied, be it the trial's again.
Refreshed(key, days, trial) ==
    [expiry |-> days + Later(now, IF key.trial THEN TrialEnd ELSE key.expiry),
     trial  |-> trial]

\* Plain extension by days: admin renewals and the channel bonus.
Extended(key, days) == [key EXCEPT !.expiry = days + Later(now, @)]

-----------------------------------------------------------------------------
(* The renewals under renewal_lock                                         *)

\* The payment was claimed for this run.  A second run of a payment begins
\* only when it took over a stale claim.
BeginPaid(r) ==
    /\ r \in PaidRuns
    /\ pc[r] = "idle"
    /\ Room(r)
    /\ ~IsSettled(r[1])
    /\ IF \E q \in PaidRuns : q[1] = r[1] /\ pc[q] # "idle" THEN Fault ELSE UNCHANGED faults
    /\ work' = [work EXCEPT ![r] = cached[r[2]]]
    /\ Goto(r, "lock")
    /\ UNCHANGED <<now, stores, lock, book, snap, reloads>>

\* PATCH /keys/{email} on a free tariff, renew_key_by_days: the key is
\* looked up before the lock is taken.
BeginRenewal(r) ==
    /\ r \in FreeRenewals \cup BulkRenewals
    /\ pc[r] = "idle" /\ Room(r)
    /\ work' = [work EXCEPT ![r] = cached["app"]]
    /\ Goto(r, "lock")
    /\ UNCHANGED <<now, stores, lock, book, snap, faults, reloads>>

\* Mutant: nobody waits for the lock.
LockFree_Never(r) == TRUE
LockFree(r) == lock[ProcOf(r)] = None

\* Mutant: the key looked up before the lock is used as it is.
Reread_Skipped(r) == work[r]

\* The key read again under the lock: from the cache.
Reread(r) == cached[ProcOf(r)]

\* renew_key_by_days reads the row itself; the others go on from the cache.
Acquire(r) ==
    /\ pc[r] = "lock"
    /\ LockFree(r)
    /\ lock' = [lock EXCEPT ![ProcOf(r)] = r]
    /\ IF r \in BulkRenewals
       THEN Goto(r, "read") /\ UNCHANGED work
       ELSE /\ \E trial \in AppliedTariffs(r) :
                  work' = [work EXCEPT ![r] = Refreshed(Reread(r), Period[TaskOf(r)], trial)]
            /\ Goto(r, IF r \in PaidRuns THEN "guard" ELSE "panel")
    /\ UNCHANGED <<now, stores, book, snap, faults, reloads>>

ReadRow(r) ==
    /\ pc[r] = "read"
    /\ work' = [work EXCEPT ![r] = Extended(db, Period[r])]
    /\ Goto(r, "panel")
    /\ UNCHANGED <<now, stores, lock, book, snap, faults, reloads>>

\* Mutant: every attempt stores the target it computed.
Target_Overwritten(r) == work[r].expiry

\* The expiry stored by the first attempt, or this one's.
Target(r) == IF reserved[r[1]] = None THEN work[r].expiry ELSE reserved[r[1]]

\* reserve_renewal_expiry, the expiry_guard of the payment path.
ReserveExpiry(r) ==
    /\ pc[r] = "guard"
    /\ reserved' = [reserved EXCEPT ![r[1]] = Target(r)]
    /\ work' = [work EXCEPT ![r].expiry = Target(r)]
    /\ Goto(r, "panel")
    /\ UNCHANGED <<now, stores, lock, settled, added, flag, snap, faults, reloads>>

\* extend_client_key: the panel takes the absolute date.
ExtendClientKey(r) ==
    /\ pc[r] = "panel"
    /\ panel' = work[r].expiry
    /\ Goto(r, IF r \in Bonuses THEN "bonusSave" ELSE "save")
    /\ UNCHANGED <<now, db, cached, lock, book, work, snap, faults, reloads>>

\* keys.update writes the whole row, then the cache.
SaveKey(r) ==
    /\ pc[r] = "save"
    /\ db' = work[r]
    /\ cached' = [cached EXCEPT ![ProcOf(r)] = work[r]]
    /\ Goto(r, "reset")
    /\ UNCHANGED <<now, panel, lock, book, work, snap, faults, reloads>>

\* Leaving the block of the lock; edits and bonuses never held it.
Unlock(r) ==
    lock' = [lock EXCEPT ![ProcOf(r)] = IF @ = r THEN None ELSE @]

\* reset_key_after_renewal clears the notification flags and caches the key
\* once more; then the lock is left.
Reset(r) ==
    /\ pc[r] = "reset"
    /\ cached' = [cached EXCEPT ![ProcOf(r)] = work[r]]
    /\ Unlock(r)
    /\ IF r \in PaidRuns
       THEN Goto(r, "settle") /\ UNCHANGED added
       ELSE Goto(r, "over") /\ added' = added \cup {r}
    /\ UNCHANGED <<now, db, panel, reserved, settled, flag, work, snap, faults, reloads>>

\* complete_claim in PaymentRouter.route.
Settle(r) ==
    /\ pc[r] = "settle"
    /\ settled' = settled \cup {r}
    /\ Goto(r, "idle")
    /\ UNCHANGED <<now, stores, lock, reserved, added, flag, work, snap, faults, reloads>>

\* A step raises, or extend_client_key answers False: what it did before, or
\* all it should have done, may have happened.  The lock is left; a payment
\* can be routed again, the other requests end with an error.
StepFails(r) ==
    /\ pc[r] \in {"read", "guard", "panel", "save", "reset", "settle"} /\ r \notin Bonuses
    /\ Fault
    /\ \/ UNCHANGED <<db, panel, reserved>>
       \/ pc[r] = "guard" /\ reserved' = [reserved EXCEPT ![r[1]] = Target(r)]
                          /\ UNCHANGED <<db, panel>>
       \/ pc[r] = "panel" /\ panel' = work[r].expiry /\ UNCHANGED <<db, reserved>>
       \/ pc[r] = "save" /\ db' = work[r] /\ UNCHANGED <<panel, reserved>>
    /\ Unlock(r)
    /\ Goto(r, End(r))
    /\ UNCHANGED <<now, cached, settled, added, flag, work, snap, reloads>>

-----------------------------------------------------------------------------
(* Writers that take no lock                                               *)

\* admin_change_key_date and admin_change_key_tariff up to their first await:
\* the object they change is the one in the cache.
BeginEdit(r) ==
    /\ r \in Edits
    /\ pc[r] = "idle" /\ Room(r)
    /\ \E key \in {[cached["app"] EXCEPT !.trial = trial] : trial \in NamedTariffs}
                  \cup {[cached["app"] EXCEPT !.expiry = d] : d \in EditDates} :
          /\ work' = [work EXCEPT ![r] = key]
          /\ cached' = [cached EXCEPT !["app"] = key]
    /\ Goto(r, "panel")
    /\ UNCHANGED <<now, db, panel, lock, book, snap, faults, reloads>>

\* claim: the flag and the keys are read from the database; only an active
\* key gets the bonus.
ClaimBonus(r) ==
    /\ r \in Bonuses
    /\ pc[r] = "idle" /\ Room(r)
    /\ IF flag # "claimed" /\ db.expiry > now
       THEN work' = [work EXCEPT ![r] = Extended(db, Period[r])] /\ Goto(r, "flag")
       ELSE UNCHANGED work /\ Goto(r, "over")
    /\ UNCHANGED <<now, stores, lock, book, snap, faults, reloads>>

\* INSERT ... ON CONFLICT DO NOTHING, which waits for an open transaction
\* with the same row.
InsertFlag(r) ==
    /\ pc[r] = "flag"
    /\ \/ flag = None /\ flag' = r /\ Goto(r, "panel")
       \/ flag = "claimed" /\ UNCHANGED flag /\ Goto(r, "over")
    /\ UNCHANGED <<now, stores, lock, reserved, settled, added, work, snap, faults, reloads>>

\* The rest of _extend_key and the commit: UPDATE of the expiry, the cache,
\* then the end of the transaction.
SaveBonus(r) ==
    /\ pc[r] = "bonusSave"
    /\ db' = [db EXCEPT !.expiry = work[r].expiry]
    /\ cached' = [cached EXCEPT !["app"] = work[r]]
    /\ flag' = "claimed"
    /\ added' = added \cup {r}
    /\ Goto(r, "over")
    /\ UNCHANGED <<now, panel, lock, reserved, settled, work, snap, faults, reloads>>

\* The transaction rolls back: the panel answered False, or a statement or
\* the commit failed, the latter after the cache was written.
BonusFails(r) ==
    /\ r \in Bonuses
    /\ pc[r] \in {"panel", "bonusSave"}
    /\ Fault
    /\ \/ UNCHANGED <<panel, cached>>
       \/ pc[r] = "panel" /\ panel' = work[r].expiry /\ UNCHANGED cached
       \/ /\ pc[r] = "bonusSave"
          /\ cached' = [cached EXCEPT !["app"] = work[r]] /\ UNCHANGED panel
    /\ flag' = None
    /\ Goto(r, "over")
    /\ UNCHANGED <<now, db, lock, reserved, settled, added, work, snap, reloads>>

\* LoadingService.loading in the scheduler: all rows are selected, then set
\* into the cache one by one.
ReloadReads ==
    /\ snap = None
    /\ reloads < MaxReloads /\ reloads' = reloads + 1
    /\ snap' = db
    /\ UNCHANGED <<now, stores, lock, book, pc, work, faults>>

ReloadWrites ==
    /\ snap # None
    /\ cached' = [cached EXCEPT !["app"] = snap]
    /\ snap' = None
    /\ UNCHANGED <<now, db, panel, lock, book, pc, work, faults, reloads>>

-----------------------------------------------------------------------------
(* Time and processes                                                      *)

Tick ==
    /\ now < MaxNow /\ now' = now + 1
    /\ UNCHANGED <<stores, lock, book, pc, work, snap, faults, reloads>>

\* A process stops and starts again with freshly loaded caches: the end of
\* one sweep and the start of the next, or a crash.
Restart(c) ==
    LET cut == {r \in Runs : ProcOf(r) = c /\ pc[r] \notin {"idle", "over"}} IN
    /\ IF cut = {} THEN UNCHANGED faults ELSE Fault
    /\ cached' = [cached EXCEPT ![c] = db]
    /\ lock' = [lock EXCEPT ![c] = None]
    /\ pc' = [r \in Runs |-> IF r \in cut THEN End(r) ELSE pc[r]]
    /\ flag' = IF flag \in cut THEN None ELSE flag
    /\ snap' = IF c = "app" THEN None ELSE snap
    /\ UNCHANGED <<now, db, panel, reserved, settled, added, work, reloads>>

Next ==
    \/ Tick
    \/ \E r \in Runs :
          \/ BeginPaid(r) \/ BeginRenewal(r) \/ Acquire(r) \/ ReadRow(r)
          \/ ReserveExpiry(r) \/ ExtendClientKey(r) \/ SaveKey(r) \/ Reset(r)
          \/ Settle(r) \/ StepFails(r)
          \/ BeginEdit(r)
          \/ ClaimBonus(r) \/ InsertFlag(r) \/ SaveBonus(r) \/ BonusFails(r)
    \/ ReloadReads \/ ReloadWrites
    \/ \E c \in Procs : Restart(c)

Spec == Init /\ [][Next]_vars
-----------------------------------------------------------------------------
(* Properties                                                              *)

Days(tasks) == SumFunctionOnSet(Period, tasks)

\* Everything that ever computed a date that may be applied.
Taken == {p \in Payments : reserved[p] # None}
         \cup {r \in FreeRenewals \cup BulkRenewals \cup Bonuses : pc[r] # "idle"}

\* Everything whose customer was told that the days were added.
Earned == {p \in Payments : IsSettled(p)} \cup (added \ Edits)

Quiet == \A r \in Runs : pc[r] \in {"idle", "over"}

Origin ==
    {InitialExpiry, TrialEnd, now}
    \cup (IF \E e \in Edits : pc[e] # "idle" THEN EditDates ELSE {})

\* No free time: however often a payment is retried, by either process, after
\* failures, crashes and reloads, its period is in the expiry at most once,
\* the reason for reserve_renewal_expiry; and of any number of claims of the
\* channel bonus, concurrent or repeated, one is granted.
NoFreeTime ==
    /\ db.expiry <= Max(Origin) + Days(Taken)
    /\ panel <= Max(Origin) + Days(Taken)
    /\ Cardinality(added \cap Bonuses) <= 1

\* Only renewals of the application's own process, and nothing failed.
Calm ==
    /\ faults = 0 /\ reloads = 0
    /\ Begun \cap (Edits \cup Bonuses) = {}
    /\ \A r \in PaidRuns : r \in settled \/ pc[r] # "idle" => ProcOf(r) = "app"

\* The renewals that are through.
Through == settled \cup {r \in FreeRenewals \cup BulkRenewals : pc[r] = "over"}

\* What renewal_lock is for (the comment above its use in extension_key): of
\* renewals of one key that overlap in any order row, cache and panel agree
\* at rest, whichever tariffs were applied; and none loses its period to
\* another, unless a renewal left the key on the trial tariff, from which
\* the next one counts anew.
LockKeepsPeriods ==
    Quiet /\ Calm =>
       /\ db = cached["app"] /\ panel = db.expiry
       /\ (\A r \in Through : ~work[r].trial) => db.expiry >= InitialExpiry + Days(Earned)

\* Without faults, bonuses and edits, at rest the key has the period of every
\* renewal.  It does not hold: after a renewal with the trial tariff the next
\* one does not count from the expiry the key has.
RenewalsAddUp == Quiet /\ Calm => db.expiry >= InitialExpiry + Days(Earned)

\* The same whatever fails: at rest the key has every period that was
\* reported as added.  It does not hold.
PeriodsKept == Quiet => db.expiry >= InitialExpiry + Days(Earned)

\* The channel bonus is in the expiry at most once, whichever of its claims
\* got through (claim is documented as atomic).
BonusOnce ==
    db.expiry <= Max(Origin) + Days(Taken \ Bonuses)
                 + (IF Bonuses \cap Taken = {} THEN 0 ELSE Max({Period[b] : b \in Bonuses}))
=============================================================================
