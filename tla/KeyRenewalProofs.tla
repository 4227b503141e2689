-------------------------- MODULE KeyRenewalProofs --------------------------
(***************************************************************************)
(* The two invariants of a key's expiry, for any payments, requests,       *)
(* processes, periods and dates.  No free time rests on Bounded: not only  *)
(* the row and the panel but every key object that some run, cache or      *)
(* reload may still write is within the dates and the periods applied so   *)
(* far.  The renewals' lock rests on HolderAdds: who holds it carries the  *)
(* row's expiry plus its own period.                                       *)
(***************************************************************************)
EXTENDS KeyRenewal, SumTheorems

\* The kinds of runs and where each can be.
RightPlaces ==
    \A r \in Runs :
       /\ pc[r] = "guard" => r \in PaidRuns
       /\ pc[r] = "settle" => r \in PaidRuns
       /\ pc[r] = "over" => r \in OneShots
       /\ pc[r] = "read" => r \in BulkRenewals
       /\ pc[r] = "flag" => r \in Bonuses
       /\ pc[r] = "bonusSave" => r \in Bonuses
       /\ r \in Bonuses => pc[r] \in {"idle", "flag", "panel", "bonusSave", "over"}
       /\ r \in Edits => pc[r] \in {"idle", "panel", "save", "reset", "over"}
       /\ r \in added => pc[r] = "over"

\* Everything whose days are in a date that some store, or some run about to
\* write one, may hold.
Applied ==
    {p \in Payments : reserved[p] # None}
    \cup {r \in FreeRenewals : pc[r] \notin {"idle", "lock"}}
    \cup {r \in BulkRenewals : pc[r] \notin {"idle", "lock", "read"}}
    \cup {r \in Bonuses : pc[r] # "idle"}

Bound == Max(Origin) + Days(Applied)

\* The object of a run that may be written; a payment that waits at the
\* guard for the first time may have one period more.
RunBounded(r) ==
    /\ pc[r] \notin {"idle", "over", "guard"} => work[r].expiry <= Bound
    /\ pc[r] = "guard" /\ reserved[r[1]] = None => work[r].expiry <= Bound + Period[r[1]]

StoresBounded ==
    /\ db.expiry <= Bound /\ panel <= Bound
    /\ \A c \in Procs : cached[c].expiry <= Bound
    /\ snap # None => snap.expiry <= Bound
    /\ \A p \in Payments : reserved[p] # None => reserved[p] <= Bound

Bounded == StoresBounded /\ \A r \in Runs : RunBounded(r)

\* The row of user_promo_claims keeps the bonus claims apart.
OneClaim ==
    /\ \A r \in Bonuses : pc[r] \in {"panel", "bonusSave"} => flag = r
    /\ added \cap Bonuses # {} => flag = "claimed"
    /\ \A a, b \in added \cap Bonuses : a = b

-----------------------------------------------------------------------------
(* Key objects, days and the bound                                         *)

\* What a paid or free renewal makes of the key it read.
LEMMA RefreshedKey ==
    ASSUME TypeOK, NEW key \in KeyObject, NEW days \in Nat, NEW trial \in BOOLEAN
    PROVE  /\ Refreshed(key, days, trial) \in KeyObject
           /\ Refreshed(key, days, trial).trial = trial
           /\ Refreshed(key, days, trial).expiry = days + Later(now, IF key.trial THEN TrialEnd ELSE key.expiry)
  BY RenewalConstants DEF TypeOK, KeyObject, Refreshed, Later

\* A key with another date.
LEMMA DatedKey ==
    ASSUME NEW key \in KeyObject, NEW date \in Nat
    PROVE  /\ [key EXCEPT !.expiry = date] \in KeyObject
           /\ [key EXCEPT !.expiry = date].expiry = date
           /\ [key EXCEPT !.expiry = date].trial = key.trial
  BY DEF KeyObject

\* A key with another tariff.
LEMMA TariffedKey ==
    ASSUME NEW key \in KeyObject, NEW trial \in BOOLEAN
    PROVE  /\ [key EXCEPT !.trial = trial] \in KeyObject
           /\ [key EXCEPT !.trial = trial].expiry = key.expiry
           /\ [key EXCEPT !.trial = trial].trial = trial
  BY DEF KeyObject

\* What plain days make of a key.
LEMMA ExtendedKey ==
    ASSUME TypeOK, NEW key \in KeyObject, NEW days \in Nat
    PROVE  /\ Extended(key, days) \in KeyObject
           /\ Extended(key, days).trial = key.trial
           /\ Extended(key, days).expiry = days + Later(now, key.expiry)
<1>1. days + Later(now, key.expiry) \in Nat
  BY DEF TypeOK, KeyObject, Later
<1>2. Extended(key, days) = [key EXCEPT !.expiry = days + Later(now, key.expiry)]
  BY DEF Extended, KeyObject
<1> QED
  BY <1>1, <1>2, DatedKey

Tasks == Payments \cup FreeRenewals \cup BulkRenewals \cup Bonuses

\* Payments and requests are finitely many ...
LEMMA TasksFinite == IsFiniteSet(Tasks)
<1>1. FreeRenewals \cup BulkRenewals \cup Bonuses \subseteq OneShots
  BY DEF OneShots
<1>2. IsFiniteSet(FreeRenewals \cup BulkRenewals \cup Bonuses)
  BY <1>1, RenewalConstants, FS_Subset
<1>3. IsFiniteSet(Payments \cup (FreeRenewals \cup BulkRenewals \cup Bonuses))
  BY <1>2, RenewalConstants, FS_Union
<1>4. Tasks = Payments \cup (FreeRenewals \cup BulkRenewals \cup Bonuses)
  BY DEF Tasks
<1> QED
  BY <1>3, <1>4

\* ... and each adds a number of days.
LEMMA PeriodNat == \A t \in Tasks : Period[t] \in Nat
  BY RenewalConstants DEF Tasks

\* Days is a number and grows with the set ...
LEMMA DaysGrow ==
    ASSUME NEW T \in SUBSET Tasks, NEW S \in SUBSET T
    PROVE  Days(S) \in Nat /\ Days(T) \in Nat /\ Days(S) <= Days(T)
<1>1. IsFiniteSet(T) /\ IsFiniteSet(S)
  BY TasksFinite, FS_Subset
<1>2. \A t \in T : Period[t] \in Nat
  BY PeriodNat
<1>3. Days(T) \in Nat /\ Days(S) \in Nat
  BY <1>1, <1>2, SumNat DEF Days
<1>4. Days(S) <= Days(T)
  BY <1>1, <1>2, SumGrows DEF Days
<1> QED
  BY <1>3, <1>4

\* ... by the period of the task that is added.
LEMMA DaysAdd ==
    ASSUME NEW S \in SUBSET Tasks, NEW t \in Tasks
    PROVE  /\ t \notin S => Days(S \cup {t}) = Days(S) + Period[t]
           /\ Days(S \cup {t}) <= Days(S) + Period[t]
<1>1. IsFiniteSet(S)
  BY TasksFinite, FS_Subset
<1>2. /\ \A x \in S : Period[x] \in Int
      /\ Period[t] \in Int /\ Period[t] \in Nat
  BY PeriodNat
<1>3. Days(S) \in Nat
  BY DaysGrow
<1>4. ASSUME t \notin S PROVE Days(S \cup {t}) = Days(S) + Period[t]
  <2>1. Days(S \cup {t}) = Period[t] + Days(S)
    BY <1>1, <1>2, <1>4, SumAdd DEF Days
  <2>2. \A a, b \in Nat : a + b = b + a
    OBVIOUS
  <2> QED
    BY <2>1, <2>2, <1>2, <1>3
<1>5. ASSUME t \in S PROVE Days(S \cup {t}) <= Days(S) + Period[t]
  <2>1. S \cup {t} = S
    BY <1>5
  <2>2. Days(S \cup {t}) = Days(S)
    BY <2>1, Zenon
  <2>3. \A a, b \in Nat : a <= a + b
    OBVIOUS
  <2> QED
    BY <2>2, <2>3, <1>2, <1>3
<1>6. t \notin S => Days(S \cup {t}) <= Days(S) + Period[t]
  BY <1>4, <1>3, <1>2
<1> QED
  BY <1>4, <1>5, <1>6

\* What is applied is some tasks.
LEMMA AppliedTasks == Applied \subseteq Tasks
  BY DEF Applied, Tasks

\* The greatest of a finite set of numbers.
LEMMA MaxOf ==
    ASSUME NEW S \in SUBSET Nat, IsFiniteSet(S), S # {}
    PROVE  Max(S) \in S /\ \A n \in S : n <= Max(S)
<1>1. S \subseteq Int
  OBVIOUS
<1>2. \E m \in S : \A n \in S : m >= n
  BY <1>1, FiniteMaximum
<1>3. Max(S) \in S /\ \A n \in S : Max(S) >= n
  BY <1>2 DEF Max
<1> QED
  BY <1>1, <1>3

\* The dates the bound starts from, of a day and of whether there was an edit.
Dates(day, edited) ==
    {InitialExpiry, TrialEnd, day}
    \cup (IF edited THEN EditDates ELSE {})

\* The dates there are have a latest one.
LEMMA DatesMax ==
    ASSUME NEW day \in Nat, NEW edited \in BOOLEAN
    PROVE  /\ Max(Dates(day, edited)) \in Dates(day, edited)
           /\ Dates(day, edited) \subseteq Nat
           /\ \A d \in Dates(day, edited) : d <= Max(Dates(day, edited))
<1>1. Dates(day, edited) \subseteq Nat /\ Dates(day, edited) # {}
  BY RenewalConstants DEF Dates
<1>2. IsFiniteSet(Dates(day, edited))
  <2>1. IsFiniteSet({InitialExpiry, TrialEnd, day})
    <3>1. IsFiniteSet({InitialExpiry}) /\ IsFiniteSet({TrialEnd}) /\ IsFiniteSet({day})
      BY FS_Singleton
    <3>2. IsFiniteSet({InitialExpiry} \cup {TrialEnd} \cup {day})
      BY <3>1, FS_Union
    <3>3. {InitialExpiry, TrialEnd, day} = {InitialExpiry} \cup {TrialEnd} \cup {day}
      OBVIOUS
    <3> QED
      BY <3>2, <3>3
  <2>2. IsFiniteSet(IF edited THEN EditDates ELSE {})
    BY FS_EmptySet, RenewalConstants
  <2> QED
    BY <2>1, <2>2, FS_Union DEF Dates
<1> QED
  BY <1>1, <1>2, MaxOf

Edited == \E e \in Edits : pc[e] # "idle"

\* The bound is a number, and no date is beyond it.
LEMMA BoundNat ==
    ASSUME TypeOK
    PROVE  Bound \in Nat /\ \A d \in Origin : d \in Nat /\ d <= Bound
<1>1. Days(Applied) \in Nat
  BY AppliedTasks, DaysGrow
<1>2. Origin = Dates(now, Edited) /\ now \in Nat /\ Edited \in BOOLEAN
  BY RenewalConstants DEF Origin, Dates, Edited, TypeOK
<1> QED
  BY <1>1, <1>2, DatesMax DEF Bound

\* Time and edits only raise the dates the bound starts from, and what was
\* applied stays applied.
Forward ==
    /\ now <= now'
    /\ \A e \in Edits : pc[e] # "idle" => pc'[e] # "idle"
    /\ Applied \subseteq Applied'

\* The bound never sinks, and grows by the period of what is applied.
LEMMA BoundGrows ==
    ASSUME TypeOK, TypeOK', Forward
    PROVE  /\ Bound \in Nat /\ Bound' \in Nat /\ Bound <= Bound'
           /\ \A d \in Origin' : d \in Nat /\ d <= Bound'
           /\ \A t \in Tasks : t \in Applied' \ Applied => Bound + Period[t] <= Bound'
<1>1. Origin = Dates(now, Edited) /\ now \in Nat /\ Edited \in BOOLEAN
  BY RenewalConstants DEF Origin, Dates, Edited, TypeOK
<1>2. Origin' = Dates(now', Edited') /\ now' \in Nat /\ Edited' \in BOOLEAN
  BY RenewalConstants DEF Origin, Dates, Edited, TypeOK
<1>3. /\ Max(Origin) \in Nat /\ Max(Origin') \in Nat /\ Max(Origin) <= Max(Origin')
      /\ \A d \in Origin' : d \in Nat /\ d <= Max(Origin')
  <2>1. /\ Max(Origin) \in Origin /\ Origin \subseteq Nat
        /\ Origin' \subseteq Nat /\ Max(Origin') \in Origin'
        /\ \A d \in Origin' : d <= Max(Origin')
    BY <1>1, <1>2, DatesMax
  <2>2. \A d \in Origin : d \in Origin' \/ d = now
    BY DEF Forward, Origin
  <2>3. now' \in Origin' /\ now <= now'
    BY DEF Forward, Origin
  <2> QED
    BY <1>1, <1>2, <2>1, <2>2, <2>3
<1>4. Applied' \subseteq Tasks /\ Applied \subseteq Applied'
  BY DEF Forward, Applied, Tasks
<1>5. Days(Applied) \in Nat /\ Days(Applied') \in Nat /\ Days(Applied) <= Days(Applied')
  BY <1>4, DaysGrow
<1>6. Bound = Max(Origin) + Days(Applied) /\ Bound' = Max(Origin') + Days(Applied')
  BY DEF Bound
<1>7. ASSUME NEW t \in Tasks, t \in Applied' \ Applied
      PROVE  Bound + Period[t] <= Bound'
  <2>1. Applied \cup {t} \subseteq Applied'
    BY <1>4, <1>7
  <2>2. Days(Applied \cup {t}) <= Days(Applied')
    BY <1>4, <2>1, DaysGrow
  <2>3. Days(Applied \cup {t}) = Days(Applied) + Period[t]
    BY <1>4, <1>7, DaysAdd
  <2>4. Period[t] \in Nat
    BY PeriodNat
  <2> QED
    BY <1>3, <1>5, <1>6, <2>2, <2>3, <2>4
<1> QED
  BY <1>3, <1>5, <1>6, <1>7
-----------------------------------------------------------------------------
(* Types and places                                                        *)

Typed == TypeOK /\ RightPlaces

\* The kinds of runs, their processes and their tasks.
LEMMA RunKinds ==
    ASSUME NEW r \in Runs
    PROVE  /\ r \notin PaidRuns => r \in OneShots
           /\ r \in PaidRuns => /\ r[1] \in Payments /\ r[2] \in Procs /\ r = <<r[1], r[2]>>
                                /\ r \notin OneShots
                                /\ TaskOf(r) = r[1] /\ ProcOf(r) = r[2]
           /\ r \in OneShots => /\ r \notin PaidRuns
                                /\ TaskOf(r) = r /\ ProcOf(r) = "app"
           /\ ProcOf(r) \in Procs
           /\ r \notin Edits => TaskOf(r) \in Tasks /\ Period[TaskOf(r)] \in Nat
<1>1. r \notin PaidRuns => r \in OneShots
  BY DEF Runs
<1>2. ASSUME r \in PaidRuns
      PROVE  /\ r[1] \in Payments /\ r[2] \in Procs /\ r = <<r[1], r[2]>>
             /\ r \notin OneShots /\ TaskOf(r) = r[1] /\ ProcOf(r) = r[2]
  BY <1>2, RenewalConstants DEF PaidRuns, TaskOf, ProcOf
<1>3. ASSUME r \in OneShots PROVE r \notin PaidRuns /\ TaskOf(r) = r /\ ProcOf(r) = "app"
  BY <1>3, RenewalConstants DEF TaskOf, ProcOf
<1>4. r \notin Edits => TaskOf(r) \in Tasks
  BY <1>1, <1>2, <1>3 DEF Tasks, OneShots
<1> QED
  BY <1>1, <1>2, <1>3, <1>4, PeriodNat, RenewalConstants

\* A run of the renewals under the lock is of no other kind.
LEMMA OtherKinds ==
    /\ \A r \in FreeRenewals : r \in OneShots /\ r \notin BulkRenewals \cup Edits \cup Bonuses
    /\ \A r \in BulkRenewals : r \in OneShots /\ r \notin FreeRenewals \cup Edits \cup Bonuses
    /\ \A r \in Edits : r \in OneShots /\ r \notin FreeRenewals \cup BulkRenewals \cup Bonuses
    /\ \A r \in Bonuses : r \in OneShots /\ r \notin FreeRenewals \cup BulkRenewals \cup Edits
    /\ OneShots \subseteq Runs /\ PaidRuns \subseteq Runs
  BY RenewalConstants DEF OneShots, Runs

\* At the start.
LEMMA InitTyped == Init => Typed
<1> SUFFICES ASSUME Init PROVE Typed
  OBVIOUS
<1>1. db \in KeyObject /\ db.expiry = InitialExpiry /\ db.trial \in InitialTrials
  BY RenewalConstants DEF Init, InitialKeys, KeyObject
<1>2. TypeOK
  BY <1>1, RenewalConstants DEF Init, TypeOK, Places
<1>3. RightPlaces
  BY OtherKinds DEF Init, RightPlaces
<1> QED
  BY <1>2, <1>3 DEF Typed

\* One step of a failure leaves its count in range.
LEMMA FaultCount == TypeOK /\ Fault => faults' \in 0..MaxFaults /\ faults' > faults
  BY RenewalConstants DEF TypeOK, Fault

\* A run begins, or goes on without touching a store.
LEMMA BeginTyped ==
    ASSUME Typed, NEW r \in Runs, BeginPaid(r) \/ BeginRenewal(r) \/ Settle(r)
    PROVE  Typed'
<1> USE DEF Typed
<1>1. CASE BeginPaid(r)
  <2>1. TypeOK'
    BY <1>1, RunKinds, FaultCount DEF BeginPaid, TypeOK, Goto, Places, stores, book
  <2>2. RightPlaces'
    BY <1>1, RunKinds, OtherKinds DEF BeginPaid, TypeOK, RightPlaces, Goto, book
  <2> QED
    BY <2>1, <2>2
<1>2. CASE BeginRenewal(r)
  <2>1. TypeOK'
    BY <1>2, RenewalConstants DEF BeginRenewal, TypeOK, Goto, Places, stores, book
  <2>2. RightPlaces'
    BY <1>2, OtherKinds DEF BeginRenewal, TypeOK, RightPlaces, Goto, book
  <2> QED
    BY <2>1, <2>2
<1>3. CASE Settle(r)
  <2>1. r \in PaidRuns
    BY <1>3 DEF Settle, RightPlaces
  <2>2. TypeOK'
    BY <1>3, <2>1 DEF Settle, TypeOK, Goto, Places, stores
  <2>3. RightPlaces'
    BY <1>3, <2>1, RunKinds, OtherKinds DEF Settle, TypeOK, RightPlaces, Goto
  <2> QED
    BY <2>2, <2>3
<1> QED
  BY <1>1, <1>2, <1>3

\* Whether a tariff is the trial's is a truth value.
LEMMA TariffsTyped == Typed => \A r \in Runs : AppliedTariffs(r) \subseteq BOOLEAN
  BY RenewalConstants DEF Typed, TypeOK, KeyObject, AppliedTariffs

\* The key object a run computes under the lock.
LEMMA ComputeTyped ==
    ASSUME Typed, NEW r \in Runs, Acquire(r) \/ ReadRow(r) \/ ReserveExpiry(r)
    PROVE  Typed'
<1> USE DEF Typed
<1>1. CASE Acquire(r)
  <2>1. r \notin Edits /\ r \notin Bonuses
    BY <1>1 DEF Acquire, RightPlaces
  <2>2. cached[ProcOf(r)] \in KeyObject /\ Period[TaskOf(r)] \in Nat
    BY <2>1, RunKinds DEF TypeOK
  <2>3. \A trial \in AppliedTariffs(r) : Refreshed(Reread(r), Period[TaskOf(r)], trial) \in KeyObject
    BY <2>2, RefreshedKey, TariffsTyped DEF Reread
  <2>4. /\ lock' = [lock EXCEPT ![ProcOf(r)] = r]
        /\ \/ r \in BulkRenewals /\ Goto(r, "read") /\ work' = work
           \/ /\ \E new \in KeyObject : work' = [work EXCEPT ![r] = new]
              /\ \/ r \in PaidRuns /\ Goto(r, "guard")
                 \/ r \notin PaidRuns /\ Goto(r, "panel")
        /\ UNCHANGED <<now, stores, book, snap, faults, reloads>>
    BY <1>1, <2>3 DEF Acquire
  <2>5. TypeOK'
    BY <2>4, RunKinds DEF TypeOK, Goto, Places, stores, book
  <2>6. RightPlaces'
    BY <1>1, <2>1, <2>4, RunKinds, OtherKinds DEF Acquire, TypeOK, RightPlaces, Goto, book
  <2> QED
    BY <2>5, <2>6
<1>2. CASE ReadRow(r)
  <2> DEFINE new == Extended(db, Period[r])
  <2>1. r \in BulkRenewals /\ Period[r] \in Nat /\ db \in KeyObject
    BY <1>2, PeriodNat DEF ReadRow, RightPlaces, TypeOK, Tasks
  <2>2. new \in KeyObject /\ new.trial = db.trial
    BY <2>1, ExtendedKey
  <2> HIDE DEF new
  <2>3. /\ work' = [work EXCEPT ![r] = new] /\ Goto(r, "panel")
        /\ UNCHANGED <<now, stores, lock, book, snap, faults, reloads>>
    BY <1>2 DEF ReadRow, new
  <2>4. TypeOK'
    BY <2>2, <2>3 DEF TypeOK, Goto, Places, stores, book
  <2>5. RightPlaces'
    BY <1>2, <2>1, <2>3, OtherKinds DEF ReadRow, TypeOK, RightPlaces, Goto, book
  <2> QED
    BY <2>4, <2>5
<1>3. CASE ReserveExpiry(r)
  <2> DEFINE new == [work[r] EXCEPT !.expiry = Target(r)]
  <2>1. r \in PaidRuns /\ r[1] \in Payments /\ work[r] \in KeyObject
    BY <1>3, RunKinds DEF ReserveExpiry, RightPlaces, TypeOK
  <2>2. Target(r) \in Nat
    BY <2>1 DEF Target, TypeOK, KeyObject
  <2>3. new \in KeyObject /\ new.trial = work[r].trial
    BY <2>1, <2>2, DatedKey
  <2> HIDE DEF new
  <2>4. /\ work' = [work EXCEPT ![r] = new] /\ Goto(r, "panel")
        /\ reserved' = [reserved EXCEPT ![r[1]] = Target(r)]
        /\ UNCHANGED <<now, stores, lock, settled, added, flag, snap, faults, reloads>>
    BY <1>3 DEF ReserveExpiry, TypeOK, new
  <2>5. TypeOK'
    BY <2>1, <2>2, <2>3, <2>4 DEF TypeOK, Goto, Places, stores
  <2>6. RightPlaces'
    BY <1>3, <2>1, <2>4, RunKinds, OtherKinds DEF ReserveExpiry, TypeOK, RightPlaces, Goto
  <2> QED
    BY <2>5, <2>6
<1> QED
  BY <1>1, <1>2, <1>3
\* A store is written.
LEMMA WriteTyped ==
    ASSUME Typed, NEW r \in Runs, ExtendClientKey(r) \/ SaveKey(r) \/ Reset(r)
    PROVE  Typed'
<1> USE DEF Typed
<1>1. work[r] \in KeyObject /\ work[r].expiry \in Nat /\ ProcOf(r) \in Procs
  BY RunKinds DEF TypeOK, KeyObject
<1>2. CASE ExtendClientKey(r)
  <2>1. TypeOK'
    BY <1>1, <1>2 DEF ExtendClientKey, TypeOK, Goto, Places, book
  <2>2. RightPlaces'
    BY <1>2, OtherKinds DEF ExtendClientKey, TypeOK, RightPlaces, Goto, book
  <2> QED
    BY <2>1, <2>2
<1>3. CASE SaveKey(r)
  <2>1. TypeOK'
    BY <1>1, <1>3 DEF SaveKey, TypeOK, Goto, Places, book
  <2>2. RightPlaces'
    BY <1>3, OtherKinds DEF SaveKey, TypeOK, RightPlaces, Goto, book
  <2> QED
    BY <2>1, <2>2
<1>4. CASE Reset(r)
  <2>1. TypeOK'
    BY <1>1, <1>4, RunKinds DEF Reset, Unlock, TypeOK, Goto, Places
  <2>2. RightPlaces'
    BY <1>4, RunKinds, OtherKinds DEF Reset, TypeOK, RightPlaces, Goto
  <2> QED
    BY <2>1, <2>2
<1> QED
  BY <1>2, <1>3, <1>4

\* A step fails: of the stores, the panel, the row or the reserved expiry
\* may have been written.
LEMMA FailTyped ==
    ASSUME Typed, NEW r \in Runs, StepFails(r)
    PROVE  Typed'
<1> USE DEF Typed
<1>1. work[r] \in KeyObject /\ work[r].expiry \in Nat /\ ProcOf(r) \in Procs
  BY RunKinds DEF TypeOK, KeyObject
<1>2. pc[r] = "guard" => Target(r) \in Nat /\ r[1] \in Payments
  BY <1>1, RunKinds DEF RightPlaces, Target, TypeOK
<1>3. /\ db' \in KeyObject /\ panel' \in Nat /\ reserved' \in [Payments -> Nat \cup {None}]
      /\ db' = db \/ db' = work[r]
  BY <1>1, <1>2 DEF StepFails, TypeOK
<1>4. TypeOK'
  BY <1>1, <1>3, FaultCount DEF StepFails, TypeOK, Goto, Places, End, Unlock
<1>5. RightPlaces'
  BY RunKinds, OtherKinds DEF StepFails, TypeOK, RightPlaces, Goto, End
<1> QED
  BY <1>4, <1>5

\* The writers without the lock.
LEMMA EditTyped ==
    ASSUME Typed, NEW r \in Runs, BeginEdit(r)
    PROVE  Typed'
<1> USE DEF Typed
<1>1. cached["app"] \in KeyObject /\ "app" \in Procs
  BY RenewalConstants DEF TypeOK
<1>2. PICK key : /\ key \in {[cached["app"] EXCEPT !.trial = trial] : trial \in NamedTariffs}
                            \cup {[cached["app"] EXCEPT !.expiry = d] : d \in EditDates}
                 /\ work' = [work EXCEPT ![r] = key]
                 /\ cached' = [cached EXCEPT !["app"] = key]
  BY DEF BeginEdit
<1>3. key \in KeyObject
  <2>1. ASSUME NEW trial \in NamedTariffs PROVE [cached["app"] EXCEPT !.trial = trial] \in KeyObject
    BY <1>1, TariffedKey, RenewalConstants
  <2>2. ASSUME NEW d \in EditDates PROVE [cached["app"] EXCEPT !.expiry = d] \in KeyObject
    BY <1>1, DatedKey, RenewalConstants
  <2> QED
    BY <1>2, <2>1, <2>2
<1>4. TypeOK'
  BY <1>1, <1>2, <1>3 DEF BeginEdit, TypeOK, Goto, Places, book
<1>5. RightPlaces'
  BY OtherKinds DEF BeginEdit, TypeOK, RightPlaces, Goto, book
<1> QED
  BY <1>4, <1>5

\* The steps of a bonus claim.
LEMMA BonusTyped ==
    ASSUME Typed, NEW r \in Runs,
           ClaimBonus(r) \/ InsertFlag(r) \/ SaveBonus(r) \/ BonusFails(r)
    PROVE  Typed'
<1> USE DEF Typed
<1>1. /\ work[r] \in KeyObject /\ work[r].expiry \in Nat /\ "app" \in Procs
      /\ db \in KeyObject
  BY RenewalConstants DEF TypeOK, KeyObject
<1>2. CASE ClaimBonus(r)
  <2> DEFINE new == Extended(db, Period[r])
  <2>1. r \in Bonuses /\ Period[r] \in Nat
    BY <1>2, PeriodNat DEF ClaimBonus, Tasks
  <2>2. new \in KeyObject /\ new.trial = db.trial
    BY <1>1, <2>1, ExtendedKey
  <2> HIDE DEF new
  <2>3. /\ \/ work' = [work EXCEPT ![r] = new] /\ Goto(r, "flag")
           \/ work' = work /\ Goto(r, "over")
        /\ UNCHANGED <<now, stores, lock, book, snap, faults, reloads>>
    BY <1>2 DEF ClaimBonus, new
  <2>4. TypeOK'
    BY <2>2, <2>3 DEF TypeOK, Goto, Places, stores, book
  <2>5. RightPlaces'
    BY <1>2, <2>1, <2>3, OtherKinds DEF ClaimBonus, TypeOK, RightPlaces, Goto, book
  <2> QED
    BY <2>4, <2>5
<1>3. CASE InsertFlag(r)
  <2>1. r \in Bonuses
    BY <1>3 DEF InsertFlag, RightPlaces
  <2>2. TypeOK'
    BY <1>3, <2>1 DEF InsertFlag, TypeOK, Goto, Places, stores
  <2>3. RightPlaces'
    BY <1>3, <2>1, OtherKinds DEF InsertFlag, TypeOK, RightPlaces, Goto
  <2> QED
    BY <2>2, <2>3
<1>4. CASE SaveBonus(r)
  <2>1. r \in Bonuses
    BY <1>4 DEF SaveBonus, RightPlaces
  <2>2. db' \in KeyObject /\ db'.trial = db.trial
    BY <1>1, <1>4, DatedKey DEF SaveBonus
  <2>3. TypeOK'
    BY <1>1, <1>4, <2>1, <2>2, OtherKinds DEF SaveBonus, TypeOK, Goto, Places
  <2>4. RightPlaces'
    BY <1>4, <2>1, OtherKinds DEF SaveBonus, TypeOK, RightPlaces, Goto
  <2> QED
    BY <2>3, <2>4
<1>5. CASE BonusFails(r)
  <2>1. r \in Bonuses
    BY <1>5 DEF BonusFails
  <2>2. TypeOK'
    BY <1>1, <1>5, <2>1, FaultCount DEF BonusFails, TypeOK, Goto, Places
  <2>3. RightPlaces'
    BY <1>5, <2>1, OtherKinds DEF BonusFails, TypeOK, RightPlaces, Goto
  <2> QED
    BY <2>2, <2>3
<1> QED
  BY <1>2, <1>3, <1>4, <1>5

\* The reload of the cache, the clock and the restart of a process.
LEMMA ReloadTyped == Typed /\ (ReloadReads \/ ReloadWrites \/ Tick) => Typed'
<1> SUFFICES ASSUME Typed PROVE ReloadReads \/ ReloadWrites \/ Tick => Typed'
  OBVIOUS
<1> USE DEF Typed
<1>1. "app" \in Procs
  BY RenewalConstants
<1>2. ASSUME ReloadReads PROVE Typed'
  <2>1. TypeOK'
    BY <1>2, RenewalConstants DEF ReloadReads, TypeOK, stores, book
  <2>2. RightPlaces'
    BY <1>2 DEF ReloadReads, RightPlaces, book
  <2> QED
    BY <2>1, <2>2
<1>3. ASSUME ReloadWrites PROVE Typed'
  <2>1. TypeOK'
    BY <1>1, <1>3 DEF ReloadWrites, TypeOK, book
  <2>2. RightPlaces'
    BY <1>3 DEF ReloadWrites, RightPlaces, book
  <2> QED
    BY <2>1, <2>2
<1>4. ASSUME Tick PROVE Typed'
  <2>1. TypeOK'
    BY <1>4, RenewalConstants DEF Tick, TypeOK, stores, book
  <2>2. RightPlaces'
    BY <1>4 DEF Tick, RightPlaces, book
  <2> QED
    BY <2>1, <2>2
<1> QED
  BY <1>2, <1>3, <1>4

\* The runs a restart cuts off.
Cut(c) == {r \in Runs : ProcOf(r) = c /\ pc[r] \notin {"idle", "over"}}

\* A crash of a process.
LEMMA RestartTyped ==
    ASSUME Typed, NEW c \in Procs, Restart(c)
    PROVE  Typed'
<1> USE DEF Typed
<1>1. /\ pc' = [r \in Runs |-> IF r \in Cut(c) THEN End(r) ELSE pc[r]]
      /\ faults' = faults \/ Fault
      /\ flag' = flag \/ flag' = None
      /\ snap' = snap \/ snap' = None
  BY DEF Restart, Cut
<1>2. TypeOK'
  <2>1. faults' \in 0..MaxFaults
    BY <1>1, FaultCount DEF TypeOK
  <2>2. pc' \in [Runs -> Places]
    BY <1>1 DEF End, Places, TypeOK
  <2> QED
    BY <1>1, <2>1, <2>2 DEF Restart, TypeOK
<1>3. RightPlaces'
  BY <1>1, RunKinds, OtherKinds DEF Restart, RightPlaces, End, Cut
<1> QED
  BY <1>2, <1>3

\* Types and places are kept by every step.
LEMMA NextTyped == Typed /\ [Next]_vars => Typed'
<1> SUFFICES ASSUME Typed, [Next]_vars PROVE Typed'
  OBVIOUS
<1>1. CASE UNCHANGED vars
  BY <1>1 DEF Typed, vars, stores, book, TypeOK, RightPlaces
<1>2. CASE Next
  BY <1>2, BeginTyped, ComputeTyped, WriteTyped, FailTyped, EditTyped, BonusTyped, ReloadTyped,
     RestartTyped DEF Next
<1> QED
  BY <1>1, <1>2
-----------------------------------------------------------------------------
(* Nothing holds more days than were applied                               *)

\* A reserved expiry stays reserved, a request that began stays begun.
LEMMA StepForward ==
    ASSUME Typed, [Next]_vars
    PROVE  Forward
<1> USE DEF Typed
<1>1. now <= now'
  BY RenewalConstants DEF TypeOK, Next, vars, stores, book, Tick, BeginPaid, BeginRenewal, Acquire,
     ReadRow, ReserveExpiry, ExtendClientKey, SaveKey, Reset, Settle, StepFails, BeginEdit,
     ClaimBonus, InsertFlag, SaveBonus, BonusFails, ReloadReads, ReloadWrites, Restart
<1>2. \A p \in Payments : reserved[p] # None => reserved'[p] # None
  <2>1. ASSUME NEW r \in Runs, pc[r] = "guard", reserved' = [reserved EXCEPT ![r[1]] = Target(r)]
        PROVE  \A p \in Payments : reserved[p] # None => reserved'[p] # None
    <3>1. r[1] \in Payments /\ work[r].expiry \in Nat
      BY <2>1, RunKinds DEF RightPlaces, TypeOK, KeyObject
    <3>2. Target(r) \in Nat
      BY <3>1 DEF Target, TypeOK
    <3> QED
      BY <2>1, <3>1, <3>2, RenewalConstants DEF TypeOK
  <2>2. \/ reserved' = reserved
        \/ \E r \in Runs : pc[r] = "guard" /\ reserved' = [reserved EXCEPT ![r[1]] = Target(r)]
    BY DEF Next, vars, stores, book, Tick, BeginPaid, BeginRenewal, Acquire,
       ReadRow, ReserveExpiry, ExtendClientKey, SaveKey, Reset, Settle, StepFails, BeginEdit,
       ClaimBonus, InsertFlag, SaveBonus, BonusFails, ReloadReads, ReloadWrites, Restart
  <2> QED
    BY <2>1, <2>2
<1>3. \A r \in OneShots :
         /\ pc[r] # "idle" => pc'[r] # "idle"
         /\ pc[r] \notin {"idle", "lock"} => pc'[r] \notin {"idle", "lock"}
         /\ r \in BulkRenewals /\ pc[r] \notin {"idle", "lock", "read"}
               => pc'[r] \notin {"idle", "lock", "read"}
  <2> DEFINE Onward(q, here, there) ==
         /\ here # "idle" => there # "idle"
         /\ here \notin {"idle", "lock"} => there \notin {"idle", "lock"}
         /\ q \in BulkRenewals /\ here \notin {"idle", "lock", "read"}
               => there \notin {"idle", "lock", "read"}
  <2> SUFFICES ASSUME NEW q \in OneShots PROVE Onward(q, pc[q], pc'[q])
    OBVIOUS
  <2>1. q \in Runs /\ q \notin PaidRuns /\ (q \in Bonuses => q \notin BulkRenewals)
    BY RunKinds, OtherKinds
  <2>2. CASE pc' = pc
    BY <2>2
  <2>3. ASSUME NEW r \in Runs, NEW place, Goto(r, place), Onward(r, pc[r], place) \/ r \in PaidRuns
        PROVE  Onward(q, pc[q], pc'[q])
    BY <2>1, <2>3 DEF Goto, TypeOK
  <2>4. ASSUME NEW r \in Runs,
               \/ BeginPaid(r) \/ BeginRenewal(r) \/ Acquire(r) \/ ReadRow(r)
               \/ ReserveExpiry(r) \/ ExtendClientKey(r) \/ SaveKey(r) \/ Reset(r)
               \/ Settle(r) \/ StepFails(r)
               \/ BeginEdit(r)
               \/ ClaimBonus(r) \/ InsertFlag(r) \/ SaveBonus(r) \/ BonusFails(r)
        PROVE  \E place : Goto(r, place) /\ (Onward(r, pc[r], place) \/ r \in PaidRuns)
    <3>1. BeginPaid(r) => Goto(r, "lock") /\ r \in PaidRuns
      BY DEF BeginPaid
    <3>2. BeginRenewal(r) => Goto(r, "lock") /\ pc[r] = "idle"
      BY DEF BeginRenewal
    <3>3. Acquire(r) => /\ pc[r] = "lock"
                        /\ Goto(r, "read") \/ Goto(r, "guard") \/ Goto(r, "panel")
      BY DEF Acquire
    <3>4. ReadRow(r) \/ ReserveExpiry(r) => Goto(r, "panel")
      BY DEF ReadRow, ReserveExpiry
    <3>5. ExtendClientKey(r) => Goto(r, "bonusSave") \/ Goto(r, "save")
      BY DEF ExtendClientKey
    <3>6. SaveKey(r) => Goto(r, "reset")
      BY DEF SaveKey
    <3>7. Reset(r) => Goto(r, "settle") \/ Goto(r, "over")
      BY DEF Reset
    <3>8. Settle(r) => Goto(r, "idle") /\ r \in PaidRuns
      BY DEF Settle, RightPlaces
    <3>9. StepFails(r) => Goto(r, "over") \/ (Goto(r, "idle") /\ r \in PaidRuns)
      BY DEF StepFails, End
    <3>10. BeginEdit(r) => Goto(r, "panel")
      BY DEF BeginEdit
    <3>11. ClaimBonus(r) => pc[r] = "idle" /\ (Goto(r, "flag") \/ Goto(r, "over"))
      BY DEF ClaimBonus
    <3>12. InsertFlag(r) \/ SaveBonus(r) \/ BonusFails(r) => Goto(r, "panel") \/ Goto(r, "over")
      BY DEF InsertFlag, SaveBonus, BonusFails
    <3> QED
      BY <2>4, <3>1, <3>2, <3>3, <3>4, <3>5, <3>6, <3>7, <3>8, <3>9, <3>10, <3>11, <3>12
  <2>5. ASSUME NEW c \in Procs, Restart(c) PROVE Onward(q, pc[q], pc'[q])
    BY <2>1, <2>5 DEF Restart, End
  <2>6. Tick \/ ReloadReads \/ ReloadWrites \/ UNCHANGED vars => pc' = pc
    BY DEF Tick, ReloadReads, ReloadWrites, vars
  <2> QED
    BY <2>2, <2>3, <2>4, <2>5, <2>6 DEF Next
<1>4. \A e \in Edits : pc[e] # "idle" => pc'[e] # "idle"
  BY <1>3, OtherKinds
<1>5. Applied \subseteq Applied'
  BY <1>2, <1>3, OtherKinds DEF Applied
<1> QED
  BY <1>1, <1>4, <1>5 DEF Forward
\* The facts every step of Bounded starts from.
LEMMA StepBounds ==
    ASSUME Typed, [Next]_vars
    PROVE  /\ Typed' /\ Bound \in Nat /\ Bound' \in Nat /\ Bound <= Bound'
           /\ \A d \in Origin' : d \in Nat /\ d <= Bound'
           /\ \A t \in Tasks : t \in Applied' \ Applied => Bound + Period[t] <= Bound'
<1>1. Typed' /\ Forward
  BY NextTyped, StepForward
<1>2. TypeOK /\ TypeOK'
  BY <1>1 DEF Typed
<1> QED
  BY <1>1, <1>2, BoundGrows

\* A date computed from one within the bound.
LEMMA LaterBounded ==
    ASSUME Typed, Bounded
    PROVE  /\ Later(now, db.expiry) <= Bound
           /\ \A c \in Procs :
                 Later(now, IF cached[c].trial THEN TrialEnd ELSE cached[c].expiry) <= Bound
<1>1. now \in Origin
  BY DEF Origin
<1>2. now \in Nat /\ now <= Bound /\ Bound \in Nat
  BY <1>1, BoundNat DEF Typed
<1>3. TrialEnd \in Nat /\ TrialEnd <= Bound
  <2>1. TrialEnd \in Origin
    BY DEF Origin
  <2> QED
    BY <2>1, BoundNat DEF Typed
<1>4. /\ db.expiry \in Nat /\ db.expiry <= Bound
      /\ \A c \in Procs : cached[c].expiry \in Nat /\ cached[c].expiry <= Bound
  BY DEF Bounded, StoresBounded, Typed, TypeOK, KeyObject
<1> QED
  BY <1>2, <1>3, <1>4 DEF Later

\* At first nothing is beyond the bound.
LEMMA InitBounded == Init => Bounded
<1> SUFFICES ASSUME Init PROVE Bounded
  OBVIOUS
<1>1. TypeOK
  BY InitTyped DEF Typed
<1>2. Bound \in Nat /\ InitialExpiry <= Bound
  BY <1>1, BoundNat DEF Origin
<1>3. db.expiry = InitialExpiry
  BY DEF Init, InitialKeys
<1> QED
  BY <1>2, <1>3, RenewalConstants DEF Init, Bounded, StoresBounded, RunBounded

\* What a step does not touch stays within the bound.
LEMMA SameStores ==
    ASSUME Typed, Bounded, [Next]_vars, UNCHANGED <<db, panel, cached, reserved, snap>>
    PROVE  StoresBounded'
<1>1. Bound \in Nat /\ Bound' \in Nat /\ Bound <= Bound'
  BY StepBounds
<1>2. /\ db.expiry \in Nat /\ panel \in Nat /\ \A c \in Procs : cached[c].expiry \in Nat
      /\ snap # None => snap.expiry \in Nat
      /\ \A p \in Payments : reserved[p] # None => reserved[p] \in Nat
  BY DEF Typed, TypeOK, KeyObject
<1> QED
  BY <1>1, <1>2 DEF Bounded, StoresBounded

\* A run that a step does not touch stays within the bound.
LEMMA SameRun ==
    ASSUME Typed, Bounded, [Next]_vars, NEW q \in Runs, work'[q] = work[q], pc'[q] = pc[q]
    PROVE  RunBounded(q)'
<1>1. Bound \in Nat /\ Bound' \in Nat /\ Bound <= Bound'
  BY StepBounds
<1>2. work[q].expiry \in Nat
  BY DEF Typed, TypeOK, KeyObject
<1>3. pc[q] = "guard" => Period[q[1]] \in Nat /\ q[1] \in Payments
  BY RunKinds DEF Typed, RightPlaces
<1>4. \A p \in Payments : reserved[p] # None => reserved'[p] # None
  BY StepForward, RenewalConstants DEF Forward, Applied, OneShots
<1> QED
  BY <1>1, <1>2, <1>3, <1>4 DEF Bounded, RunBounded

\* The run that moves: it is enough that its object is within the bound.
LEMMA MovedRun ==
    ASSUME Typed, Bounded, [Next]_vars, NEW r \in Runs, StoresBounded',
           \A q \in Runs \ {r} : work'[q] = work[q] /\ pc'[q] = pc[q],
           RunBounded(r)'
    PROVE  Bounded'
  BY SameRun DEF Bounded

\* A run that begins has read a cached key.
LEMMA BeginBounded ==
    ASSUME Typed, Bounded, [Next]_vars, NEW r \in Runs, BeginPaid(r) \/ BeginRenewal(r) \/ Settle(r)
    PROVE  Bounded'
<1>1. Bound \in Nat /\ Bound' \in Nat /\ Bound <= Bound'
  BY StepBounds
<1>2. UNCHANGED <<db, panel, cached, reserved, snap>>
  BY DEF BeginPaid, BeginRenewal, Settle, stores, book
<1>3. \/ /\ Goto(r, "lock")
         /\ \E c \in Procs : work' = [work EXCEPT ![r] = cached[c]]
      \/ work' = work /\ Goto(r, "idle")
  BY RunKinds, RenewalConstants DEF BeginPaid, BeginRenewal, Settle
<1>4. \A q \in Runs \ {r} : work'[q] = work[q] /\ pc'[q] = pc[q]
  BY <1>3 DEF Typed, TypeOK, Goto
<1>5. pc'[r] = "idle" \/ (pc'[r] = "lock" /\ \E c \in Procs : work'[r] = cached[c])
  BY <1>3 DEF Typed, TypeOK, Goto
<1>6. \A c \in Procs : cached[c].expiry \in Nat /\ cached[c].expiry <= Bound
  BY DEF Bounded, StoresBounded, Typed, TypeOK, KeyObject
<1>7. RunBounded(r)'
  BY <1>1, <1>5, <1>6 DEF RunBounded
<1> QED
  BY <1>2, <1>4, <1>7, SameStores, MovedRun

\* Under the lock a free renewal is applied; a payment is at the guard, and
\* an admin's renewal has to read the row.
LEMMA AcquireBounded ==
    ASSUME Typed, Bounded, [Next]_vars, NEW r \in Runs, Acquire(r)
    PROVE  Bounded'
<1>1. Bound \in Nat /\ Bound' \in Nat /\ Bound <= Bound'
  BY StepBounds
<1>2. r \notin Edits /\ r \notin Bonuses /\ pc[r] = "lock"
  BY DEF Acquire, Typed, RightPlaces
<1>3. /\ cached[ProcOf(r)] \in KeyObject /\ Period[TaskOf(r)] \in Nat /\ TaskOf(r) \in Tasks
      /\ ProcOf(r) \in Procs
  BY <1>2, RunKinds DEF Typed, TypeOK
<1>4. ASSUME NEW trial \in AppliedTariffs(r)
      PROVE  /\ Refreshed(Reread(r), Period[TaskOf(r)], trial).expiry \in Nat
             /\ Refreshed(Reread(r), Period[TaskOf(r)], trial).expiry <= Bound + Period[TaskOf(r)]
  <2> DEFINE new == Refreshed(Reread(r), Period[TaskOf(r)], trial)
             late == Later(now, IF cached[ProcOf(r)].trial THEN TrialEnd ELSE cached[ProcOf(r)].expiry)
  <2>1. new.expiry = Period[TaskOf(r)] + late
    BY <1>3, RefreshedKey, TariffsTyped DEF Reread, Typed
  <2> HIDE DEF new
  <2>2. late <= Bound /\ late \in Nat
    BY <1>3, LaterBounded, RenewalConstants DEF Later, Typed, TypeOK, KeyObject
  <2> HIDE DEF late
  <2>3. new.expiry \in Nat /\ new.expiry <= Bound + Period[TaskOf(r)]
    BY <1>1, <1>3, <2>1, <2>2
  <2> QED
    BY <2>3 DEF new
<1>5. UNCHANGED <<db, panel, cached, reserved, snap>>
  BY DEF Acquire, stores, book
<1>6. PICK new : /\ new.expiry \in Nat /\ new.expiry <= Bound + Period[TaskOf(r)]
                 /\ \/ r \in BulkRenewals /\ Goto(r, "read") /\ work' = work
                    \/ r \in PaidRuns /\ Goto(r, "guard") /\ work' = [work EXCEPT ![r] = new]
                    \/ r \in FreeRenewals /\ Goto(r, "panel") /\ work' = [work EXCEPT ![r] = new]
  <2>1. CASE r \in BulkRenewals
    <3>1. Goto(r, "read") /\ work' = work
      BY <2>1 DEF Acquire
    <3>2. work[r].expiry <= Bound /\ work[r].expiry \in Nat
      BY <1>2 DEF Bounded, RunBounded, Typed, TypeOK, KeyObject
    <3>3. work[r].expiry <= Bound + Period[TaskOf(r)]
      BY <1>1, <1>3, <3>2
    <3> QED
      BY <2>1, <3>1, <3>2, <3>3
  <2>2. CASE r \notin BulkRenewals
    <3>1. r \in PaidRuns \/ r \in FreeRenewals
      BY <1>2, <2>2, RunKinds DEF OneShots
    <3>2. PICK trial \in AppliedTariffs(r) :
             work' = [work EXCEPT ![r] = Refreshed(Reread(r), Period[TaskOf(r)], trial)]
      BY <2>2 DEF Acquire
    <3>3. (r \in PaidRuns /\ Goto(r, "guard")) \/ (r \in FreeRenewals /\ Goto(r, "panel"))
      BY <2>2, <3>1 DEF Acquire
    <3> QED
      BY <1>4, <3>2, <3>3
  <2> QED
    BY <2>1, <2>2
<1>7. \A q \in Runs \ {r} : work'[q] = work[q] /\ pc'[q] = pc[q]
  BY <1>6 DEF Typed, TypeOK, Goto
<1>8. RunBounded(r)'
  <2>1. CASE r \in BulkRenewals /\ Goto(r, "read") /\ work' = work
    <3>1. pc'[r] = "read" /\ work'[r] = work[r] /\ work[r].expiry <= Bound /\ work[r].expiry \in Nat
      BY <1>2, <2>1 DEF Typed, TypeOK, Goto, Bounded, RunBounded, KeyObject
    <3> QED
      BY <1>1, <3>1 DEF RunBounded
  <2>2. CASE r \in PaidRuns /\ Goto(r, "guard") /\ work' = [work EXCEPT ![r] = new]
    <3>1. pc'[r] = "guard" /\ work'[r] = new /\ TaskOf(r) = r[1]
      BY <2>2, RunKinds DEF Typed, TypeOK, Goto
    <3> QED
      BY <1>1, <1>3, <1>6, <3>1 DEF RunBounded
  <2>3. CASE r \in FreeRenewals /\ Goto(r, "panel") /\ work' = [work EXCEPT ![r] = new]
    <3>1. pc'[r] = "panel" /\ work'[r] = new /\ TaskOf(r) = r
      BY <2>3, RunKinds, OtherKinds DEF Typed, TypeOK, Goto
    <3>2. r \in Applied' \ Applied
      BY <1>2, <2>3, <3>1, OtherKinds, RenewalConstants DEF Applied
    <3>3. Bound + Period[r] <= Bound'
      BY <1>3, <3>1, <3>2, StepBounds
    <3> QED
      BY <1>1, <1>3, <1>6, <3>1, <3>3 DEF RunBounded
  <2> QED
    BY <1>6, <2>1, <2>2, <2>3
<1> QED
  BY <1>5, <1>7, <1>8, SameStores, MovedRun

\* An admin's renewal, or a bonus, extends the row it has read.
LEMMA ExtendBounded ==
    ASSUME Typed, Bounded, [Next]_vars, NEW r \in Runs, ReadRow(r) \/ ClaimBonus(r)
    PROVE  Bounded'
<1> DEFINE new == Extended(db, Period[r])
<1>1. Bound \in Nat /\ Bound' \in Nat /\ Bound <= Bound'
  BY StepBounds
<1>2. /\ r \in BulkRenewals \/ r \in Bonuses
      /\ r \in Tasks /\ Period[r] \in Nat /\ db \in KeyObject
  BY PeriodNat DEF ReadRow, ClaimBonus, Typed, RightPlaces, TypeOK, Tasks
<1>3. new.expiry \in Nat /\ new.expiry <= Bound + Period[r]
  <2>1. new.expiry = Period[r] + Later(now, db.expiry)
    BY <1>2, ExtendedKey DEF Typed
  <2> HIDE DEF new
  <2>2. Later(now, db.expiry) <= Bound /\ Later(now, db.expiry) \in Nat
    BY <1>2, LaterBounded DEF Later, Typed, TypeOK, KeyObject
  <2> QED
    BY <1>1, <1>2, <2>1, <2>2
<1> HIDE DEF new
<1>4. UNCHANGED <<db, panel, cached, reserved, snap>>
  BY DEF ReadRow, ClaimBonus, stores, book
<1>5. \/ r \in BulkRenewals /\ pc[r] = "read" /\ Goto(r, "panel") /\ work' = [work EXCEPT ![r] = new]
      \/ r \in Bonuses /\ pc[r] = "idle" /\ Goto(r, "flag") /\ work' = [work EXCEPT ![r] = new]
      \/ r \in Bonuses /\ pc[r] = "idle" /\ Goto(r, "over") /\ work' = work
  BY <1>2 DEF ReadRow, ClaimBonus, new, Typed, RightPlaces
<1>6. \A q \in Runs \ {r} : work'[q] = work[q] /\ pc'[q] = pc[q]
  BY <1>5 DEF Typed, TypeOK, Goto
<1>7. r \in Applied' \ Applied
  <2>1. pc'[r] \in {"panel", "flag", "over"}
    BY <1>5 DEF Typed, TypeOK, Goto
  <2> QED
    BY <1>5, <2>1, OtherKinds, RenewalConstants DEF Applied
<1>8. Bound + Period[r] <= Bound'
  BY <1>2, <1>7, StepBounds
<1>9. pc'[r] = "over" \/ (work'[r] = new /\ pc'[r] \in {"panel", "flag"})
  BY <1>5 DEF Typed, TypeOK, Goto
<1>10. RunBounded(r)'
  BY <1>1, <1>2, <1>3, <1>8, <1>9 DEF RunBounded
<1> QED
  BY <1>4, <1>6, <1>10, SameStores, MovedRun

\* The date a payment applies is stored at its guard.
LEMMA TargetBounded ==
    ASSUME Typed, Bounded, [Next]_vars, NEW r \in Runs, pc[r] = "guard",
           reserved' = [reserved EXCEPT ![r[1]] = Target(r)]
    PROVE  Target(r) \in Nat /\ Target(r) <= Bound' /\ r[1] \in Payments
<1>1. Bound \in Nat /\ Bound' \in Nat /\ Bound <= Bound'
  BY StepBounds
<1>2. /\ r \in PaidRuns /\ r[1] \in Payments /\ r[1] \in Tasks
      /\ work[r] \in KeyObject /\ work[r].expiry \in Nat /\ Period[r[1]] \in Nat
  BY RunKinds, PeriodNat DEF Typed, RightPlaces, TypeOK, KeyObject, Tasks
<1>3. CASE reserved[r[1]] = None
  <2>1. Target(r) = work[r].expiry /\ work[r].expiry <= Bound + Period[r[1]]
    BY <1>2, <1>3 DEF Target, Bounded, RunBounded
  <2>2. reserved'[r[1]] # None
    BY <1>2, <2>1, RenewalConstants DEF Typed, TypeOK
  <2>3. r[1] \in Applied' \ Applied
    BY <1>2, <1>3, <2>2, RenewalConstants DEF Applied, OneShots
  <2>4. Bound + Period[r[1]] <= Bound'
    BY <1>2, <2>3, StepBounds
  <2> QED
    BY <1>1, <1>2, <2>1, <2>4
<1>4. CASE reserved[r[1]] # None
  BY <1>1, <1>2, <1>4 DEF Target, Bounded, StoresBounded, Typed, TypeOK
<1> QED
  BY <1>3, <1>4

\* The stores while a date is reserved.
LEMMA ReservedStores ==
    ASSUME Typed, Bounded, [Next]_vars, NEW r \in Runs, pc[r] = "guard",
           reserved' = [reserved EXCEPT ![r[1]] = Target(r)],
           UNCHANGED <<db, panel, cached, snap>>
    PROVE  StoresBounded'
<1>1. Bound \in Nat /\ Bound' \in Nat /\ Bound <= Bound'
  BY StepBounds
<1>2. Target(r) \in Nat /\ Target(r) <= Bound'
  BY TargetBounded
<1>3. \A p \in Payments : reserved'[p] = reserved[p] \/ reserved'[p] = Target(r)
  BY DEF Typed, TypeOK
<1>4. /\ db.expiry \in Nat /\ panel \in Nat /\ \A c \in Procs : cached[c].expiry \in Nat
      /\ snap # None => snap.expiry \in Nat
      /\ \A p \in Payments : reserved[p] # None => reserved[p] \in Nat
  BY DEF Typed, TypeOK, KeyObject
<1>5. \A p \in Payments : reserved'[p] # None => reserved'[p] <= Bound'
  BY <1>1, <1>2, <1>3, <1>4 DEF Bounded, StoresBounded
<1> QED
  BY <1>1, <1>4, <1>5 DEF Bounded, StoresBounded

\* The reservation of a payment's date.
LEMMA ReserveBounded ==
    ASSUME Typed, Bounded, [Next]_vars, NEW r \in Runs, ReserveExpiry(r)
    PROVE  Bounded'
<1>1. /\ pc[r] = "guard" /\ work[r] \in KeyObject
      /\ reserved' = [reserved EXCEPT ![r[1]] = Target(r)]
      /\ work' = [work EXCEPT ![r].expiry = Target(r)]
      /\ Goto(r, "panel")
      /\ UNCHANGED <<db, panel, cached, snap>>
  BY DEF ReserveExpiry, stores, Typed, TypeOK
<1>2. Target(r) \in Nat /\ Target(r) <= Bound'
  BY <1>1, TargetBounded
<1>3. StoresBounded'
  BY <1>1, ReservedStores
<1>4. \A q \in Runs \ {r} : work'[q] = work[q] /\ pc'[q] = pc[q]
  BY <1>1 DEF Typed, TypeOK, Goto
<1>5. pc'[r] = "panel" /\ work'[r].expiry = Target(r)
  <2>1. pc'[r] = "panel" /\ work'[r] = [work[r] EXCEPT !.expiry = Target(r)]
    BY <1>1 DEF Typed, TypeOK, Goto
  <2> QED
    BY <1>1, <1>2, <2>1, DatedKey
<1>6. RunBounded(r)'
  BY <1>2, <1>5 DEF RunBounded
<1> QED
  BY <1>3, <1>4, <1>6, MovedRun

\* A store takes the object of a run, or the row, or what a reload has read.
LEMMA WrittenStores ==
    ASSUME Typed, Bounded, [Next]_vars,
           reserved' = reserved,
           db' = db \/ \E r \in Runs : work[r].expiry <= Bound /\ db'.expiry = work[r].expiry,
           panel' = panel \/ \E r \in Runs : work[r].expiry <= Bound /\ panel' = work[r].expiry,
           \A c \in Procs : \/ cached'[c] = cached[c] \/ cached'[c] = db
                            \/ snap # None /\ cached'[c] = snap
                            \/ \E r \in Runs : work[r].expiry <= Bound /\ cached'[c] = work[r],
           snap' \in {snap, None, db}
    PROVE  StoresBounded'
<1>1. Bound \in Nat /\ Bound' \in Nat /\ Bound <= Bound'
  BY StepBounds
<1>2. /\ db.expiry \in Nat /\ panel \in Nat /\ \A c \in Procs : cached[c].expiry \in Nat
      /\ snap # None => snap.expiry \in Nat
      /\ \A p \in Payments : reserved[p] # None => reserved[p] \in Nat
      /\ \A r \in Runs : work[r].expiry \in Nat
  BY DEF Typed, TypeOK, KeyObject
<1>3. /\ db.expiry <= Bound /\ panel <= Bound
      /\ \A c \in Procs : cached[c].expiry <= Bound
      /\ snap # None => snap.expiry <= Bound
      /\ \A p \in Payments : reserved[p] # None => reserved[p] <= Bound
  BY DEF Bounded, StoresBounded
<1>4. db'.expiry \in Nat /\ db'.expiry <= Bound
  BY <1>2, <1>3
<1>5. panel' \in Nat /\ panel' <= Bound
  BY <1>2, <1>3
<1>6. ASSUME NEW c \in Procs PROVE cached'[c].expiry \in Nat /\ cached'[c].expiry <= Bound
  BY <1>2, <1>3
<1>7. snap' # None => snap'.expiry \in Nat /\ snap'.expiry <= Bound
  BY <1>2, <1>3
<1> QED
  BY <1>1, <1>2, <1>3, <1>4, <1>5, <1>6, <1>7 DEF StoresBounded

\* The writes to the panel, the row and the cache.
LEMMA WriteBounded ==
    ASSUME Typed, Bounded, [Next]_vars, NEW r \in Runs,
           \/ ExtendClientKey(r) \/ SaveKey(r) \/ Reset(r)
           \/ InsertFlag(r) \/ SaveBonus(r) \/ BonusFails(r)
    PROVE  Bounded'
<1>1. Bound \in Nat /\ Bound' \in Nat /\ Bound <= Bound'
  BY StepBounds
<1>2. pc[r] \notin {"idle", "over", "guard"}
  BY DEF ExtendClientKey, SaveKey, Reset, InsertFlag, SaveBonus, BonusFails
<1>3. work[r] \in KeyObject /\ work[r].expiry \in Nat /\ work[r].expiry <= Bound
  BY <1>2 DEF Bounded, RunBounded, Typed, TypeOK, KeyObject
<1>4. /\ reserved' = reserved /\ work' = work /\ snap' = snap
      /\ \E place \in Places \ {"guard"} : Goto(r, place)
  BY DEF ExtendClientKey, SaveKey, Reset, InsertFlag, SaveBonus, BonusFails, book, Places
<1>5. panel' = panel \/ panel' = work[r].expiry
  BY DEF ExtendClientKey, SaveKey, Reset, InsertFlag, SaveBonus, BonusFails, stores
<1>6. db' = db \/ db'.expiry = work[r].expiry
  <2>1. db' = db \/ db' = work[r] \/ db' = [db EXCEPT !.expiry = work[r].expiry]
    BY DEF ExtendClientKey, SaveKey, Reset, InsertFlag, SaveBonus, BonusFails, stores
  <2>2. [db EXCEPT !.expiry = work[r].expiry].expiry = work[r].expiry
    BY <1>3, DatedKey DEF Typed, TypeOK
  <2> QED
    BY <2>1, <2>2
<1>7. \A c \in Procs : cached'[c] = cached[c] \/ cached'[c] = work[r]
  BY DEF ExtendClientKey, SaveKey, Reset, InsertFlag, SaveBonus, BonusFails, stores, Typed, TypeOK
<1>8. StoresBounded'
  BY <1>3, <1>4, <1>5, <1>6, <1>7, WrittenStores
<1>9. /\ \A q \in Runs \ {r} : work'[q] = work[q] /\ pc'[q] = pc[q]
      /\ work'[r] = work[r] /\ pc'[r] # "guard"
  BY <1>4 DEF Typed, TypeOK, Goto
<1>10. RunBounded(r)'
  BY <1>1, <1>3, <1>9 DEF RunBounded
<1> QED
  BY <1>8, <1>9, <1>10, MovedRun

\* A statement or call that fails.
LEMMA FailBounded ==
    ASSUME Typed, Bounded, [Next]_vars, NEW r \in Runs, StepFails(r)
    PROVE  Bounded'
<1>1. Bound \in Nat /\ Bound' \in Nat /\ Bound <= Bound'
  BY StepBounds
<1>2. /\ work' = work /\ snap' = snap /\ cached' = cached
      /\ Goto(r, End(r)) /\ End(r) \in {"idle", "over"}
  BY DEF StepFails, End
<1>3. \A q \in Runs \ {r} : work'[q] = work[q] /\ pc'[q] = pc[q]
  BY <1>2 DEF Typed, TypeOK, Goto
<1>4. RunBounded(r)'
  BY <1>2 DEF RunBounded, Typed, TypeOK, Goto
<1>5. StoresBounded'
  <2>1. CASE reserved' = reserved
    <3>1. db' = db \/ (pc[r] = "save" /\ db' = work[r])
      BY DEF StepFails
    <3>2. panel' = panel \/ (pc[r] = "panel" /\ panel' = work[r].expiry)
      BY DEF StepFails
    <3>3. pc[r] \in {"save", "panel"} => work[r].expiry <= Bound
      BY DEF Bounded, RunBounded
    <3> QED
      BY <1>2, <2>1, <3>1, <3>2, <3>3, WrittenStores
  <2>2. CASE pc[r] = "guard" /\ reserved' = [reserved EXCEPT ![r[1]] = Target(r)] /\ db' = db /\ panel' = panel
    BY <1>2, <2>2, ReservedStores
  <2> QED
    BY <2>1, <2>2 DEF StepFails
<1> QED
  BY <1>3, <1>4, <1>5, MovedRun
\* A date an edit sets is one of the dates the bound starts from.
LEMMA EditBounded ==
    ASSUME Typed, Bounded, [Next]_vars, NEW r \in Runs, BeginEdit(r)
    PROVE  Bounded'
<1>1. Bound \in Nat /\ Bound' \in Nat /\ Bound <= Bound'
  BY StepBounds
<1>2. cached["app"] \in KeyObject /\ "app" \in Procs /\ cached["app"].expiry <= Bound
  BY RenewalConstants DEF Typed, TypeOK, Bounded, StoresBounded
<1>3. PICK key : /\ key \in {[cached["app"] EXCEPT !.trial = trial] : trial \in NamedTariffs}
                            \cup {[cached["app"] EXCEPT !.expiry = d] : d \in EditDates}
                 /\ work' = [work EXCEPT ![r] = key]
                 /\ cached' = [cached EXCEPT !["app"] = key]
  BY DEF BeginEdit
<1>4. r \in Edits /\ pc'[r] = "panel" /\ UNCHANGED <<db, panel, reserved, snap>>
  BY DEF BeginEdit, Typed, TypeOK, Goto, book
<1>5. key.expiry \in Nat /\ key.expiry <= Bound'
  <2>1. ASSUME NEW trial \in NamedTariffs, key = [cached["app"] EXCEPT !.trial = trial]
        PROVE  key.expiry \in Nat /\ key.expiry <= Bound'
    <3>1. key.expiry = cached["app"].expiry
      BY <1>2, <2>1, TariffedKey, RenewalConstants
    <3>2. cached["app"].expiry \in Nat
      BY <1>2 DEF KeyObject
    <3> QED
      BY <1>1, <1>2, <3>1, <3>2
  <2>2. ASSUME NEW d \in EditDates, key = [cached["app"] EXCEPT !.expiry = d]
        PROVE  key.expiry \in Nat /\ key.expiry <= Bound'
    <3>1. d \in Nat
      BY RenewalConstants
    <3>2. d \in Origin'
      BY <1>4 DEF Origin
    <3>3. key.expiry = d
      BY <1>2, <2>2, <3>1, DatedKey
    <3> QED
      BY <3>2, <3>3, StepBounds
  <2> QED
    BY <1>3, <2>1, <2>2
<1>6. StoresBounded'
  <2>1. /\ db.expiry \in Nat /\ panel \in Nat /\ \A c \in Procs : cached[c].expiry \in Nat
        /\ snap # None => snap.expiry \in Nat
        /\ \A p \in Payments : reserved[p] # None => reserved[p] \in Nat
    BY DEF Typed, TypeOK, KeyObject
  <2>2. \A c \in Procs : cached'[c] = cached[c] \/ cached'[c] = key
    BY <1>3 DEF Typed, TypeOK
  <2>3. \A c \in Procs : cached'[c].expiry <= Bound'
    BY <1>1, <1>5, <2>1, <2>2 DEF Bounded, StoresBounded
  <2> QED
    BY <1>1, <1>4, <2>1, <2>3 DEF Bounded, StoresBounded
<1>7. \A q \in Runs \ {r} : work'[q] = work[q] /\ pc'[q] = pc[q]
  BY <1>3 DEF BeginEdit, Typed, TypeOK, Goto
<1>8. RunBounded(r)'
  <2>1. work'[r] = key
    BY <1>3 DEF Typed, TypeOK
  <2> QED
    BY <1>4, <1>5, <2>1 DEF RunBounded
<1> QED
  BY <1>6, <1>7, <1>8, MovedRun

\* The clock, reloads and restarts.
LEMMA OtherBounded ==
    ASSUME Typed, Bounded, [Next]_vars,
           \/ UNCHANGED vars \/ Tick \/ ReloadReads \/ ReloadWrites
           \/ \E c \in Procs : Restart(c)
    PROVE  Bounded'
<1>1. /\ reserved' = reserved /\ db' = db /\ panel' = panel /\ work' = work
      /\ snap' \in {snap, None, db}
  BY DEF vars, stores, book, Tick, ReloadReads, ReloadWrites, Restart
<1>2. \A c \in Procs : \/ cached'[c] = cached[c] \/ cached'[c] = db
                       \/ snap # None /\ cached'[c] = snap
  BY DEF vars, stores, Tick, ReloadReads, ReloadWrites, Restart, Typed, TypeOK
<1>3. StoresBounded'
  BY <1>1, <1>2, WrittenStores
<1>4. ASSUME NEW q \in Runs PROVE RunBounded(q)'
  <2>1. pc'[q] = pc[q] \/ pc'[q] \in {"idle", "over"}
    BY DEF vars, Tick, ReloadReads, ReloadWrites, Restart, End
  <2>2. CASE pc'[q] = pc[q]
    BY <1>1, <2>2, SameRun
  <2>3. CASE pc'[q] \in {"idle", "over"}
    BY <2>3 DEF RunBounded
  <2> QED
    BY <2>1, <2>2, <2>3
<1> QED
  BY <1>3, <1>4 DEF Bounded

\* Every step keeps everything within the bound.
LEMMA NextBounded == Typed /\ Bounded /\ [Next]_vars => Bounded'
<1> SUFFICES ASSUME Typed, Bounded, [Next]_vars PROVE Bounded'
  OBVIOUS
<1>1. CASE UNCHANGED vars
  BY <1>1, OtherBounded
<1>2. CASE Next
  BY <1>2, BeginBounded, AcquireBounded, ExtendBounded, ReserveBounded, WriteBounded, FailBounded,
     EditBounded, OtherBounded DEF Next
<1> QED
  BY <1>1, <1>2

-----------------------------------------------------------------------------
(* One bonus                                                               *)

\* At first there is no bonus claim.
LEMMA InitOneClaim == Init => OneClaim
  BY OtherKinds DEF Init, OneClaim

\* Every step keeps the bonus claims apart.
LEMMA NextOneClaim == Typed /\ OneClaim /\ [Next]_vars => OneClaim'
<1> SUFFICES ASSUME Typed, OneClaim, [Next]_vars PROVE OneClaim'
  OBVIOUS
<1> USE DEF Typed
<1>1. CASE /\ flag' = flag /\ added' \cap Bonuses = added \cap Bonuses
           /\ \A q \in Bonuses : pc'[q] \in {"panel", "bonusSave"} => pc[q] \in {"panel", "bonusSave"}
  BY <1>1 DEF OneClaim
<1>2. ASSUME NEW r \in Runs, InsertFlag(r)
      PROVE  OneClaim'
  <2>1. r \in Bonuses /\ added' = added
    BY <1>2 DEF InsertFlag, RightPlaces
  <2>2. CASE flag = None /\ flag' = r /\ Goto(r, "panel")
    <3>1. \A q \in Bonuses : pc[q] \notin {"panel", "bonusSave"}
      BY <2>2, OtherKinds, RenewalConstants DEF OneClaim
    <3>2. added \cap Bonuses = {}
      BY <2>2, RenewalConstants DEF OneClaim
    <3> QED
      BY <2>1, <2>2, <3>1, <3>2, OtherKinds DEF OneClaim, Goto, TypeOK
  <2>3. CASE flag = "claimed" /\ flag' = flag /\ Goto(r, "over")
    BY <2>1, <2>3, OtherKinds DEF OneClaim, Goto, TypeOK
  <2> QED
    BY <1>2, <2>2, <2>3 DEF InsertFlag
<1>3. ASSUME NEW r \in Runs, SaveBonus(r)
      PROVE  OneClaim'
  <2>1. r \in Bonuses /\ flag = r /\ r # "claimed"
    BY <1>3, OtherKinds, RenewalConstants DEF SaveBonus, RightPlaces, OneClaim
  <2>2. added \cap Bonuses = {} /\ \A q \in Bonuses \ {r} : pc[q] \notin {"panel", "bonusSave"}
    BY <2>1 DEF OneClaim
  <2>3. /\ added' \cap Bonuses = {r} /\ flag' = "claimed"
        /\ \A q \in Bonuses : pc'[q] \notin {"panel", "bonusSave"}
    BY <1>3, <2>1, <2>2, OtherKinds DEF SaveBonus, Goto, TypeOK
  <2> QED
    BY <2>3 DEF OneClaim
<1>4. ASSUME NEW r \in Runs, BonusFails(r)
      PROVE  OneClaim'
  <2>1. r \in Bonuses /\ flag = r /\ r # "claimed"
    BY <1>4, OtherKinds, RenewalConstants DEF BonusFails, OneClaim
  <2>2. added \cap Bonuses = {} /\ \A q \in Bonuses \ {r} : pc[q] \notin {"panel", "bonusSave"}
    BY <2>1 DEF OneClaim
  <2>3. /\ added' = added
        /\ \A q \in Bonuses : pc'[q] \notin {"panel", "bonusSave"}
    BY <1>4, <2>1, <2>2, OtherKinds DEF BonusFails, Goto, TypeOK
  <2> QED
    BY <2>2, <2>3 DEF OneClaim
<1>5. ASSUME NEW c \in Procs, Restart(c)
      PROVE  OneClaim'
  <2>1. added' = added /\ flag' = (IF flag \in Cut(c) THEN None ELSE flag)
    BY <1>5 DEF Restart, Cut
  <2>2. \A q \in Bonuses : pc'[q] \in {"panel", "bonusSave"} =>
                              pc[q] \in {"panel", "bonusSave"} /\ q \notin Cut(c)
    BY <1>5, OtherKinds DEF Restart, Cut, End
  <2>3. flag \in Cut(c) => flag \in Bonuses
    BY RenewalConstants DEF Cut, TypeOK
  <2>4. flag \in Cut(c) => added \cap Bonuses = {}
    BY <2>3, OtherKinds, RenewalConstants DEF OneClaim
  <2> QED
    BY <2>1, <2>2, <2>4 DEF OneClaim
<1>6. ASSUME NEW r \in Runs,
             \/ BeginPaid(r) \/ BeginRenewal(r) \/ Acquire(r) \/ ReadRow(r)
             \/ ReserveExpiry(r) \/ ExtendClientKey(r) \/ SaveKey(r) \/ Reset(r)
             \/ Settle(r) \/ StepFails(r) \/ BeginEdit(r) \/ ClaimBonus(r)
      PROVE  OneClaim'
  <2>1. /\ flag' = flag
        /\ added' = added \/ (added' = added \cup {r} /\ r \notin Bonuses)
    BY <1>6 DEF BeginPaid, BeginRenewal, Acquire, ReadRow, ReserveExpiry, ExtendClientKey, SaveKey,
       Reset, Settle, StepFails, BeginEdit, ClaimBonus, book, RightPlaces
  <2>2. \E place : /\ Goto(r, place)
                   /\ r \in Bonuses /\ place \in {"panel", "bonusSave"} => pc[r] = "panel"
    <3>1. r \in Bonuses => pc[r] \in {"idle", "flag", "panel", "bonusSave", "over"}
      BY DEF RightPlaces
    <3>2. BeginPaid(r) \/ BeginRenewal(r) => Goto(r, "lock")
      BY DEF BeginPaid, BeginRenewal
    <3>3. Acquire(r) \/ ReadRow(r) \/ ReserveExpiry(r) =>
             (Goto(r, "read") \/ Goto(r, "guard") \/ Goto(r, "panel")) /\ r \notin Bonuses
      BY <3>1 DEF Acquire, ReadRow, ReserveExpiry
    <3>4. ExtendClientKey(r) => pc[r] = "panel" /\ (Goto(r, "bonusSave") \/ Goto(r, "save"))
      BY DEF ExtendClientKey
    <3>5. SaveKey(r) \/ Reset(r) \/ Settle(r) \/ StepFails(r)
             => \E place \in {"reset", "settle", "over", "idle"} : Goto(r, place)
      BY DEF SaveKey, Reset, Settle, StepFails, End
    <3>6. BeginEdit(r) => Goto(r, "panel") /\ r \notin Bonuses
      BY OtherKinds DEF BeginEdit
    <3>7. ClaimBonus(r) => Goto(r, "flag") \/ Goto(r, "over")
      BY DEF ClaimBonus
    <3> QED
      BY <1>6, <3>2, <3>3, <3>4, <3>5, <3>6, <3>7
  <2>3. \A q \in Bonuses : pc'[q] \in {"panel", "bonusSave"} => pc[q] \in {"panel", "bonusSave"}
    BY <2>2, OtherKinds DEF Goto, TypeOK
  <2> QED
    BY <1>1, <2>1, <2>3
<1>7. CASE UNCHANGED vars \/ Tick \/ ReloadReads \/ ReloadWrites
  BY <1>1, <1>7 DEF vars, book, Tick, ReloadReads, ReloadWrites
<1> QED
  BY <1>2, <1>3, <1>4, <1>5, <1>6, <1>7 DEF Next
-----------------------------------------------------------------------------
(* The theorems                                                            *)

RenewalInv == Typed /\ Bounded /\ OneClaim

\* The inductive invariant of the dates.
LEMMA RenewalInvHolds == Spec => []RenewalInv
<1>1. Init => RenewalInv
  BY InitTyped, InitBounded, InitOneClaim DEF RenewalInv
<1>2. RenewalInv /\ [Next]_vars => RenewalInv'
  BY NextTyped, NextBounded, NextOneClaim DEF RenewalInv
<1> QED
  BY <1>1, <1>2, PTL DEF Spec

\* Every variable of the key's stores, runs and books has its type.
THEOREM RenewalTypes == Spec => []TypeOK
<1>1. RenewalInv => TypeOK
  BY DEF RenewalInv, Typed
<1> QED
  BY <1>1, RenewalInvHolds, PTL

\* What was applied was taken.
LEMMA BoundTaken ==
    ASSUME TypeOK
    PROVE  Bound <= Max(Origin) + Days(Taken) /\ Max(Origin) + Days(Taken) \in Nat
<1>1. Applied \subseteq Taken /\ Taken \subseteq Tasks
  BY DEF Applied, Taken, Tasks
<1>2. Days(Applied) \in Nat /\ Days(Taken) \in Nat /\ Days(Applied) <= Days(Taken)
  BY <1>1, DaysGrow
<1>3. Origin = Dates(now, Edited) /\ now \in Nat /\ Edited \in BOOLEAN
  BY RenewalConstants DEF Origin, Dates, Edited, TypeOK
<1>4. Max(Origin) \in Nat
  BY <1>3, DatesMax
<1> QED
  BY <1>2, <1>4 DEF Bound

\* No free time: whatever fails, crashes or is retried in whichever process,
\* the row and the panel never show more than the dates the key started from
\* and the periods of what was begun, each once; and one bonus is granted.
THEOREM NoFreeTimeHolds == Spec => []NoFreeTime
<1>1. RenewalInv => NoFreeTime
  <2> SUFFICES ASSUME RenewalInv PROVE NoFreeTime
    OBVIOUS
  <2>1. db.expiry \in Nat /\ panel \in Nat /\ db.expiry <= Bound /\ panel <= Bound /\ Bound \in Nat
    BY BoundNat DEF RenewalInv, Typed, TypeOK, KeyObject, Bounded, StoresBounded
  <2>2. Bound <= Max(Origin) + Days(Taken) /\ Max(Origin) + Days(Taken) \in Nat
    BY BoundTaken DEF RenewalInv, Typed
  <2>3. /\ db.expiry <= Max(Origin) + Days(Taken)
        /\ panel <= Max(Origin) + Days(Taken)
    <3> DEFINE most == Max(Origin) + Days(Taken)
    <3>1. Bound <= most /\ most \in Nat
      BY <2>2
    <3> HIDE DEF most
    <3>2. db.expiry <= most /\ panel <= most
      BY <2>1, <3>1
    <3> QED
      BY <3>2 DEF most
  <2>4. Cardinality(added \cap Bonuses) <= 1
    <3>1. CASE added \cap Bonuses = {}
      BY <3>1, FS_EmptySet
    <3>2. CASE added \cap Bonuses # {}
      <4>1. PICK b : added \cap Bonuses = {b}
        BY <3>2 DEF RenewalInv, OneClaim
      <4>2. Cardinality({b}) = 1
        BY FS_Singleton
      <4>3. Cardinality(added \cap Bonuses) = 1
        BY <4>1, <4>2, Zenon
      <4> QED
        BY <4>3
    <3> QED
      BY <3>1, <3>2
  <2> QED
    BY <2>3, <2>4 DEF NoFreeTime
<1> QED
  BY <1>1, RenewalInvHolds, PTL
-----------------------------------------------------------------------------
(* The lock keeps every period                                             *)

\* A key that begins as a trial begins with no more days than the trial's
\* own: the branch of key_duration for trials does not look at the rest.
TrialDates == TRUE \in InitialTrials => InitialExpiry <= TrialEnd

Critical == {"read", "guard", "panel", "save", "reset"}

\* Calm, said of a state in the middle of renewals.
CalmSoFar ==
    /\ faults = 0 /\ reloads = 0
    /\ \A r \in Edits \cup Bonuses : pc[r] = "idle"
    /\ \A r \in PaidRuns : r \in settled \/ pc[r] # "idle" => r[2] = "app"

Renewals == PaidRuns \cup FreeRenewals \cup BulkRenewals

\* The run has computed the key that it writes.
Computed(r) == r \in settled \/ pc[r] \in {"guard", "panel", "save", "reset", "settle", "over"}

\* No renewal so far puts the key on the trial tariff.
OffTrial == \A r \in Renewals : Computed(r) => ~work[r].trial

\* The period of the run is in the row.
Done(r) == r \in settled \/ pc[r] \in {"reset", "settle", "over"}

Credited ==
    {p \in Payments : \E c \in Procs : Done(<<p, c>>)}
    \cup {r \in FreeRenewals \cup BulkRenewals : Done(r)}

Kept == InitialExpiry + Days(Credited)

\* The row and the cache agree, the panel too but between its step and the
\* save; off the trial tariff the expiry has the period of every task that is
\* credited.
StoresAgree ==
    /\ db = cached["app"] /\ snap = None
    /\ OffTrial => db.expiry >= Kept /\ (db.trial => Credited = {} /\ TRUE \in InitialTrials)
    /\ (\A r \in Runs : pc[r] # "save") => panel = db.expiry
    /\ \A r \in Runs : /\ pc[r] = "save" => panel = work[r].expiry
                       /\ pc[r] = "reset" => work[r] = db

\* The holder of the lock adds its period to all that are credited, off the
\* trial tariff.
HolderAdds ==
    \A r \in Runs :
       /\ pc[r] \in Critical => lock["app"] = r
       /\ OffTrial /\ pc[r] \in {"guard", "panel", "save"} =>
             work[r].expiry >= Kept + Period[TaskOf(r)]

\* Each payment is processed once.
OnceEach ==
    \A r \in PaidRuns :
       /\ r \in settled => pc[r] = "idle"
       /\ r[2] = "app" /\ r \notin settled /\ pc[r] \in {"idle", "lock", "guard"}
             => reserved[r[1]] = None

LockInv == CalmSoFar => StoresAgree /\ HolderAdds /\ OnceEach

\* A step of a calm behaviour is one of the renewals', of a run of the
\* application that is neither an edit nor a bonus.
CalmRun(r) ==
    \/ BeginPaid(r) \/ BeginRenewal(r) \/ Acquire(r) \/ ReadRow(r)
    \/ ReserveExpiry(r) \/ ExtendClientKey(r) \/ SaveKey(r) \/ Reset(r) \/ Settle(r)

\* A calm behaviour has had no fault and no reload.
LEMMA CalmFaults ==
    ASSUME Typed, [Next]_vars, CalmSoFar'
    PROVE  faults = 0 /\ reloads = 0
<1>1. faults' = 0 /\ reloads' = 0 /\ faults \in Nat /\ reloads \in Nat
  BY RenewalConstants DEF CalmSoFar, Typed, TypeOK
<1>2. (faults' = faults \/ faults' = faults + 1) /\ (reloads' = reloads \/ reloads' = reloads + 1)
  BY DEF Next, vars, Fault, Tick, BeginPaid, BeginRenewal, Acquire,
     ReadRow, ReserveExpiry, ExtendClientKey, SaveKey, Reset, Settle, StepFails, BeginEdit,
     ClaimBonus, InsertFlag, SaveBonus, BonusFails, ReloadReads, ReloadWrites, Restart
<1> QED
  BY <1>1, <1>2

\* The steps that a calm behaviour can take.
LEMMA CalmSteps ==
    ASSUME Typed, [Next]_vars, CalmSoFar'
    PROVE  \/ \E r \in PaidRuns \cup FreeRenewals \cup BulkRenewals :
                 CalmRun(r) /\ ProcOf(r) = "app" /\ faults' = faults
           \/ Tick \/ UNCHANGED vars \/ ReloadWrites
           \/ \E c \in Procs : Restart(c) /\ Cut(c) = {}
<1>1. faults = 0 /\ reloads = 0 /\ faults' = 0 /\ reloads' = 0
  BY CalmFaults DEF CalmSoFar
<1>2. ~Fault
  BY <1>1 DEF Fault
<1>3. ~ReloadReads
  BY <1>1 DEF ReloadReads
<1>4. ASSUME NEW r \in Runs, CalmRun(r)
      PROVE  /\ r \in PaidRuns \cup FreeRenewals \cup BulkRenewals
             /\ ProcOf(r) = "app" /\ faults' = faults
  <2>1. pc'[r] # "idle" \/ (r \in PaidRuns /\ r \in settled')
    BY <1>4 DEF CalmRun, BeginPaid, BeginRenewal, Acquire, ReadRow, ReserveExpiry, ExtendClientKey,
       SaveKey, Reset, Settle, Goto, Typed, TypeOK, RightPlaces
  <2>2. r \notin Edits \cup Bonuses
    BY <2>1, RunKinds, OtherKinds DEF CalmSoFar
  <2>3. ProcOf(r) = "app"
    BY <2>1, RunKinds DEF CalmSoFar
  <2>4. faults' = faults
    BY <1>1
  <2> QED
    BY <2>2, <2>3, <2>4, RunKinds DEF OneShots
<1>5. ASSUME NEW r \in Runs PROVE ~StepFails(r) /\ ~BonusFails(r)
  BY <1>2 DEF StepFails, BonusFails
<1>6. ASSUME NEW r \in Runs, BeginEdit(r) \/ ClaimBonus(r) \/ InsertFlag(r) \/ SaveBonus(r)
      PROVE  FALSE
  <2>1. r \in Edits \cup Bonuses
    BY <1>6 DEF BeginEdit, ClaimBonus, InsertFlag, SaveBonus, Typed, RightPlaces
  <2>2. pc'[r] # "idle"
    BY <1>6 DEF BeginEdit, ClaimBonus, InsertFlag, SaveBonus, Goto, Typed, TypeOK
  <2> QED
    BY <2>1, <2>2 DEF CalmSoFar
<1>7. ASSUME NEW c \in Procs, Restart(c) PROVE Cut(c) = {}
  BY <1>2, <1>7 DEF Restart, Cut
<1>8. CASE UNCHANGED vars
  BY <1>8
<1>9. CASE Next
  BY <1>3, <1>4, <1>5, <1>6, <1>7, <1>9 DEF Next, CalmRun
<1> QED
  BY <1>8, <1>9

\* What is calm now was calm before.
LEMMA CalmBefore ==
    ASSUME Typed, [Next]_vars, CalmSoFar'
    PROVE  CalmSoFar
<1>1. faults = 0 /\ reloads = 0
  BY CalmFaults
<1>2. CASE pc' = pc /\ work' = work /\ settled' = settled
  BY <1>1, <1>2 DEF CalmSoFar
<1>3. ASSUME NEW r \in PaidRuns \cup FreeRenewals \cup BulkRenewals, CalmRun(r)
      PROVE  CalmSoFar
  <2>1. r \in Runs /\ r \notin Edits \cup Bonuses
    BY RunKinds, OtherKinds
  <2>2. /\ \A q \in Runs \ {r} : pc'[q] = pc[q] /\ work'[q] = work[q]
        /\ pc'[r] # "idle" \/ r \in settled'
        /\ settled \subseteq settled'
    <3>1. \A q \in Runs \ {r} : work'[q] = work[q]
      BY <1>3 DEF CalmRun, BeginPaid, BeginRenewal, Acquire, ReadRow, ReserveExpiry,
         ExtendClientKey, SaveKey, Reset, Settle, Typed, TypeOK
    <3>2. \/ (\E place \in Places \ {"idle"} : Goto(r, place)) /\ settled' = settled
          \/ Goto(r, "idle") /\ settled' = settled \cup {r}
      BY <1>3 DEF CalmRun, BeginPaid, BeginRenewal, Acquire, ReadRow, ReserveExpiry,
         ExtendClientKey, SaveKey, Reset, Settle, book, Places
    <3>3. \A q \in Runs \ {r} : pc'[q] = pc[q]
      BY <3>2 DEF Goto, Typed, TypeOK
    <3>4. pc'[r] # "idle" \/ r \in settled'
      BY <2>1, <3>2 DEF Goto, Typed, TypeOK
    <3> QED
      BY <3>1, <3>2, <3>3, <3>4
  <2>3. \A q \in Edits \cup Bonuses : pc[q] = "idle"
    BY <2>1, <2>2, OtherKinds DEF CalmSoFar
  <2>6. \A q \in PaidRuns : q \in settled \/ pc[q] # "idle" => q[2] = "app"
    BY <2>2, OtherKinds DEF CalmSoFar
  <2> QED
    BY <1>1, <2>3, <2>6 DEF CalmSoFar
<1>4. ASSUME NEW c \in Procs, Restart(c), Cut(c) = {} PROVE pc' = pc /\ work' = work /\ settled' = settled
  BY <1>4 DEF Restart, Cut, Typed, TypeOK
<1>5. Tick \/ UNCHANGED vars \/ ReloadWrites => pc' = pc /\ work' = work /\ settled' = settled
  BY DEF Tick, vars, book, ReloadWrites
<1> QED
  BY <1>2, <1>3, <1>4, <1>5, CalmSteps
\* A computed key stays what it is, so who is off the trial tariff was before.
LEMMA OffTrialBefore ==
    ASSUME Typed, OnceEach, [Next]_vars, CalmSoFar'
    PROVE  OffTrial' => OffTrial
<1>1. CASE pc' = pc /\ work' = work /\ settled' = settled
  BY <1>1 DEF OffTrial, Computed
<1>2. ASSUME NEW r \in Renewals, CalmRun(r)
      PROVE  OffTrial' => OffTrial
  <2>1. r \in Runs /\ r \notin Edits \cup Bonuses /\ Renewals \subseteq Runs
    BY <1>2, RunKinds, OtherKinds DEF Renewals
  <2>2. \A q \in Runs \ {r} : pc'[q] = pc[q] /\ work'[q] = work[q]
    BY <1>2 DEF CalmRun, BeginPaid, BeginRenewal, Acquire, ReadRow, ReserveExpiry,
       ExtendClientKey, SaveKey, Reset, Settle, Goto, Typed, TypeOK
  <2>3. \A q \in Runs \ {r} : q \in settled => q \in settled'
    BY <1>2 DEF CalmRun, BeginPaid, BeginRenewal, Acquire, ReadRow, ReserveExpiry,
       ExtendClientKey, SaveKey, Reset, Settle, book
  <2>4. Computed(r) => Computed(r)' /\ work'[r].trial = work[r].trial
    <3>1. CASE BeginPaid(r) \/ BeginRenewal(r) \/ Acquire(r) \/ ReadRow(r)
      <4>1. pc[r] \in {"idle", "lock", "read"}
        BY <3>1 DEF BeginPaid, BeginRenewal, Acquire, ReadRow
      <4>2. r \notin settled
        <5>1. CASE BeginPaid(r)
          BY <2>1, <5>1, RunKinds DEF BeginPaid, IsSettled
        <5>2. CASE BeginRenewal(r)
          BY <5>2, OtherKinds, RunKinds DEF BeginRenewal, Typed, TypeOK
        <5>3. CASE pc[r] \in {"lock", "read"}
          BY <2>1, <5>3 DEF OnceEach, Typed, TypeOK
        <5> QED
          BY <3>1, <5>1, <5>2, <5>3 DEF Acquire, ReadRow
      <4> QED
        BY <4>1, <4>2 DEF Computed
    <3>2. CASE ReserveExpiry(r)
      <4>1. work[r] \in KeyObject /\ Target(r) \in Nat
        BY <2>1, <3>2, RunKinds DEF ReserveExpiry, Target, Typed, TypeOK, RightPlaces, KeyObject
      <4>2. work'[r] = [work[r] EXCEPT !.expiry = Target(r)] /\ pc'[r] = "panel"
        BY <2>1, <3>2 DEF ReserveExpiry, Goto, Typed, TypeOK
      <4> QED
        BY <4>1, <4>2, DatedKey DEF Computed
    <3>3. CASE ExtendClientKey(r) \/ SaveKey(r) \/ Reset(r) \/ Settle(r)
      <4>1. work' = work /\ (pc'[r] \in {"save", "reset", "settle", "over"} \/ r \in settled')
        BY <2>1, <3>3 DEF ExtendClientKey, SaveKey, Reset, Settle, Goto, Typed, TypeOK
      <4> QED
        BY <4>1 DEF Computed
    <3> QED
      BY <1>2, <3>1, <3>2, <3>3 DEF CalmRun
  <2> QED
    BY <2>1, <2>2, <2>3, <2>4 DEF OffTrial, Computed
<1>3. ASSUME NEW c \in Procs, Restart(c), Cut(c) = {} PROVE pc' = pc /\ work' = work /\ settled' = settled
  BY <1>3 DEF Restart, Cut, Typed, TypeOK
<1>4. Tick \/ UNCHANGED vars \/ ReloadWrites => pc' = pc /\ work' = work /\ settled' = settled
  BY DEF Tick, vars, book, ReloadWrites
<1> QED
  BY <1>1, <1>2, <1>3, <1>4, CalmSteps DEF Renewals

\* The sum that is kept: a number, the same while no run gets done, and
\* larger by at most the period of the one that does.
LEMMA KeptNat == Credited \subseteq Tasks /\ Days(Credited) \in Nat /\ Kept \in Nat
<1>1. Credited \subseteq Tasks
  BY DEF Credited, Tasks
<1>2. Days(Credited) \in Nat
  BY <1>1, DaysGrow
<1> QED
  BY <1>1, <1>2, RenewalConstants DEF Kept

\* What must be kept depends on the credited tasks alone.
LEMMA KeptSame ==
    ASSUME \A q \in Runs : Done(q)' = Done(q)
    PROVE  Credited' = Credited /\ Kept' = Kept /\ Kept \in Nat
<1>1. \A p \in Payments, c \in Procs : <<p, c>> \in Runs
  BY DEF Runs, PaidRuns
<1>2. Credited' = Credited
  BY <1>1, OtherKinds DEF Credited
<1>3. Kept' = Kept
  BY <1>2, Zenon DEF Kept
<1> QED
  BY <1>2, <1>3, KeptNat

\* A step of one task adds its period at most.
LEMMA KeptAdds ==
    ASSUME NEW r \in PaidRuns \cup FreeRenewals \cup BulkRenewals,
           \A q \in Runs \ {r} : Done(q)' = Done(q)
    PROVE  Kept' \in Nat /\ Kept' <= Kept + Period[TaskOf(r)]
<1>1. \A p \in Payments, c \in Procs : <<p, c>> \in Runs /\ <<p, c>> \in PaidRuns
  BY DEF Runs, PaidRuns
<1>2. r \in Runs /\ r \notin Edits
  BY RunKinds, OtherKinds
<1>3. TaskOf(r) \in Tasks /\ Period[TaskOf(r)] \in Nat
  BY <1>2, RunKinds
<1>4. Credited' \subseteq Credited \cup {TaskOf(r)}
  <2>1. ASSUME NEW p \in Payments, NEW c \in Procs, Done(<<p, c>>)'
        PROVE  p \in Credited \cup {TaskOf(r)}
    <3>1. CASE <<p, c>> = r
      <4>1. TaskOf(r) = r[1] /\ r[1] = p
        BY <1>1, <3>1, RunKinds
      <4> QED
        BY <4>1
    <3>2. CASE <<p, c>> # r
      BY <1>1, <2>1, <3>2 DEF Credited
    <3> QED
      BY <3>1, <3>2
  <2>2. ASSUME NEW q \in FreeRenewals \cup BulkRenewals, Done(q)'
        PROVE  q \in Credited \cup {TaskOf(r)}
    <3>1. q \in Runs /\ TaskOf(q) = q
      BY RunKinds, OtherKinds
    <3>2. CASE q = r
      BY <3>1, <3>2
    <3>3. CASE q # r
      BY <2>2, <3>1, <3>3 DEF Credited
    <3> QED
      BY <3>2, <3>3
  <2> QED
    BY <2>1, <2>2 DEF Credited
<1>5. /\ Days(Credited \cup {TaskOf(r)}) <= Days(Credited) + Period[TaskOf(r)]
      /\ Days(Credited \cup {TaskOf(r)}) \in Nat /\ Days(Credited') \in Nat
      /\ Days(Credited') <= Days(Credited \cup {TaskOf(r)})
  <2>1. Credited \in SUBSET Tasks /\ Credited \cup {TaskOf(r)} \in SUBSET Tasks
    BY <1>3, KeptNat
  <2>2. Credited' \in SUBSET (Credited \cup {TaskOf(r)})
    BY <1>4
  <2>3. Days(Credited \cup {TaskOf(r)}) <= Days(Credited) + Period[TaskOf(r)]
    BY <1>3, <2>1, DaysAdd
  <2> QED
    BY <2>1, <2>2, <2>3, DaysGrow
<1>6. Kept = InitialExpiry + Days(Credited) /\ Kept' = InitialExpiry + Days(Credited')
  BY DEF Kept
<1> QED
  BY <1>3, <1>5, <1>6, KeptNat, RenewalConstants

\* At first row, panel and cache agree.
LEMMA InitLock == Init => LockInv
<1> SUFFICES ASSUME Init PROVE StoresAgree /\ HolderAdds /\ OnceEach
  BY DEF LockInv
<1>1. Credited = {}
  <2>1. \A q \in Runs : ~Done(q)
    BY DEF Init, Done
  <2>2. \A p \in Payments, c \in Procs : <<p, c>> \in Runs
    BY DEF Runs, PaidRuns
  <2> QED
    BY <2>1, <2>2, OtherKinds DEF Credited
<1>2. Kept = InitialExpiry
  <2>1. Days({}) = 0
    BY SumEmpty DEF Days
  <2>2. Kept = InitialExpiry + Days({})
    BY <1>1, Zenon DEF Kept
  <2> QED
    BY <2>1, <2>2, RenewalConstants
<1>3. db.expiry = InitialExpiry /\ cached["app"] = db /\ (db.trial => TRUE \in InitialTrials)
  <2>1. PICK trial \in InitialTrials : db = [expiry |-> InitialExpiry, trial |-> trial]
    BY DEF Init, InitialKeys
  <2>2. db.trial = trial /\ trial \in BOOLEAN
    BY <2>1, RenewalConstants
  <2> QED
    BY <2>1, <2>2, RenewalConstants DEF Init
<1>4. StoresAgree
  <2>1. /\ snap = None /\ panel = InitialExpiry
        /\ \A q \in Runs : pc[q] = "idle"
    BY DEF Init
  <2>2. db.expiry >= Kept
    BY <1>2, <1>3, RenewalConstants
  <2> QED
    BY <1>1, <1>3, <2>1, <2>2 DEF StoresAgree
<1>5. HolderAdds
  BY DEF Init, HolderAdds, Critical
<1>6. OnceEach
  BY RunKinds, OtherKinds DEF Init, OnceEach
<1> QED
  BY <1>4, <1>5, <1>6

\* A run begins, or is settled, without the lock.
LEMMA BeginLock ==
    ASSUME Typed, StoresAgree, HolderAdds, OnceEach, CalmSoFar, CalmSoFar', OffTrial' => OffTrial, faults' = faults,
           NEW r \in PaidRuns \cup FreeRenewals \cup BulkRenewals,
           BeginPaid(r) \/ BeginRenewal(r) \/ Settle(r)
    PROVE  StoresAgree' /\ HolderAdds' /\ OnceEach'
<1>1. r \in Runs
  BY OtherKinds
<1>2. /\ UNCHANGED <<db, panel, cached, snap, lock, reserved>>
      /\ \A q \in Runs \ {r} : pc'[q] = pc[q] /\ work'[q] = work[q]
  BY DEF BeginPaid, BeginRenewal, Settle, stores, book, Goto, Typed, TypeOK
<1>3. \/ pc[r] = "idle" /\ pc'[r] = "lock" /\ settled' = settled
         /\ (r \in PaidRuns => ~IsSettled(r[1]))
      \/ pc[r] = "settle" /\ pc'[r] = "idle" /\ settled' = settled \cup {r} /\ r \in PaidRuns
  BY <1>1, RunKinds, OtherKinds
  DEF BeginPaid, BeginRenewal, Settle, book, Goto, Typed, TypeOK, RightPlaces
<1>4. \A q \in Runs : Done(q)' = Done(q)
  BY <1>1, <1>2, <1>3 DEF Done
<1>5. Credited' = Credited /\ Kept' = Kept /\ Kept \in Nat
  BY <1>4, KeptSame
<1>6. \A q \in Runs : /\ pc'[q] \in Critical => q # r /\ pc[q] \in Critical
                      /\ pc'[q] = "save" <=> pc[q] = "save"
  BY <1>1, <1>2, <1>3 DEF Critical
<1>7. StoresAgree'
  BY <1>2, <1>5, <1>6 DEF StoresAgree, Critical
<1>8. HolderAdds'
  BY <1>2, <1>5, <1>6 DEF HolderAdds, Critical
<1>9. OnceEach'
  <2>1. r \in PaidRuns /\ ~IsSettled(r[1]) => r \notin settled
    BY <1>1, RunKinds DEF IsSettled
  <2> QED
    BY <1>1, <1>2, <1>3, <2>1, OtherKinds DEF OnceEach
<1> QED
  BY <1>7, <1>8, <1>9

\* The lock is taken: its new holder reads what the last one has written.
LEMMA AcquireLock ==
    ASSUME TrialDates, Typed, StoresAgree, HolderAdds, OnceEach, CalmSoFar, CalmSoFar', OffTrial' => OffTrial,
           NEW r \in PaidRuns \cup FreeRenewals \cup BulkRenewals, ProcOf(r) = "app", Acquire(r)
    PROVE  StoresAgree' /\ HolderAdds' /\ OnceEach'
<1>1. r \in Runs /\ r \notin Edits /\ "app" \in Procs
  BY OtherKinds, RenewalConstants
<1>2. lock["app"] = None /\ pc[r] = "lock" /\ lock'["app"] = r
  BY <1>1 DEF Acquire, LockFree, Typed, TypeOK
<1>3. \A q \in Runs : pc[q] \notin Critical
  BY <1>2, RenewalConstants DEF HolderAdds
<1>4. ASSUME OffTrial, NEW trial \in AppliedTariffs(r)
      PROVE  Refreshed(Reread(r), Period[TaskOf(r)], trial).expiry >= Kept + Period[TaskOf(r)]
  <2>1. db \in KeyObject /\ Reread(r) = db /\ Period[TaskOf(r)] \in Nat /\ now \in Nat
    BY <1>1, RunKinds DEF Reread, StoresAgree, Typed, TypeOK
  <2> DEFINE new == Refreshed(Reread(r), Period[TaskOf(r)], trial)
             late == Later(now, IF db.trial THEN TrialEnd ELSE db.expiry)
  <2>2. new.expiry = Period[TaskOf(r)] + late
    BY <1>1, <1>4, <2>1, RefreshedKey, TariffsTyped DEF Typed
  <2> HIDE DEF new
  <2>3. late \in Nat /\ late >= Kept
    <3>1. CASE db.trial
      <4>1. Credited = {} /\ TRUE \in InitialTrials
        BY <1>4, <3>1 DEF StoresAgree
      <4>2. Days({}) = 0
        BY SumEmpty DEF Days
      <4>3. Kept = InitialExpiry + Days({})
        BY <4>1, Zenon DEF Kept
      <4> QED
        BY <2>1, <3>1, <4>1, <4>2, <4>3, RenewalConstants DEF Later, TrialDates
    <3>2. CASE ~db.trial
      <4>1. db.expiry \in Nat /\ db.expiry >= Kept
        BY <1>4, <2>1 DEF KeyObject, StoresAgree
      <4> QED
        BY <2>1, <3>2, <4>1, KeptNat DEF Later
    <3> QED
      BY <3>1, <3>2
  <2> HIDE DEF late
  <2>4. new.expiry >= Kept + Period[TaskOf(r)]
    BY <2>1, <2>2, <2>3, KeptNat
  <2> QED
    BY <2>4 DEF new
<1>5. PICK trial \in BOOLEAN :
      /\ UNCHANGED <<db, panel, cached, snap, reserved, settled>>
      /\ \A q \in Runs \ {r} : pc'[q] = pc[q] /\ work'[q] = work[q]
      /\ \/ pc'[r] = "read"
         \/ /\ pc'[r] \in {"guard", "panel"} /\ trial \in AppliedTariffs(r)
            /\ work'[r] = Refreshed(Reread(r), Period[TaskOf(r)], trial)
      /\ pc'[r] = "guard" => r \in PaidRuns
      /\ r \in PaidRuns => pc'[r] # "panel"
  <2>1. /\ UNCHANGED <<db, panel, cached, snap, reserved, settled>>
        /\ \A q \in Runs \ {r} : pc'[q] = pc[q] /\ work'[q] = work[q]
        /\ pc'[r] = "guard" => r \in PaidRuns
        /\ r \in PaidRuns => pc'[r] # "panel"
    BY <1>1, RunKinds, OtherKinds DEF Acquire, stores, book, Goto, Typed, TypeOK
  <2>2. CASE r \in BulkRenewals
    <3>1. pc'[r] = "read"
      BY <1>1, <2>2 DEF Acquire, Goto, Typed, TypeOK
    <3> QED
      BY <2>1, <3>1
  <2>3. CASE r \notin BulkRenewals
    <3>1. pc'[r] \in {"guard", "panel"}
      BY <1>1, <2>3 DEF Acquire, Goto, Typed, TypeOK
    <3>2. PICK trial \in AppliedTariffs(r) :
             work' = [work EXCEPT ![r] = Refreshed(Reread(r), Period[TaskOf(r)], trial)]
      BY <2>3 DEF Acquire
    <3>3. work'[r] = Refreshed(Reread(r), Period[TaskOf(r)], trial) /\ trial \in BOOLEAN
      BY <1>1, <3>2, TariffsTyped DEF Typed, TypeOK
    <3> QED
      BY <2>1, <3>1, <3>2, <3>3
  <2> QED
    BY <2>2, <2>3
<1>6. \A q \in Runs : Done(q)' = Done(q)
  BY <1>1, <1>2, <1>5 DEF Done
<1>7. Credited' = Credited /\ Kept' = Kept /\ Kept \in Nat
  BY <1>6, KeptSame
<1>8. \A q \in Runs \ {r} : pc'[q] \notin Critical
  BY <1>3, <1>5
<1>9. StoresAgree'
  <2>1. \A q \in Runs : pc[q] # "save" /\ pc'[q] # "save" /\ pc'[q] # "reset"
    BY <1>3, <1>5, <1>8 DEF Critical
  <2> QED
    BY <1>5, <1>7, <2>1 DEF StoresAgree
<1>10. HolderAdds'
  <2>1. OffTrial' /\ pc'[r] \in {"guard", "panel"} => work'[r].expiry >= Kept + Period[TaskOf(r)]
    BY <1>4, <1>5
  <2> QED
    BY <1>2, <1>5, <1>7, <1>8, <2>1 DEF HolderAdds, Critical
<1>11. OnceEach'
  BY <1>1, <1>2, <1>5, OtherKinds DEF OnceEach
<1> QED
  BY <1>9, <1>10, <1>11
\* The steps of the holder: nobody else is between the read and the release.
LEMMA HolderAlone ==
    ASSUME HolderAdds, NEW r \in Runs, pc[r] \in Critical
    PROVE  lock["app"] = r /\ \A q \in Runs \ {r} : pc[q] \notin Critical
  BY DEF HolderAdds

\* The holder reads the row and adds its days.
LEMMA ReadLock ==
    ASSUME Typed, StoresAgree, HolderAdds, OnceEach, CalmSoFar, CalmSoFar', OffTrial' => OffTrial,
           NEW r \in PaidRuns \cup FreeRenewals \cup BulkRenewals, ReadRow(r)
    PROVE  StoresAgree' /\ HolderAdds' /\ OnceEach'
<1> DEFINE new == Extended(db, Period[r])
<1>1. r \in Runs /\ pc[r] = "read" /\ r \in BulkRenewals /\ TaskOf(r) = r /\ Period[r] \in Nat
  BY OtherKinds, RunKinds DEF ReadRow, Typed, RightPlaces
<1>2. lock["app"] = r /\ \A q \in Runs \ {r} : pc[q] \notin Critical
  BY <1>1, HolderAlone DEF Critical
<1>3. db \in KeyObject /\ new.trial = db.trial /\ new.expiry = Period[r] + Later(now, db.expiry)
  BY <1>1, ExtendedKey DEF Typed, TypeOK
<1> HIDE DEF new
<1>4. /\ UNCHANGED <<db, panel, cached, snap, lock, reserved, settled>>
      /\ \A q \in Runs \ {r} : pc'[q] = pc[q] /\ work'[q] = work[q]
      /\ pc'[r] = "panel" /\ work'[r] = new
  BY <1>1 DEF ReadRow, stores, book, Goto, Typed, TypeOK, new
<1>5. ASSUME OffTrial PROVE new.expiry >= Kept + Period[r]
  <2>1. db.expiry \in Nat /\ db.expiry >= Kept /\ now \in Nat
    BY <1>3, <1>5 DEF KeyObject, StoresAgree, Typed, TypeOK
  <2>2. Later(now, db.expiry) \in Nat /\ Later(now, db.expiry) >= Kept
    BY <2>1, KeptNat DEF Later
  <2> QED
    BY <1>1, <1>3, <2>2, KeptNat
<1>6. \A q \in Runs : Done(q)' = Done(q)
  BY <1>1, <1>4 DEF Done
<1>7. Credited' = Credited /\ Kept' = Kept /\ Kept \in Nat
  BY <1>6, KeptSame
<1>8. \A q \in Runs \ {r} : pc'[q] \notin Critical
  BY <1>2, <1>4
<1>9. StoresAgree'
  <2>1. \A q \in Runs : pc[q] # "save" /\ pc'[q] # "save" /\ pc'[q] # "reset"
    BY <1>1, <1>2, <1>4, <1>8 DEF Critical
  <2> QED
    BY <1>4, <1>7, <2>1 DEF StoresAgree
<1>10. HolderAdds'
  BY <1>1, <1>2, <1>4, <1>5, <1>7, <1>8 DEF HolderAdds, Critical
<1>11. OnceEach'
  BY <1>1, <1>4, RunKinds, OtherKinds DEF OnceEach
<1> QED
  BY <1>9, <1>10, <1>11

\* The holder reserves its date.
LEMMA ReserveLock ==
    ASSUME Typed, StoresAgree, HolderAdds, OnceEach, CalmSoFar, CalmSoFar', OffTrial' => OffTrial,
           NEW r \in PaidRuns \cup FreeRenewals \cup BulkRenewals, ReserveExpiry(r)
    PROVE  StoresAgree' /\ HolderAdds' /\ OnceEach'
<1>1. /\ r \in Runs /\ pc[r] = "guard" /\ r \in PaidRuns /\ r[1] \in Payments
      /\ TaskOf(r) = r[1] /\ work[r] \in KeyObject /\ work[r].expiry \in Nat
  BY OtherKinds, RunKinds DEF ReserveExpiry, Typed, TypeOK, RightPlaces, KeyObject
<1>2. lock["app"] = r /\ \A q \in Runs \ {r} : pc[q] \notin Critical
  BY <1>1, HolderAlone DEF Critical
<1>3. r[2] = "app" /\ r \notin settled /\ reserved[r[1]] = None
  BY <1>1 DEF CalmSoFar, OnceEach
<1>4. Target(r) = work[r].expiry
  BY <1>3 DEF Target
<1>5. /\ UNCHANGED <<db, panel, cached, snap, lock, settled>>
      /\ \A q \in Runs \ {r} : pc'[q] = pc[q] /\ work'[q] = work[q]
      /\ pc'[r] = "panel" /\ work'[r] = [work[r] EXCEPT !.expiry = Target(r)]
      /\ \A p \in Payments \ {r[1]} : reserved'[p] = reserved[p]
  BY <1>1 DEF ReserveExpiry, stores, Goto, Typed, TypeOK
<1>6. work'[r].trial = work[r].trial /\ work'[r].expiry = work[r].expiry
  BY <1>1, <1>4, <1>5, DatedKey
<1>7. \A q \in Runs : Done(q)' = Done(q)
  BY <1>1, <1>5 DEF Done
<1>8. Credited' = Credited /\ Kept' = Kept /\ Kept \in Nat
  BY <1>7, KeptSame
<1>9. \A q \in Runs \ {r} : pc'[q] \notin Critical
  BY <1>2, <1>5
<1>10. StoresAgree'
  <2>1. \A q \in Runs : pc[q] # "save" /\ pc'[q] # "save" /\ pc'[q] # "reset"
    BY <1>1, <1>2, <1>5, <1>9 DEF Critical
  <2> QED
    BY <1>5, <1>8, <2>1 DEF StoresAgree
<1>11. HolderAdds'
  BY <1>1, <1>2, <1>5, <1>6, <1>8, <1>9 DEF HolderAdds, Critical
<1>12. OnceEach'
  <2>1. ASSUME NEW q \in PaidRuns, q # r, q[2] = "app" PROVE q[1] \in Payments \ {r[1]}
    <3>1. q = <<q[1], q[2]>> /\ r = <<r[1], r[2]>> /\ q[1] \in Payments
      BY <1>1, RunKinds, OtherKinds
    <3> QED
      BY <1>3, <2>1, <3>1
  <2> QED
    BY <1>1, <1>3, <1>5, <2>1, OtherKinds DEF OnceEach
<1> QED
  BY <1>10, <1>11, <1>12

\* The panel gets the holder's date.
LEMMA ExtendLock ==
    ASSUME Typed, StoresAgree, HolderAdds, OnceEach, CalmSoFar, CalmSoFar', OffTrial' => OffTrial,
           NEW r \in PaidRuns \cup FreeRenewals \cup BulkRenewals, ExtendClientKey(r)
    PROVE  StoresAgree' /\ HolderAdds' /\ OnceEach'
<1>1. r \in Runs /\ pc[r] = "panel" /\ r \notin Bonuses
  BY OtherKinds, RunKinds DEF ExtendClientKey
<1>2. lock["app"] = r /\ \A q \in Runs \ {r} : pc[q] \notin Critical
  BY <1>1, HolderAlone DEF Critical
<1>3. /\ UNCHANGED <<db, cached, snap, lock, reserved, settled, work>>
      /\ \A q \in Runs \ {r} : pc'[q] = pc[q]
      /\ pc'[r] = "save" /\ panel' = work[r].expiry
  BY <1>1 DEF ExtendClientKey, book, Goto, Typed, TypeOK
<1>4. \A q \in Runs : Done(q)' = Done(q)
  BY <1>1, <1>3 DEF Done
<1>5. Credited' = Credited /\ Kept' = Kept /\ Kept \in Nat
  BY <1>4, KeptSame
<1>6. \A q \in Runs \ {r} : pc'[q] \notin Critical
  BY <1>2, <1>3
<1>7. StoresAgree'
  BY <1>1, <1>3, <1>5, <1>6 DEF StoresAgree, Critical
<1>8. HolderAdds'
  BY <1>1, <1>2, <1>3, <1>5, <1>6 DEF HolderAdds, Critical
<1>9. OnceEach'
  BY <1>1, <1>3, OtherKinds DEF OnceEach
<1> QED
  BY <1>7, <1>8, <1>9

\* The save credits the holder.
LEMMA SaveLock ==
    ASSUME Typed, StoresAgree, HolderAdds, OnceEach, CalmSoFar, CalmSoFar', OffTrial' => OffTrial,
           NEW r \in PaidRuns \cup FreeRenewals \cup BulkRenewals, ProcOf(r) = "app", SaveKey(r)
    PROVE  StoresAgree' /\ HolderAdds' /\ OnceEach'
<1>1. r \in Runs /\ pc[r] = "save" /\ "app" \in Procs
  BY OtherKinds, RenewalConstants DEF SaveKey
<1>2. lock["app"] = r /\ \A q \in Runs \ {r} : pc[q] \notin Critical
  BY <1>1, HolderAlone DEF Critical
<1>3. /\ UNCHANGED <<panel, snap, lock, reserved, settled, work>>
      /\ \A q \in Runs \ {r} : pc'[q] = pc[q]
      /\ pc'[r] = "reset" /\ db' = work[r] /\ cached'["app"] = work[r]
  BY <1>1 DEF SaveKey, book, Goto, Typed, TypeOK
<1>4. \A q \in Runs \ {r} : Done(q)' = Done(q)
  BY <1>3 DEF Done
<1>5. Kept' \in Nat /\ Kept' <= Kept + Period[TaskOf(r)]
  BY <1>4, KeptAdds
<1>6. /\ panel = work[r].expiry
      /\ OffTrial => ~work[r].trial /\ work[r].expiry >= Kept + Period[TaskOf(r)]
  BY <1>1 DEF HolderAdds, StoresAgree, OffTrial, Computed, Renewals
<1>7. OffTrial => work[r].expiry >= Kept'
  <2>1. work[r].expiry \in Nat /\ Period[TaskOf(r)] \in Nat
    BY <1>1, RunKinds, OtherKinds DEF Typed, TypeOK, KeyObject
  <2> QED
    BY <1>5, <1>6, <2>1, KeptNat
<1>8. \A q \in Runs \ {r} : pc'[q] \notin Critical
  BY <1>2, <1>3
<1>9. StoresAgree'
  BY <1>1, <1>3, <1>6, <1>7, <1>8 DEF StoresAgree, Critical
<1>10. HolderAdds'
  BY <1>1, <1>2, <1>3, <1>8 DEF HolderAdds, Critical
<1>11. OnceEach'
  BY <1>1, <1>3, OtherKinds DEF OnceEach
<1> QED
  BY <1>9, <1>10, <1>11

\* The holder resets the traffic and gives the lock back.
LEMMA ResetLock ==
    ASSUME Typed, StoresAgree, HolderAdds, OnceEach, CalmSoFar, CalmSoFar', OffTrial' => OffTrial,
           NEW r \in PaidRuns \cup FreeRenewals \cup BulkRenewals, ProcOf(r) = "app", Reset(r)
    PROVE  StoresAgree' /\ HolderAdds' /\ OnceEach'
<1>1. r \in Runs /\ pc[r] = "reset" /\ "app" \in Procs
  BY OtherKinds, RenewalConstants DEF Reset
<1>2. lock["app"] = r /\ \A q \in Runs \ {r} : pc[q] \notin Critical
  BY <1>1, HolderAlone DEF Critical
<1>3. /\ UNCHANGED <<db, panel, snap, reserved, settled, work>>
      /\ \A q \in Runs \ {r} : pc'[q] = pc[q]
      /\ pc'[r] \in {"settle", "over"} /\ cached'["app"] = work[r]
  BY <1>1 DEF Reset, Goto, Typed, TypeOK
<1>4. \A q \in Runs : Done(q)' = Done(q)
  BY <1>1, <1>3 DEF Done
<1>5. Credited' = Credited /\ Kept' = Kept /\ Kept \in Nat
  BY <1>4, KeptSame
<1>6. \A q \in Runs : pc'[q] \notin Critical /\ pc'[q] # "guard"
  BY <1>1, <1>2, <1>3 DEF Critical
<1>7. StoresAgree'
  <2>1. work[r] = db /\ \A q \in Runs : pc[q] # "save" /\ pc'[q] # "save" /\ pc'[q] # "reset"
    BY <1>1, <1>2, <1>6 DEF StoresAgree, Critical
  <2> QED
    BY <1>3, <1>5, <2>1 DEF StoresAgree
<1>8. HolderAdds'
  BY <1>6 DEF HolderAdds, Critical
<1>9. OnceEach'
  BY <1>1, <1>3, OtherKinds DEF OnceEach
<1> QED
  BY <1>7, <1>8, <1>9

\* A process that starts again cut nothing off; the rest moves no run.
LEMMA OtherLock ==
    ASSUME Typed, StoresAgree, HolderAdds, OnceEach, CalmSoFar, OffTrial' => OffTrial,
           \/ Tick \/ UNCHANGED vars \/ ReloadWrites
           \/ \E c \in Procs : Restart(c) /\ Cut(c) = {}
    PROVE  StoresAgree' /\ HolderAdds' /\ OnceEach'
<1>1. ~ReloadWrites
  BY DEF ReloadWrites, StoresAgree
<1>2. /\ UNCHANGED <<db, panel, reserved, settled, work>>
      /\ pc' = pc
      /\ snap' = None /\ cached'["app"] = db
  BY <1>1, RenewalConstants
  DEF Tick, vars, stores, book, Restart, Cut, Typed, TypeOK, StoresAgree
<1>3. \A q \in Runs : pc[q] \in Critical => lock'["app"] = q
  <2>1. CASE Tick \/ UNCHANGED vars
    BY <2>1 DEF Tick, vars, HolderAdds
  <2>2. ASSUME NEW c \in Procs, Restart(c), Cut(c) = {}
        PROVE  \A q \in Runs : pc[q] \in Critical => lock'["app"] = q
    <3>1. CASE c = "app"
      <4>1. ASSUME NEW q \in Runs, pc[q] \in Critical PROVE FALSE
        <5>1. ProcOf(q) = "app"
          BY <4>1, RunKinds DEF CalmSoFar, Critical
        <5>2. q \in Cut(c)
          BY <3>1, <4>1, <5>1 DEF Cut, Critical
        <5> QED
          BY <2>2, <5>2
      <4> QED
        BY <4>1
    <3>2. CASE c # "app"
      BY <2>2, <3>2, RenewalConstants DEF Restart, HolderAdds, Typed, TypeOK
    <3> QED
      BY <3>1, <3>2
  <2> QED
    BY <1>1, <2>1, <2>2
<1>4. \A q \in Runs : Done(q)' = Done(q)
  BY <1>2 DEF Done
<1>5. Credited' = Credited /\ Kept' = Kept
  BY <1>4, KeptSame
<1>6. StoresAgree'
  BY <1>2, <1>5 DEF StoresAgree
<1>7. HolderAdds'
  BY <1>2, <1>3, <1>5 DEF HolderAdds
<1>8. OnceEach'
  BY <1>2 DEF OnceEach
<1> QED
  BY <1>6, <1>7, <1>8

\* Every step keeps the argument of the lock.
LEMMA NextLock == TrialDates /\ Typed /\ LockInv /\ [Next]_vars => LockInv'
<1> SUFFICES ASSUME TrialDates, Typed, LockInv, [Next]_vars, CalmSoFar'
             PROVE  StoresAgree' /\ HolderAdds' /\ OnceEach'
  BY DEF LockInv
<1>1. CalmSoFar /\ StoresAgree /\ HolderAdds /\ OnceEach /\ (OffTrial' => OffTrial)
  BY CalmBefore, OffTrialBefore DEF LockInv
<1>2. ASSUME NEW r \in PaidRuns \cup FreeRenewals \cup BulkRenewals,
             CalmRun(r), ProcOf(r) = "app", faults' = faults
      PROVE  StoresAgree' /\ HolderAdds' /\ OnceEach'
  BY <1>1, <1>2, BeginLock, AcquireLock, ReadLock, ReserveLock, ExtendLock, SaveLock, ResetLock
  DEF CalmRun
<1>3. CASE \/ Tick \/ UNCHANGED vars \/ ReloadWrites
           \/ \E c \in Procs : Restart(c) /\ Cut(c) = {}
  BY <1>1, <1>3, OtherLock
<1> QED
  BY <1>2, <1>3, CalmSteps

\* At rest, everything that was reported as added is credited.
LEMMA EarnedCredited ==
    ASSUME RightPlaces, settled \subseteq PaidRuns, added \subseteq OneShots, CalmSoFar
    PROVE  Earned \subseteq Credited
<1>1. \A p \in Payments : IsSettled(p) => p \in Credited
  BY DEF IsSettled, Credited, Done
<1>2. ASSUME NEW r \in added \ Edits PROVE r \in Credited
  <2>1. r \in OneShots /\ r \in Runs /\ pc[r] = "over"
    BY OtherKinds DEF RightPlaces
  <2>2. r \in FreeRenewals \cup BulkRenewals
    BY <2>1 DEF OneShots, CalmSoFar
  <2> QED
    BY <2>1, <2>2 DEF Credited, Done
<1> QED
  BY <1>1, <1>2 DEF Earned

\* What renewal_lock is for: whichever tariffs renewals of one key that overlap
\* in any order apply, at rest row, cache and panel agree, and they lose no
\* period if none left the key on the trial tariff, as long as a trial key
\* begins with no more days than the trial's own.
THEOREM LockKeepsPeriodsHolds == TrialDates => (Spec => []LockKeepsPeriods)
<1> SUFFICES ASSUME TrialDates PROVE Spec => []LockKeepsPeriods
  OBVIOUS
<1> DEFINE LockedInv == Typed /\ LockInv
<1>1. Init => LockedInv
  BY InitTyped, InitLock
<1>2. LockedInv /\ [Next]_vars => LockedInv'
  BY NextTyped, NextLock
<1>3. LockedInv => LockKeepsPeriods
  <2> SUFFICES ASSUME LockedInv, Quiet, Calm
               PROVE  /\ db = cached["app"] /\ panel = db.expiry
                      /\ (\A r \in Through : ~work[r].trial)
                            => db.expiry >= InitialExpiry + Days(Earned)
    BY DEF LockKeepsPeriods
  <2>1. CalmSoFar
    <3>1. \A r \in Edits \cup Bonuses : pc[r] = "idle"
      BY OtherKinds DEF Calm, Begun
    <3>2. \A r \in PaidRuns : r \in settled \/ pc[r] # "idle" => r[2] = "app"
      BY OtherKinds, RunKinds DEF Calm
    <3> QED
      BY <3>1, <3>2 DEF CalmSoFar, Calm
  <2>2. StoresAgree
    BY <2>1 DEF LockInv
  <2>3. panel = db.expiry
    BY <2>2 DEF StoresAgree, Quiet
  <2>4. Days(Earned) <= Days(Credited) /\ Days(Earned) \in Nat
    <3>1. Earned \subseteq Credited
      BY <2>1, EarnedCredited DEF Typed, TypeOK
    <3> QED
      BY <3>1, KeptNat, DaysGrow
  <2>5. ASSUME \A r \in Through : ~work[r].trial
        PROVE  db.expiry >= InitialExpiry + Days(Earned)
    <3>0. OffTrial
      BY <2>5, RunKinds, OtherKinds DEF OffTrial, Computed, Renewals, Through, Quiet, Typed, RightPlaces
    <3>1. db.expiry >= Kept /\ db.expiry \in Nat
      BY <2>2, <3>0 DEF StoresAgree, Typed, TypeOK, KeyObject
    <3>2. Kept = InitialExpiry + Days(Credited)
      BY DEF Kept
    <3> QED
      BY <2>4, <3>1, <3>2, KeptNat, RenewalConstants
  <2> QED
    BY <2>2, <2>3, <2>5 DEF StoresAgree
<1> QED
  BY <1>1, <1>2, <1>3, PTL DEF Spec
=============================================================================
