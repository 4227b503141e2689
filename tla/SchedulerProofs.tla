---------------------------- MODULE SchedulerProofs ----------------------------
(***************************************************************************)
(* What holds of the background work for any number of jobs, keys, workers *)
(* and requests, and of the funnels for any terms: first the registry both *)
(* kinds of jobs use, then the synchronisations, the mass renewal, the     *)
(* funnels about users and the funnels about keys.                         *)
(***************************************************************************)
EXTENDS Scheduler, FiniteSetTheorems, SequenceTheorems, TLAPS

-----------------------------------------------------------------------------
(* A pruned registry                                                       *)

\* The n-th of these places.
Place(n, places) == CHOOSE p \in places : Rank(p, places) = n - 1

\* A later place has a higher rank, below the number of places.
LEMMA RankRises ==
    ASSUME NEW S \in SUBSET Nat, IsFiniteSet(S), NEW p \in S
    PROVE  /\ Rank(p, S) \in 0..(Cardinality(S) - 1)
           /\ \A q \in S : p < q => Rank(p, S) < Rank(q, S)
  <1>. DEFINE Below(q) == {x \in S : x < q}
  <1>1. \A q \in S : IsFiniteSet(Below(q)) /\ Cardinality(Below(q)) \in Nat
    BY FS_Subset, FS_CardinalityType
  <1>2. \A q \in S : Rank(q, S) = Cardinality(Below(q))
    BY DEF Rank
  <1>3. Cardinality(Below(p)) < Cardinality(S)
    <2>1. Below(p) \in SUBSET S /\ p \notin Below(p)
      OBVIOUS
    <2>2. Cardinality(Below(p)) <= Cardinality(S) /\ Cardinality(S) # Cardinality(Below(p))
      <3>. HIDE DEF Below
      <3>. QED
        BY <2>1, FS_Subset
    <2>. QED
      BY <2>2, <1>1, FS_CardinalityType
  <1>4. ASSUME NEW q \in S, p < q PROVE Cardinality(Below(p)) < Cardinality(Below(q))
    <2>0. p \in Nat /\ q \in Nat /\ \A x \in S : x \in Nat
      OBVIOUS
    <2>a. \A x \in S : x < p => x < q
      BY <2>0, <1>4
    <2>1. Below(p) \in SUBSET Below(q) /\ p \in Below(q) /\ p \notin Below(p)
      <3>1. Below(p) \in SUBSET Below(q)
        BY <2>a
      <3>2. ~(p < p)
        BY <2>0
      <3>. QED
        BY <3>1, <3>2, <1>4
    <2>2. /\ Cardinality(Below(p)) <= Cardinality(Below(q))
          /\ Cardinality(Below(q)) # Cardinality(Below(p))
      <3>. HIDE DEF Below
      <3>. QED
        BY <2>1, <1>1, FS_Subset
    <2>. QED
      BY <2>2, <1>1
  <1>. HIDE DEF Below
  <1>. QED
    BY <1>1, <1>2, <1>3, <1>4, FS_CardinalityType

\* Every rank below the number of places is the rank of one.
LEMMA RankReached ==
    ASSUME NEW S \in SUBSET Nat, IsFiniteSet(S), NEW n \in 0..(Cardinality(S) - 1)
    PROVE  \E p \in S : Rank(p, S) = n
  <1>. SUFFICES ASSUME \A p \in S : Rank(p, S) # n PROVE FALSE
    OBVIOUS
  <1>. DEFINE All == 0..(Cardinality(S) - 1)
              T == All \ {n}
              f == [p \in S |-> Rank(p, S)]
  <1>1. Cardinality(S) \in Nat
    BY FS_CardinalityType
  <1>2. IsFiniteSet(All) /\ Cardinality(All) = Cardinality(S)
    BY <1>1, FS_Interval
  <1>3. IsFiniteSet(T) /\ Cardinality(T) = Cardinality(S) - 1
    <2>1. n \in All
      OBVIOUS
    <2>. HIDE DEF All
    <2>. QED
      BY <2>1, <1>1, <1>2, FS_RemoveElement
  <1>4. f \in [S -> T]
    BY RankRises
  <1>5. PICK x \in S, y \in S : x # y /\ f[x] = f[y]
    <2>1. Cardinality(T) < Cardinality(S)
      BY <1>1, <1>3
    <2>. HIDE DEF T, f
    <2>. QED
      BY <1>3, <1>4, <2>1, FS_PigeonHole
  <1>6. Rank(x, S) = Rank(y, S)
    BY <1>5
  <1>7. x < y \/ y < x
    BY <1>5
  <1>. QED
    BY <1>6, <1>7, RankRises

\* The n-th place is one of them; the places keep their order; each is the n-th for some n.
LEMMA PlacesInOrder ==
    ASSUME NEW S \in SUBSET Nat, IsFiniteSet(S)
    PROVE  /\ \A n \in 1..Cardinality(S) : Place(n, S) \in S
           /\ \A n, m \in 1..Cardinality(S) : n < m => Place(n, S) < Place(m, S)
           /\ \A p \in S : \E n \in 1..Cardinality(S) : Place(n, S) = p
  <1>0. Cardinality(S) \in Nat
    BY FS_CardinalityType
  <1>1. ASSUME NEW n \in 1..Cardinality(S)
        PROVE  Place(n, S) \in S /\ Rank(Place(n, S), S) = n - 1
    <2>1. n - 1 \in 0..(Cardinality(S) - 1)
      BY <1>0
    <2>2. \E p \in S : Rank(p, S) = n - 1
      BY <2>1, RankReached
    <2>. QED
      BY <2>2 DEF Place
  <1>2. ASSUME NEW n \in 1..Cardinality(S), NEW m \in 1..Cardinality(S), n < m
        PROVE  Place(n, S) < Place(m, S)
    <2>0. /\ Place(n, S) \in S /\ Place(m, S) \in S
          /\ Rank(Place(n, S), S) = n - 1 /\ Rank(Place(m, S), S) = m - 1
      BY <1>1
    <2>1. CASE Place(m, S) < Place(n, S)
      <3>1. Rank(Place(m, S), S) < Rank(Place(n, S), S)
        BY <2>0, <2>1, RankRises
      <3>. QED
        BY <2>0, <3>1, <1>0, <1>2
    <2>2. CASE Place(m, S) = Place(n, S)
      <3>1. Rank(Place(m, S), S) = Rank(Place(n, S), S)
        BY <2>2
      <3>. QED
        BY <2>0, <3>1, <1>0, <1>2
    <2>3. Place(n, S) \in Nat /\ Place(m, S) \in Nat
      BY <2>0
    <2>. QED
      BY <2>1, <2>2, <2>3
  <1>3. ASSUME NEW p \in S PROVE \E n \in 1..Cardinality(S) : Place(n, S) = p
    <2>1. Rank(p, S) \in 0..(Cardinality(S) - 1)
      BY RankRises
    <2>2. PICK n \in 1..Cardinality(S) : n = Rank(p, S) + 1
      BY <2>1, <1>0
    <2>3. Rank(Place(n, S), S) = Rank(p, S) /\ Place(n, S) \in S
      BY <1>1, <2>1, <2>2
    <2>4. ~(Place(n, S) < p) /\ ~(p < Place(n, S))
      <3>1. ASSUME NEW a \in S, NEW b \in S, a < b PROVE Rank(a, S) < Rank(b, S)
        BY <3>1, RankRises
      <3>2. Rank(p, S) \in Int
        BY <2>1
      <3>3. ~(Rank(p, S) < Rank(p, S))
        BY <3>2
      <3>. QED
        BY <2>3, <3>1, <3>3
    <2>5. p \in Nat /\ Place(n, S) \in Nat
      BY <2>3
    <2>. QED
      BY <2>4, <2>5
  <1>. QED
    BY <1>1, <1>2, <1>3

\* A function on 1..n is a sequence.
LEMMA IsSequence ==
    ASSUME NEW X, NEW n \in Nat, NEW f \in [1..n -> X]
    PROVE  f \in Seq(X)
  <1>1. Seq(X) = UNION {[1..m -> X] : m \in Nat}
    BY SeqDef
  <1>2. [1..n -> X] \in {[1..m -> X] : m \in Nat}
    OBVIOUS
  <1>. QED
    BY <1>1, <1>2, Zenon

\* A registry that holds the records of X which another held at these places.
Holds(after, X, seq, places) ==
    /\ IsFiniteSet(places) /\ places \in SUBSET Nat /\ Cardinality(places) \in Nat
    /\ after \in Seq(X) /\ DOMAIN after = 1..Cardinality(places)
    /\ \A n \in 1..Cardinality(places) :
          Place(n, places) \in places /\ after[n] = seq[Place(n, places)]

\* What a pruned registry is made of.
LEMMA PrunedParts ==
    ASSUME NEW X, NEW seq \in Seq(X), NEW finished \in SUBSET (DOMAIN seq), NEW keep \in Nat
    PROVE  Holds(Pruned(seq, finished, keep), X, seq, DOMAIN seq \ Surplus(finished, keep))
  <1>. DEFINE S == DOMAIN seq \ Surplus(finished, keep)
              after == Pruned(seq, finished, keep)
  <1>1. DOMAIN seq = 1..Len(seq) /\ Len(seq) \in Nat
    OBVIOUS
  <1>2. IsFiniteSet(DOMAIN seq)
    BY <1>1, FS_Interval
  <1>3. S \in SUBSET DOMAIN seq
    OBVIOUS
  <1>5. after = [n \in 1..Cardinality(S) |-> seq[Place(n, S)]]
    BY DEF Pruned, AtPlaces, Place
  <1>. HIDE DEF S, after
  <1>4. IsFiniteSet(S) /\ S \in SUBSET Nat /\ Cardinality(S) \in Nat
    <2>1. IsFiniteSet(S)
      BY <1>2, <1>3, FS_Subset
    <2>. QED
      BY <1>1, <1>3, <2>1, FS_CardinalityType
  <1>6. \A n \in 1..Cardinality(S) : Place(n, S) \in S
    BY <1>4, PlacesInOrder
  <1>7. \A n \in 1..Cardinality(S) : seq[Place(n, S)] \in X
    <2>1. \A i \in DOMAIN seq : seq[i] \in X
      OBVIOUS
    <2>. QED
      BY <1>3, <1>6, <2>1
  <1>8. /\ after \in [1..Cardinality(S) -> X]
        /\ \A n \in 1..Cardinality(S) : after[n] = seq[Place(n, S)]
    BY <1>5, <1>7
  <1>9. after \in Seq(X)
    BY <1>4, <1>8, IsSequence
  <1>. QED
    BY <1>4, <1>6, <1>8, <1>9 DEF S, after, Holds

\* What follows a record that is kept followed it before.
LEMMA FewerFollow ==
    ASSUME NEW S \in SUBSET Nat, IsFiniteSet(S), NEW T, S \subseteq T, IsFiniteSet(T),
           NEW n \in 1..Cardinality(S)
    PROVE  Cardinality({m \in 1..Cardinality(S) : m > n})
              <= Cardinality({k \in T : k > Place(n, S)})
  <1>. DEFINE A == {m \in 1..Cardinality(S) : m > n}
              B == {k \in T : k > Place(n, S)}
              f == [m \in A |-> Place(m, S)]
  <1>0. Cardinality(S) \in Nat
    BY FS_CardinalityType
  <1>1. IsFiniteSet(B)
    BY FS_Subset
  <1>2. \A m, l \in 1..Cardinality(S) : m < l => Place(m, S) < Place(l, S)
    BY PlacesInOrder
  <1>3. \A m \in 1..Cardinality(S) : Place(m, S) \in S /\ Place(m, S) \in Nat
    BY PlacesInOrder
  <1>4. \A m \in A : Place(m, S) \in B
    BY <1>2, <1>3
  <1>5. ASSUME NEW m \in A, NEW l \in A, Place(m, S) = Place(l, S) PROVE m = l
    <2>1. ~(Place(m, S) < Place(l, S)) /\ ~(Place(l, S) < Place(m, S))
      BY <1>3, <1>5
    <2>. QED
      BY <2>1, <1>2
  <1>6. f \in Injection(A, B)
    BY <1>4, <1>5 DEF Injection, IsInjective
  <1>. HIDE DEF A, B, f
  <1>7. Cardinality(A) <= Cardinality(B)
    BY <1>1, <1>6, FS_Injection
  <1>. QED
    BY <1>7 DEF A, B

-----------------------------------------------------------------------------
(* The synchronisations                                                    *)

SyncRecords == [id : JobIds, status : {"running", "done", "error"}]
Working == {"ready", "load", "panel"}

SyncTypes ==
    /\ syncing \in BOOLEAN
    /\ jobs \in Seq(SyncRecords)
    /\ task \in [JobIds -> Working \cup {"none", "over"}]
    /\ later \in [JobIds -> Nat]
    /\ told \subseteq JobIds

\* The registry and the tasks tell the same, and only the last record is of a running job.
RegistryInv ==
    /\ \A i, k \in DOMAIN jobs : jobs[i].id = jobs[k].id => i = k
    /\ \A i \in DOMAIN jobs :
          /\ task[jobs[i].id] # "none"
          /\ jobs[i].status = "running" <=> task[jobs[i].id] \in Working
          /\ jobs[i].status = "running" => i = Len(jobs)
    /\ \A j \in JobIds : task[j] \in Working => \E i \in DOMAIN jobs : jobs[i].id = j

\* The flag is up while a task is between its two ends.
FlagInv == syncing <=> \E j \in JobIds : task[j] \in {"load", "panel"}

LoadedInv ==
    /\ \A j \in JobIds : task[j] = "panel" => j \in loaded
    /\ \A i \in DOMAIN jobs : jobs[i].status = "done" => jobs[i].id \in loaded

\* A finished job is followed in the registry by no more than finished after it.
ToldInv ==
    /\ \A i \in Finished(jobs) :
          Cardinality({k \in Finished(jobs) : k > i}) <= later[jobs[i].id]
    /\ \A j \in told : (\E i \in DOMAIN jobs : jobs[i].id = j) \/ later[j] >= KeepJobs
    /\ refused # Unknown

SyncInv == SyncTypes /\ RegistryInv /\ FlagInv /\ LoadedInv /\ ToldInv

\* With no job the facts hold.
LEMMA SyncInitInv == SyncInit => SyncInv
  <1>. SUFFICES ASSUME SyncInit PROVE SyncInv
    OBVIOUS
  <1>1. jobs \in Seq(SyncRecords) /\ DOMAIN jobs = {}
    BY DEF SyncInit
  <1>. QED
    BY <1>1, SyncConstants DEF SyncInit, SyncInv, SyncTypes, RegistryInv, FlagInv, LoadedInv,
       ToldInv, Finished, Working

\* What the registry says of a job is its record.
LEMMA StatusIs ==
    ASSUME RegistryInv
    PROVE  /\ \A i \in DOMAIN jobs : Status(jobs[i].id) = jobs[i].status
           /\ \A i \in DOMAIN jobs : jobs[i].id \in Ids
           /\ \A j \in Ids : \E i \in DOMAIN jobs : jobs[i].id = j
  <1>1. ASSUME NEW i \in DOMAIN jobs PROVE Status(jobs[i].id) = jobs[i].status
    <2>. DEFINE c == CHOOSE k \in DOMAIN jobs : jobs[k].id = jobs[i].id
    <2>1. c \in DOMAIN jobs /\ jobs[c].id = jobs[i].id
      OBVIOUS
    <2>2. c = i
      BY <2>1 DEF RegistryInv
    <2>. QED
      BY <2>2 DEF Status
  <1>. QED
    BY <1>1 DEF Ids

\* Only one task is at work.
LEMMA OneTask ==
    ASSUME SyncTypes, RegistryInv, NEW j \in JobIds, task[j] \in Working
    PROVE  /\ \A k \in JobIds : task[k] \in Working => k = j
           /\ Len(jobs) \in DOMAIN jobs /\ jobs[Len(jobs)].id = j
           /\ jobs[Len(jobs)].status = "running"
  BY DEF SyncTypes, RegistryInv

\* Someone runs while the flag is up, and a running job is named by its id.
LEMMA BusyIs ==
    ASSUME SyncInv
    PROVE  /\ syncing => Running # {}
           /\ Running \subseteq JobIds
           /\ Busy <=> \E j \in JobIds : task[j] \in Working
  <1>1. ASSUME NEW j \in Running PROVE j \in JobIds /\ task[j] \in Working
    <2>1. PICK i \in DOMAIN jobs : jobs[i].id = j /\ jobs[i].status = "running"
      BY StatusIs DEF Running, SyncInv
    <2>2. jobs[i] \in SyncRecords
      BY DEF SyncInv, SyncTypes
    <2>. QED
      BY <2>1, <2>2 DEF SyncInv, RegistryInv, SyncRecords
  <1>2. ASSUME NEW j \in JobIds, task[j] \in Working PROVE j \in Running
    <2>1. PICK i \in DOMAIN jobs : jobs[i].id = j
      BY <1>2 DEF SyncInv, RegistryInv
    <2>2. jobs[i].status = "running"
      BY <1>2, <2>1 DEF SyncInv, RegistryInv
    <2>. QED
      BY <2>1, <2>2, StatusIs DEF Running, SyncInv
  <1>3. syncing => \E j \in JobIds : task[j] \in Working
    BY DEF SyncInv, FlagInv, Working
  <1>. QED
    BY <1>1, <1>2, <1>3 DEF Busy
\* A job is registered when no task is at work.
LEMMA RegisterKeeps ==
    ASSUME SyncInv, NEW j \in FreeIds, Register(j), told' \in {told, told \cup {j}}
    PROVE  SyncInv'
  <1>. USE DEF SyncInv
  <1>. DEFINE rec == [id |-> j, status |-> "running"]
              n == Len(jobs) + 1
  <1>1. j \in JobIds /\ task[j] = "none" /\ rec \in SyncRecords
    BY DEF FreeIds, SyncRecords
  <1>2. \A k \in JobIds : task[k] \notin Working
    BY BusyIs DEF Register
  <1>3. /\ jobs' \in Seq(SyncRecords) /\ Len(jobs') = n /\ DOMAIN jobs' = DOMAIN jobs \cup {n}
        /\ n \notin DOMAIN jobs /\ n \in Nat
        /\ \A i \in DOMAIN jobs : jobs'[i] = jobs[i] /\ i \in Nat /\ i # n
        /\ jobs'[n] = rec
    <2>1. jobs \in Seq(SyncRecords) /\ jobs' = Append(jobs, rec)
      BY DEF Register, SyncTypes
    <2>. QED
      BY <2>1, <1>1
  <1>4. /\ task' = [task EXCEPT ![j] = "ready"] /\ task' \in [JobIds -> Working \cup {"none", "over"}]
        /\ task'[j] = "ready" /\ \A k \in JobIds : k # j => task'[k] = task[k]
    BY <1>1 DEF Register, SyncTypes, Working
  <1>5. UNCHANGED <<syncing, loaded, refused, later>>
    BY DEF Register
  <1>6. \A i \in DOMAIN jobs : jobs[i] \in SyncRecords /\ jobs[i].id \in JobIds /\ jobs[i].id # j
    <2>1. \A i \in DOMAIN jobs : jobs[i] \in SyncRecords /\ task[jobs[i].id] # "none"
      BY DEF SyncTypes, RegistryInv
    <2>. QED
      BY <1>1, <2>1 DEF SyncRecords
  <1>7. \A i \in DOMAIN jobs : jobs[i].status # "running"
    BY <1>2, <1>6 DEF RegistryInv
  <1>8. SyncTypes'
    BY <1>1, <1>3, <1>4, <1>5 DEF SyncTypes
  <1>9. RegistryInv'
    <2>1. \A i, k \in DOMAIN jobs' : jobs'[i].id = jobs'[k].id => i = k
      BY <1>3, <1>6 DEF RegistryInv
    <2>2. ASSUME NEW i \in DOMAIN jobs'
          PROVE  /\ task'[jobs'[i].id] # "none"
                 /\ jobs'[i].status = "running" <=> task'[jobs'[i].id] \in Working
                 /\ jobs'[i].status = "running" => i = Len(jobs')
      <3>1. CASE i = n
        BY <3>1, <1>3, <1>4 DEF Working
      <3>2. CASE i \in DOMAIN jobs
        BY <3>2, <1>3, <1>4, <1>6, <1>7 DEF RegistryInv
      <3>. QED
        BY <3>1, <3>2, <1>3
    <2>3. ASSUME NEW k \in JobIds, task'[k] \in Working PROVE \E i \in DOMAIN jobs' : jobs'[i].id = k
      BY <2>3, <1>2, <1>3, <1>4
    <2>. QED
      BY <2>1, <2>2, <2>3 DEF RegistryInv
  <1>10. FlagInv'
    BY <1>1, <1>2, <1>4, <1>5 DEF FlagInv, Working
  <1>11. LoadedInv'
    BY <1>1, <1>3, <1>4, <1>5 DEF LoadedInv
  <1>12. ToldInv'
    <2>1. Finished(jobs') = Finished(jobs)
      BY <1>3 DEF Finished
    <2>2. Finished(jobs) \subseteq DOMAIN jobs
      BY DEF Finished
    <2>3. \A i \in Finished(jobs') :
             Cardinality({k \in Finished(jobs') : k > i}) <= later'[jobs'[i].id]
      <3>. SUFFICES ASSUME NEW i \in Finished(jobs)
                    PROVE  Cardinality({k \in Finished(jobs) : k > i}) <= later[jobs[i].id]
        BY <2>1, <2>2, <1>3, <1>5
      <3>. QED
        BY DEF ToldInv
    <2>4. \A k \in told' : (\E i \in DOMAIN jobs' : jobs'[i].id = k) \/ later'[k] >= KeepJobs
      BY <1>3, <1>5 DEF ToldInv
    <2>. QED
      BY <2>3, <2>4, <1>5 DEF ToldInv
  <1>. QED
    BY <1>8, <1>9, <1>10, <1>11, <1>12

\* An admin who is refused is told which job runs.
LEMMA StartJobKeeps == SyncInv /\ StartJob => SyncInv'
  <1>. SUFFICES ASSUME SyncInv, StartJob PROVE SyncInv'
    OBVIOUS
  <1>1. CASE \E j \in FreeIds : Register(j) /\ told' = told \cup {j}
    BY <1>1, RegisterKeeps
  <1>2. CASE /\ Busy
             /\ refused' = IF Running = {} THEN Unknown ELSE CHOOSE j \in Running : TRUE
             /\ told' = told \cup (IF Running = {} THEN {} ELSE {refused'})
             /\ UNCHANGED <<syncing, jobs, task, loaded, later, syncRestarts>>
    <2>1. Running # {} /\ Running \subseteq JobIds
      BY <1>2, BusyIs DEF Busy
    <2>2. refused' \in Running /\ told' = told \cup {refused'}
      BY <1>2, <2>1
    <2>3. refused' \in JobIds /\ refused' # Unknown
      BY <2>1, <2>2, SyncConstants
    <2>4. \E i \in DOMAIN jobs : jobs[i].id = refused'
      BY <2>2, StatusIs DEF Running, SyncInv
    <2>5. SyncTypes'
      BY <1>2, <2>2, <2>3 DEF SyncInv, SyncTypes
    <2>6. RegistryInv' /\ FlagInv' /\ LoadedInv'
      BY <1>2 DEF SyncInv, RegistryInv, FlagInv, LoadedInv
    <2>7. ToldInv'
      BY <1>2, <2>2, <2>3, <2>4 DEF SyncInv, ToldInv, Finished
    <2>. QED
      BY <2>5, <2>6, <2>7 DEF SyncInv
  <1>. QED
    BY <1>1, <1>2 DEF StartJob

\* The timer's run tells the registry nothing.
LEMMA RunScheduledKeeps == SyncInv /\ RunScheduled => SyncInv'
  BY RegisterKeeps DEF RunScheduled

\* The registry once a running job is finished: every record is of a finished job, each was
\* there, and what was pruned is followed by as many as are kept.
LEMMA SetJobDoes ==
    ASSUME SyncInv, NEW j \in JobIds, task[j] \in Working, NEW status \in {"done", "error"},
           SetJob(j, status)
    PROVE  /\ jobs' \in Seq(SyncRecords)
           /\ later' \in [JobIds -> Nat]
           /\ \A k \in JobIds : later'[k] >= later[k]
           /\ \A n \in DOMAIN jobs' : jobs'[n].status # "running"
           /\ \A n \in DOMAIN jobs' :
                 \/ jobs'[n] = [id |-> j, status |-> status]
                 \/ \E i \in DOMAIN jobs : jobs'[n] = jobs[i] /\ jobs[i].id # j
           /\ \A n, m \in DOMAIN jobs' : jobs'[n].id = jobs'[m].id => n = m
           /\ \A n \in DOMAIN jobs' :
                 Cardinality({m \in DOMAIN jobs' : m > n}) <= later'[jobs'[n].id]
           /\ \A i \in DOMAIN jobs :
                 \/ \E n \in DOMAIN jobs' : jobs'[n].id = jobs[i].id
                 \/ later'[jobs[i].id] >= KeepJobs
  <1>. DEFINE L == Len(jobs)
              rec == [id |-> j, status |-> status]
              D == [i \in DOMAIN jobs |-> IF jobs[i].id = j THEN rec ELSE jobs[i]]
              Behind(i) == {k \in 1..L : k > i}
  <1>1. /\ jobs \in Seq(SyncRecords) /\ L \in Nat /\ DOMAIN jobs = 1..L /\ L \in DOMAIN jobs
        /\ jobs[L].id = j /\ \A i \in 1..L : jobs[i] \in SyncRecords /\ jobs[i].id \in JobIds
        /\ \A i, k \in 1..L : jobs[i].id = jobs[k].id => i = k
    <2>1. jobs \in Seq(SyncRecords) /\ L \in DOMAIN jobs /\ jobs[L].id = j
      BY OneTask DEF SyncInv, SyncTypes
    <2>2. L \in Nat /\ DOMAIN jobs = 1..L
      BY <2>1
    <2>3. \A i \in 1..L : jobs[i] \in SyncRecords
      BY <2>1, <2>2
    <2>4. \A i, k \in 1..L : jobs[i].id = jobs[k].id => i = k
      BY <2>2 DEF SyncInv, RegistryInv
    <2>. QED
      BY <2>1, <2>2, <2>3, <2>4 DEF SyncRecords
  <1>2. \A i \in 1..L : i # L => jobs[i].id # j /\ jobs[i].status # "running"
    BY <1>1 DEF SyncInv, RegistryInv
  <1>3. /\ D \in [1..L -> SyncRecords] /\ D[L] = rec /\ \A i \in 1..L : i # L => D[i] = jobs[i]
        /\ \A i \in 1..L : D[i].id = jobs[i].id /\ D[i].status # "running"
    BY <1>1, <1>2 DEF SyncRecords
  <1>4. D \in Seq(SyncRecords) /\ DOMAIN D = 1..L
    BY <1>1, <1>3, IsSequence
  <1>5. Finished(D) = 1..L
    BY <1>3, <1>4 DEF Finished
  <1>. HIDE DEF D
  <1>6. jobs' = Pruned(D, 1..L, KeepJobs)
    <2>1. j \in Ids
      BY <1>1 DEF Ids
    <2>2. jobs' = Pruned(D, Finished(D), KeepJobs)
      BY <2>1 DEF SetJob, D
    <2>. QED
      BY <2>2, <1>5
  <1>7. later' = [k \in JobIds |-> IF k # j /\ k \in Ids /\ Status(k) # "running"
                                   THEN later[k] + 1 ELSE later[k]]
    BY DEF SetJob
  <1>8. \A i \in 1..L : i # L => later'[jobs[i].id] = later[jobs[i].id] + 1
    <2>. SUFFICES ASSUME NEW i \in 1..L, i # L
                  PROVE  later'[jobs[i].id] = later[jobs[i].id] + 1
      OBVIOUS
    <2>1. jobs[i].id \in Ids /\ Status(jobs[i].id) = jobs[i].status
      BY <1>1, StatusIs DEF SyncInv
    <2>2. jobs[i].id \in JobIds /\ jobs[i].id # j /\ jobs[i].status # "running"
      BY <1>1, <1>2
    <2>. QED
      BY <1>7, <2>1, <2>2
  <1>9. later' \in [JobIds -> Nat] /\ \A k \in JobIds : later'[k] >= later[k]
    BY <1>7 DEF SyncInv, SyncTypes
  <1>10. ASSUME NEW i \in 1..L
         PROVE  /\ IsFiniteSet(Behind(i)) /\ Cardinality(Behind(i)) \in Nat
                /\ Cardinality(Behind(i)) <= later'[jobs[i].id]
    <2>1. IsFiniteSet(Behind(i)) /\ Cardinality(Behind(i)) \in Nat
      <3>1. IsFiniteSet(1..L) /\ Behind(i) \in SUBSET (1..L)
        <4>1. L \in Int /\ 1 \in Int
          BY <1>1
        <4>2. IsFiniteSet(1..L)
          BY <4>1, FS_Interval
        <4>. QED
          BY <4>2
      <3>2. IsFiniteSet(Behind(i))
        <4>. HIDE DEF Behind
        <4>. QED
          BY <3>1, FS_Subset
      <3>. QED
        BY <3>2, FS_CardinalityType
    <2>2. CASE i = L
      <3>1. Behind(i) = {}
        BY <2>2, <1>1
      <3>2. later'[jobs[i].id] \in Nat
        BY <1>1, <1>9
      <3>. QED
        BY <2>1, <3>1, <3>2, FS_EmptySet
    <2>3. CASE i # L
      <3>. DEFINE Before == {k \in Finished(jobs) : k > i}
      <3>1. Finished(jobs) = (1..L) \ {L}
        <4>1. jobs[L].status = "running"
          BY OneTask DEF SyncInv
        <4>. QED
          BY <1>1, <1>2, <4>1 DEF Finished
      <3>2. Cardinality(Before) <= later[jobs[i].id]
        BY <2>3, <3>1 DEF SyncInv, ToldInv
      <3>3. Behind(i) = Before \cup {L} /\ L \notin Before
        <4>0. L \in 1..L /\ L \in Nat
          BY <1>1
        <4>1. i \in Nat /\ i < L /\ L \in 1..L
          BY <2>3, <4>0
        <4>. QED
          BY <3>1, <4>1
      <3>4. IsFiniteSet(Before)
        <4>1. Before \subseteq Behind(i)
          BY <3>3
        <4>. HIDE DEF Before, Behind
        <4>. QED
          BY <4>1, <2>1, FS_Subset
      <3>5. Cardinality(Behind(i)) = Cardinality(Before) + 1
        <4>. HIDE DEF Before, Behind
        <4>. QED
          BY <3>3, <3>4, FS_AddElement
      <3>6. Cardinality(Before) \in Nat /\ later[jobs[i].id] \in Nat
        BY <3>4, <1>1, FS_CardinalityType DEF SyncInv, SyncTypes
      <3>. QED
        BY <2>1, <2>3, <3>2, <3>5, <3>6, <1>8
    <2>. QED
      BY <2>1, <2>2, <2>3
  <1>11. PICK S : S = DOMAIN D \ Surplus(1..L, KeepJobs)
    OBVIOUS
  <1>12. /\ IsFiniteSet(S) /\ S \in SUBSET Nat /\ Cardinality(S) \in Nat /\ S \subseteq 1..L
         /\ S = (1..L) \ Surplus(1..L, KeepJobs)
         /\ jobs' \in Seq(SyncRecords)
         /\ DOMAIN jobs' = 1..Cardinality(S)
         /\ \A n \in 1..Cardinality(S) : Place(n, S) \in S /\ jobs'[n] = D[Place(n, S)]
    <2>1. Holds(Pruned(D, 1..L, KeepJobs), SyncRecords, D, DOMAIN D \ Surplus(1..L, KeepJobs))
      <3>1. 1..L \in SUBSET DOMAIN D /\ KeepJobs \in Nat /\ D \in Seq(SyncRecords)
        BY <1>4, SyncConstants
      <3>. QED
        BY <3>1, PrunedParts
    <2>2. Holds(jobs', SyncRecords, D, S)
      BY <2>1, <1>6, <1>11, Zenon
    <2>. QED
      BY <2>2, <1>4, <1>11 DEF Holds
  <1>13. \A n \in DOMAIN jobs' : Place(n, S) \in 1..L /\ jobs'[n] = D[Place(n, S)]
    BY <1>12
  <1>14. \A n, m \in DOMAIN jobs' : jobs'[n].id = jobs'[m].id => n = m
    <2>. SUFFICES ASSUME NEW n \in DOMAIN jobs', NEW m \in DOMAIN jobs', jobs'[n].id = jobs'[m].id
                  PROVE  n = m
      OBVIOUS
    <2>0. Place(n, S) \in 1..L /\ Place(m, S) \in 1..L
      BY <1>13
    <2>1. Place(n, S) = Place(m, S)
      <3>1. jobs[Place(n, S)].id = jobs[Place(m, S)].id
        BY <1>3, <1>13, <2>0
      <3>. QED
        BY <1>1, <2>0, <3>1
    <2>2. ~(Place(n, S) < Place(m, S)) /\ ~(Place(m, S) < Place(n, S))
      BY <2>1, <1>13
    <2>3. \A a, b \in 1..Cardinality(S) : a < b => Place(a, S) < Place(b, S)
      BY <1>12, PlacesInOrder
    <2>4. n \in 1..Cardinality(S) /\ m \in 1..Cardinality(S)
      BY <1>12
    <2>5. ~(n < m) /\ ~(m < n)
      BY <2>2, <2>3, <2>4
    <2>6. n \in Nat /\ m \in Nat
      BY <2>4, <1>12
    <2>. QED
      BY <2>5, <2>6
  <1>15. ASSUME NEW n \in DOMAIN jobs'
         PROVE  Cardinality({m \in DOMAIN jobs' : m > n}) <= later'[jobs'[n].id]
    <2>1. Cardinality({m \in 1..Cardinality(S) : m > n}) <= Cardinality(Behind(Place(n, S)))
      <3>1. IsFiniteSet(1..L)
        BY <1>1, FS_Interval
      <3>. QED
        BY <1>12, <3>1, FewerFollow
    <2>2. Cardinality(Behind(Place(n, S))) <= later'[jobs'[n].id]
      BY <1>3, <1>10, <1>13
    <2>3. Cardinality({m \in 1..Cardinality(S) : m > n}) \in Nat
      <3>1. IsFiniteSet(1..Cardinality(S))
        BY <1>12, FS_Interval
      <3>2. IsFiniteSet({m \in 1..Cardinality(S) : m > n})
        BY <3>1, FS_Subset
      <3>. QED
        BY <3>2, FS_CardinalityType
    <2>4. Cardinality(Behind(Place(n, S))) \in Nat
      BY <1>10, <1>13
    <2>5. later'[jobs'[n].id] \in Nat
      <3>1. Place(n, S) \in 1..L /\ jobs'[n].id = jobs[Place(n, S)].id
        BY <1>3, <1>13
      <3>. QED
        BY <3>1, <1>1, <1>9
    <2>6. Cardinality({m \in 1..Cardinality(S) : m > n}) <= later'[jobs'[n].id]
      <3>. HIDE DEF Behind
      <3>. QED
        BY <2>1, <2>2, <2>3, <2>4, <2>5
    <2>. QED
      BY <2>6, <1>12
  <1>16. ASSUME NEW i \in DOMAIN jobs, ~ \E n \in DOMAIN jobs' : jobs'[n].id = jobs[i].id
         PROVE  later'[jobs[i].id] >= KeepJobs
    <2>1. i \notin S
      <3>. SUFFICES ASSUME i \in S PROVE FALSE
        OBVIOUS
      <3>1. PICK n \in 1..Cardinality(S) : Place(n, S) = i
        BY <1>12, PlacesInOrder
      <3>. QED
        BY <3>1, <1>3, <1>12, <1>16
    <2>2. Cardinality(Behind(i)) >= KeepJobs
      BY <2>1, <1>1, <1>12 DEF Surplus
    <2>3. later'[jobs[i].id] \in Nat
      BY <1>1, <1>9
    <2>. QED
      <3>. HIDE DEF Behind
      <3>. QED
        BY <2>2, <2>3, <1>1, <1>10, SyncConstants
  <1>17. \A n \in DOMAIN jobs' :
            \/ jobs'[n] = rec
            \/ \E i \in DOMAIN jobs : jobs'[n] = jobs[i] /\ jobs[i].id # j
    BY <1>1, <1>2, <1>3, <1>13
  <1>18. \A n \in DOMAIN jobs' : jobs'[n].status # "running"
    BY <1>3, <1>13
  <1>. QED
    BY <1>9, <1>12, <1>14, <1>15, <1>16, <1>17, <1>18
\* A task reaches its end: it was at work, and it is set down as it went.
LEMMA EndKeeps ==
    ASSUME SyncInv, NEW j \in JobIds, task[j] \in Working, NEW status \in {"done", "error"},
           SetJob(j, status), status = "done" => j \in loaded, syncing' = FALSE,
           task' = [task EXCEPT ![j] = "over"], UNCHANGED <<loaded, told, refused>>
    PROVE  SyncInv'
  <1>. USE DEF SyncInv
  <1>1. /\ task' \in [JobIds -> Working \cup {"none", "over"}]
        /\ task'[j] = "over" /\ \A k \in JobIds : k # j => task'[k] = task[k]
    BY DEF SyncTypes
  <1>2. \A k \in JobIds : task'[k] \notin Working
    BY <1>1, OneTask DEF Working
  <1>3. \A i \in DOMAIN jobs : jobs[i].id \in JobIds
    <2>1. \A i \in DOMAIN jobs : jobs[i] \in SyncRecords
      BY DEF SyncTypes
    <2>. QED
      BY <2>1 DEF SyncRecords
  <1>4. \A n \in DOMAIN jobs' :
           \/ jobs'[n] = [id |-> j, status |-> status]
           \/ \E i \in DOMAIN jobs : jobs'[n] = jobs[i] /\ jobs[i].id # j
    BY SetJobDoes
  <1>5. SyncTypes'
    BY <1>1, SetJobDoes DEF SyncTypes
  <1>6. RegistryInv'
    <2>1. \A n \in DOMAIN jobs' : jobs'[n].id \in JobIds /\ task'[jobs'[n].id] # "none"
      BY <1>1, <1>3, <1>4 DEF RegistryInv
    <2>2. \A n \in DOMAIN jobs' : jobs'[n].status # "running"
      BY SetJobDoes
    <2>3. \A n, m \in DOMAIN jobs' : jobs'[n].id = jobs'[m].id => n = m
      BY SetJobDoes
    <2>. QED
      BY <1>2, <2>1, <2>2, <2>3 DEF RegistryInv
  <1>7. FlagInv'
    BY <1>2 DEF FlagInv, Working
  <1>8. LoadedInv'
    <2>1. \A n \in DOMAIN jobs' : jobs'[n].status = "done" => jobs'[n].id \in loaded
      BY <1>4 DEF LoadedInv
    <2>. QED
      BY <1>2, <2>1 DEF LoadedInv, Working
  <1>9. ToldInv'
    <2>1. Finished(jobs') = DOMAIN jobs'
      BY SetJobDoes DEF Finished
    <2>2. \A n \in DOMAIN jobs' :
             Cardinality({m \in DOMAIN jobs' : m > n}) <= later'[jobs'[n].id]
      BY SetJobDoes
    <2>3. \A i \in DOMAIN jobs :
             (\E n \in DOMAIN jobs' : jobs'[n].id = jobs[i].id) \/ later'[jobs[i].id] >= KeepJobs
      BY SetJobDoes
    <2>4. \A k \in JobIds : later[k] >= KeepJobs => later'[k] >= KeepJobs
      <3>1. \A k \in JobIds : later'[k] >= later[k] /\ later[k] \in Nat /\ later'[k] \in Nat
        BY SetJobDoes DEF SyncTypes
      <3>. QED
        BY <3>1, SyncConstants
    <2>5. \A k \in told : (\E n \in DOMAIN jobs' : jobs'[n].id = k) \/ later'[k] >= KeepJobs
      BY <2>3, <2>4 DEF ToldInv, SyncTypes
    <2>. QED
      BY <2>1, <2>2, <2>5 DEF ToldInv
  <1>. QED
    BY <1>5, <1>6, <1>7, <1>8, <1>9

\* A task goes on; the registry does not change.
LEMMA GoOnKeeps ==
    ASSUME SyncInv, NEW j \in JobIds, task[j] \in Working, NEW place \in {"load", "panel"},
           task' = [task EXCEPT ![j] = place], syncing' = TRUE,
           loaded \subseteq loaded', place = "panel" => j \in loaded',
           UNCHANGED <<jobs, told, refused, later>>
    PROVE  SyncInv'
  <1>. USE DEF SyncInv
  <1>1. /\ task' \in [JobIds -> Working \cup {"none", "over"}]
        /\ task'[j] = place /\ \A k \in JobIds : k # j => task'[k] = task[k]
    BY DEF SyncTypes, Working
  <1>2. \A k \in JobIds : task'[k] \in Working <=> task[k] \in Working
    BY <1>1 DEF Working
  <1>3. \A k \in JobIds : task'[k] = "none" <=> task[k] = "none"
    BY <1>1 DEF Working
  <1>4. \A i \in DOMAIN jobs : jobs[i].id \in JobIds
    <2>1. \A i \in DOMAIN jobs : jobs[i] \in SyncRecords
      BY DEF SyncTypes
    <2>. QED
      BY <2>1 DEF SyncRecords
  <1>5. SyncTypes'
    BY <1>1 DEF SyncTypes
  <1>6. RegistryInv'
    BY <1>2, <1>3, <1>4 DEF RegistryInv
  <1>7. FlagInv'
    BY <1>1 DEF FlagInv
  <1>8. LoadedInv'
    BY <1>1 DEF LoadedInv
  <1>9. ToldInv'
    BY DEF ToldInv, Finished
  <1>. QED
    BY <1>5, <1>6, <1>7, <1>8, <1>9

\* A task of a synchronisation keeps the facts, wherever it is.
LEMMA TaskKeeps ==
    ASSUME SyncInv, NEW j \in JobIds,
           EnterSync(j) \/ LoadCache(j) \/ SyncPanel(j) \/ LoadFails(j)
    PROVE  SyncInv'
  <1>1. CASE EnterSync(j)
    <2>1. task[j] = "ready"
      BY <1>1 DEF EnterSync
    <2>2. ~syncing
      <3>. SUFFICES ASSUME syncing PROVE FALSE
        OBVIOUS
      <3>1. PICK k \in JobIds : task[k] \in {"load", "panel"}
        BY DEF SyncInv, FlagInv
      <3>2. k = j
        BY <2>1, <3>1, OneTask DEF SyncInv, Working
      <3>. QED
        BY <2>1, <3>1, <3>2
    <2>. QED
      BY <1>1, <2>1, <2>2, GoOnKeeps DEF EnterSync, Working
  <1>2. CASE LoadCache(j)
    <2>1. syncing
      BY <1>2 DEF LoadCache, SyncInv, FlagInv
    <2>. QED
      BY <1>2, <2>1, GoOnKeeps DEF LoadCache, Working
  <1>3. CASE SyncPanel(j)
    BY <1>3, EndKeeps DEF SyncPanel, LeaveSync, Working, SyncInv, LoadedInv
  <1>4. CASE LoadFails(j)
    BY <1>4, EndKeeps DEF LoadFails, LeaveSync, Working
  <1>. QED
    BY <1>1, <1>2, <1>3, <1>4

\* A restart forgets the registry and every task at once.
LEMMA SyncRestartKeeps == SyncInv /\ SyncRestart => SyncInv'
  <1>. SUFFICES ASSUME SyncInv, SyncRestart PROVE SyncInv'
    OBVIOUS
  <1>1. jobs' \in Seq(SyncRecords) /\ DOMAIN jobs' = {} /\ told' = {} /\ refused' = NoJob
    BY DEF SyncRestart
  <1>2. /\ task' \in [JobIds -> Working \cup {"none", "over"}]
        /\ \A k \in JobIds : task'[k] \notin Working
    BY DEF SyncRestart, SyncInv, SyncTypes, Working
  <1>3. syncing' = FALSE /\ UNCHANGED <<loaded, later>>
    BY DEF SyncRestart
  <1>4. \A k \in JobIds : task'[k] \notin {"load", "panel"}
    BY <1>2 DEF Working
  <1>5. Finished(jobs') = {}
    BY <1>1 DEF Finished
  <1>6. SyncTypes'
    BY <1>1, <1>2, <1>3 DEF SyncInv, SyncTypes
  <1>7. RegistryInv' /\ FlagInv' /\ LoadedInv'
    BY <1>1, <1>2, <1>3, <1>4 DEF RegistryInv, FlagInv, LoadedInv
  <1>8. ToldInv'
    BY <1>1, <1>5, SyncConstants DEF ToldInv
  <1>. QED
    BY <1>6, <1>7, <1>8 DEF SyncInv

\* Every step of the synchronisations keeps the facts.
LEMMA SyncStepKeeps == SyncInv /\ SyncStep => SyncInv'
  BY StartJobKeeps, RunScheduledKeeps, SyncRestartKeeps, TaskKeeps DEF SyncStep

\* So does a step of another kind of work.
LEMMA SyncStays == SyncInv /\ UNCHANGED syncVars => SyncInv'
  BY DEF SyncInv, SyncTypes, RegistryInv, FlagInv, LoadedInv, ToldInv, Finished, syncVars

\* The inductive invariant of the synchronisations.
LEMMA SyncInvariant == Spec => []SyncInv
  <1>1. Init => SyncInv
    BY SyncInitInv DEF Init
  <1>2. SyncInv /\ [Next]_schedulerVars => SyncInv'
    <2>. SUFFICES ASSUME SyncInv, [Next]_schedulerVars PROVE SyncInv'
      OBVIOUS
    <2>1. SyncStep \/ UNCHANGED syncVars
      BY DEF Next, RunsKeys, RunsUsers, RunsSync, RunsBulk, RunsReports, schedulerVars
    <2>. QED
      BY <2>1, SyncStepKeeps, SyncStays
  <1>. QED
    BY <1>1, <1>2, PTL DEF Spec

\* What an admin is told of a synchronisation is so.
LEMMA SyncInvImplies == SyncInv => JobsAreHonest
  <1>. SUFFICES ASSUME SyncInv PROVE JobsAreHonest
    OBVIOUS
  <1>1. Cardinality({j \in JobIds : task[j] \in {"load", "panel"}}) <= 1
    <2>. DEFINE B == {j \in JobIds : task[j] \in {"load", "panel"}}
    <2>1. CASE B = {}
      BY <2>1, FS_EmptySet
    <2>2. CASE B # {}
      <3>1. PICK j \in JobIds : task[j] \in {"load", "panel"}
        BY <2>2
      <3>2. B = {j}
        BY <3>1, OneTask DEF SyncInv, Working
      <3>3. Cardinality({j}) = 1
        BY FS_Singleton
      <3>. HIDE DEF B
      <3>4. Cardinality(B) <= 1
        BY <3>2, <3>3
      <3>. QED
        BY <3>4 DEF B
    <2>. QED
      BY <2>1, <2>2
  <1>2. \A j \in Ids : Status(j) = "done" => j \in loaded
    BY StatusIs DEF SyncInv, LoadedInv
  <1>3. \A j \in told : j \in Ids \/ later[j] >= KeepJobs
    BY StatusIs DEF SyncInv, ToldInv
  <1>. QED
    BY <1>1, <1>2, <1>3 DEF JobsAreHonest, SyncInv, ToldInv

\* For any number of starts, restarts and failures, an admin who polls a synchronisation is
\* told the truth about it.
THEOREM JobsAreHonestHolds == Spec => []JobsAreHonest
  BY SyncInvariant, SyncInvImplies, PTL
-----------------------------------------------------------------------------
(* The mass renewal                                                        *)

TaskRecords == [status : {"none", "running", "cancelled", "done"},
                processed : Nat, success : Nat, failed : Nat, total : Nat]

BulkTypes ==
    /\ asked \in [Requests -> {"none", "refused", "start", "started"}]
    /\ listed \in [Requests -> SUBSET Emails]
    /\ registry \in Seq(Requests)
    /\ job \in [Requests -> TaskRecords]
    /\ queue \in [Requests -> SUBSET Emails]
    /\ worker \in [Requests -> [Workers -> Emails \cup {"none", "ready", "over"}]]
    /\ taken \in [Requests -> [Emails -> Nat]]
    /\ renewed \in [Requests -> SUBSET Emails]

Took(r) == {e \in Emails : taken[r][e] > 0}
InHand(r) == {w \in Workers : worker[r][w] \in Emails}

\* A request that was not started left nothing, and nothing is taken up twice.
FreshInv(r) ==
    /\ r \in Known => asked[r] = "started"
    /\ asked[r] # "started" =>
          job[r] = NoTask /\ renewed[r] = {} /\ \A e \in Emails : taken[r][e] = 0
    /\ \A e \in Emails : taken[r][e] <= 1

\* Only a running task the registry knows has workers, and there is one such.
ActiveInv ==
    /\ \A r, s \in Active : r = s
    /\ \A r \in Requests, w \in Workers : worker[r][w] \in Emails \cup {"ready"} => r \in Active

\* The keys a known task listed are queued or taken up; those taken up are in
\* the hands of one worker or counted.
KeysInv(r) ==
    /\ queue[r] \subseteq listed[r] /\ Took(r) = listed[r] \ queue[r]
    /\ renewed[r] \subseteq Took(r)
    /\ \A w \in InHand(r) : worker[r][w] \in Took(r) \ renewed[r]
    /\ \A w, v \in InHand(r) : worker[r][w] = worker[r][v] => w = v
FiguresInv(r) ==
    /\ job[r].processed + Cardinality(InHand(r)) = Cardinality(Took(r))
    /\ job[r].success = Cardinality(renewed[r])
    /\ job[r].processed = job[r].success + job[r].failed
    /\ job[r].total = Cardinality(listed[r])
\* A worker ends for want of keys, unless the task is cancelled.
EndInv(r) ==
    /\ \A w \in Workers : worker[r][w] = "over" /\ r \notin cancelling => queue[r] = {}
    /\ job[r].status = "done" => queue[r] = {}

BulkInv ==
    /\ BulkTypes /\ ActiveInv
    /\ \A r \in Requests : FreshInv(r)
    /\ \A r \in Known : KeysInv(r) /\ FiguresInv(r) /\ EndInv(r)

\* With no task the facts hold.
LEMMA BulkInitInv == BulkInit => BulkInv
  <1>. SUFFICES ASSUME BulkInit PROVE BulkInv
    OBVIOUS
  <1>1. Known = {} /\ Active = {}
    BY DEF BulkInit, Known, Active
  <1>2. NoTask \in TaskRecords
    BY DEF NoTask, TaskRecords
  <1>3. BulkTypes
    BY <1>2 DEF BulkInit, BulkTypes
  <1>4. ActiveInv
    BY <1>1, BulkConstants DEF ActiveInv, BulkInit
  <1>5. \A r \in Requests : FreshInv(r)
    BY <1>1 DEF FreshInv, BulkInit
  <1>. QED
    BY <1>1, <1>3, <1>4, <1>5 DEF BulkInv

\* Pruning loses no running task and makes none up.
LEMMA KeptRange ==
    ASSUME NEW seq \in Seq(Requests), NEW known
    PROVE  /\ Kept(seq, known) \in Seq(Requests)
           /\ \A n \in DOMAIN Kept(seq, known) :
                 \E i \in DOMAIN seq : Kept(seq, known)[n] = seq[i]
           /\ \A i \in DOMAIN seq : known[seq[i]].status = "running" =>
                 \E n \in DOMAIN Kept(seq, known) : Kept(seq, known)[n] = seq[i]
  <1>. DEFINE F == {i \in DOMAIN seq : known[seq[i]].status # "running"}
              S == DOMAIN seq \ Surplus(F, KeepFinished)
              after == Kept(seq, known)
  <1>1. F \in SUBSET DOMAIN seq /\ after = Pruned(seq, F, KeepFinished)
    BY DEF Kept
  <1>2. Holds(after, Requests, seq, S)
    <2>1. Holds(Pruned(seq, F, KeepFinished), Requests, seq, DOMAIN seq \ Surplus(F, KeepFinished))
      <3>. HIDE DEF F
      <3>. QED
        BY <1>1, BulkConstants, PrunedParts
    <2>. QED
      BY <1>1, <2>1, Zenon
  <1>3. S \subseteq DOMAIN seq /\ \A i \in DOMAIN seq : known[seq[i]].status = "running" => i \in S
    BY DEF Surplus
  <1>. HIDE DEF F, S, after
  <1>4. /\ after \in Seq(Requests) /\ IsFiniteSet(S) /\ S \in SUBSET Nat
        /\ DOMAIN after = 1..Cardinality(S)
        /\ \A n \in 1..Cardinality(S) : Place(n, S) \in S /\ after[n] = seq[Place(n, S)]
    BY <1>2 DEF Holds
  <1>5. \A n \in DOMAIN after : \E i \in DOMAIN seq : after[n] = seq[i]
    BY <1>3, <1>4
  <1>6. ASSUME NEW i \in DOMAIN seq, known[seq[i]].status = "running"
        PROVE  \E n \in DOMAIN after : after[n] = seq[i]
    <2>1. i \in S
      BY <1>3, <1>6
    <2>2. PICK n \in 1..Cardinality(S) : Place(n, S) = i
      BY <1>4, <2>1, PlacesInOrder
    <2>. QED
      BY <1>4, <2>2
  <1>. QED
    BY <1>4, <1>5, <1>6 DEF after

\* Known are the tasks in the registry.
LEMMA KnownAre ==
    ASSUME BulkTypes
    PROVE  Known \subseteq Requests /\ \A r \in Requests : r \in Active => r \in Known
  BY DEF BulkTypes, Known, Active

\* A task nothing was done to keeps its figures.
LEMMA OthersStay ==
    ASSUME NEW r, KeysInv(r), FiguresInv(r), EndInv(r),
           queue'[r] = queue[r], worker'[r] = worker[r], job'[r] = job[r],
           taken'[r] = taken[r], renewed'[r] = renewed[r], listed'[r] = listed[r],
           r \notin cancelling' => r \notin cancelling
    PROVE  KeysInv(r)' /\ FiguresInv(r)' /\ EndInv(r)'
  <1>1. Took(r)' = Took(r) /\ InHand(r)' = InHand(r)
    BY DEF Took, InHand
  <1>. QED
    BY <1>1 DEF KeysInv, FiguresInv, EndInv
\* Listing the keys is before a task.
LEMMA ListKeysKeeps == ASSUME BulkInv, NEW q \in Requests, ListKeys(q) PROVE BulkInv'
  <1>. USE DEF BulkInv
  <1>1. asked[q] = "none" /\ q \notin Known
    BY DEF ListKeys, FreshInv
  <1>2. UNCHANGED <<registry, job, queue, worker, cancelling, taken, renewed>>
    BY DEF ListKeys
  <1>3. Known' = Known /\ Active' = Active
    BY <1>2 DEF Known, Active
  <1>4. PICK found \in SUBSET Emails :
           /\ listed' = [listed EXCEPT ![q] = found]
           /\ asked' = [asked EXCEPT ![q] =
                 IF found = {} \/ (expected[q] > 0 /\ expected[q] # Cardinality(found))
                 THEN "refused" ELSE "start"]
    BY DEF ListKeys
  <1>5. BulkTypes'
    BY <1>2, <1>4 DEF BulkTypes
  <1>6. ActiveInv'
    BY <1>2, <1>3 DEF ActiveInv
  <1>7. ASSUME NEW r \in Requests PROVE FreshInv(r)'
    <2>1. asked'[r] = "started" <=> asked[r] = "started"
      BY <1>1, <1>4 DEF BulkTypes
    <2>. QED
      BY <1>2, <1>3, <2>1 DEF FreshInv
  <1>8. ASSUME NEW r \in Known PROVE KeysInv(r)' /\ FiguresInv(r)' /\ EndInv(r)'
    <2>1. listed'[r] = listed[r]
      BY <1>1, <1>4, KnownAre DEF BulkTypes
    <2>. QED
      BY <1>2, <2>1, OthersStay
  <1>. QED
    BY <1>3, <1>5, <1>6, <1>7, <1>8

\* A task starts with every key it listed in its queue, and nothing counted.
LEMMA StartTaskKeeps == ASSUME BulkInv, NEW q \in Requests, StartTask(q) PROVE BulkInv'
  <1>. USE DEF BulkInv
  <1>1. asked[q] = "start" /\ q \notin Known
    BY DEF StartTask, FreshInv
  <1>2. UNCHANGED <<listed, cancelling, taken, renewed>>
    BY DEF StartTask
  <1>3. CASE ~CanStart
    <2>1. UNCHANGED <<registry, job, queue, worker>> /\ asked' = [asked EXCEPT ![q] = "refused"]
      BY <1>3 DEF StartTask
    <2>2. Known' = Known /\ Active' = Active
      BY <2>1 DEF Known, Active
    <2>3. BulkTypes'
      BY <1>2, <2>1 DEF BulkTypes
    <2>4. ActiveInv'
      BY <2>1, <2>2 DEF ActiveInv
    <2>5. ASSUME NEW r \in Requests PROVE FreshInv(r)'
      <3>1. asked'[r] = "started" <=> asked[r] = "started"
        BY <1>1, <2>1 DEF BulkTypes
      <3>. QED
        BY <1>2, <2>1, <2>2, <3>1 DEF FreshInv
    <2>6. ASSUME NEW r \in Known PROVE KeysInv(r)' /\ FiguresInv(r)' /\ EndInv(r)'
      BY <1>2, <2>1, OthersStay
    <2>. QED
      BY <2>2, <2>3, <2>4, <2>5, <2>6
  <1>4. CASE CanStart
    <2>1. /\ job' = [job EXCEPT ![q].status = "running", ![q].total = Cardinality(listed[q])]
          /\ registry' = Kept(Append(registry, q), job')
          /\ queue' = [queue EXCEPT ![q] = listed[q]]
          /\ worker' = [worker EXCEPT ![q] = [w \in Workers |-> "ready"]]
          /\ asked' = [asked EXCEPT ![q] = "started"]
      BY <1>4 DEF StartTask
    <2>2. /\ job[q] = NoTask /\ renewed[q] = {} /\ \A e \in Emails : taken[q][e] = 0
      BY <1>1 DEF FreshInv
    <2>3. listed[q] \in SUBSET Emails /\ Cardinality(listed[q]) \in Nat
      <3>1. listed[q] \in SUBSET Emails
        BY DEF BulkTypes
      <3>2. IsFiniteSet(listed[q])
        BY <3>1, BulkConstants, FS_Subset
      <3>. QED
        BY <3>1, <3>2, FS_CardinalityType
    <2>4. /\ job'[q].status = "running" /\ job'[q].total = Cardinality(listed[q])
          /\ job'[q].processed = 0 /\ job'[q].success = 0 /\ job'[q].failed = 0
          /\ \A r \in Requests : r # q => job'[r] = job[r]
          /\ job' \in [Requests -> TaskRecords]
      <3>1. job'[q].status = "running" /\ job'[q].total = Cardinality(listed[q])
        BY <2>1 DEF BulkTypes, TaskRecords
      <3>2. /\ job'[q].processed = job[q].processed /\ job'[q].success = job[q].success
            /\ job'[q].failed = job[q].failed
        BY <2>1 DEF BulkTypes, TaskRecords
      <3>3. job[q].processed = 0 /\ job[q].success = 0 /\ job[q].failed = 0
        BY <2>2 DEF NoTask
      <3>4. \A r \in Requests : r # q => job'[r] = job[r]
        BY <2>1 DEF BulkTypes
      <3>5. job' \in [Requests -> TaskRecords]
        <4>1. job'[q] = [job[q] EXCEPT !.status = "running", !.total = Cardinality(listed[q])]
          BY <2>1 DEF BulkTypes
        <4>2. job'[q] \in TaskRecords
          <5>1. job[q] \in TaskRecords
            BY DEF BulkTypes
          <5>. QED
            BY <4>1, <5>1, <2>3 DEF TaskRecords
        <4>3. job' = [job EXCEPT ![q] = job'[q]]
          BY <2>1 DEF BulkTypes
        <4>. QED
          BY <4>2, <4>3 DEF BulkTypes
      <3>. QED
        BY <3>1, <3>2, <3>3, <3>4, <3>5
    <2>5. /\ Append(registry, q) \in Seq(Requests)
          /\ \A i \in DOMAIN Append(registry, q) :
                Append(registry, q)[i] = q \/ Append(registry, q)[i] \in Known
          /\ \E i \in DOMAIN Append(registry, q) : Append(registry, q)[i] = q
      <3>1. registry \in Seq(Requests)
        BY DEF BulkTypes
      <3>2. Append(registry, q) \in Seq(Requests)
        BY <3>1
      <3>3. DOMAIN Append(registry, q) = 1..(Len(registry) + 1) /\ DOMAIN registry = 1..Len(registry)
        BY <3>1
      <3>4. \A i \in 1..Len(registry) : Append(registry, q)[i] = registry[i]
        BY <3>1
      <3>5. Append(registry, q)[Len(registry) + 1] = q /\ Len(registry) \in Nat
        BY <3>1
      <3>. QED
        BY <3>2, <3>3, <3>4, <3>5 DEF Known
    <2>6. registry' \in Seq(Requests) /\ q \in Known' /\ Known' \subseteq Known \cup {q}
      <3>0. PICK before, known : before = Append(registry, q) /\ known = job'
        OBVIOUS
      <3>1. before \in Seq(Requests) /\ registry' = Kept(before, known)
        BY <2>1, <2>5, <3>0
      <3>2. \A n \in DOMAIN registry' : \E i \in DOMAIN before : registry'[n] = before[i]
        BY <3>1, KeptRange
      <3>3. \A i \in DOMAIN before : known[before[i]].status = "running" =>
               \E n \in DOMAIN registry' : registry'[n] = before[i]
        BY <3>1, KeptRange
      <3>4. registry' \in Seq(Requests)
        BY <3>1, KeptRange
      <3>5. job'[q].status = "running"
        BY <2>4
      <3>6. q \in Known'
        BY <2>5, <3>0, <3>3, <3>5 DEF Known
      <3>7. Known' \subseteq Known \cup {q}
        BY <2>5, <3>0, <3>2 DEF Known
      <3>. QED
        BY <3>4, <3>6, <3>7
    <2>7. Active' = {q}
      <3>1. \A r \in Known : job[r].status # "running"
        BY <1>4 DEF CanStart, Active
      <3>2. \A r \in Known : r \in Requests /\ job'[r] = job[r]
        BY <1>1, <2>4, KnownAre
      <3>. QED
        BY <2>4, <2>6, <3>1, <3>2 DEF Active
    <2>8. /\ worker'[q] = [w \in Workers |-> "ready"]
          /\ \A r \in Requests : r # q => worker'[r] = worker[r]
          /\ worker' \in [Requests -> [Workers -> Emails \cup {"none", "ready", "over"}]]
      BY <2>1 DEF BulkTypes
    <2>9. BulkTypes'
      BY <1>2, <2>1, <2>3, <2>4, <2>6, <2>8 DEF BulkTypes
    <2>10. ActiveInv'
      <3>1. \A r \in Requests, w \in Workers : r # q => worker[r][w] \notin Emails \cup {"ready"}
        BY <1>4 DEF CanStart, ActiveInv
      <3>2. ASSUME NEW r \in Requests, NEW w \in Workers, worker'[r][w] \in Emails \cup {"ready"}
            PROVE  r \in Active'
        <4>1. r = q
          BY <2>8, <3>1, <3>2
        <4>. QED
          BY <4>1, <2>7
      <3>. QED
        BY <2>7, <3>2 DEF ActiveInv
    <2>11. ASSUME NEW r \in Requests PROVE FreshInv(r)'
      <3>1. CASE r = q
        <4>1. asked'[q] = "started" /\ taken' = taken
          BY <1>2, <2>1 DEF BulkTypes
        <4>. QED
          BY <3>1, <4>1 DEF FreshInv
      <3>2. CASE r # q
        <4>1. asked'[r] = asked[r] /\ job'[r] = job[r] /\ (r \in Known' => r \in Known)
          BY <2>1, <2>4, <2>6, <3>2 DEF BulkTypes
        <4>. QED
          BY <4>1, <1>2 DEF FreshInv
      <3>. QED
        BY <3>1, <3>2
    <2>12. ASSUME NEW r \in Known' PROVE KeysInv(r)' /\ FiguresInv(r)' /\ EndInv(r)'
      <3>1. CASE r # q
        <4>1. r \in Known /\ r \in Requests
          BY <2>6, <3>1, KnownAre
        <4>2. queue'[r] = queue[r] /\ job'[r] = job[r] /\ worker'[r] = worker[r]
          BY <2>1, <2>4, <2>8, <3>1, <4>1 DEF BulkTypes
        <4>. QED
          BY <1>2, <4>1, <4>2, OthersStay
      <3>2. CASE r = q
        <4>1. InHand(q)' = {}
          BY <2>8, BulkConstants DEF InHand
        <4>2. Took(q)' = {}
          BY <1>2, <2>2 DEF Took
        <4>3. queue'[q] = listed[q] /\ renewed'[q] = {} /\ listed'[q] = listed[q]
          BY <1>2, <2>1, <2>2 DEF BulkTypes
        <4>4. KeysInv(q)'
          BY <4>1, <4>2, <4>3 DEF KeysInv
        <4>5. FiguresInv(q)'
          <5>1. Cardinality({}) = 0
            BY FS_EmptySet
          <5>2. /\ job'[q].processed = 0 /\ job'[q].success = 0 /\ job'[q].failed = 0
                /\ job'[q].total = Cardinality(listed[q])
            BY <2>4
          <5>. QED
            BY <4>1, <4>2, <4>3, <5>1, <5>2 DEF FiguresInv
        <4>6. EndInv(q)'
          BY <2>4, <2>8 DEF EndInv
        <4>. QED
          BY <3>2, <4>4, <4>5, <4>6
      <3>. QED
        BY <3>1, <3>2
    <2>. QED
      BY <2>9, <2>10, <2>11, <2>12
  <1>. QED
    BY <1>3, <1>4
\* What one worker of a running task does leaves the others' tasks alone.
LEMMA OneTaskRuns ==
    ASSUME BulkInv, NEW q \in Requests, NEW w \in Workers,
           worker[q][w] \in Emails \cup {"ready"}
    PROVE  /\ q \in Active /\ q \in Known
           /\ IsFiniteSet(Took(q)) /\ IsFiniteSet(InHand(q)) /\ IsFiniteSet(renewed[q])
           /\ Cardinality(Took(q)) \in Nat /\ Cardinality(InHand(q)) \in Nat
           /\ Cardinality(renewed[q]) \in Nat
  <1>1. q \in Active
    BY DEF BulkInv, ActiveInv
  <1>2. IsFiniteSet(Took(q)) /\ IsFiniteSet(InHand(q)) /\ IsFiniteSet(renewed[q])
    <2>1. Took(q) \in SUBSET Emails /\ InHand(q) \in SUBSET Workers /\ renewed[q] \in SUBSET Emails
      BY DEF Took, InHand, BulkInv, BulkTypes
    <2>. QED
      BY <2>1, BulkConstants, FS_Subset
  <1>. QED
    BY <1>1, <1>2, FS_CardinalityType DEF Active

\* A worker that is ready ends or takes the next key of the queue.
LEMMA TakeKeyKeeps ==
    ASSUME BulkInv, NEW q \in Requests, NEW w \in Workers, TakeKey(q, w)
    PROVE  BulkInv'
  <1>. USE DEF BulkInv
  <1>1. worker[q][w] = "ready" /\ q \in Active /\ q \in Known /\ "ready" \notin Emails
    BY OneTaskRuns, BulkConstants DEF TakeKey
  <1>2. UNCHANGED <<asked, listed, expected, registry, job, cancelling, renewed>>
    BY DEF TakeKey
  <1>3. Known' = Known /\ Active' = Active
    BY <1>2 DEF Known, Active
  <1>4. KeysInv(q) /\ FiguresInv(q) /\ EndInv(q) /\ FreshInv(q)
    BY <1>1
  <1>5. CASE q \in cancelling \/ queue[q] = {}
    <2>1. worker' = [worker EXCEPT ![q][w] = "over"] /\ queue' = queue /\ taken' = taken
      BY <1>5 DEF TakeKey
    <2>2. /\ worker'[q][w] = "over" /\ \A v \in Workers : v # w => worker'[q][v] = worker[q][v]
          /\ \A r \in Requests : r # q => worker'[r] = worker[r]
          /\ worker' \in [Requests -> [Workers -> Emails \cup {"none", "ready", "over"}]]
      BY <2>1 DEF BulkTypes
    <2>3. Took(q)' = Took(q) /\ InHand(q)' = InHand(q)
      BY <1>1, <2>1, <2>2, BulkConstants DEF Took, InHand
    <2>4. BulkTypes'
      BY <1>2, <2>1, <2>2 DEF BulkTypes
    <2>5. ActiveInv'
      BY <1>1, <1>3, <2>2 DEF ActiveInv
    <2>6. \A r \in Requests : FreshInv(r)'
      BY <1>2, <1>3, <2>1 DEF FreshInv
    <2>7. ASSUME NEW r \in Known PROVE KeysInv(r)' /\ FiguresInv(r)' /\ EndInv(r)'
      <3>1. CASE r = q
        <4>1. KeysInv(q)'
          <5>1. \A v \in InHand(q) : worker'[q][v] = worker[q][v]
            BY <1>1, <2>2 DEF InHand
          <5>. QED
            BY <1>2, <1>4, <2>1, <2>3, <5>1 DEF KeysInv
        <4>2. FiguresInv(q)'
          BY <1>2, <1>4, <2>3 DEF FiguresInv
        <4>3. EndInv(q)'
          BY <1>2, <1>4, <1>5, <2>1, <2>2 DEF EndInv
        <4>. QED
          BY <3>1, <4>1, <4>2, <4>3
      <3>2. CASE r # q
        BY <1>2, <2>1, <2>2, <3>2, KnownAre, OthersStay
      <3>. QED
        BY <3>1, <3>2
    <2>. QED
      BY <1>3, <2>4, <2>5, <2>6, <2>7
  <1>6. CASE ~(q \in cancelling \/ queue[q] = {})
    <2>1. PICK e \in queue[q] :
             /\ queue' = [queue EXCEPT ![q] = @ \ {e}]
             /\ worker' = [worker EXCEPT ![q][w] = e]
             /\ taken' = [taken EXCEPT ![q][e] = @ + 1]
      BY <1>6 DEF TakeKey
    <2>2. e \in Emails /\ queue[q] \in SUBSET Emails /\ e \in listed[q] /\ e \notin Took(q)
      BY <1>4 DEF BulkTypes, KeysInv
    <2>3. /\ worker'[q][w] = e /\ \A v \in Workers : v # w => worker'[q][v] = worker[q][v]
          /\ \A r \in Requests : r # q => worker'[r] = worker[r]
          /\ worker' \in [Requests -> [Workers -> Emails \cup {"none", "ready", "over"}]]
      BY <2>1, <2>2 DEF BulkTypes
    <2>4. /\ taken[q][e] = 0 /\ taken'[q][e] = 1
          /\ \A d \in Emails : d # e => taken'[q][d] = taken[q][d]
          /\ \A r \in Requests : r # q => taken'[r] = taken[r]
          /\ taken' \in [Requests -> [Emails -> Nat]]
      <3>1. taken[q][e] \in Nat /\ ~(taken[q][e] > 0)
        BY <2>2 DEF BulkTypes, Took
      <3>2. taken'[q][e] = taken[q][e] + 1
        BY <2>1, <2>2 DEF BulkTypes
      <3>3. /\ \A d \in Emails : d # e => taken'[q][d] = taken[q][d]
            /\ \A r \in Requests : r # q => taken'[r] = taken[r]
        BY <2>1, <2>2 DEF BulkTypes
      <3>4. taken' \in [Requests -> [Emails -> Nat]]
        BY <2>1, <2>2 DEF BulkTypes
      <3>. QED
        BY <3>1, <3>2, <3>3, <3>4
    <2>5. /\ queue'[q] = queue[q] \ {e} /\ \A r \in Requests : r # q => queue'[r] = queue[r]
          /\ queue' \in [Requests -> SUBSET Emails]
      BY <2>1 DEF BulkTypes
    <2>6. Took(q)' = Took(q) \cup {e} /\ InHand(q)' = InHand(q) \cup {w} /\ w \notin InHand(q)
      <3>1. Took(q)' = Took(q) \cup {e}
        BY <2>2, <2>4 DEF Took
      <3>2. InHand(q)' = InHand(q) \cup {w}
        BY <2>2, <2>3 DEF InHand
      <3>. QED
        BY <3>1, <3>2, <1>1 DEF InHand
    <2>7. BulkTypes'
      BY <1>2, <2>3, <2>4, <2>5 DEF BulkTypes
    <2>8. ActiveInv'
      BY <1>1, <1>3, <2>3 DEF ActiveInv
    <2>9. ASSUME NEW r \in Requests PROVE FreshInv(r)'
      <3>1. CASE r = q
        <4>1. asked[q] = "started"
          BY <1>1, <1>4 DEF FreshInv
        <4>2. \A d \in Emails : taken'[q][d] <= 1
          BY <1>4, <2>4 DEF FreshInv
        <4>. QED
          BY <1>2, <3>1, <4>1, <4>2 DEF FreshInv
      <3>2. CASE r # q
        BY <1>2, <1>3, <2>4, <3>2 DEF FreshInv
      <3>. QED
        BY <3>1, <3>2
    <2>10. ASSUME NEW r \in Known PROVE KeysInv(r)' /\ FiguresInv(r)' /\ EndInv(r)'
      <3>1. CASE r = q
        <4>1. \A v \in InHand(q) : v # w /\ v \in Workers /\ worker'[q][v] = worker[q][v]
          BY <2>3, <2>6 DEF InHand
        <4>2. \A v \in InHand(q) : worker[q][v] \in Took(q) \ renewed[q]
          BY <1>4 DEF KeysInv
        <4>3. KeysInv(q)'
          <5>1. queue'[q] \subseteq listed[q] /\ Took(q)' = listed[q] \ queue'[q]
            BY <1>4, <2>2, <2>5, <2>6 DEF KeysInv
          <5>2. renewed[q] \subseteq Took(q)'
            BY <1>4, <2>6 DEF KeysInv
          <5>3. \A v \in InHand(q)' : worker'[q][v] \in Took(q)' \ renewed[q]
            BY <1>4, <2>2, <2>3, <2>6, <4>1, <4>2 DEF KeysInv
          <5>4. \A v, x \in InHand(q)' : worker'[q][v] = worker'[q][x] => v = x
            <6>1. \A v \in InHand(q) : worker'[q][v] # e
              BY <2>2, <4>1, <4>2
            <6>. QED
              BY <1>4, <2>3, <2>6, <4>1, <6>1 DEF KeysInv
          <5>. QED
            BY <1>2, <5>1, <5>2, <5>3, <5>4 DEF KeysInv
        <4>4. FiguresInv(q)'
          <5>1. /\ Cardinality(Took(q)') = Cardinality(Took(q)) + 1
                /\ Cardinality(InHand(q)') = Cardinality(InHand(q)) + 1
            BY <1>1, <2>2, <2>6, OneTaskRuns, FS_AddElement
          <5>2. Cardinality(Took(q)) \in Nat /\ Cardinality(InHand(q)) \in Nat
            BY <1>1, OneTaskRuns
          <5>3. job[q].processed \in Nat
            BY DEF BulkTypes, TaskRecords
          <5>. QED
            BY <1>2, <1>4, <5>1, <5>2, <5>3 DEF FiguresInv
        <4>5. EndInv(q)'
          <5>1. \A v \in Workers : worker[q][v] = "over" => FALSE
            BY <1>4, <1>6 DEF EndInv
          <5>2. job[q].status # "done"
            BY <1>1 DEF Active
          <5>3. e # "over"
            BY <2>2, BulkConstants
          <5>. QED
            BY <1>2, <2>3, <5>1, <5>2, <5>3 DEF EndInv
        <4>. QED
          BY <3>1, <4>3, <4>4, <4>5
      <3>2. CASE r # q
        BY <1>2, <2>3, <2>4, <2>5, <3>2, KnownAre, OthersStay
      <3>. QED
        BY <3>1, <3>2
    <2>. QED
      BY <1>3, <2>7, <2>8, <2>9, <2>10
  <1>. QED
    BY <1>5, <1>6
\* A renewal is counted once, as the key's worker goes on.
LEMMA RenewOneKeeps ==
    ASSUME BulkInv, NEW q \in Requests, NEW w \in Workers, RenewOne(q, w)
    PROVE  BulkInv'
  <1>. USE DEF BulkInv
  <1>. DEFINE e == worker[q][w]
  <1>1. e \in Emails /\ q \in Active /\ q \in Known /\ w \in InHand(q)
    BY OneTaskRuns DEF RenewOne, InHand
  <1>2. UNCHANGED <<asked, listed, expected, registry, queue, cancelling, taken>>
    BY DEF RenewOne
  <1>3. PICK ok \in BOOLEAN :
           /\ job' = [job EXCEPT ![q] = Processed(@, ok)]
           /\ renewed' = [renewed EXCEPT ![q] = IF ok THEN @ \cup {e} ELSE @]
    BY DEF RenewOne
  <1>4. KeysInv(q) /\ FiguresInv(q) /\ EndInv(q) /\ FreshInv(q)
    BY <1>1
  <1>5. /\ worker'[q][w] = "ready" /\ \A v \in Workers : v # w => worker'[q][v] = worker[q][v]
        /\ \A r \in Requests : r # q => worker'[r] = worker[r]
        /\ worker' \in [Requests -> [Workers -> Emails \cup {"none", "ready", "over"}]]
    BY DEF RenewOne, BulkTypes
  <1>6. /\ job'[q].status = job[q].status /\ job'[q].total = job[q].total
        /\ job'[q].processed = job[q].processed + 1
        /\ job'[q].success = (IF ok THEN job[q].success + 1 ELSE job[q].success)
        /\ job'[q].failed = (IF ok THEN job[q].failed ELSE job[q].failed + 1)
        /\ \A r \in Requests : r # q => job'[r] = job[r]
        /\ job' \in [Requests -> TaskRecords]
    <2>1. job[q] \in TaskRecords
      BY DEF BulkTypes
    <2>2. job'[q] = Processed(job[q], ok) /\ \A r \in Requests : r # q => job'[r] = job[r]
      BY <1>3 DEF BulkTypes
    <2>3. /\ Processed(job[q], ok) \in TaskRecords
          /\ Processed(job[q], ok).status = job[q].status
          /\ Processed(job[q], ok).total = job[q].total
          /\ Processed(job[q], ok).processed = job[q].processed + 1
          /\ Processed(job[q], ok).success = (IF ok THEN job[q].success + 1 ELSE job[q].success)
          /\ Processed(job[q], ok).failed = (IF ok THEN job[q].failed ELSE job[q].failed + 1)
      <3>1. DOMAIN job[q] = {"status", "processed", "success", "failed", "total"}
        BY <2>1 DEF TaskRecords
      <3>2. /\ Processed(job[q], ok).status = job[q].status
            /\ Processed(job[q], ok).total = job[q].total
            /\ Processed(job[q], ok).processed = job[q].processed + 1
        BY <3>1 DEF Processed
      <3>3. /\ Processed(job[q], ok).success = (IF ok THEN job[q].success + 1 ELSE job[q].success)
            /\ Processed(job[q], ok).failed = (IF ok THEN job[q].failed ELSE job[q].failed + 1)
        BY <3>1 DEF Processed
      <3>4. Processed(job[q], ok) \in TaskRecords
        <4>1. job[q].processed \in Nat /\ job[q].success \in Nat /\ job[q].failed \in Nat
          BY <2>1 DEF TaskRecords
        <4>2. PICK a \in Nat, b \in Nat, c \in Nat :
                 /\ a = job[q].processed + 1
                 /\ b = (IF ok THEN job[q].success + 1 ELSE job[q].success)
                 /\ c = (IF ok THEN job[q].failed ELSE job[q].failed + 1)
          BY <4>1
        <4>3. Processed(job[q], ok)
                 = [job[q] EXCEPT !.processed = a, !.success = b, !.failed = c]
          BY <3>1, <4>2 DEF Processed
        <4>. QED
          BY <2>1, <4>3 DEF TaskRecords
      <3>. QED
        BY <3>2, <3>3, <3>4
    <2>4. job' = [job EXCEPT ![q] = job'[q]]
      BY <1>3 DEF BulkTypes
    <2>5. job' \in [Requests -> TaskRecords]
      <3>1. job'[q] \in TaskRecords
        BY <2>2, <2>3
      <3>. QED
        BY <2>4, <3>1 DEF BulkTypes
    <2>. QED
      BY <2>2, <2>3, <2>5
  <1>7. /\ renewed'[q] = (IF ok THEN renewed[q] \cup {e} ELSE renewed[q])
        /\ \A r \in Requests : r # q => renewed'[r] = renewed[r]
        /\ renewed' \in [Requests -> SUBSET Emails]
    BY <1>1, <1>3 DEF BulkTypes
  <1>8. Known' = Known /\ Active' = Active
    <2>1. Known' = Known
      BY <1>2 DEF Known
    <2>2. \A r \in Known : job'[r].status = job[r].status
      BY <1>6, KnownAre
    <2>. QED
      BY <2>1, <2>2 DEF Active
  <1>9. Took(q)' = Took(q) /\ InHand(q)' = InHand(q) \ {w}
    BY <1>1, <1>2, <1>5, BulkConstants DEF Took, InHand
  <1>10. BulkTypes'
    BY <1>2, <1>5, <1>6, <1>7 DEF BulkTypes
  <1>11. ActiveInv'
    BY <1>1, <1>5, <1>8 DEF ActiveInv
  <1>12. ASSUME NEW r \in Requests PROVE FreshInv(r)'
    <2>1. asked[q] = "started"
      BY <1>1, <1>4 DEF FreshInv
    <2>. QED
      BY <1>2, <1>6, <1>7, <1>8, <2>1 DEF FreshInv
  <1>13. ASSUME NEW r \in Known PROVE KeysInv(r)' /\ FiguresInv(r)' /\ EndInv(r)'
    <2>1. CASE r = q
      <3>1. \A v \in InHand(q)' : v \in InHand(q) /\ v # w /\ worker'[q][v] = worker[q][v]
        BY <1>5, <1>9 DEF InHand
      <3>2. e \in Took(q) \ renewed[q] /\ \A v \in InHand(q) : v # w => worker[q][v] # e
        BY <1>1, <1>4 DEF KeysInv
      <3>3. KeysInv(q)'
        <4>1. renewed'[q] \subseteq Took(q)
          BY <1>4, <1>7, <3>2 DEF KeysInv
        <4>2. \A v \in InHand(q)' : worker'[q][v] \in Took(q) \ renewed'[q]
          BY <1>4, <1>7, <3>1, <3>2 DEF KeysInv
        <4>3. \A v, x \in InHand(q)' : worker'[q][v] = worker'[q][x] => v = x
          BY <1>4, <3>1 DEF KeysInv
        <4>. QED
          BY <1>2, <1>4, <1>9, <4>1, <4>2, <4>3 DEF KeysInv
      <3>4. FiguresInv(q)'
        <4>1. Cardinality(InHand(q)') = Cardinality(InHand(q)) - 1
          BY <1>1, <1>9, OneTaskRuns, FS_RemoveElement
        <4>2. Cardinality(Took(q)) \in Nat /\ Cardinality(InHand(q)) \in Nat
          BY <1>1, OneTaskRuns
        <4>3. /\ job[q].processed \in Nat /\ job[q].success \in Nat /\ job[q].failed \in Nat
          BY DEF BulkTypes, TaskRecords
        <4>4. ok => Cardinality(renewed'[q]) = Cardinality(renewed[q]) + 1
          BY <1>1, <1>7, <3>2, OneTaskRuns, FS_AddElement
        <4>5. CASE ok
          BY <1>2, <1>4, <1>6, <1>9, <4>1, <4>2, <4>3, <4>4, <4>5 DEF FiguresInv
        <4>6. CASE ~ok
          BY <1>2, <1>4, <1>6, <1>7, <1>9, <4>1, <4>2, <4>3, <4>6 DEF FiguresInv
        <4>. QED
          BY <4>5, <4>6
      <3>5. EndInv(q)'
        BY <1>2, <1>4, <1>5, <1>6 DEF EndInv
      <3>. QED
        BY <2>1, <3>3, <3>4, <3>5
    <2>2. CASE r # q
      BY <1>2, <1>5, <1>6, <1>7, <2>2, KnownAre, OthersStay
    <2>. QED
      BY <2>1, <2>2
  <1>. QED
    BY <1>8, <1>10, <1>11, <1>12, <1>13

\* A task ends when its workers have.
LEMMA EndTaskKeeps == ASSUME BulkInv, NEW q \in Requests, EndTask(q) PROVE BulkInv'
  <1>. USE DEF BulkInv
  <1>1. q \in Active /\ q \in Known /\ \A w \in Workers : worker[q][w] = "over"
    BY DEF EndTask, Active
  <1>2. UNCHANGED <<asked, listed, expected, queue, worker, cancelling, taken, renewed>>
    BY DEF EndTask
  <1>3. PICK status \in {"cancelled", "done"} :
           /\ job' = [job EXCEPT ![q].status = status]
           /\ status = "done" => q \notin cancelling
    BY DEF EndTask
  <1>4. KeysInv(q) /\ FiguresInv(q) /\ EndInv(q) /\ FreshInv(q)
    BY <1>1
  <1>5. /\ job'[q].status = status /\ job'[q].total = job[q].total
        /\ job'[q].processed = job[q].processed
        /\ job'[q].success = job[q].success /\ job'[q].failed = job[q].failed
        /\ \A r \in Requests : r # q => job'[r] = job[r]
        /\ job' \in [Requests -> TaskRecords]
    BY <1>3 DEF BulkTypes, TaskRecords
  <1>6. registry' \in Seq(Requests) /\ Known' \subseteq Known
    <2>0. PICK known : known = job'
      OBVIOUS
    <2>1. registry \in Seq(Requests) /\ registry' = Kept(registry, known)
      BY <2>0 DEF EndTask, BulkTypes
    <2>2. registry' \in Seq(Requests)
      BY <2>1, KeptRange
    <2>3. \A n \in DOMAIN registry' : \E i \in DOMAIN registry : registry'[n] = registry[i]
      BY <2>1, KeptRange
    <2>. QED
      BY <2>2, <2>3 DEF Known
  <1>7. \A r \in Requests, w \in Workers : worker[r][w] \notin Emails \cup {"ready"}
    <2>1. \A r \in Active : r = q
      BY <1>1 DEF ActiveInv
    <2>2. "over" \notin Emails \cup {"ready"}
      BY BulkConstants
    <2>. QED
      BY <1>1, <2>1, <2>2 DEF ActiveInv
  <1>8. Active' = {}
    <2>1. \A r \in Known : job[r].status = "running" => r = q
      BY <1>1 DEF ActiveInv, Active
    <2>2. \A r \in Known : r \in Requests
      BY KnownAre
    <2>. QED
      BY <1>5, <1>6, <2>1, <2>2 DEF Active
  <1>9. BulkTypes'
    BY <1>2, <1>5, <1>6 DEF BulkTypes
  <1>10. ActiveInv'
    BY <1>2, <1>7, <1>8 DEF ActiveInv
  <1>11. ASSUME NEW r \in Requests PROVE FreshInv(r)'
    <2>1. asked[q] = "started"
      BY <1>1, <1>4 DEF FreshInv
    <2>. QED
      BY <1>2, <1>5, <1>6, <2>1 DEF FreshInv
  <1>12. ASSUME NEW r \in Known PROVE KeysInv(r)' /\ FiguresInv(r)' /\ EndInv(r)'
    <2>1. CASE r = q
      <3>1. Took(q)' = Took(q) /\ InHand(q)' = InHand(q)
        BY <1>2 DEF Took, InHand
      <3>2. KeysInv(q)' /\ FiguresInv(q)'
        BY <1>2, <1>4, <1>5, <3>1 DEF KeysInv, FiguresInv
      <3>3. status = "done" => queue[q] = {}
        BY <1>1, <1>3, <1>4, BulkConstants DEF EndInv
      <3>4. EndInv(q)'
        BY <1>2, <1>4, <1>5, <3>3 DEF EndInv
      <3>. QED
        BY <2>1, <3>2, <3>4
    <2>2. CASE r # q
      BY <1>2, <1>5, <2>2, KnownAre, OthersStay
    <2>. QED
      BY <2>1, <2>2
  <1>. QED
    BY <1>6, <1>9, <1>10, <1>11, <1>12

\* An event that is set, and a restart, change no figure of a task the registry knows.
LEMMA CancelKeeps == ASSUME BulkInv, NEW q \in Requests, Cancel(q) PROVE BulkInv'
  <1>. USE DEF BulkInv
  <1>1. /\ UNCHANGED <<asked, listed, expected, registry, job, queue, worker, taken, renewed>>
        /\ cancelling \subseteq cancelling'
    BY DEF Cancel
  <1>2. Known' = Known /\ Active' = Active
    BY <1>1 DEF Known, Active
  <1>3. BulkTypes' /\ ActiveInv' /\ \A r \in Requests : FreshInv(r)'
    BY <1>1, <1>2 DEF BulkTypes, ActiveInv, FreshInv
  <1>4. ASSUME NEW r \in Known PROVE KeysInv(r)' /\ FiguresInv(r)' /\ EndInv(r)'
    BY <1>1, OthersStay
  <1>. QED
    BY <1>2, <1>3, <1>4

\* A restart ends the tasks and forgets the registry.
LEMMA BulkRestartKeeps == BulkInv /\ BulkRestart => BulkInv'
  <1>. SUFFICES ASSUME BulkInv, BulkRestart PROVE BulkInv'
    OBVIOUS
  <1>. USE DEF BulkInv
  <1>1. /\ registry' = <<>> /\ job' = [r \in Requests |-> NoTask]
        /\ worker' = [r \in Requests |-> [w \in Workers |-> "none"]]
        /\ queue' = [r \in Requests |-> {}]
        /\ asked' = [r \in Requests |-> IF asked[r] = "start" THEN "refused" ELSE asked[r]]
        /\ UNCHANGED <<listed, expected, cancelling, taken, renewed>>
    BY DEF BulkRestart
  <1>2. Known' = {} /\ Active' = {}
    BY <1>1 DEF Known, Active
  <1>3. BulkTypes'
    <2>1. NoTask \in TaskRecords
      BY DEF NoTask, TaskRecords
    <2>. QED
      BY <1>1, <2>1 DEF BulkTypes
  <1>4. ActiveInv'
    BY <1>1, <1>2, BulkConstants DEF ActiveInv
  <1>5. ASSUME NEW r \in Requests PROVE FreshInv(r)'
    <2>1. asked'[r] # "started" => asked[r] # "started"
      BY <1>1 DEF BulkTypes
    <2>. QED
      BY <1>1, <1>2, <2>1 DEF FreshInv
  <1>. QED
    BY <1>2, <1>3, <1>4, <1>5

\* Every step of a mass renewal keeps the facts.
LEMMA BulkStepKeeps == BulkInv /\ BulkStep => BulkInv'
  BY ListKeysKeeps, StartTaskKeeps, TakeKeyKeeps, RenewOneKeeps, EndTaskKeeps, CancelKeeps,
     BulkRestartKeeps DEF BulkStep

\* So does a step of another kind of work.
LEMMA BulkStays == BulkInv /\ UNCHANGED bulkVars => BulkInv'
  <1>. SUFFICES ASSUME BulkInv, UNCHANGED bulkVars PROVE BulkInv'
    OBVIOUS
  <1>1. /\ UNCHANGED <<asked, listed, expected, registry, job, queue, worker, cancelling>>
        /\ UNCHANGED <<taken, renewed>>
    BY DEF bulkVars
  <1>2. Known' = Known /\ Active' = Active
    BY <1>1 DEF Known, Active
  <1>3. BulkTypes' /\ ActiveInv' /\ \A r \in Requests : FreshInv(r)'
    BY <1>1, <1>2 DEF BulkInv, BulkTypes, ActiveInv, FreshInv
  <1>4. ASSUME NEW r \in Known PROVE KeysInv(r)' /\ FiguresInv(r)' /\ EndInv(r)'
    BY <1>1, OthersStay DEF BulkInv
  <1>. QED
    BY <1>2, <1>3, <1>4 DEF BulkInv

\* The inductive invariant of the mass renewal.
LEMMA BulkInvariant == Spec => []BulkInv
  <1>1. Init => BulkInv
    BY BulkInitInv DEF Init
  <1>2. BulkInv /\ [Next]_schedulerVars => BulkInv'
    <2>. SUFFICES ASSUME BulkInv, [Next]_schedulerVars PROVE BulkInv'
      OBVIOUS
    <2>1. BulkStep \/ UNCHANGED bulkVars
      BY DEF Next, RunsKeys, RunsUsers, RunsSync, RunsBulk, RunsReports, schedulerVars
    <2>. QED
      BY <2>1, BulkStepKeeps, BulkStays
  <1>. QED
    BY <1>1, <1>2, PTL DEF Spec

\* What an admin polls follows.
LEMMA BulkInvImplies == BulkInv => BulkAccounts
  <1>. SUFFICES ASSUME BulkInv PROVE BulkAccounts
    OBVIOUS
  <1>. USE DEF BulkInv
  <1>1. Cardinality({r \in Requests : \E w \in Workers : worker[r][w] \in Emails}) <= 1
    <2>. DEFINE B == {r \in Requests : \E w \in Workers : worker[r][w] \in Emails}
    <2>1. CASE B = {}
      BY <2>1, FS_EmptySet
    <2>2. CASE B # {}
      <3>1. PICK q : q \in B
        BY <2>2
      <3>2. B = {q}
        BY <3>1 DEF ActiveInv
      <3>3. Cardinality(B) = 1
        <4>. HIDE DEF B
        <4>. QED
          BY <3>2, FS_Singleton
      <3>. QED
        BY <3>3
    <2>. QED
      BY <2>1, <2>2
  <1>2. \A r \in Requests, e \in Emails : taken[r][e] <= 1
    BY DEF FreshInv
  <1>3. ASSUME NEW r \in Known
        PROVE  /\ job[r].processed = Cardinality(Took(r)) - Cardinality(InHand(r))
               /\ job[r].success = Cardinality(renewed[r])
               /\ job[r].processed = job[r].success + job[r].failed
               /\ job[r].status # "running" => InHand(r) = {}
               /\ job[r].status = "done" => Took(r) = listed[r] /\ job[r].processed = job[r].total
    <2>0. r \in Requests /\ KeysInv(r) /\ FiguresInv(r) /\ EndInv(r)
      BY KnownAre
    <2>1. /\ Cardinality(Took(r)) \in Nat /\ Cardinality(InHand(r)) \in Nat
          /\ job[r].processed \in Nat
      <3>1. Took(r) \in SUBSET Emails /\ InHand(r) \in SUBSET Workers
        BY DEF Took, InHand
      <3>2. IsFiniteSet(Took(r)) /\ IsFiniteSet(InHand(r))
        BY <3>1, BulkConstants, FS_Subset
      <3>. QED
        BY <2>0, <3>2, FS_CardinalityType DEF BulkTypes, TaskRecords
    <2>2. job[r].processed = Cardinality(Took(r)) - Cardinality(InHand(r))
      BY <2>0, <2>1 DEF FiguresInv
    <2>3. job[r].status # "running" => InHand(r) = {}
      BY <2>0 DEF ActiveInv, Active, InHand
    <2>4. ASSUME job[r].status = "done"
          PROVE  Took(r) = listed[r] /\ job[r].processed = job[r].total
      <3>1. Took(r) = listed[r]
        BY <2>0, <2>4 DEF EndInv, KeysInv
      <3>2. Cardinality(InHand(r)) = 0
        BY <2>3, <2>4, FS_EmptySet
      <3>. QED
        BY <2>0, <2>1, <2>2, <3>1, <3>2 DEF FiguresInv
    <2>. QED
      BY <2>0, <2>2, <2>3, <2>4 DEF FiguresInv
  <1>. QED
    BY <1>1, <1>2, <1>3 DEF BulkAccounts, Took, InHand

\* For any keys, workers and requests, the figures of a mass renewal are the truth about
\* its keys.
THEOREM BulkAccountsHolds == Spec => []BulkAccounts
  BY BulkInvariant, BulkInvImplies, PTL
-----------------------------------------------------------------------------
(* The funnels about users                                                 *)

\* On the way to a message: before the funnel looked at its own record, and
\* after; then on the way to recording that it was sent.
Before == {"check", "state", "offered"}
Passing == {"link", "member", "reread", "issue", "send"}
Recording == {"mark", "advance", "upsert", "record"}
Writing == {"advance", "upsert"}
Offering == {"issue", "send", "record"}
Holding == {"send", "record"}
Places == {"idle", "terminal"} \cup Before \cup Passing \cup Recording

UserTypes ==
    /\ funnel \in Marked \cup OfCustomers
    /\ day \in Nat
    /\ run \in [Runners -> [at : Places, step : Nat]]
    /\ marked \in Nat \cup {None}
    /\ state \in StateRows \cup {None}
    /\ offeredOn \subseteq 0..day
    /\ codes \in Nat
    /\ messages \in [sent : Nat, early : Nat, last : Nat \cup {None},
                     lapses : Nat, met : Nat, torn : Nat]
    /\ messages.last # None => messages.last <= day

\* Which funnel takes a runner where, and what advance_step carries.
PlaceInv ==
    \A r \in Runners :
       /\ run[r].at \in {"link", "mark"} => funnel \in Marked
       /\ run[r].at \in {"state", "member", "reread", "advance", "upsert", "terminal"} =>
             funnel = "channel_bonus_reminder"
       /\ run[r].at \in {"offered", "issue", "record"} => funnel = "winback_offer"
       /\ run[r].at = "upsert" => run[r].step > 0

Bound(r) == run[r].at \in Before \cup Passing
TooSoon == messages.last # None /\ day - messages.last < Gap
\* The funnel's own record keeps a runner from passing until the gap is over.
Covered ==
    CASE funnel \in Marked -> marked # None /\ marked >= Gap - (day - messages.last)
      [] funnel = "channel_bonus_reminder" ->
            /\ state # None /\ state.term >= 0
            /\ state.term >= Gap - 1 - (day - messages.last)
            /\ state.step >= MaxSteps \/ (state.step > 0 /\ state.sentOn >= messages.last)
      [] funnel = "winback_offer" -> \E d \in offeredOn : d >= messages.last

\* So many early messages are excused beforehand.
Slack(n) == messages.early + n <= messages.torn + messages.met
EarlyInv ==
    /\ Slack(0)
    /\ ~TooSoon /\ (\A r \in Runners : Bound(r)) => Slack(1)
    /\ TooSoon /\ Covered =>
          \A r \in Runners : run[r].at \in Passing =>
             Slack(1) /\ ((\A s \in Runners : Bound(s)) => Slack(2))
    /\ TooSoon /\ ~Covered =>
          /\ (\A r \in Runners : run[r].at \notin Recording) => Slack(1)
          /\ (\E r \in Runners : Bound(r)) => Slack(1)
          /\ (\A r \in Runners : Bound(r)) => Slack(2)

Num(r, places) == IF run[r].at \in places THEN 1 ELSE 0
Sum(places) == Num(Backend, places) + Num(Script, places)

\* So many codes are in hand or excused.
CodeSlack(n) ==
    codes + n <= Cardinality(offeredOn) + messages.torn + messages.met + Sum(Holding)
CodesInv ==
    /\ funnel # "winback_offer" => codes = 0
    /\ funnel = "winback_offer" =>
          IF day \in offeredOn THEN CodeSlack(Sum(Offering))
          ELSE CodeSlack(0) /\ ((\A r \in Runners : run[r].at # "idle") => CodeSlack(1))

\* The steps of the channel's reminder count its messages.
Cap(n) == IF n < MaxSteps THEN n ELSE MaxSteps
Lapsed == IF state # None /\ state.term < 0 THEN 1 ELSE 0
Crowd == IF \A r \in Runners : run[r].at \notin {"idle", "terminal"} THEN 1 ELSE 0
SentWithin(n, cap) ==
    messages.sent + n <= messages.lapses + messages.torn + messages.met + cap
StepsInv ==
    funnel = "channel_bonus_reminder" =>
       /\ SentWithin(Lapsed + Crowd, Cap(StepRead) + Sum(Writing))
       /\ \A r \in Runners : \A s \in Runners \ {r} :
             /\ run[r].at = "send" => SentWithin(1 + Crowd, Cap(StepRead + 1) + Num(s, Writing))
             /\ run[r].at = "advance" => SentWithin(Crowd, Cap(StepRead + 1) + Num(s, Writing))
             /\ run[r].at = "upsert" => SentWithin(Crowd, Cap(run[r].step) + Num(s, Writing))

UserInv == UserTypes /\ PlaceInv /\ EarlyInv /\ CodesInv /\ StepsInv
RunRows == [at : Places, step : Nat]
Histories == [sent : Nat, early : Nat, last : Nat \cup {None}, lapses : Nat, met : Nat, torn : Nat]

\* A runner moves and keeps its step; the other stays.
LEMMA MoveIs ==
    ASSUME UserTypes, NEW r \in Runners, NEW place \in Places, Move(r, place)
    PROVE  /\ run' \in [Runners -> RunRows]
           /\ run'[r].at = place /\ run'[r].step = run[r].step
           /\ \A s \in Runners \ {r} : run'[s] = run[s]
  <1>1. run \in [Runners -> RunRows]
    BY DEF UserTypes, RunRows
  <1>2. run'[r] = [run[r] EXCEPT !.at = place] /\ \A s \in Runners \ {r} : run'[s] = run[s]
    BY <1>1 DEF Move
  <1>3. run[r] \in RunRows
    BY <1>1
  <1>4. run'[r] \in RunRows /\ run'[r].at = place /\ run'[r].step = run[r].step
    BY <1>2, <1>3 DEF RunRows
  <1>5. run' = [run EXCEPT ![r] = run'[r]]
    BY <1>1 DEF Move
  <1>. QED
    BY <1>1, <1>2, <1>4, <1>5

\* A runner rests; the other stays.
LEMMA StopIs ==
    ASSUME UserTypes, NEW r \in Runners, Stop(r)
    PROVE  /\ run' \in [Runners -> RunRows]
           /\ run'[r].at = "idle"
           /\ \A s \in Runners \ {r} : run'[s] = run[s]
  <1>1. Resting \in RunRows /\ Resting.at = "idle"
    BY DEF Resting, RunRows, Places
  <1>2. run \in [Runners -> RunRows]
    BY DEF UserTypes, RunRows
  <1>. QED
    BY <1>1, <1>2 DEF Stop

\* There is another runner, and no third.
LEMMA TheOther ==
    ASSUME NEW r \in Runners
    PROVE  \E s \in Runners \ {r} :
              Runners = {r, s} /\ \A places : Sum(places) = Num(r, places) + Num(s, places)
  <1>1. Backend # Script /\ Runners = {Backend, Script}
    BY UserConstants DEF Runners
  <1>2. \A q \in Runners : \A places : Num(q, places) \in Nat
    BY DEF Num
  <1>3. CASE r = Backend
    BY <1>1, <1>2, <1>3 DEF Sum
  <1>4. CASE r = Script
    <2>1. \A places : Sum(places) = Num(Script, places) + Num(Backend, places)
      BY <1>1, <1>2 DEF Sum
    <2>. QED
      BY <1>1, <1>4, <2>1
  <1>. QED
    BY <1>1, <1>3, <1>4

\* With no message the facts hold.
LEMMA UserInitInv == UserInit => UserInv
  <1>. SUFFICES ASSUME UserInit PROVE UserInv
    OBVIOUS
  <1>1. /\ day = 0 /\ codes = 0 /\ offeredOn = {} /\ marked = None /\ state = None
        /\ funnel \in Marked \cup OfCustomers
        /\ run = [r \in Runners |-> Resting]
        /\ messages = [sent |-> 0, early |-> 0, last |-> None, lapses |-> 0, met |-> 0,
                       torn |-> 0]
    BY UserConstants DEF UserInit
  <1>2. \A r \in Runners : run[r].at = "idle" /\ run[r] \in RunRows
    BY <1>1 DEF Resting, RunRows, Places
  <1>3. run \in [Runners -> RunRows]
    BY <1>1, <1>2
  <1>4. UserTypes
    BY <1>1, <1>3 DEF UserTypes, RunRows
  <1>5. PlaceInv
    BY <1>2 DEF PlaceInv
  <1>6. EarlyInv
    <2>1. ~TooSoon /\ Slack(0) /\ ~Bound(Backend) /\ Backend \in Runners
      BY <1>1, <1>2 DEF TooSoon, Slack, Bound, Runners, Before, Passing
    <2>. QED
      BY <2>1 DEF EarlyInv
  <1>7. Backend \in Runners /\ Script \in Runners /\ Runners # {}
    BY DEF Runners
  <1>8. \A places \in {Holding, Offering, Writing} : Sum(places) = 0
    BY <1>2, <1>7 DEF Sum, Num, Holding, Offering, Writing
  <1>9. CodesInv
    BY <1>1, <1>2, <1>7, <1>8, FS_EmptySet DEF CodesInv, CodeSlack
  <1>10. StepsInv
    <2>1. Lapsed = 0 /\ Crowd = 0 /\ StepRead = 0 /\ Cap(0) = 0
      BY <1>1, <1>2, <1>7 DEF Lapsed, Crowd, StepRead, Cap, MaxSteps
    <2>. QED
      BY <1>1, <1>2, <1>8, <2>1 DEF StepsInv, SentWithin
  <1>. QED
    BY <1>4, <1>5, <1>6, <1>9, <1>10 DEF UserInv

\* What each step does to the types and the places.
LEMMA UserTypesStep ==
    ASSUME UserTypes, PlaceInv, UserStep
    PROVE  UserTypes' /\ PlaceInv' /\ funnel' = funnel
  <1>0. run \in [Runners -> RunRows] /\ messages \in Histories
    BY DEF UserTypes, RunRows, Histories
  <1>1. CASE LifeStep
    <2>1. UNCHANGED <<funnel, day, run, marked, state, offeredOn, codes, messages>>
      BY <1>1 DEF LifeStep, TakesTrial, Connects, KeyLapses, Renews, MakesLink, ClaimsBonus, Lives
    <2>. QED
      BY <2>1 DEF UserTypes, PlaceInv
  <1>2. ASSUME NEW r \in Runners, BeginRun(r) PROVE UserTypes' /\ PlaceInv' /\ funnel' = funnel
    <2>1. /\ UNCHANGED <<funnel, day, marked, state, offeredOn, codes>>
          /\ messages' \in {messages, [messages EXCEPT !.met = @ + 1]}
      BY <1>2 DEF BeginRun, Stored
    <2>2. PICK start \in RunRows : run' = [run EXCEPT ![r] = start] /\ start.at \in {"idle", "check"}
      <3>1. Resting \in RunRows /\ Resting.at = "idle"
        BY DEF Resting, RunRows, Places
      <3>2. [Resting EXCEPT !.at = "check"] \in RunRows /\ [Resting EXCEPT !.at = "check"].at = "check"
        BY <3>1 DEF RunRows, Places, Before
      <3>. QED
        BY <1>2, <3>1, <3>2 DEF BeginRun
    <2>3. /\ run' \in [Runners -> RunRows] /\ run'[r].at \in {"idle", "check"}
          /\ \A s \in Runners \ {r} : run'[s] = run[s]
      BY <1>0, <2>2
    <2>4. messages' \in Histories /\ messages'.last = messages.last
      BY <1>0, <2>1 DEF Histories
    <2>5. UserTypes'
      BY <2>1, <2>3, <2>4 DEF UserTypes, RunRows, Histories
    <2>6. PlaceInv'
      BY <2>1, <2>3 DEF PlaceInv
    <2>. QED
      BY <2>1, <2>5, <2>6
  <1>3. ASSUME NEW r \in Runners,
               \/ IsMarked(r) \/ HasLink(r)
               \/ IsClaimed(r) \/ DueStep(r) \/ AskChannel(r) \/ RereadState(r)
               \/ HasPaid(r) \/ WasOffered(r)
        PROVE  UserTypes' /\ PlaceInv' /\ funnel' = funnel
    <2>1. UNCHANGED <<funnel, day, marked, state, offeredOn, codes, messages>>
      BY <1>3 DEF IsMarked, HasLink, IsClaimed, DueStep, AskChannel, RereadState, HasPaid,
         WasOffered, Stored, Quiet
    <2>2. \/ Stop(r)
          \/ funnel \in Marked /\ \E p \in {"link", "send"} : Move(r, p)
          \/ /\ funnel = "channel_bonus_reminder"
             /\ \E p \in {"terminal", "state", "member", "reread", "send"} : Move(r, p)
          \/ funnel = "winback_offer" /\ \E p \in {"offered", "issue"} : Move(r, p)
      BY <1>3 DEF IsMarked, HasLink, IsClaimed, DueStep, AskChannel, RereadState, HasPaid,
         WasOffered, PlaceInv, At
    <2>3. CASE Stop(r)
      BY <2>1, <2>3, StopIs DEF UserTypes, RunRows, PlaceInv
    <2>4. ASSUME NEW p \in {"link", "send", "terminal", "state", "member", "reread", "offered",
                            "issue"}, Move(r, p),
                 p = "link" => funnel \in Marked,
                 p \in {"terminal", "state", "member", "reread"}
                   => funnel = "channel_bonus_reminder",
                 p \in {"offered", "issue"} => funnel = "winback_offer"
          PROVE  UserTypes' /\ PlaceInv'
      <3>1. p \in Places
        BY DEF Places, Before, Passing
      <3>. QED
        BY <2>1, <2>4, <3>1, MoveIs DEF UserTypes, RunRows, PlaceInv
    <2>. QED
      BY <2>1, <2>2, <2>3, <2>4 DEF Marked
  <1>4. ASSUME NEW r \in Runners, SendTo(r) PROVE UserTypes' /\ PlaceInv' /\ funnel' = funnel
    <2>1. UNCHANGED <<funnel, day, marked, state, offeredOn, codes>> /\ Move(r, After)
      BY <1>4 DEF SendTo, Stored, Quiet
    <2>2. /\ After \in Recording /\ After \in Places /\ After # "upsert"
          /\ After = "mark" => funnel \in Marked
          /\ After = "advance" => funnel = "channel_bonus_reminder"
          /\ After = "record" => funnel = "winback_offer"
      <3>1. funnel \in Marked \/ funnel = "channel_bonus_reminder" \/ funnel = "winback_offer"
        BY DEF UserTypes, OfCustomers
      <3>. QED
        BY <3>1 DEF After, Recording, Places, Marked
    <2>3. messages' \in Histories /\ messages'.last = day
      <3>1. messages.early \in Nat /\ messages.sent \in Nat /\ day \in Nat
        BY <1>0 DEF Histories, UserTypes
      <3>2. PICK sent \in Nat, early \in Nat :
               messages' = [messages EXCEPT !.sent = sent, !.last = day, !.early = early]
        <4>1. CASE messages.last # None /\ day - messages.last < Gap
          <5>1. messages' = [messages EXCEPT !.sent = messages.sent + 1, !.last = day,
                                             !.early = messages.early + 1]
            BY <1>4, <4>1 DEF SendTo
          <5>2. messages.sent + 1 \in Nat /\ messages.early \in Nat /\ messages.early + 1 \in Nat
            BY <3>1
          <5>. QED
            BY <5>1, <5>2, Zenon
        <4>2. CASE ~(messages.last # None /\ day - messages.last < Gap)
          <5>1. messages' = [messages EXCEPT !.sent = messages.sent + 1, !.last = day,
                                             !.early = messages.early]
            BY <1>4, <4>2 DEF SendTo
          <5>2. messages.sent + 1 \in Nat /\ messages.early \in Nat /\ messages.early + 1 \in Nat
            BY <3>1
          <5>. QED
            BY <5>1, <5>2, Zenon
        <4>. QED
          BY <4>1, <4>2
      <3>. QED
        BY <1>0, <3>1, <3>2 DEF Histories
    <2>4. /\ run' \in [Runners -> RunRows] /\ run'[r].at = After
          /\ \A s \in Runners \ {r} : run'[s] = run[s]
      BY <2>1, <2>2, MoveIs
    <2>5. UserTypes'
      BY <2>1, <2>3, <2>4 DEF UserTypes, RunRows, Histories
    <2>6. PlaceInv'
      BY <2>1, <2>2, <2>4 DEF PlaceInv, Recording
    <2>. QED
      BY <2>1, <2>5, <2>6
  <1>5. ASSUME NEW r \in Runners, ReadStep(r) PROVE UserTypes' /\ PlaceInv' /\ funnel' = funnel
    <2>1. /\ UNCHANGED <<funnel, day, marked, state, offeredOn, codes, messages>>
          /\ run' = [run EXCEPT ![r].at = "upsert", ![r].step = StepRead + 1]
          /\ funnel = "channel_bonus_reminder"
      BY <1>5 DEF ReadStep, Stored, Quiet, PlaceInv, At
    <2>2. StepRead \in Nat
      BY DEF StepRead, UserTypes, StateRows
    <2>3. /\ run'[r].at = "upsert" /\ run'[r].step = StepRead + 1
          /\ \A s \in Runners \ {r} : run'[s] = run[s]
      BY <1>0, <2>1 DEF RunRows
    <2>4. run' \in [Runners -> RunRows]
      <3>1. run'[r] = [run[r] EXCEPT !.at = "upsert", !.step = StepRead + 1]
        BY <1>0, <2>1
      <3>2. run'[r] \in RunRows
        <4>1. run[r] \in RunRows /\ "upsert" \in Places
          BY <1>0 DEF Places, Recording
        <4>2. PICK n \in Nat : n = StepRead + 1
          BY <2>2
        <4>3. run'[r] = [run[r] EXCEPT !.at = "upsert", !.step = n]
          BY <3>1, <4>2
        <4>. QED
          BY <4>1, <4>3 DEF RunRows
      <3>3. run' = [run EXCEPT ![r] = run'[r]]
        BY <1>0, <2>1
      <3>. QED
        BY <1>0, <3>2, <3>3
    <2>5. UserTypes'
      BY <2>1, <2>4 DEF UserTypes, RunRows
    <2>6. PlaceInv'
      <3>1. run'[r].step > 0
        BY <2>2, <2>3
      <3>. QED
        BY <2>1, <2>3, <3>1 DEF PlaceInv
    <2>. QED
      BY <2>1, <2>5, <2>6
  <1>6. ASSUME NEW r \in Runners,
               MarkUser(r) \/ WriteStep(r) \/ MarkTerminal(r) \/ IssueCode(r) \/ RecordOffer(r)
        PROVE  UserTypes' /\ PlaceInv' /\ funnel' = funnel
    <2>1. UNCHANGED <<funnel, day, messages>>
      BY <1>6 DEF MarkUser, WriteStep, MarkTerminal, IssueCode, RecordOffer, Quiet
    <2>2. /\ marked' \in Nat \cup {None} /\ state' \in StateRows \cup {None}
          /\ offeredOn' \subseteq 0..day /\ codes' \in Nat
      <3>1. run[r].step \in Nat
        BY <1>0 DEF RunRows
      <3>2. CASE MarkUser(r)
        BY <3>2, UserConstants DEF MarkUser, PlaceInv, UserTypes, At
      <3>3. CASE WriteStep(r)
        BY <3>1, <3>3, UserConstants DEF WriteStep, UserTypes, StateRows
      <3>4. CASE MarkTerminal(r)
        BY <3>4, UserConstants DEF MarkTerminal, UserTypes, Terminal, StateRows, MaxSteps
      <3>5. CASE IssueCode(r)
        BY <3>5 DEF IssueCode, UserTypes
      <3>6. CASE RecordOffer(r)
        BY <3>6 DEF RecordOffer, UserTypes
      <3>. QED
        BY <1>6, <3>2, <3>3, <3>4, <3>5, <3>6
    <2>3. \/ Stop(r)
          \/ funnel = "channel_bonus_reminder" /\ Move(r, "terminal")
          \/ Move(r, "send")
      BY <1>6 DEF MarkUser, WriteStep, MarkTerminal, IssueCode, RecordOffer, PlaceInv, At
    <2>4. /\ run' \in [Runners -> RunRows] /\ \A s \in Runners \ {r} : run'[s] = run[s]
          /\ run'[r].at \in {"idle", "terminal", "send"}
          /\ run'[r].at = "terminal" => funnel = "channel_bonus_reminder"
      <3>1. "terminal" \in Places /\ "send" \in Places
        BY DEF Places, Passing
      <3>. QED
        BY <2>3, <3>1, MoveIs, StopIs
    <2>5. UserTypes'
      BY <2>1, <2>2, <2>4 DEF UserTypes, RunRows
    <2>6. PlaceInv'
      BY <2>1, <2>4 DEF PlaceInv
    <2>. QED
      BY <2>1, <2>5, <2>6
  <1>7. ASSUME NEW r \in Runners, RunFails(r) PROVE UserTypes' /\ PlaceInv' /\ funnel' = funnel
    <2>1. /\ UNCHANGED <<funnel, day, marked, state, offeredOn, codes>> /\ Stop(r)
          /\ messages' = [messages EXCEPT !.torn = @ + 1]
      BY <1>7 DEF RunFails, Stored
    <2>2. messages' \in Histories /\ messages'.last = messages.last
      BY <1>0, <2>1 DEF Histories
    <2>3. UserTypes'
      BY <2>1, <2>2, StopIs DEF UserTypes, RunRows, Histories
    <2>. QED
      BY <2>1, <2>3, StopIs DEF PlaceInv
  <1>8. CASE NextDay
    <2>1. /\ UNCHANGED <<funnel, run, offeredOn, codes>> /\ day' = day + 1
          /\ marked' = Older(marked)
          /\ messages' \in {messages, [messages EXCEPT !.lapses = @ + 1]}
      BY <1>8 DEF NextDay
    <2>2. messages' \in Histories /\ messages'.last = messages.last
      BY <1>0, <2>1 DEF Histories
    <2>3. state' \in StateRows \cup {None}
      <3>1. CASE state = None \/ state.term < 0
        BY <1>8, <3>1 DEF NextDay, UserTypes
      <3>2. CASE ~(state = None \/ state.term < 0)
        BY <1>8, <3>2 DEF NextDay, UserTypes, StateRows
      <3>. QED
        BY <3>1, <3>2
    <2>4. marked' \in Nat \cup {None}
      BY <2>1 DEF Older, UserTypes
    <2>5. day' \in Nat /\ offeredOn' \subseteq 0..day' /\ (messages'.last # None => messages'.last <= day')
      <3>1. messages.last # None => messages.last \in Nat
        BY <1>0 DEF Histories
      <3>. QED
        BY <2>1, <2>2, <3>1 DEF UserTypes
    <2>6. UserTypes'
      BY <2>1, <2>2, <2>3, <2>4, <2>5 DEF UserTypes, Histories
    <2>. QED
      BY <2>1, <2>6 DEF PlaceInv
  <1>. QED
    BY <1>1, <1>2, <1>3, <1>4, <1>5, <1>6, <1>7, <1>8 DEF UserStep, Walk
\* A runner goes on, and passes only where the record lets it.
LEMMA EarlyWalks ==
    ASSUME UserTypes, EarlyInv, NEW r \in Runners,
           UNCHANGED <<funnel, day, messages, marked, state, offeredOn>>,
           \A s \in Runners \ {r} : run'[s] = run[s],
           run'[r].at \in Before \cup Passing => Bound(r),
           run'[r].at \in Recording <=> run[r].at \in Recording,
           run'[r].at \in Passing => run[r].at \in Passing \/ ~(TooSoon /\ Covered)
    PROVE  EarlyInv'
  <1>1. (TooSoon' <=> TooSoon) /\ (Covered' <=> Covered)
    BY DEF TooSoon, Covered, Gap
  <1>2. \A n : Slack(n)' <=> Slack(n)
    BY DEF Slack
  <1>3. \A s \in Runners : Bound(s)' => Bound(s)
    BY DEF Bound
  <1>4. \A s \in Runners : run'[s].at \in Recording <=> run[s].at \in Recording
    OBVIOUS
  <1>5. TooSoon /\ Covered => \A s \in Runners : run'[s].at \in Passing => run[s].at \in Passing
    OBVIOUS
  <1>. QED
    BY <1>1, <1>2, <1>3, <1>4, <1>5 DEF EarlyInv

\* A runner leaves a record of its message, or the mark that there are no more.
LEMMA EarlyCovers ==
    ASSUME UserTypes, EarlyInv, NEW r \in Runners, UNCHANGED <<funnel, day, messages>>,
           \A s \in Runners \ {r} : run'[s] = run[s],
           run'[r].at \in {"idle", "terminal"}, TooSoon => Covered'
    PROVE  EarlyInv'
  <1>1. TooSoon' <=> TooSoon
    BY DEF TooSoon, Gap
  <1>2. \A n : Slack(n)' <=> Slack(n)
    BY DEF Slack
  <1>3. ~Bound(r)' /\ run'[r].at \notin Passing
    BY DEF Bound, Before, Passing
  <1>4. ASSUME TooSoon, NEW s \in Runners, run'[s].at \in Passing PROVE Slack(1)
    <2>1. run[s].at \in Passing /\ Bound(s)
      BY <1>3, <1>4 DEF Bound
    <2>. QED
      BY <1>4, <2>1 DEF EarlyInv
  <1>. QED
    BY <1>1, <1>2, <1>3, <1>4 DEF EarlyInv

\* A message too soon was excused beforehand.
LEMMA EarlySends ==
    ASSUME UserTypes, PlaceInv, EarlyInv, NEW r \in Runners, SendTo(r)
    PROVE  EarlyInv'
  <1>1. PICK s \in Runners \ {r} : Runners = {r, s}
    BY TheOther
  <1>2. /\ UNCHANGED <<funnel, day, marked, state, offeredOn>>
        /\ run[r].at = "send" /\ Bound(r) /\ run[r].at \in Passing /\ run[r].at \notin Recording
    BY DEF SendTo, Stored, Quiet, At, Bound, Passing, Recording
  <1>3. run'[r].at \in Recording /\ run'[s] = run[s] /\ ~Bound(r)' /\ run'[r].at \notin Passing
    <2>1. After \in Recording /\ After \in Places
      BY DEF After, Recording, Places, UserTypes, OfCustomers
    <2>2. run'[r].at = After /\ run'[s] = run[s]
      BY <2>1, MoveIs DEF SendTo
    <2>. QED
      BY <2>1, <2>2 DEF Bound, Recording, Before, Passing
  <1>4. Bound(s)' <=> Bound(s)
    BY <1>3 DEF Bound
  <1>5. /\ messages'.torn = messages.torn /\ messages'.met = messages.met
        /\ messages'.last = day
        /\ messages'.early = IF TooSoon THEN messages.early + 1 ELSE messages.early
    BY DEF SendTo, TooSoon, UserTypes
  <1>6. /\ messages.early \in Nat /\ messages.torn \in Nat /\ messages.met \in Nat
    BY DEF UserTypes
  <1>7. Slack(0)' /\ (Bound(s) => Slack(1)')
    <2>1. CASE TooSoon
      <3>1. Slack(1) /\ (Bound(s) => Slack(2))
        BY <1>1, <1>2, <2>1 DEF EarlyInv
      <3>2. messages'.early = messages.early + 1
        BY <1>5, <2>1
      <3>. QED
        BY <1>5, <1>6, <3>1, <3>2 DEF Slack
    <2>2. CASE ~TooSoon
      <3>1. Slack(0) /\ (Bound(s) => Slack(1))
        BY <1>1, <1>2, <2>2 DEF EarlyInv
      <3>2. messages'.early = messages.early
        BY <1>5, <2>2
      <3>. QED
        BY <1>5, <1>6, <3>1, <3>2 DEF Slack
    <2>. QED
      BY <2>1, <2>2
  <1>8. run'[s].at \in Passing => Bound(s)
    BY <1>3 DEF Bound
  <1>. QED
    BY <1>1, <1>3, <1>4, <1>7, <1>8 DEF EarlyInv

\* Another cycle begins; if it meets one, that is an excuse.
LEMMA EarlyBegins ==
    ASSUME UserTypes, EarlyInv, NEW r \in Runners, BeginRun(r)
    PROVE  EarlyInv'
  <1>1. PICK s \in Runners \ {r} : Runners = {r, s}
    BY TheOther
  <1>2. UNCHANGED <<funnel, day, marked, state, offeredOn>> /\ run[r].at = "idle"
    BY DEF BeginRun, Stored, At
  <1>3. run'[s] = run[s] /\ run'[r].at \in {"idle", "check"}
    <2>1. Resting.at = "idle" /\ [Resting EXCEPT !.at = "check"].at = "check"
      BY DEF Resting
    <2>. QED
      BY <2>1 DEF BeginRun, UserTypes
  <1>4. /\ messages'.early = messages.early /\ messages'.last = messages.last
        /\ messages'.torn = messages.torn
        /\ messages'.met = IF run[s].at # "idle" THEN messages.met + 1 ELSE messages.met
    BY <1>1 DEF BeginRun, UserTypes, At
  <1>5. /\ messages.early \in Nat /\ messages.torn \in Nat /\ messages.met \in Nat
    BY DEF UserTypes
  <1>6. (TooSoon' <=> TooSoon) /\ (Covered' <=> Covered)
    BY <1>2, <1>4 DEF TooSoon, Covered, Gap
  <1>7. /\ run'[r].at \notin Passing /\ run'[r].at \notin Recording
        /\ run[r].at \notin Recording /\ run[r].at \notin Passing /\ ~Bound(r)
    BY <1>2, <1>3 DEF Passing, Recording, Bound, Before
  <1>8. CASE run[s].at = "idle"
    <2>1. run'[s].at \notin Recording \cup Passing /\ ~Bound(s)' /\ run[s].at \notin Recording
      BY <1>3, <1>8 DEF Bound, Before, Passing, Recording
    <2>2. \A n \in {0, 1} : Slack(n)' <=> Slack(n)
      BY <1>4, <1>8 DEF Slack
    <2>3. (TooSoon /\ ~Covered) => Slack(1)
      BY <1>1, <1>7, <2>1 DEF EarlyInv
    <2>4. Slack(0)
      BY DEF EarlyInv
    <2>. QED
      BY <1>1, <1>6, <1>7, <2>1, <2>2, <2>3, <2>4 DEF EarlyInv
  <1>9. CASE run[s].at # "idle"
    <2>1. (Slack(0) => Slack(1)') /\ (Slack(1) => Slack(2)') /\ (Slack(1)' => Slack(0)')
      BY <1>4, <1>5, <1>9 DEF Slack
    <2>2. Bound(s)' <=> Bound(s)
      BY <1>3 DEF Bound
    <2>3. Slack(0) /\ Slack(0)' /\ Slack(1)'
      BY <2>1 DEF EarlyInv
    <2>4. (TooSoon /\ Covered /\ run[s].at \in Passing) => Slack(1)
      BY DEF EarlyInv
    <2>5. (TooSoon /\ ~Covered /\ Bound(s)) => Slack(1)
      BY DEF EarlyInv
    <2>. QED
      BY <1>1, <1>3, <1>6, <1>7, <2>1, <2>2, <2>3, <2>4, <2>5 DEF EarlyInv
  <1>. QED
    BY <1>8, <1>9

\* A cycle fails; that is an excuse.
LEMMA EarlyFails ==
    ASSUME UserTypes, EarlyInv, NEW r \in Runners, RunFails(r)
    PROVE  EarlyInv'
  <1>3. run'[r].at = "idle"
    BY StopIs DEF RunFails
  <1>4. /\ messages'.early = messages.early
        /\ messages'.torn = messages.torn + 1 /\ messages'.met = messages.met
    BY DEF RunFails, UserTypes
  <1>5. /\ messages.early \in Nat /\ messages.torn \in Nat /\ messages.met \in Nat
    BY DEF UserTypes
  <1>7. Slack(1)' /\ Slack(0)'
    BY <1>4, <1>5 DEF Slack, EarlyInv
  <1>8. ~Bound(r)'
    BY <1>3 DEF Bound, Before, Passing
  <1>. QED
    BY <1>7, <1>8 DEF EarlyInv
\* The next day the record holds as long as the gap.
LEMMA EarlyNextDay == ASSUME UserTypes, EarlyInv, NextDay PROVE EarlyInv'
  <1>1. /\ UNCHANGED <<funnel, run, offeredOn>> /\ day' = day + 1
        /\ \A r \in Runners : run[r].at = "idle"
        /\ Backend \in Runners
    BY DEF NextDay, At, Runners
  <1>2. /\ messages'.early = messages.early /\ messages'.last = messages.last
        /\ messages'.torn = messages.torn /\ messages'.met = messages.met
    BY DEF NextDay, UserTypes
  <1>3. day \in Nat /\ Gap \in Nat
    <2>1. funnel \in Marked \/ funnel = "channel_bonus_reminder" \/ funnel = "winback_offer"
      BY DEF UserTypes, OfCustomers
    <2>2. funnel \in Marked => Gap = Ttl[funnel]
      BY DEF Gap, Marked
    <2>3. "channel_bonus_reminder" \notin Marked /\ "winback_offer" \notin Marked
      BY DEF Marked
    <2>. QED
      BY <2>1, <2>2, <2>3, UserConstants DEF UserTypes, Gap
  <1>4. Slack(0)' /\ \A n : Slack(n)' <=> Slack(n)
    BY <1>2 DEF Slack, EarlyInv
  <1>5. \A r \in Runners : /\ ~Bound(r) /\ ~Bound(r)'
                           /\ run'[r].at \notin Passing /\ run[r].at \notin Recording
    BY <1>1 DEF Bound, Before, Passing, Recording
  <1>6. ASSUME TooSoon' PROVE TooSoon
    <2>1. messages.last \in Nat /\ messages.last # None
      BY <1>2, <1>6 DEF TooSoon, UserTypes
    <2>2. Gap' = Gap
      BY <1>1 DEF Gap
    <2>3. day' - messages.last < Gap
      BY <1>2, <1>6, <2>2 DEF TooSoon
    <2>. QED
      BY <1>1, <1>3, <2>1, <2>3 DEF TooSoon
  <1>7. ASSUME TooSoon', Covered PROVE Covered'
    <2>1. messages.last \in Nat /\ messages.last <= day /\ day + 1 - messages.last < Gap
      <3>1. Gap' = Gap
        BY <1>1 DEF Gap
      <3>2. messages.last # None /\ day' - messages.last < Gap
        BY <1>2, <1>7, <3>1 DEF TooSoon
      <3>. QED
        BY <1>1, <3>2 DEF UserTypes
    <2>2. Gap' = Gap
      BY <1>1 DEF Gap
    <2>3. CASE funnel \in Marked
      <3>0. funnel # "channel_bonus_reminder" /\ funnel # "winback_offer"
        BY <2>3 DEF Marked
      <3>1. marked \in Nat /\ marked >= Gap - (day - messages.last)
        BY <1>7, <2>3, <3>0 DEF Covered, UserTypes
      <3>2. marked # 0 /\ marked # None
        BY <1>3, <2>1, <3>1, UserConstants
      <3>3. marked' = marked - 1
        BY <3>2 DEF NextDay, Older
      <3>4. marked' \in Nat /\ marked' >= Gap - (day + 1 - messages.last)
        BY <1>3, <2>1, <3>1, <3>2, <3>3
      <3>5. marked' # None
        BY <3>4, UserConstants
      <3>6. marked' >= Gap' - (day' - messages'.last)
        BY <1>1, <1>2, <1>3, <2>1, <2>2, <3>4
      <3>7. funnel' \in Marked /\ funnel' # "channel_bonus_reminder" /\ funnel' # "winback_offer"
        BY <1>1, <2>3, <3>0
      <3>. QED
        BY <3>5, <3>6, <3>7 DEF Covered
    <2>4. CASE funnel = "channel_bonus_reminder"
      <3>0. funnel \notin Marked
        BY <2>4 DEF Marked
      <3>1. /\ state # None /\ state \in StateRows /\ state.term >= 0
            /\ state.term >= Gap - 1 - (day - messages.last)
            /\ state.step >= MaxSteps \/ (state.step > 0 /\ state.sentOn >= messages.last)
        BY <1>7, <2>4, <3>0 DEF Covered, UserTypes
      <3>2. state.term \in Int
        BY <3>1 DEF StateRows
      <3>3. state' = [state EXCEPT !.term = state.term - 1]
        BY <3>1, <3>2 DEF NextDay
      <3>4. /\ state' \in StateRows /\ state'.term = state.term - 1
            /\ state'.step = state.step /\ state'.sentOn = state.sentOn
        BY <3>1, <3>2, <3>3 DEF StateRows
      <3>5. state' # None
        BY <3>4, UserConstants
      <3>6. state'.term >= 0 /\ state'.term >= Gap - 1 - (day + 1 - messages.last)
        BY <1>3, <2>1, <3>1, <3>2, <3>4
      <3>7. /\ state'.term >= 0 /\ state'.term >= Gap' - 1 - (day' - messages'.last)
            /\ state'.step >= MaxSteps \/ (state'.step > 0 /\ state'.sentOn >= messages'.last)
        BY <1>1, <1>2, <1>3, <2>1, <2>2, <3>1, <3>4, <3>6
      <3>8. funnel' = "channel_bonus_reminder" /\ funnel' \notin Marked
        BY <1>1, <2>4, <3>0
      <3>. QED
        BY <3>5, <3>7, <3>8 DEF Covered
    <2>5. CASE funnel = "winback_offer"
      <3>0. funnel \notin Marked
        BY <2>5 DEF Marked
      <3>. QED
        BY <1>1, <1>2, <1>7, <2>5, <3>0 DEF Covered
    <2>. QED
      BY <2>3, <2>4, <2>5 DEF UserTypes, OfCustomers
  <1>8. ASSUME TooSoon', ~Covered' PROVE Slack(1)
    BY <1>5, <1>6, <1>7, <1>8 DEF EarlyInv
  <1>. QED
    BY <1>1, <1>4, <1>5, <1>8 DEF EarlyInv

\* Every step keeps the account of the early messages.
LEMMA EarlyStep == ASSUME UserTypes, PlaceInv, EarlyInv, UserStep PROVE EarlyInv'
  <1>0. funnel \in Marked \/ funnel = "channel_bonus_reminder" \/ funnel = "winback_offer"
    BY DEF UserTypes, OfCustomers
  <1>a. "channel_bonus_reminder" \notin Marked /\ "winback_offer" \notin Marked
    BY DEF Marked
  <1>b. /\ day \in Nat /\ Gap \in Nat
        /\ TooSoon => messages.last \in Nat /\ messages.last <= day /\ day - messages.last < Gap
    <2>1. funnel \in Marked => Gap = Ttl[funnel]
      BY DEF Gap, Marked
    <2>. QED
      BY <1>0, <1>a, <2>1, UserConstants DEF UserTypes, Gap, TooSoon
  <1>1. CASE LifeStep
    <2>1. UNCHANGED <<funnel, day, run, marked, state, offeredOn, codes, messages>>
      BY <1>1 DEF LifeStep, TakesTrial, Connects, KeyLapses, Renews, MakesLink, ClaimsBonus, Lives
    <2>. QED
      BY <2>1, EarlyWalks DEF Runners, Bound
  <1>2. ASSUME NEW r \in Runners,
               \/ IsMarked(r) \/ HasLink(r)
               \/ IsClaimed(r) \/ DueStep(r) \/ AskChannel(r) \/ RereadState(r)
               \/ HasPaid(r) \/ WasOffered(r) \/ ReadStep(r) \/ IssueCode(r)
        PROVE  EarlyInv'
    <2>1. UNCHANGED <<funnel, day, messages, marked, state, offeredOn>>
      BY <1>2 DEF IsMarked, HasLink, IsClaimed, DueStep, AskChannel, RereadState, HasPaid,
         WasOffered, ReadStep, IssueCode, Stored, Quiet
    <2>2. CASE Stop(r) /\ Bound(r)
      <3>1. run'[r].at = "idle" /\ \A s \in Runners \ {r} : run'[s] = run[s]
        BY <2>2, StopIs
      <3>2. run[r].at \notin Recording
        BY <2>2 DEF Bound, Before, Passing, Recording
      <3>. QED
        BY <2>1, <3>1, <3>2, EarlyWalks DEF Before, Passing, Recording
    <2>3. ASSUME NEW p \in Before \cup Passing \cup {"terminal"}, Move(r, p), Bound(r),
                 p \in Passing => run[r].at \in Passing \/ ~(TooSoon /\ Covered)
          PROVE  EarlyInv'
      <3>1. p \in Places /\ p \notin Recording /\ run[r].at \notin Recording
        BY <2>3 DEF Places, Bound, Before, Passing, Recording
      <3>2. run'[r].at = p /\ \A s \in Runners \ {r} : run'[s] = run[s]
        BY <2>3, <3>1, MoveIs
      <3>. QED
        BY <2>1, <2>3, <3>1, <3>2, EarlyWalks
    <2>4. CASE HasLink(r) \/ AskChannel(r) \/ RereadState(r) \/ IssueCode(r)
      <3>1. run[r].at \in Passing /\ Bound(r)
        BY <2>4 DEF HasLink, AskChannel, RereadState, IssueCode, At, Passing, Bound
      <3>2. Stop(r) \/ \E p \in Passing : Move(r, p)
        BY <2>4 DEF HasLink, AskChannel, RereadState, IssueCode, Passing
      <3>. QED
        BY <2>2, <2>3, <3>1, <3>2
    <2>5. CASE IsClaimed(r) \/ HasPaid(r)
      <3>1. Bound(r)
        BY <2>5 DEF IsClaimed, HasPaid, At, Bound, Before
      <3>2. Stop(r) \/ \E p \in Before \cup {"terminal"} : p \notin Passing /\ Move(r, p)
        BY <2>5 DEF IsClaimed, HasPaid, Before, Passing
      <3>. QED
        BY <2>2, <2>3, <3>1, <3>2
    <2>6. CASE IsMarked(r)
      <3>1. Bound(r) /\ funnel \in Marked
        BY <2>6 DEF IsMarked, At, Bound, Before
      <3>2. CASE Stop(r)
        BY <2>2, <3>1, <3>2
      <3>3. CASE marked \in {None, 0} /\ \E p \in Passing : Move(r, p)
        <4>1. ~(TooSoon /\ Covered)
          <5>. SUFFICES ASSUME TooSoon, Covered PROVE FALSE
            OBVIOUS
          <5>1. marked # None /\ marked >= Gap - (day - messages.last)
            BY <1>a, <3>1 DEF Covered
          <5>2. marked = 0
            BY <3>3, <5>1
          <5>. QED
            BY <1>b, <5>1, <5>2
        <4>. QED
          BY <2>3, <3>1, <3>3, <4>1
      <3>. QED
        BY <2>6, <3>2, <3>3 DEF IsMarked, Passing
    <2>7. CASE DueStep(r)
      <3>1. Bound(r) /\ funnel = "channel_bonus_reminder"
        BY <2>7 DEF DueStep, At, Bound, Before, PlaceInv
      <3>2. CASE Stop(r)
        BY <2>2, <3>1, <3>2
      <3>3. CASE /\ Move(r, "member")
                 /\ LiveStep < MaxSteps /\ (LiveStep > 0 => day - state.sentOn >= MinGap)
        <4>1. ~(TooSoon /\ Covered)
          <5>. SUFFICES ASSUME TooSoon, Covered PROVE FALSE
            OBVIOUS
          <5>1. /\ state # None /\ state.term >= 0 /\ state \in StateRows
                /\ state.step >= MaxSteps \/ (state.step > 0 /\ state.sentOn >= messages.last)
            BY <3>1, <1>a DEF Covered, UserTypes
          <5>2. state.term \in Int /\ state.step \in Nat /\ state.sentOn \in Nat
            BY <5>1 DEF StateRows
          <5>3. LiveStep = state.step
            BY <5>1, <5>2 DEF LiveStep
          <5>4. day - state.sentOn >= MinGap /\ state.sentOn >= messages.last
            BY <3>3, <5>1, <5>2, <5>3 DEF MaxSteps
          <5>5. Gap = MinGap
            BY <3>1, <1>a DEF Gap
          <5>. QED
            BY <1>b, <5>2, <5>4, <5>5, UserConstants
        <4>. QED
          BY <2>3, <3>1, <3>3, <4>1 DEF Passing
      <3>. QED
        BY <2>7, <3>2, <3>3 DEF DueStep
    <2>8. CASE WasOffered(r)
      <3>1. Bound(r) /\ funnel = "winback_offer"
        BY <2>8 DEF WasOffered, At, Bound, Before, PlaceInv
      <3>2. CASE Stop(r)
        BY <2>2, <3>1, <3>2
      <3>3. CASE Move(r, "issue") /\ ~OfferedWithin(RepeatDays)
        <4>1. ~(TooSoon /\ Covered)
          <5>. SUFFICES ASSUME TooSoon, Covered PROVE FALSE
            OBVIOUS
          <5>1. PICK d \in offeredOn : d >= messages.last
            BY <3>1, <1>a DEF Covered
          <5>2. d \in Nat /\ ~(day - d < RepeatDays)
            BY <3>3 DEF OfferedWithin, UserTypes
          <5>3. Gap = RepeatDays
            BY <3>1, <1>a DEF Gap
          <5>. QED
            BY <1>b, <5>1, <5>2, <5>3, UserConstants
        <4>. QED
          BY <2>3, <3>1, <3>3, <4>1 DEF Passing
      <3>. QED
        BY <2>8, <3>2, <3>3 DEF WasOffered
    <2>9. CASE ReadStep(r)
      <3>1. /\ run[r].at = "advance" /\ run'[r].at = "upsert"
            /\ \A s \in Runners \ {r} : run'[s] = run[s]
        BY <2>9 DEF ReadStep, At, UserTypes
      <3>. QED
        BY <2>1, <3>1, EarlyWalks DEF Before, Passing, Recording
    <2>. QED
      BY <1>2, <2>4, <2>5, <2>6, <2>7, <2>8, <2>9
  <1>3. ASSUME NEW r \in Runners,
               MarkUser(r) \/ WriteStep(r) \/ MarkTerminal(r) \/ RecordOffer(r)
        PROVE  EarlyInv'
    <2>1. UNCHANGED <<funnel, day, messages>>
      BY <1>3 DEF MarkUser, WriteStep, MarkTerminal, RecordOffer, Quiet
    <2>2. run'[r].at \in {"idle", "terminal"} /\ \A s \in Runners \ {r} : run'[s] = run[s]
      <3>1. Stop(r) \/ Move(r, "terminal")
        BY <1>3 DEF MarkUser, WriteStep, MarkTerminal, RecordOffer
      <3>2. "terminal" \in Places
        BY DEF Places
      <3>. QED
        BY <3>1, <3>2, MoveIs, StopIs
    <2>3. ASSUME TooSoon PROVE Covered'
      <3>0. Gap' = Gap
        BY <2>1 DEF Gap
      <3>1. CASE MarkUser(r)
        <4>1. funnel \in Marked /\ marked' = Ttl[funnel]
          BY <3>1 DEF MarkUser, At, PlaceInv
        <4>2. marked' \in Nat /\ marked' # None /\ marked' = Gap
          BY <4>1, UserConstants DEF Gap, Marked
        <4>3. marked' >= Gap - (day - messages.last)
          BY <1>b, <2>3, <4>2
        <4>. QED
          BY <1>a, <2>1, <3>0, <4>1, <4>2, <4>3 DEF Covered
      <3>2. ASSUME funnel = "channel_bonus_reminder", state' \in StateRows,
                   state'.term = StateTtl,
                   \/ state'.step >= MaxSteps
                   \/ state'.step > 0 /\ state'.sentOn = day
            PROVE  Covered'
        <4>1. Gap = MinGap
          BY <3>2, <1>a DEF Gap
        <4>2. state' # None
          BY <3>2, UserConstants
        <4>3. state'.term >= 0 /\ state'.term >= Gap - 1 - (day - messages.last)
          BY <1>b, <2>3, <3>2, <4>1, UserConstants
        <4>. QED
          BY <1>a, <1>b, <2>1, <2>3, <3>0, <3>2, <4>2, <4>3 DEF Covered
      <3>3. CASE WriteStep(r)
        <4>1. /\ funnel = "channel_bonus_reminder" /\ run[r].step > 0 /\ run[r].step \in Nat
              /\ state' = [step |-> run[r].step, sentOn |-> day, term |-> StateTtl]
          BY <3>3 DEF WriteStep, At, PlaceInv, UserTypes
        <4>. QED
          BY <3>2, <4>1, <1>b, UserConstants DEF StateRows
      <3>4. CASE MarkTerminal(r)
        <4>1. funnel = "channel_bonus_reminder" /\ state' = Terminal
          BY <3>4 DEF MarkTerminal, At, PlaceInv
        <4>. QED
          BY <3>2, <4>1, UserConstants DEF StateRows, Terminal, MaxSteps
      <3>5. CASE RecordOffer(r)
        <4>1. funnel = "winback_offer" /\ day \in offeredOn'
          BY <3>5 DEF RecordOffer, At, PlaceInv
        <4>. QED
          BY <1>a, <1>b, <2>1, <2>3, <4>1 DEF Covered
      <3>. QED
        BY <1>3, <3>1, <3>3, <3>4, <3>5
    <2>. QED
      BY <2>1, <2>2, <2>3, EarlyCovers
  <1>. QED
    BY <1>1, <1>2, <1>3, EarlySends, EarlyBegins, EarlyFails, EarlyNextDay DEF UserStep, Walk
\* The numbers the inequalities are about are numbers.
LEMMA CodeNumbers ==
    ASSUME UserTypes
    PROVE  /\ IsFiniteSet(offeredOn) /\ Cardinality(offeredOn) \in Nat
           /\ codes \in Nat /\ messages.torn \in Nat /\ messages.met \in Nat
           /\ \A r \in Runners : \A places : Num(r, places) \in {0, 1}
           /\ \A places : Sum(places) \in Nat
  <1>1. IsFiniteSet(offeredOn) /\ Cardinality(offeredOn) \in Nat
    <2>1. offeredOn \in SUBSET (0..day) /\ IsFiniteSet(0..day)
      <3>1. 0 \in Int /\ day \in Int
        BY DEF UserTypes
      <3>. QED
        BY <3>1, FS_Interval DEF UserTypes
    <2>. QED
      BY <2>1, FS_Subset, FS_CardinalityType
  <1>2. \A places : Num(Backend, places) \in {0, 1} /\ Num(Script, places) \in {0, 1}
    BY DEF Num
  <1>3. \A places : Sum(places) \in Nat
    BY <1>2 DEF Sum
  <1>. QED
    BY <1>1, <1>2, <1>3 DEF UserTypes, Runners

\* What a runner's step does to a sum.
LEMMA SumMoves ==
    ASSUME NEW r \in Runners, \A s \in Runners \ {r} : run'[s] = run[s]
    PROVE  \A places :
              /\ (run'[r].at \in places <=> run[r].at \in places) => Sum(places)' = Sum(places)
              /\ run'[r].at \in places /\ run[r].at \notin places =>
                    Sum(places)' = Sum(places) + 1
              /\ run'[r].at \notin places /\ run[r].at \in places =>
                    Sum(places) = Sum(places)' + 1
  <1>. TAKE places
  <1>1. Backend # Script /\ Runners = {Backend, Script}
    BY UserConstants DEF Runners
  <1>2. /\ Num(Backend, places) \in {0, 1} /\ Num(Script, places) \in {0, 1}
        /\ Num(Backend, places)' \in {0, 1} /\ Num(Script, places)' \in {0, 1}
    BY DEF Num
  <1>3. \A s \in Runners \ {r} : Num(s, places)' = Num(s, places)
    BY DEF Num
  <1>4. /\ Num(r, places) = IF run[r].at \in places THEN 1 ELSE 0
        /\ Num(r, places)' = IF run'[r].at \in places THEN 1 ELSE 0
    BY DEF Num
  <1>5. CASE r = Backend
    BY <1>1, <1>2, <1>3, <1>4, <1>5 DEF Sum
  <1>6. CASE r = Script
    BY <1>1, <1>2, <1>3, <1>4, <1>6 DEF Sum
  <1>. QED
    BY <1>1, <1>5, <1>6

\* A runner of the offers goes on, and passes only when none was made today.
LEMMA CodesWalks ==
    ASSUME UserTypes, CodesInv, NEW r \in Runners, UNCHANGED <<funnel, day, offeredOn, codes>>,
           messages'.torn = messages.torn, messages'.met = messages.met,
           \A s \in Runners \ {r} : run'[s] = run[s],
           funnel = "winback_offer" =>
              /\ run'[r].at \in Holding <=> run[r].at \in Holding
              /\ run'[r].at \in Offering => run[r].at \in Offering \/ day \notin offeredOn
              /\ run'[r].at # "idle" => run[r].at # "idle"
    PROVE  CodesInv'
  <1>1. CASE funnel = "winback_offer"
    <2>1. Sum(Holding)' = Sum(Holding) /\ Sum(Holding) \in Nat
      BY <1>1, SumMoves, CodeNumbers
    <2>2. \A n : CodeSlack(n)' <=> CodeSlack(n)
      BY <2>1 DEF CodeSlack
    <2>3. CASE day \in offeredOn
      <3>1. Sum(Offering)' <= Sum(Offering) /\ Sum(Offering)' \in Nat
        <4>1. (run'[r].at \in Offering <=> run[r].at \in Offering)
              \/ (run'[r].at \notin Offering /\ run[r].at \in Offering)
          BY <1>1, <2>3
        <4>2. Sum(Offering) \in Nat /\ Sum(Offering)' \in Nat
          <5>1. Num(Backend, Offering)' \in {0, 1} /\ Num(Script, Offering)' \in {0, 1}
            BY DEF Num
          <5>2. Sum(Offering)' \in Nat
            BY <5>1 DEF Sum
          <5>. QED
            BY <5>2, CodeNumbers
        <4>3. Sum(Offering)' = Sum(Offering) \/ Sum(Offering) = Sum(Offering)' + 1
          BY <4>1, SumMoves
        <4>. QED
          BY <4>2, <4>3
      <3>2. CodeSlack(Sum(Offering))
        BY <1>1, <2>3 DEF CodesInv
      <3>3. PICK n, m : n = Sum(Offering)' /\ m = Sum(Offering)
        OBVIOUS
      <3>4. n \in Nat /\ m \in Nat /\ n <= m
        BY <3>1, <3>3, CodeNumbers
      <3>5. CodeSlack(m) => CodeSlack(n)
        BY <3>4, CodeNumbers DEF CodeSlack
      <3>6. CodeSlack(n)'
        BY <2>2, <3>2, <3>3, <3>5
      <3>. QED
        BY <1>1, <2>3, <3>3, <3>6 DEF CodesInv
    <2>4. CASE day \notin offeredOn
      <3>1. /\ CodeSlack(0)
            /\ (\A s \in Runners : run[s].at # "idle") => CodeSlack(1)
        BY <1>1, <2>4 DEF CodesInv
      <3>2. (\A s \in Runners : run'[s].at # "idle") => \A s \in Runners : run[s].at # "idle"
        BY <1>1
      <3>. QED
        BY <1>1, <2>2, <2>4, <3>1, <3>2 DEF CodesInv
    <2>. QED
      BY <2>3, <2>4
  <1>2. CASE funnel # "winback_offer"
    BY <1>2 DEF CodesInv
  <1>. QED
    BY <1>1, <1>2

\* A code is issued to a runner that will record its offer.
LEMMA CodesIssued ==
    ASSUME UserTypes, PlaceInv, CodesInv, NEW r \in Runners, IssueCode(r)
    PROVE  CodesInv'
  <1>1. /\ funnel = "winback_offer" /\ run[r].at = "issue" /\ codes' \in {codes, codes + 1}
        /\ UNCHANGED <<funnel, day, offeredOn, messages>>
    BY DEF IssueCode, PlaceInv, At, Quiet
  <1>2. run'[r].at = "send" /\ \A s \in Runners \ {r} : run'[s] = run[s]
    BY MoveIs DEF IssueCode, Places, Passing
  <1>3. Sum(Holding)' = Sum(Holding) + 1 /\ Sum(Offering)' = Sum(Offering)
    BY <1>1, <1>2, SumMoves DEF Holding, Offering
  <1>4. \A n \in Nat : CodeSlack(n) => CodeSlack(n)'
    <2>1. ASSUME NEW n \in Nat, CodeSlack(n) PROVE CodeSlack(n)'
      <3>1. codes' \in Nat /\ codes' <= codes + 1
        BY <1>1, CodeNumbers
      <3>. QED
        BY <1>1, <1>3, <2>1, <3>1, CodeNumbers DEF CodeSlack
    <2>. QED
      BY <2>1
  <1>5. (\A s \in Runners : run'[s].at # "idle") => \A s \in Runners : run[s].at # "idle"
    BY <1>1, <1>2
  <1>6. CASE day \in offeredOn
    <2>1. PICK n \in Nat : n = Sum(Offering)
      BY CodeNumbers
    <2>2. CodeSlack(n)'
      BY <1>1, <1>4, <1>6, <2>1 DEF CodesInv
    <2>. QED
      BY <1>1, <1>3, <1>6, <2>1, <2>2 DEF CodesInv
  <1>7. CASE day \notin offeredOn
    BY <1>1, <1>4, <1>5, <1>7 DEF CodesInv
  <1>. QED
    BY <1>6, <1>7

\* An offer is recorded: the day's first, or one of a cycle that met another.
LEMMA CodesRecorded ==
    ASSUME UserTypes, PlaceInv, CodesInv, NEW r \in Runners, RecordOffer(r)
    PROVE  CodesInv'
  <1>1. /\ funnel = "winback_offer" /\ run[r].at = "record"
        /\ offeredOn' = offeredOn \cup {day}
        /\ UNCHANGED <<funnel, day, codes, messages>>
    BY DEF RecordOffer, PlaceInv, At, Quiet
  <1>2. run'[r].at = "idle" /\ \A s \in Runners \ {r} : run'[s] = run[s]
    BY StopIs DEF RecordOffer
  <1>3. Sum(Holding) = Sum(Holding)' + 1 /\ Sum(Offering) = Sum(Offering)' + 1
    BY <1>1, <1>2, SumMoves DEF Holding, Offering
  <1>4. Sum(Holding)' \in Nat /\ Sum(Offering)' \in Nat
    <2>1. \A places : Num(Backend, places)' \in {0, 1} /\ Num(Script, places)' \in {0, 1}
      BY DEF Num
    <2>. QED
      BY <2>1 DEF Sum
  <1>5. CASE day \in offeredOn
    <2>1. offeredOn' = offeredOn /\ CodeSlack(Sum(Offering))
      BY <1>1, <1>5 DEF CodesInv
    <2>2. codes + Sum(Offering)' <=
             Cardinality(offeredOn) + messages.torn + messages.met + Sum(Holding)'
      BY <1>3, <1>4, <2>1, CodeNumbers DEF CodeSlack
    <2>. QED
      BY <1>1, <1>5, <2>1, <2>2 DEF CodesInv, CodeSlack
  <1>6. CASE day \notin offeredOn
    <2>1. PICK s \in Runners \ {r} :
             Runners = {r, s} /\ \A places : Sum(places) = Num(r, places) + Num(s, places)
      BY TheOther
    <2>2. Cardinality(offeredOn') = Cardinality(offeredOn) + 1
      BY <1>1, <1>6, CodeNumbers, FS_AddElement
    <2>3. Sum(Offering)' = Num(s, Offering)
      <3>1. Num(r, Offering) = 1 /\ Num(s, Offering) \in {0, 1}
        BY <1>1 DEF Num, Offering
      <3>2. Sum(Offering) = 1 + Num(s, Offering)
        BY <2>1, <3>1
      <3>. QED
        BY <1>3, <1>4, <3>1, <3>2
    <2>4. CodeSlack(Num(s, Offering))
      <3>1. CASE run[s].at \in Offering
        <4>1. \A q \in Runners : run[q].at # "idle"
          BY <1>1, <2>1, <3>1 DEF Offering
        <4>. QED
          BY <1>1, <1>6, <3>1, <4>1 DEF CodesInv, Num
      <3>2. CASE run[s].at \notin Offering
        BY <1>1, <1>6, <3>2 DEF CodesInv, Num
      <3>. QED
        BY <3>1, <3>2
    <2>5. codes + Sum(Offering)' <=
             Cardinality(offeredOn') + messages.torn + messages.met + Sum(Holding)'
      BY <1>3, <1>4, <2>2, <2>3, <2>4, CodeNumbers DEF CodeSlack
    <2>. QED
      BY <1>1, <2>5 DEF CodesInv, CodeSlack
  <1>. QED
    BY <1>5, <1>6
\* A cycle that begins while another is on its way is an excuse.
LEMMA CodesBegins ==
    ASSUME UserTypes, CodesInv, NEW r \in Runners, BeginRun(r)
    PROVE  CodesInv'
  <1>1. PICK s \in Runners \ {r} : Runners = {r, s}
    BY TheOther
  <1>2. UNCHANGED <<funnel, day, offeredOn, codes>> /\ run[r].at = "idle"
    BY DEF BeginRun, Stored, At
  <1>3. /\ run'[r].at \in {"idle", "check"}
        /\ \A q \in Runners \ {r} : run'[q] = run[q]
    <2>1. Resting.at = "idle" /\ [Resting EXCEPT !.at = "check"].at = "check"
      BY DEF Resting
    <2>. QED
      BY <2>1 DEF BeginRun, UserTypes
  <1>4. /\ messages'.torn = messages.torn
        /\ messages'.met = IF run[s].at # "idle" THEN messages.met + 1 ELSE messages.met
    BY <1>1 DEF BeginRun, UserTypes, At
  <1>5. Sum(Holding)' = Sum(Holding) /\ Sum(Offering)' = Sum(Offering)
    BY <1>2, <1>3, SumMoves DEF Holding, Offering
  <1>6. CASE run[s].at = "idle"
    <2>1. \A n : CodeSlack(n)' <=> CodeSlack(n)
      BY <1>2, <1>4, <1>5, <1>6 DEF CodeSlack
    <2>2. run'[s].at = "idle"
      BY <1>3, <1>6
    <2>. QED
      BY <1>2, <1>5, <2>1, <2>2 DEF CodesInv
  <1>7. CASE run[s].at # "idle"
    <2>1. \A n \in Nat : CodeSlack(n) => CodeSlack(n)' /\ CodeSlack(n + 1)'
      BY <1>2, <1>4, <1>5, <1>7, CodeNumbers DEF CodeSlack
    <2>2. PICK n \in Nat : n = Sum(Offering)
      BY CodeNumbers
    <2>3. CodeSlack(0) => CodeSlack(0)' /\ CodeSlack(1)'
      <3>1. 0 \in Nat /\ 0 + 1 = 1
        OBVIOUS
      <3>. QED
        BY <2>1, <3>1
    <2>. QED
      BY <1>2, <1>5, <2>1, <2>2, <2>3 DEF CodesInv
  <1>. QED
    BY <1>6, <1>7

\* So is a failure, which may lose the record of a code.
LEMMA CodesFails ==
    ASSUME UserTypes, CodesInv, NEW r \in Runners, RunFails(r)
    PROVE  CodesInv'
  <1>1. UNCHANGED <<funnel, day, offeredOn, codes>>
    BY DEF RunFails, Stored
  <1>2. run'[r].at = "idle" /\ \A q \in Runners \ {r} : run'[q] = run[q]
    BY StopIs DEF RunFails
  <1>3. messages'.torn = messages.torn + 1 /\ messages'.met = messages.met
    BY DEF RunFails, UserTypes
  <1>4. \A places : Sum(places)' \in Nat
    <2>1. \A places : Num(Backend, places)' \in {0, 1} /\ Num(Script, places)' \in {0, 1}
      BY DEF Num
    <2>. QED
      BY <2>1 DEF Sum
  <1>5. /\ Sum(Holding)' = Sum(Holding) \/ Sum(Holding) = Sum(Holding)' + 1
        /\ Sum(Offering)' = Sum(Offering) \/ Sum(Offering) = Sum(Offering)' + 1
    BY <1>2, SumMoves DEF Holding, Offering
  <1>6. \A n \in Nat : CodeSlack(n) => CodeSlack(n)'
    BY <1>1, <1>3, <1>4, <1>5, CodeNumbers DEF CodeSlack
  <1>7. CASE day \in offeredOn
    <2>1. PICK n \in Nat, m \in Nat : n = Sum(Offering) /\ m = Sum(Offering)'
      BY <1>4, CodeNumbers
    <2>2. m <= n
      BY <1>5, <2>1
    <2>3. funnel = "winback_offer" => CodeSlack(m)
      BY <1>7, <2>1, <2>2, CodeNumbers DEF CodesInv, CodeSlack
    <2>4. funnel = "winback_offer" => CodeSlack(m)'
      BY <1>6, <2>3
    <2>. QED
      BY <1>1, <1>7, <2>1, <2>4 DEF CodesInv
  <1>8. CASE day \notin offeredOn
    <2>1. funnel = "winback_offer" => CodeSlack(0)'
      BY <1>6, <1>8 DEF CodesInv
    <2>. QED
      BY <1>1, <1>2, <1>8, <2>1 DEF CodesInv
  <1>. QED
    BY <1>7, <1>8

\* A day changes no code.
LEMMA CodesNextDay == ASSUME UserTypes, CodesInv, NextDay PROVE CodesInv'
  <1>1. /\ UNCHANGED <<funnel, run, offeredOn, codes>> /\ day' = day + 1
        /\ \A r \in Runners : run[r].at = "idle"
        /\ Backend \in Runners /\ Script \in Runners
    BY DEF NextDay, At, Runners
  <1>2. messages'.torn = messages.torn /\ messages'.met = messages.met
    BY DEF NextDay, UserTypes
  <1>3. Sum(Holding) = 0 /\ Sum(Holding)' = 0 /\ Sum(Offering) = 0
    BY <1>1 DEF Sum, Num, Holding, Offering
  <1>4. day' \notin offeredOn'
    BY <1>1 DEF UserTypes
  <1>5. funnel = "winback_offer" => CodeSlack(0)
    BY <1>3 DEF CodesInv
  <1>6. funnel = "winback_offer" => CodeSlack(0)'
    BY <1>1, <1>2, <1>3, <1>5 DEF CodeSlack
  <1>. QED
    BY <1>1, <1>4, <1>6 DEF CodesInv

\* Every step keeps the account of the codes.
LEMMA CodesStep == ASSUME UserTypes, PlaceInv, CodesInv, UserStep PROVE CodesInv'
  <1>1. CASE LifeStep
    <2>1. UNCHANGED <<funnel, day, run, marked, state, offeredOn, codes, messages>>
      BY <1>1 DEF LifeStep, TakesTrial, Connects, KeyLapses, Renews, MakesLink, ClaimsBonus, Lives
    <2>. QED
      BY <2>1, CodesWalks DEF Runners
  <1>2. ASSUME NEW r \in Runners,
               \/ IsMarked(r) \/ HasLink(r) \/ MarkUser(r)
               \/ IsClaimed(r) \/ DueStep(r) \/ AskChannel(r) \/ RereadState(r)
               \/ ReadStep(r) \/ WriteStep(r) \/ MarkTerminal(r)
        PROVE  CodesInv'
    <2>1. UNCHANGED <<funnel, day, offeredOn, codes, messages>>
      BY <1>2 DEF IsMarked, HasLink, IsClaimed, DueStep, AskChannel, RereadState, ReadStep,
         MarkUser, WriteStep, MarkTerminal, Stored, Quiet
    <2>2. funnel # "winback_offer"
      BY <1>2 DEF IsMarked, HasLink, IsClaimed, DueStep, AskChannel, RereadState, ReadStep,
         MarkUser, WriteStep, MarkTerminal, PlaceInv, At, Marked
    <2>. QED
      BY <2>1, <2>2 DEF CodesInv
  <1>3. ASSUME NEW r \in Runners, HasPaid(r) \/ WasOffered(r) PROVE CodesInv'
    <2>1. UNCHANGED <<funnel, day, offeredOn, codes, messages>>
      BY <1>3 DEF HasPaid, WasOffered, Stored, Quiet
    <2>2. run[r].at \in {"check", "offered"}
      BY <1>3 DEF HasPaid, WasOffered, At
    <2>3. CASE Stop(r)
      <3>1. run'[r].at = "idle" /\ \A s \in Runners \ {r} : run'[s] = run[s]
        BY <2>3, StopIs
      <3>. QED
        BY <2>1, <2>2, <3>1, CodesWalks DEF Holding, Offering
    <2>4. CASE Move(r, "offered")
      <3>1. run'[r].at = "offered" /\ \A s \in Runners \ {r} : run'[s] = run[s]
        BY <2>4, MoveIs DEF Places, Before
      <3>. QED
        BY <2>1, <2>2, <3>1, CodesWalks DEF Holding, Offering
    <2>5. CASE Move(r, "issue") /\ ~OfferedWithin(RepeatDays)
      <3>1. run'[r].at = "issue" /\ \A s \in Runners \ {r} : run'[s] = run[s]
        BY <2>5, MoveIs DEF Places, Passing
      <3>2. day \notin offeredOn
        <4>1. day - day < RepeatDays
          BY UserConstants DEF UserTypes
        <4>. QED
          BY <2>5, <4>1 DEF OfferedWithin
      <3>. QED
        BY <2>1, <2>2, <3>1, <3>2, CodesWalks DEF Holding
    <2>. QED
      BY <1>3, <2>3, <2>4, <2>5 DEF HasPaid, WasOffered
  <1>4. ASSUME NEW r \in Runners, SendTo(r) PROVE CodesInv'
    <2>1. /\ UNCHANGED <<funnel, day, offeredOn, codes>> /\ run[r].at = "send"
          /\ messages'.torn = messages.torn /\ messages'.met = messages.met
      BY <1>4 DEF SendTo, Stored, Quiet, At, UserTypes
    <2>2. After \in Places /\ (funnel = "winback_offer" => After = "record")
      BY DEF After, Places, Recording, UserTypes, OfCustomers, Marked
    <2>3. run'[r].at = After /\ \A s \in Runners \ {r} : run'[s] = run[s]
      BY <1>4, <2>2, MoveIs DEF SendTo
    <2>. QED
      BY <2>1, <2>2, <2>3, CodesWalks DEF Holding, Offering
  <1>. QED
    BY <1>1, <1>2, <1>3, <1>4, CodesIssued, CodesRecorded, CodesBegins, CodesFails, CodesNextDay
       DEF UserStep, Walk

\* The numbers the steps are counted with.
LEMMA StepNumbers ==
    ASSUME UserTypes
    PROVE  /\ messages.sent \in Nat /\ messages.lapses \in Nat /\ messages.torn \in Nat
           /\ messages.met \in Nat
           /\ StepRead \in Nat /\ Lapsed \in {0, 1} /\ Crowd \in {0, 1}
           /\ \A n \in Nat : /\ Cap(n) \in Nat /\ Cap(n) <= 3 /\ Cap(n) <= n
                             /\ Cap(n) <= Cap(n + 1) /\ Cap(n + 1) <= Cap(n) + 1
                             /\ n < MaxSteps => Cap(n + 1) = Cap(n) + 1
                             /\ n >= MaxSteps => Cap(n) = 3
           /\ \A r \in Runners : \A places : Num(r, places) \in {0, 1}
           /\ \A r \in Runners : run[r].step \in Nat
           /\ state # None => state.term \in Int /\ state.step \in Nat
  <1>1. state # None => state.term \in Int /\ state.step \in Nat
    BY DEF UserTypes, StateRows
  <1>2. StepRead \in Nat
    BY <1>1 DEF StepRead
  <1>. QED
    BY <1>1, <1>2 DEF UserTypes, Lapsed, Crowd, Cap, MaxSteps, Num

\* A runner of the reminder goes on, and comes to send only before the last step.
LEMMA StepsWalks ==
    ASSUME UserTypes, StepsInv, funnel = "channel_bonus_reminder", NEW r \in Runners,
           UNCHANGED <<funnel, state, messages>>,
           \A s \in Runners \ {r} : run'[s] = run[s],
           run'[r].at \in Writing <=> run[r].at \in Writing,
           run'[r].at \notin {"idle", "terminal"} => run[r].at \notin {"idle", "terminal"},
           run'[r].at = "send" => run[r].at = "send" \/ LiveStep < MaxSteps,
           run'[r].at = "advance" => run[r].at = "advance",
           run'[r].at = "upsert" =>
              \/ run[r].at = "upsert" /\ run'[r].step = run[r].step
              \/ run[r].at = "advance" /\ run'[r].step = StepRead + 1
    PROVE  StepsInv'
  <1>1. PICK s \in Runners \ {r} :
           Runners = {r, s} /\ \A places : Sum(places) = Num(r, places) + Num(s, places)
    BY TheOther
  <1>2. Lapsed' = Lapsed /\ StepRead' = StepRead
    BY DEF Lapsed, StepRead
  <1>3. \A q \in Runners : Num(q, Writing)' = Num(q, Writing)
    BY DEF Num
  <1>4. Sum(Writing)' = Sum(Writing) /\ Sum(Writing) = Num(r, Writing) + Num(s, Writing)
    BY <1>1, SumMoves
  <1>5. Crowd' \in {0, 1} /\ Crowd' <= Crowd
    <2>1. (\A q \in Runners : run'[q].at \notin {"idle", "terminal"})
             => \A q \in Runners : run[q].at \notin {"idle", "terminal"}
      OBVIOUS
    <2>. QED
      BY <2>1 DEF Crowd
  <1>8. PICK u \in {0, 1}, v \in {0, 1}, l \in {0, 1}, a \in {0, 1}, b \in {0, 1} :
           u = Crowd /\ v = Crowd' /\ l = Lapsed /\ a = Num(r, Writing) /\ b = Num(s, Writing)
    BY <1>5, StepNumbers
  <1>9. SentWithin(l + v, Cap(StepRead) + (a + b))
    <2>1. SentWithin(l + u, Cap(StepRead) + (a + b))
      BY <1>4, <1>8 DEF StepsInv
    <2>2. v <= u /\ StepRead \in Nat
      BY <1>5, <1>8, StepNumbers
    <2>3. Cap(StepRead) \in Nat
      BY <2>2, StepNumbers
    <2>. QED
      BY <2>1, <2>2, <2>3, StepNumbers DEF SentWithin
  <1>10. /\ run'[s].at = "send" => SentWithin(1 + v, Cap(StepRead + 1) + a)
         /\ run'[s].at = "advance" => SentWithin(v, Cap(StepRead + 1) + a)
         /\ run'[s].at = "upsert" => SentWithin(v, Cap(run'[s].step) + a)
    <2>1. /\ run[s].at = "send" => SentWithin(1 + u, Cap(StepRead + 1) + a)
          /\ run[s].at = "advance" => SentWithin(u, Cap(StepRead + 1) + a)
          /\ run[s].at = "upsert" => SentWithin(u, Cap(run[s].step) + a)
      BY <1>1, <1>8 DEF StepsInv
    <2>2. v <= u /\ StepRead + 1 \in Nat /\ run[s].step \in Nat /\ run'[s] = run[s]
      BY <1>5, <1>8, StepNumbers
    <2>3. Cap(StepRead + 1) \in Nat /\ Cap(run[s].step) \in Nat
      BY <2>2, StepNumbers
    <2>. QED
      BY <2>1, <2>2, <2>3, StepNumbers DEF SentWithin
  <1>11. /\ run'[r].at = "send" => SentWithin(1 + v, Cap(StepRead + 1) + b)
         /\ run'[r].at = "advance" => SentWithin(v, Cap(StepRead + 1) + b)
         /\ run'[r].at = "upsert" => SentWithin(v, Cap(run'[r].step) + b)
    <2>1. /\ run[r].at = "send" => SentWithin(1 + u, Cap(StepRead + 1) + b)
          /\ run[r].at = "advance" => SentWithin(u, Cap(StepRead + 1) + b)
          /\ run[r].at = "upsert" => SentWithin(u, Cap(run[r].step) + b)
      BY <1>1, <1>8 DEF StepsInv
    <2>2. v <= u /\ StepRead + 1 \in Nat /\ run[r].step \in Nat
      BY <1>5, <1>8, StepNumbers
    <2>3. Cap(StepRead + 1) \in Nat /\ Cap(run[r].step) \in Nat
      BY <2>2, StepNumbers
    <2>4. ASSUME run'[r].at = "send", run[r].at # "send"
          PROVE  SentWithin(1 + v, Cap(StepRead + 1) + b)
      <3>1. a = 0
        BY <1>8, <2>4 DEF Num, Writing
      <3>2. /\ l = 1 => Cap(StepRead) <= Cap(StepRead + 1)
            /\ l = 0 => Cap(StepRead + 1) = Cap(StepRead) + 1
        <4>1. l = 0 => StepRead < MaxSteps
          BY <1>8, <2>4, StepNumbers DEF LiveStep, StepRead, Lapsed
        <4>. QED
          BY <4>1, StepNumbers
      <3>. QED
        BY <1>9, <2>3, <3>1, <3>2, StepNumbers DEF SentWithin
    <2>5. run'[r].at = "upsert" => SentWithin(v, Cap(run'[r].step) + b)
      <3>1. CASE run[r].at = "upsert" /\ run'[r].step = run[r].step
        BY <2>1, <2>2, <2>3, <3>1, StepNumbers DEF SentWithin
      <3>2. CASE run[r].at = "advance" /\ run'[r].step = StepRead + 1
        BY <2>1, <2>2, <2>3, <3>2, StepNumbers DEF SentWithin
      <3>. QED
        BY <3>1, <3>2
    <2>6. /\ run'[r].at = "send" /\ run[r].at = "send" => SentWithin(1 + v, Cap(StepRead + 1) + b)
          /\ run'[r].at = "advance" => SentWithin(v, Cap(StepRead + 1) + b)
      BY <2>1, <2>2, <2>3, StepNumbers DEF SentWithin
    <2>. QED
      BY <2>4, <2>5, <2>6
  <1>12. /\ SentWithin(Lapsed + Crowd, Cap(StepRead) + Sum(Writing))'
         /\ \A q \in Runners : \A t \in Runners \ {q} :
               /\ run'[q].at = "send" =>
                     SentWithin(1 + Crowd, Cap(StepRead + 1) + Num(t, Writing))'
               /\ run'[q].at = "advance" => SentWithin(Crowd, Cap(StepRead + 1) + Num(t, Writing))'
               /\ run'[q].at = "upsert" => SentWithin(Crowd, Cap(run[q].step) + Num(t, Writing))'
    <2>1. /\ Lapsed' = l /\ Crowd' = v /\ Sum(Writing)' = a + b
          /\ Num(r, Writing)' = a /\ Num(s, Writing)' = b
      BY <1>1, <1>2, <1>3, <1>4, <1>8
    <2>2. /\ Cap(StepRead)' = Cap(StepRead) /\ Cap(StepRead + 1)' = Cap(StepRead + 1)
          /\ \A q \in Runners : Cap(run[q].step)' = Cap(run'[q].step)
      BY <1>2 DEF Cap
    <2>3. SentWithin(Lapsed + Crowd, Cap(StepRead) + Sum(Writing))'
      BY <1>9, <2>1, <2>2 DEF SentWithin
    <2>4. /\ run'[s].at = "send" => SentWithin(1 + Crowd, Cap(StepRead + 1) + Num(r, Writing))'
          /\ run'[s].at = "advance" => SentWithin(Crowd, Cap(StepRead + 1) + Num(r, Writing))'
          /\ run'[s].at = "upsert" => SentWithin(Crowd, Cap(run[s].step) + Num(r, Writing))'
      BY <1>10, <2>1, <2>2 DEF SentWithin
    <2>5. /\ run'[r].at = "send" => SentWithin(1 + Crowd, Cap(StepRead + 1) + Num(s, Writing))'
          /\ run'[r].at = "advance" => SentWithin(Crowd, Cap(StepRead + 1) + Num(s, Writing))'
          /\ run'[r].at = "upsert" => SentWithin(Crowd, Cap(run[r].step) + Num(s, Writing))'
      BY <1>11, <2>1, <2>2 DEF SentWithin
    <2>6. \A q \in Runners : \A t \in Runners \ {q} : (q = r /\ t = s) \/ (q = s /\ t = r)
      BY <1>1
    <2>. QED
      BY <2>3, <2>4, <2>5, <2>6
  <1>. QED
    BY <1>12 DEF StepsInv
\* A step that leaves the row alone and costs no more than it excuses.
Excused == messages.lapses + messages.torn + messages.met

\* A step that pays for what it sends keeps the count.
LEMMA StepsCost ==
    ASSUME UserTypes, UserTypes', StepsInv, funnel = "channel_bonus_reminder", NEW r \in Runners,
           UNCHANGED <<funnel, state>>,
           \A s \in Runners \ {r} : run'[s] = run[s],
           messages'.sent + Excused + Crowd' + Num(r, Writing)
             <= messages.sent + Excused' + Crowd + Num(r, Writing)',
           run'[r].at \in {"idle", "check", "advance"},
           run'[r].at = "advance" =>
              \A s \in Runners \ {r} : SentWithin(Crowd, Cap(StepRead + 1) + Num(s, Writing))'
    PROVE  StepsInv'
  <1>1. PICK s \in Runners \ {r} :
           Runners = {r, s} /\ \A places : Sum(places) = Num(r, places) + Num(s, places)
    BY TheOther
  <1>2. Lapsed' = Lapsed /\ StepRead' = StepRead
    BY DEF Lapsed, StepRead
  <1>3. Num(s, Writing)' = Num(s, Writing) /\ Num(r, Writing)' \in {0, 1} /\ Crowd' \in {0, 1}
    BY DEF Num, Crowd
  <1>4. Sum(Writing)' = Num(r, Writing)' + Num(s, Writing)
    <2>1. \/ Num(r, Writing)' = Num(r, Writing) /\ Sum(Writing)' = Sum(Writing)
          \/ Num(r, Writing)' = 1 /\ Num(r, Writing) = 0 /\ Sum(Writing)' = Sum(Writing) + 1
          \/ Num(r, Writing)' = 0 /\ Num(r, Writing) = 1 /\ Sum(Writing) = Sum(Writing)' + 1
      <3>1. CASE run'[r].at \in Writing <=> run[r].at \in Writing
        BY <3>1, SumMoves DEF Num
      <3>2. CASE run'[r].at \in Writing /\ run[r].at \notin Writing
        BY <3>2, SumMoves DEF Num
      <3>3. CASE run'[r].at \notin Writing /\ run[r].at \in Writing
        BY <3>3, SumMoves DEF Num
      <3>. QED
        BY <3>1, <3>2, <3>3
    <2>2. Sum(Writing) = Num(r, Writing) + Num(s, Writing) /\ Num(s, Writing) \in {0, 1}
      BY <1>1, StepNumbers
    <2>3. Sum(Writing)' \in Nat
      <3>1. Num(Backend, Writing)' \in {0, 1} /\ Num(Script, Writing)' \in {0, 1}
        BY DEF Num
      <3>. QED
        BY <3>1 DEF Sum
    <2>. QED
      BY <2>1, <2>2, <2>3
  <1>5. PICK u \in {0, 1}, v \in {0, 1}, l \in {0, 1}, a \in {0, 1}, c \in {0, 1}, b \in {0, 1} :
           /\ u = Crowd /\ v = Crowd' /\ l = Lapsed
           /\ a = Num(r, Writing) /\ c = Num(r, Writing)' /\ b = Num(s, Writing)
    BY <1>3, StepNumbers
  <1>6. PICK d \in Nat, e \in Nat, f \in Nat, g \in Nat :
           /\ d = messages.sent /\ e = messages.lapses + messages.torn + messages.met
           /\ f = messages'.sent /\ g = messages'.lapses + messages'.torn + messages'.met
    BY DEF UserTypes
  <1>7. f + e + v + a <= d + g + u + c
    BY <1>5, <1>6 DEF Excused
  <1>8. \A n \in Nat : Cap(n) \in Nat /\ Cap(n)' = Cap(n)
    BY StepNumbers DEF Cap
  <1>9. \A n, m, k \in Nat :
           /\ SentWithin(n, k) <=> d + n <= e + k
           /\ SentWithin(n, k)' <=> f + n <= g + k
    BY <1>6 DEF SentWithin, UserTypes
  <1>10. StepRead \in Nat /\ StepRead + 1 \in Nat /\ run[s].step \in Nat /\ run'[s] = run[s]
    BY StepNumbers
  <1>11. SentWithin(Lapsed + Crowd, Cap(StepRead) + Sum(Writing))'
    <2>1. SentWithin(l + u, Cap(StepRead) + (a + b))
      BY <1>1, <1>5 DEF StepsInv
    <2>2. f + (l + v) <= g + (Cap(StepRead) + (c + b))
      BY <1>7, <1>8, <1>9, <1>10, <2>1
    <2>3. PICK x \in Nat : x = Cap(StepRead) /\ x = Cap(StepRead)'
      <3>1. Cap(StepRead)' = Cap(StepRead)
        BY <1>2 DEF Cap
      <3>. QED
        BY <1>8, <1>10, <3>1
    <2>4. SentWithin(l + v, x + (c + b))'
      <3>1. l + v \in Nat /\ x + (c + b) \in Nat
        OBVIOUS
      <3>. QED
        BY <1>9, <2>2, <2>3, <3>1
    <2>. QED
      BY <1>2, <1>3, <1>4, <1>5, <2>3, <2>4 DEF SentWithin
  <1>12. /\ run'[s].at = "send" => SentWithin(1 + Crowd, Cap(StepRead + 1) + Num(r, Writing))'
         /\ run'[s].at = "advance" => SentWithin(Crowd, Cap(StepRead + 1) + Num(r, Writing))'
         /\ run'[s].at = "upsert" => SentWithin(Crowd, Cap(run[s].step) + Num(r, Writing))'
    <2>1. /\ run[s].at = "send" => SentWithin(1 + u, Cap(StepRead + 1) + a)
          /\ run[s].at = "advance" => SentWithin(u, Cap(StepRead + 1) + a)
          /\ run[s].at = "upsert" => SentWithin(u, Cap(run[s].step) + a)
      BY <1>1, <1>5 DEF StepsInv
    <2>2. /\ run[s].at = "send" => f + (1 + v) <= g + (Cap(StepRead + 1) + c)
          /\ run[s].at = "advance" => f + v <= g + (Cap(StepRead + 1) + c)
          /\ run[s].at = "upsert" => f + v <= g + (Cap(run[s].step) + c)
      <3>1. PICK x \in Nat, y \in Nat : x = Cap(StepRead + 1) /\ y = Cap(run[s].step)
        BY <1>8, <1>10
      <3>2. 1 + u \in Nat /\ u \in Nat /\ x + a \in Nat /\ y + a \in Nat
        BY <3>1
      <3>3. /\ run[s].at = "send" => d + (1 + u) <= e + (x + a)
            /\ run[s].at = "advance" => d + u <= e + (x + a)
            /\ run[s].at = "upsert" => d + u <= e + (y + a)
        BY <1>9, <2>1, <3>1, <3>2
      <3>. QED
        BY <1>7, <3>1, <3>3
    <2>. QED
      BY <1>2, <1>5, <1>6, <1>8, <1>10, <2>2 DEF SentWithin
  <1>13. \A q \in Runners : \A t \in Runners \ {q} :
               /\ run'[q].at = "send" =>
                     SentWithin(1 + Crowd, Cap(StepRead + 1) + Num(t, Writing))'
               /\ run'[q].at = "advance" => SentWithin(Crowd, Cap(StepRead + 1) + Num(t, Writing))'
               /\ run'[q].at = "upsert" => SentWithin(Crowd, Cap(run[q].step) + Num(t, Writing))'
    BY <1>1, <1>12
  <1>. QED
    BY <1>11, <1>13 DEF StepsInv

\* A message of the reminder is one of its steps.
LEMMA StepsSends ==
    ASSUME UserTypes, UserTypes', PlaceInv, StepsInv, NEW r \in Runners, SendTo(r)
    PROVE  StepsInv'
  <1>1. CASE funnel # "channel_bonus_reminder"
    BY <1>1 DEF StepsInv, SendTo, Quiet
  <1>2. CASE funnel = "channel_bonus_reminder"
    <2>1. UNCHANGED <<funnel, state>> /\ run[r].at = "send"
      BY DEF SendTo, Stored, Quiet, At
    <2>2. /\ messages'.sent = messages.sent + 1 /\ messages'.lapses = messages.lapses
          /\ messages'.torn = messages.torn /\ messages'.met = messages.met
      BY DEF SendTo, UserTypes
    <2>3. run'[r].at = "advance" /\ \A s \in Runners \ {r} : run'[s] = run[s]
      <3>1. After = "advance" /\ After \in Places
        BY <1>2 DEF After, Marked, Places, Recording
      <3>. QED
        BY <3>1, MoveIs DEF SendTo
    <2>4. Crowd' = Crowd
      <3>1. (\A q \in Runners : run'[q].at \notin {"idle", "terminal"})
               <=> \A q \in Runners : run[q].at \notin {"idle", "terminal"}
        BY <2>1, <2>3
      <3>. QED
        BY <3>1 DEF Crowd
    <2>5. Num(r, Writing) = 0 /\ Num(r, Writing)' = 1
      BY <2>1, <2>3 DEF Num, Writing
    <2>6. messages'.sent + Excused + Crowd' + Num(r, Writing)
             <= messages.sent + Excused' + Crowd + Num(r, Writing)'
      <3>1. Excused' = Excused /\ Excused \in Nat
        BY <2>2, StepNumbers DEF Excused
      <3>. QED
        BY <2>2, <2>4, <2>5, <3>1, StepNumbers
    <2>7. ASSUME NEW s \in Runners \ {r}
          PROVE  SentWithin(Crowd, Cap(StepRead + 1) + Num(s, Writing))'
      <3>1. SentWithin(1 + Crowd, Cap(StepRead + 1) + Num(s, Writing))
        BY <1>2, <2>1 DEF StepsInv
      <3>2. Num(s, Writing)' = Num(s, Writing) /\ StepRead' = StepRead
        BY <2>1, <2>3 DEF Num, StepRead
      <3>3. StepRead + 1 \in Nat
        BY StepNumbers
      <3>4. Cap(StepRead + 1) \in Nat /\ Cap(StepRead + 1)' = Cap(StepRead + 1)
        BY <3>2, <3>3, StepNumbers DEF Cap
      <3>. QED
        BY <2>2, <2>4, <3>1, <3>2, <3>4, StepNumbers DEF SentWithin
    <2>. QED
      BY <1>2, <2>1, <2>3, <2>6, <2>7, StepsCost
  <1>. QED
    BY <1>1, <1>2

\* A runner begins, alone or meeting the other.
LEMMA StepsBegins ==
    ASSUME UserTypes, UserTypes', StepsInv, NEW r \in Runners, BeginRun(r)
    PROVE  StepsInv'
  <1>0. UNCHANGED <<funnel, state>> /\ run[r].at = "idle"
    BY DEF BeginRun, Stored, At
  <1>1. CASE funnel # "channel_bonus_reminder"
    BY <1>0, <1>1 DEF StepsInv
  <1>2. CASE funnel = "channel_bonus_reminder"
    <2>1. PICK s \in Runners \ {r} : Runners = {r, s}
      BY TheOther
    <2>2. /\ run'[r].at \in {"idle", "check"}
          /\ \A q \in Runners \ {r} : run'[q] = run[q]
      <3>1. Resting.at = "idle" /\ [Resting EXCEPT !.at = "check"].at = "check"
        BY DEF Resting
      <3>. QED
        BY <3>1 DEF BeginRun, UserTypes
    <2>3. /\ messages'.sent = messages.sent /\ messages'.lapses = messages.lapses
          /\ messages'.torn = messages.torn
          /\ messages'.met = IF run[s].at # "idle" THEN messages.met + 1 ELSE messages.met
      BY <2>1 DEF BeginRun, UserTypes, At
    <2>4. Crowd = 0 /\ Crowd' = (IF run[s].at = "idle" THEN 0 ELSE Crowd') /\ Crowd' \in {0, 1}
      BY <1>0, <2>1, <2>2 DEF Crowd
    <2>5. Num(r, Writing) = 0 /\ Num(r, Writing)' = 0
      BY <1>0, <2>2 DEF Num, Writing
    <2>6. messages'.sent + Excused + Crowd' + Num(r, Writing)
             <= messages.sent + Excused' + Crowd + Num(r, Writing)'
      <3>1. CASE run[s].at = "idle"
        <4>1. Excused' = Excused /\ Excused \in Nat /\ Crowd' = 0
          BY <2>3, <2>4, <3>1, StepNumbers DEF Excused
        <4>. QED
          BY <2>3, <2>4, <2>5, <4>1, StepNumbers
      <3>2. CASE run[s].at # "idle"
        <4>1. Excused' = Excused + 1 /\ Excused \in Nat
          BY <2>3, <3>2, StepNumbers DEF Excused
        <4>. QED
          BY <2>3, <2>4, <2>5, <4>1, StepNumbers
      <3>. QED
        BY <3>1, <3>2
    <2>. QED
      BY <1>0, <1>2, <2>2, <2>6, StepsCost
  <1>. QED
    BY <1>1, <1>2

\* A torn cycle owes a message.
LEMMA StepsFails ==
    ASSUME UserTypes, UserTypes', StepsInv, NEW r \in Runners, RunFails(r)
    PROVE  StepsInv'
  <1>0. UNCHANGED <<funnel, state>>
    BY DEF RunFails, Stored
  <1>1. CASE funnel # "channel_bonus_reminder"
    BY <1>0, <1>1 DEF StepsInv
  <1>2. CASE funnel = "channel_bonus_reminder"
    <2>1. run'[r].at = "idle" /\ \A q \in Runners \ {r} : run'[q] = run[q]
      BY StopIs DEF RunFails
    <2>2. /\ messages'.sent = messages.sent /\ messages'.lapses = messages.lapses
          /\ messages'.torn = messages.torn + 1 /\ messages'.met = messages.met
      BY DEF RunFails, UserTypes
    <2>3. Crowd' = 0 /\ Num(r, Writing)' = 0
      BY <2>1 DEF Crowd, Num, Writing
    <2>4. Excused' = Excused + 1 /\ Excused \in Nat
      BY <2>2, StepNumbers DEF Excused
    <2>5. Num(r, Writing) \in {0, 1} /\ Crowd \in {0, 1} /\ messages.sent \in Nat
      BY StepNumbers
    <2>6. messages'.sent + Excused + Crowd' + Num(r, Writing)
             <= messages.sent + Excused' + Crowd + Num(r, Writing)'
      BY <2>2, <2>3, <2>4, <2>5
    <2>. QED
      BY <1>0, <1>2, <2>1, <2>6, StepsCost
  <1>. QED
    BY <1>1, <1>2
\* The row is written: it counts what its writer sent, or that there is no more to send.
LEMMA StepsRow ==
    ASSUME UserTypes, StepsInv, funnel = "channel_bonus_reminder", NEW r \in Runners,
           UNCHANGED <<funnel, messages>>,
           \A s \in Runners \ {r} : run'[s] = run[s],
           run'[r].at \in {"idle", "terminal"},
           state' \in StateRows, state'.term \in Nat,
           \/ run[r].at = "upsert" /\ state'.step = run[r].step
           \/ run[r].at = "terminal" /\ state'.step = MaxSteps
    PROVE  StepsInv'
  <1>1. PICK s \in Runners \ {r} :
           Runners = {r, s} /\ \A places : Sum(places) = Num(r, places) + Num(s, places)
    BY TheOther
  <1>2. Lapsed' = 0 /\ StepRead' = state'.step
    BY UserConstants DEF Lapsed, StepRead
  <1>3. Num(s, Writing)' = Num(s, Writing) /\ Num(r, Writing)' = 0 /\ Crowd' = 0
    BY DEF Num, Crowd, Writing
  <1>4. PICK u \in {0, 1}, l \in {0, 1}, a \in {0, 1}, b \in {0, 1} :
           u = Crowd /\ l = Lapsed /\ a = Num(r, Writing) /\ b = Num(s, Writing)
    BY StepNumbers
  <1>5. PICK x \in Nat : x = state'.step
    BY DEF StateRows
  <1>6. PICK d \in Nat, e \in Nat :
           d = messages.sent /\ e = messages.lapses + messages.torn + messages.met
    BY DEF UserTypes
  <1>7. \A n, k : (SentWithin(n, k) <=> d + n <= e + k) /\ (SentWithin(n, k)' <=> d + n <= e + k)
    BY <1>6 DEF SentWithin
  <1>8. Sum(Writing)' = b
    <2>1. Sum(Writing) = a + b
      BY <1>1, <1>4
    <2>2. run'[r].at \notin Writing
      BY DEF Writing
    <2>3. CASE run[r].at \in Writing
      <3>1. Sum(Writing) = Sum(Writing)' + 1 /\ a = 1
        BY <1>4, <2>2, <2>3, SumMoves DEF Num
      <3>2. Sum(Writing)' \in Nat
        <4>1. Num(Backend, Writing)' \in {0, 1} /\ Num(Script, Writing)' \in {0, 1}
          BY DEF Num
        <4>. QED
          BY <4>1 DEF Sum
      <3>. QED
        BY <2>1, <3>1, <3>2
    <2>4. CASE run[r].at \notin Writing
      <3>1. Sum(Writing)' = Sum(Writing) /\ a = 0
        BY <1>4, <2>2, <2>4, SumMoves DEF Num
      <3>. QED
        BY <2>1, <3>1
    <2>. QED
      BY <2>3, <2>4
  <1>9. PICK m \in Nat, y \in Nat, z \in Nat, k \in Nat, w \in Nat :
           /\ m = Cap(x) /\ y = Cap(x + 1) /\ z = Cap(run[s].step)
           /\ k = Cap(StepRead) /\ w = Cap(StepRead + 1)
    <2>1. x + 1 \in Nat /\ run[s].step \in Nat /\ StepRead \in Nat /\ StepRead + 1 \in Nat
      BY StepNumbers
    <2>. QED
      BY <2>1, StepNumbers
  <1>10. m <= y /\ k <= 3 /\ w <= 3
    BY <1>9, StepNumbers
  <1>11. /\ d + (l + u) <= e + (k + (a + b))
         /\ run[s].at = "send" => d + (1 + u) <= e + (w + a)
         /\ run[s].at = "advance" => d + u <= e + (w + a)
         /\ run[s].at = "upsert" => d + u <= e + (z + a)
         /\ run[r].at = "upsert" => d + u <= e + (Cap(run[r].step) + b)
    <2>1. Sum(Writing) = a + b
      BY <1>1, <1>4
    <2>. QED
      BY <1>1, <1>4, <1>7, <1>9, <2>1 DEF StepsInv
  <1>12. /\ d + 0 <= e + (m + b)
         /\ run[s].at = "send" => d + 1 <= e + (y + 0)
         /\ run[s].at = "advance" => d + 0 <= e + (y + 0)
         /\ run[s].at = "upsert" => d + 0 <= e + (z + 0)
    <2>1. CASE run[r].at = "upsert" /\ x = run[r].step
      <3>1. d + u <= e + (m + b) /\ a = 1
        BY <1>4, <1>9, <1>11, <2>1 DEF Num, Writing
      <3>2. run[s].at \in {"send", "advance", "upsert"} => u = 1
        BY <1>1, <1>4, <2>1 DEF Crowd
      <3>3. run[s].at = "send" => b = 0
        BY <1>4 DEF Num, Writing
      <3>. QED
        BY <1>10, <1>11, <3>1, <3>2, <3>3
    <2>2. CASE run[r].at = "terminal" /\ x = MaxSteps
      <3>1. a = 0 /\ m = 3 /\ y = 3
        BY <1>4, <1>9, <2>2 DEF Num, Writing, Cap, MaxSteps
      <3>. QED
        BY <1>10, <1>11, <3>1
    <2>. QED
      BY <1>5, <2>1, <2>2
  <1>13. /\ Cap(StepRead)' = m /\ Cap(StepRead + 1)' = y /\ Cap(run[s].step)' = z
    BY <1>1, <1>2, <1>5, <1>9 DEF Cap
  <1>14. SentWithin(Lapsed + Crowd, Cap(StepRead) + Sum(Writing))'
    BY <1>2, <1>3, <1>6, <1>8, <1>12, <1>13 DEF SentWithin
  <1>15. /\ run'[s].at = "send" => SentWithin(1 + Crowd, Cap(StepRead + 1) + Num(r, Writing))'
         /\ run'[s].at = "advance" => SentWithin(Crowd, Cap(StepRead + 1) + Num(r, Writing))'
         /\ run'[s].at = "upsert" => SentWithin(Crowd, Cap(run[s].step) + Num(r, Writing))'
    BY <1>1, <1>3, <1>6, <1>12, <1>13 DEF SentWithin
  <1>16. \A q \in Runners : \A t \in Runners \ {q} :
               /\ run'[q].at = "send" =>
                     SentWithin(1 + Crowd, Cap(StepRead + 1) + Num(t, Writing))'
               /\ run'[q].at = "advance" => SentWithin(Crowd, Cap(StepRead + 1) + Num(t, Writing))'
               /\ run'[q].at = "upsert" => SentWithin(Crowd, Cap(run[q].step) + Num(t, Writing))'
    BY <1>1, <1>15
  <1>. QED
    BY <1>14, <1>16 DEF StepsInv

\* A day may end the term of the row, which is counted as a lapse.
LEMMA StepsNextDay == ASSUME UserTypes, StepsInv, NextDay PROVE StepsInv'
  <1>1. /\ UNCHANGED <<funnel, run>>
        /\ \A r \in Runners : run[r].at = "idle"
        /\ Backend \in Runners /\ Script \in Runners
    BY DEF NextDay, At, Runners
  <1>2. CASE funnel # "channel_bonus_reminder"
    BY <1>1, <1>2 DEF StepsInv
  <1>3. CASE funnel = "channel_bonus_reminder"
    <2>1. /\ Crowd = 0 /\ Crowd' = 0 /\ Sum(Writing) = 0 /\ Sum(Writing)' = 0
      BY <1>1 DEF Crowd, Sum, Num, Writing
    <2>2. /\ messages'.sent = messages.sent /\ messages'.torn = messages.torn
          /\ messages'.met = messages.met
          /\ messages'.lapses = IF state # None /\ state.term = 0 THEN messages.lapses + 1
                                ELSE messages.lapses
      BY DEF NextDay, UserTypes
    <2>3. /\ StepRead' = StepRead
          /\ messages'.lapses - messages.lapses = Lapsed' - Lapsed
      <3>1. CASE state = None \/ state.term < 0
        <4>1. state' = state /\ messages'.lapses = messages.lapses
          BY <2>2, <3>1, StepNumbers DEF NextDay
        <4>2. Lapsed' = Lapsed /\ StepRead' = StepRead
          BY <4>1 DEF Lapsed, StepRead
        <4>. QED
          BY <4>1, <4>2, StepNumbers
      <3>2. CASE ~(state = None \/ state.term < 0)
        <4>1. state \in StateRows /\ state.term \in Nat /\ state # None
          BY <3>2, StepNumbers DEF UserTypes
        <4>2. state' = [state EXCEPT !.term = state.term - 1]
          BY <3>2 DEF NextDay
        <4>3. state' \in StateRows /\ state'.term = state.term - 1 /\ state'.step = state.step
          BY <4>1, <4>2 DEF StateRows
        <4>4. StepRead' = StepRead /\ Lapsed = 0 /\ state' # None
          BY <4>1, <4>3, UserConstants DEF StepRead, Lapsed
        <4>5. Lapsed' = IF state.term = 0 THEN 1 ELSE 0
          BY <4>1, <4>3, <4>4 DEF Lapsed
        <4>. QED
          BY <2>2, <4>1, <4>4, <4>5, StepNumbers
      <3>. QED
        BY <3>1, <3>2
    <2>4. Cap(StepRead)' = Cap(StepRead) /\ Cap(StepRead) \in Nat
      BY <2>3, StepNumbers DEF Cap
    <2>5. Lapsed' \in {0, 1} /\ Lapsed \in {0, 1}
      BY DEF Lapsed
    <2>6. SentWithin(Lapsed + Crowd, Cap(StepRead) + Sum(Writing))
      BY <1>3 DEF StepsInv
    <2>7. messages'.sent + (Lapsed' + 0) <= messages'.lapses + messages'.torn + messages'.met
                                             + (Cap(StepRead) + 0)
      <3>1. messages'.lapses \in Nat
        BY <2>2, StepNumbers
      <3>. QED
        <4>1. PICK c \in Nat, x \in {0, 1}, y \in {0, 1} : c = Cap(StepRead) /\ x = Lapsed /\ y = Lapsed'
          BY <2>4, <2>5
        <4>2. messages.sent + (x + 0) <= messages.lapses + messages.torn + messages.met + (c + 0)
          BY <2>1, <2>6, <4>1 DEF SentWithin
        <4>3. messages'.lapses = messages.lapses + (y - x)
          BY <2>3, <3>1, <4>1, StepNumbers
        <4>. QED
          BY <2>2, <4>1, <4>2, <4>3, StepNumbers
    <2>8. SentWithin(Lapsed + Crowd, Cap(StepRead) + Sum(Writing))'
      BY <2>1, <2>4, <2>7 DEF SentWithin
    <2>. QED
      BY <1>1, <2>8 DEF StepsInv
  <1>. QED
    BY <1>2, <1>3

\* Every step keeps the count of the steps.
LEMMA StepsStep == ASSUME UserTypes, UserTypes', PlaceInv, StepsInv, UserStep PROVE StepsInv'
  <1>0. funnel' = funnel
    BY UserTypesStep
  <1>1. CASE funnel # "channel_bonus_reminder"
    BY <1>0, <1>1 DEF StepsInv
  <1>2. CASE funnel = "channel_bonus_reminder"
    <2>1. CASE LifeStep
      <3>1. UNCHANGED <<funnel, day, run, marked, state, offeredOn, codes, messages>>
        BY <2>1 DEF LifeStep, TakesTrial, Connects, KeyLapses, Renews, MakesLink, ClaimsBonus,
           Lives
      <3>. QED
        BY <3>1 DEF StepsInv, SentWithin, Lapsed, Crowd, Cap, StepRead, Sum, Num
    <2>2. ASSUME NEW r \in Runners, IsClaimed(r) \/ DueStep(r) \/ AskChannel(r) \/ RereadState(r)
          PROVE  StepsInv'
      <3>1. UNCHANGED <<funnel, state, messages>>
        BY <2>2 DEF IsClaimed, DueStep, AskChannel, RereadState, Stored, Quiet
      <3>2. run[r].at \in {"check", "state", "member", "reread"}
        BY <2>2 DEF IsClaimed, DueStep, AskChannel, RereadState, At
      <3>3. \/ Stop(r)
            \/ \E p \in {"terminal", "state", "member", "reread"} : Move(r, p)
            \/ Move(r, "send") /\ LiveStep < MaxSteps
        BY <2>2 DEF IsClaimed, DueStep, AskChannel, RereadState
      <3>4. /\ run'[r].at \in {"idle", "terminal", "state", "member", "reread", "send"}
            /\ run'[r].at = "send" => LiveStep < MaxSteps
            /\ \A s \in Runners \ {r} : run'[s] = run[s]
        <4>1. {"terminal", "state", "member", "reread", "send"} \subseteq Places
          BY DEF Places, Before, Passing
        <4>. QED
          BY <3>3, <4>1, MoveIs, StopIs
      <3>. QED
        BY <1>2, <3>1, <3>2, <3>4, StepsWalks DEF Writing
    <2>3. ASSUME NEW r \in Runners, ReadStep(r) PROVE StepsInv'
      <3>1. /\ UNCHANGED <<funnel, state, messages>> /\ run[r].at = "advance"
            /\ run'[r].at = "upsert" /\ run'[r].step = StepRead + 1
            /\ \A s \in Runners \ {r} : run'[s] = run[s]
        BY <2>3 DEF ReadStep, Stored, Quiet, At, UserTypes
      <3>. QED
        BY <1>2, <3>1, StepsWalks DEF Writing
    <2>4. ASSUME NEW r \in Runners, WriteStep(r) PROVE StepsInv'
      <3>1. /\ UNCHANGED <<funnel, messages>> /\ run[r].at = "upsert"
            /\ state' = [step |-> run[r].step, sentOn |-> day, term |-> StateTtl]
        BY <2>4 DEF WriteStep, Quiet, At
      <3>2. run'[r].at \in {"idle", "terminal"} /\ \A s \in Runners \ {r} : run'[s] = run[s]
        BY <2>4, MoveIs, StopIs DEF WriteStep, Places
      <3>3. /\ state' \in StateRows /\ state'.term \in Nat /\ state'.step = run[r].step
        BY <3>1, StepNumbers, UserConstants DEF StateRows, UserTypes
      <3>. QED
        BY <1>2, <3>1, <3>2, <3>3, StepsRow
    <2>5. ASSUME NEW r \in Runners, MarkTerminal(r) PROVE StepsInv'
      <3>1. UNCHANGED <<funnel, messages>> /\ run[r].at = "terminal" /\ state' = Terminal
        BY <2>5 DEF MarkTerminal, Quiet, At
      <3>2. run'[r].at = "idle" /\ \A s \in Runners \ {r} : run'[s] = run[s]
        BY <2>5, StopIs DEF MarkTerminal
      <3>3. /\ state' \in StateRows /\ state'.term \in Nat /\ state'.step = MaxSteps
        BY <3>1, UserConstants DEF StateRows, Terminal, MaxSteps
      <3>. QED
        BY <1>2, <3>1, <3>2, <3>3, StepsRow
    <2>6. ASSUME NEW r \in Runners,
                 \/ IsMarked(r) \/ HasLink(r) \/ MarkUser(r)
                 \/ HasPaid(r) \/ WasOffered(r) \/ IssueCode(r) \/ RecordOffer(r)
          PROVE  StepsInv'
      BY <1>2, <2>6 DEF IsMarked, HasLink, MarkUser, HasPaid, WasOffered, IssueCode, RecordOffer,
         PlaceInv, At, Marked
    <2>. QED
      BY <2>1, <2>2, <2>3, <2>4, <2>5, <2>6, StepsSends, StepsBegins, StepsFails, StepsNextDay
         DEF UserStep, Walk
  <1>. QED
    BY <1>1, <1>2

\* Every step of the funnels about users keeps the facts.
LEMMA UserStepKeeps == UserInv /\ UserStep => UserInv'
  BY UserTypesStep, EarlyStep, CodesStep, StepsStep DEF UserInv

\* So does a step of another kind of work.
LEMMA UserStays == UserInv /\ UNCHANGED userVars => UserInv'
  <1>. SUFFICES ASSUME UserInv, UNCHANGED userVars PROVE UserInv'
    OBVIOUS
  <1>1. UNCHANGED <<funnel, day, run, marked, state, offeredOn, codes, messages>>
    BY DEF userVars
  <1>2. UserTypes' /\ PlaceInv'
    BY <1>1 DEF UserInv, UserTypes, PlaceInv
  <1>3. EarlyInv'
    BY <1>1 DEF UserInv, EarlyInv, Slack, TooSoon, Covered, Bound, Gap
  <1>4. CodesInv'
    BY <1>1 DEF UserInv, CodesInv, CodeSlack, Sum, Num
  <1>5. StepsInv'
    BY <1>1 DEF UserInv, StepsInv, SentWithin, Lapsed, Crowd, Cap, StepRead, Sum, Num
  <1>. QED
    BY <1>2, <1>3, <1>4, <1>5 DEF UserInv

\* The inductive invariant of the funnels about users.
LEMMA UserInvariant == Spec => []UserInv
  <1>1. Init => UserInv
    BY UserInitInv DEF Init
  <1>2. UserInv /\ [Next]_schedulerVars => UserInv'
    <2>. SUFFICES ASSUME UserInv, [Next]_schedulerVars PROVE UserInv'
      OBVIOUS
    <2>1. UserStep \/ UNCHANGED userVars
      BY DEF Next, RunsKeys, RunsUsers, RunsSync, RunsBulk, RunsReports, schedulerVars
    <2>. QED
      BY <2>1, UserStepKeeps, UserStays
  <1>. QED
    BY <1>1, <1>2, PTL DEF Spec

\* Few messages follow, once the runners on their way are counted out.
LEMMA UserInvImplies == UserInv => FewMessages
  <1>. SUFFICES ASSUME UserInv PROVE FewMessages
    OBVIOUS
  <1>. USE DEF UserInv
  <1>0. PICK s \in Runners \ {Backend} :
           /\ Runners = {Backend, s}
           /\ \A places : Sum(places) = Num(Backend, places) + Num(s, places)
    BY TheOther DEF Runners
  <1>1. messages.early <= messages.torn + messages.met
    BY StepNumbers DEF EarlyInv, Slack, UserTypes
  <1>2. ASSUME funnel = "channel_bonus_reminder"
        PROVE  messages.sent <= MaxSteps + messages.lapses + (messages.torn + messages.met)
    <2>1. SentWithin(Lapsed + Crowd, Cap(StepRead) + Sum(Writing))
      BY <1>2 DEF StepsInv
    <2>2. Cap(StepRead) \in Nat /\ Cap(StepRead) <= 3
      BY StepNumbers
    <2>3. ASSUME NEW r \in Runners, NEW q \in Runners \ {r}, run[r].at \in Writing
          PROVE  SentWithin(Crowd, 3 + Num(q, Writing))
      <3>1. PICK c \in Nat : c <= 3 /\ SentWithin(Crowd, c + Num(q, Writing))
        <4>1. CASE run[r].at = "advance"
          <5>1. StepRead + 1 \in Nat
            BY StepNumbers
          <5>2. Cap(StepRead + 1) \in Nat /\ Cap(StepRead + 1) <= 3
            BY <5>1, StepNumbers
          <5>. QED
            BY <1>2, <4>1, <5>2 DEF StepsInv
        <4>2. CASE run[r].at = "upsert"
          <5>1. Cap(run[r].step) \in Nat /\ Cap(run[r].step) <= 3
            BY StepNumbers
          <5>. QED
            BY <1>2, <4>2, <5>1 DEF StepsInv
        <4>. QED
          BY <2>3, <4>1, <4>2 DEF Writing
      <3>. QED
        BY <3>1, StepNumbers DEF SentWithin
    <2>4. CASE run[Backend].at \notin Writing /\ run[s].at \notin Writing
      <3>1. Sum(Writing) = 0
        BY <1>0, <2>4 DEF Num
      <3>. QED
        BY <2>1, <2>2, <3>1, StepNumbers DEF SentWithin, MaxSteps
    <2>5. ASSUME NEW r \in Runners, NEW q \in Runners \ {r}, Runners = {r, q},
                 run[r].at \in Writing
          PROVE  messages.sent <= MaxSteps + messages.lapses + (messages.torn + messages.met)
      <3>1. SentWithin(Crowd, 3 + Num(q, Writing))
        BY <2>3, <2>5
      <3>2. Num(q, Writing) <= Crowd /\ Num(q, Writing) \in {0, 1} /\ Crowd \in {0, 1}
        <4>1. run[q].at \in Writing => Crowd = 1
          BY <2>5 DEF Crowd, Writing
        <4>. QED
          BY <4>1, StepNumbers DEF Num
      <3>. QED
        BY <3>1, <3>2, StepNumbers DEF SentWithin, MaxSteps
    <2>. QED
      BY <1>0, <2>4, <2>5 DEF Runners
  <1>3. codes <= Cardinality(offeredOn) + (messages.torn + messages.met)
                   + Cardinality({r \in Runners : ~At(r, "idle")})
    <2>. DEFINE B == {r \in Runners : ~At(r, "idle")}
    <2>1. IsFiniteSet(B) /\ Cardinality(B) \in Nat /\ Sum(Holding) <= Cardinality(B)
      <3>1. Num(Backend, Holding) = 1 => Backend \in B
        BY <1>0 DEF Num, Holding, At
      <3>2. Num(s, Holding) = 1 => s \in B
        BY <1>0 DEF Num, Holding, At
      <3>3. Num(Backend, Holding) \in {0, 1} /\ Num(s, Holding) \in {0, 1}
        BY DEF Num
      <3>4. B = {} \/ B = {Backend} \/ B = {s} \/ B = {Backend, s}
        BY <1>0
      <3>5. /\ Cardinality({}) = 0 /\ IsFiniteSet({})
            /\ Cardinality({Backend}) = 1 /\ IsFiniteSet({Backend})
            /\ Cardinality({s}) = 1 /\ IsFiniteSet({s})
            /\ Cardinality({Backend, s}) = 2 /\ IsFiniteSet({Backend, s})
        <4>1. Cardinality({Backend}) = 1 /\ IsFiniteSet({Backend})
          BY FS_Singleton
        <4>2. {Backend, s} = {Backend} \cup {s} /\ s \notin {Backend}
          OBVIOUS
        <4>3. IsFiniteSet({Backend} \cup {s}) /\ Cardinality({Backend} \cup {s}) = 1 + 1
          BY <4>1, <4>2, FS_AddElement
        <4>4. Cardinality({s}) = 1 /\ IsFiniteSet({s})
          BY FS_Singleton
        <4>5. Cardinality({}) = 0 /\ IsFiniteSet({})
          BY FS_EmptySet
        <4>6. Cardinality({Backend, s}) = 1 + 1 /\ IsFiniteSet({Backend, s})
          BY <4>2, <4>3, Zenon
        <4>7. Cardinality({Backend, s}) = 2
          BY <4>6
        <4>. QED
          BY <4>1, <4>4, <4>5, <4>6, <4>7, Zenon
      <3>6. Sum(Holding) = Num(Backend, Holding) + Num(s, Holding) /\ s # Backend
        BY <1>0
      <3>. HIDE DEF B
      <3>7. CASE B = {}
        BY <3>1, <3>2, <3>3, <3>5, <3>6, <3>7
      <3>8. CASE B = {Backend}
        BY <3>2, <3>3, <3>5, <3>6, <3>8
      <3>9. CASE B = {s}
        BY <3>1, <3>3, <3>5, <3>6, <3>9
      <3>10. CASE B = {Backend, s}
        BY <3>3, <3>5, <3>6, <3>10
      <3>. QED
        BY <3>4, <3>7, <3>8, <3>9, <3>10
    <2>2. CASE funnel # "winback_offer"
      <3>. HIDE DEF B
      <3>1. codes = 0
        BY <2>2 DEF CodesInv
      <3>2. codes <= Cardinality(offeredOn) + (messages.torn + messages.met) + Cardinality(B)
        BY <2>1, <3>1, CodeNumbers
      <3>. QED
        BY <3>2 DEF B
    <2>3. CASE funnel = "winback_offer"
      <3>. HIDE DEF B
      <3>1. PICK n \in Nat : CodeSlack(n)
        BY <2>3, CodeNumbers DEF CodesInv
      <3>2. codes <= Cardinality(offeredOn) + (messages.torn + messages.met) + Cardinality(B)
        BY <2>1, <3>1, CodeNumbers DEF CodeSlack
      <3>. QED
        BY <3>2 DEF B
    <2>. QED
      BY <2>2, <2>3
  <1>. QED
    BY <1>1, <1>2, <1>3 DEF FewMessages

\* For any terms of the marks and steps that fit each other, a user is not flooded: every
\* message too many is owed to a cycle that failed or met another.
THEOREM FewMessagesHolds == Spec => []FewMessages
  BY UserInvariant, UserInvImplies, PTL
-----------------------------------------------------------------------------
(* The funnels about keys                                                  *)

Reminders == {"key_expiry_24h", "key_expiry_10h"}
Grace == "key_expired_grace"
Stages == {"consider", "check", "send", "mark", "persist"}
Walks == [at : Stages, nth : 1..3, held : Records \cup {Shared}]
Loads == [at : {"write"}, image : Records]
Saves == [at : {"save"}, copy : Records]
Resets == [at : {"reset"}, copy : Records \cup {Shared}]
Turn(f) == IF f = "key_expiry_24h" THEN 1 ELSE IF f = "key_expiry_10h" THEN 2 ELSE 3
Term(f) == Funnels[Turn(f)].ttl

KeyTypes ==
    /\ hour \in 0..23 /\ ran \in BOOLEAN /\ disturbed \in BOOLEAN /\ keyFaults \in Nat
    /\ left \in [Periods -> Int] /\ row \in Records /\ cached \in Records
    /\ mark \in [KeyFunnels -> Nat \cup {None}]
    /\ \A f \in KeyFunnels : mark[f] # None => mark[f] <= Term(f)
    /\ cycle \in {Idle} \cup Walks
    /\ reload \in {NoReload} \cup Loads
    /\ renewal \in {NoRenewal} \cup Saves \cup Resets
    /\ shown \in [KeyFunnels -> [Periods -> Nat]]
    /\ unmarked \in [KeyFunnels -> Nat]

\* The three funnels, their order, and the keys they write about.
Due(f, l) == IF f = Grace THEN l < 0 ELSE 0 < l /\ l <= (IF f = "key_expiry_10h" THEN 10 ELSE 24)

\* The three funnels by their place, their mark and their class.
LEMMA FunnelFacts ==
    /\ Len(Funnels) = 3
    /\ KeyFunnels = {"key_expiry_24h", "key_expiry_10h", Grace}
    /\ \A n \in 1..3 : Funnels[n].id \in KeyFunnels /\ Turn(Funnels[n].id) = n
    /\ \A f \in KeyFunnels : Turn(f) \in 1..3 /\ Funnels[Turn(f)].id = f
    /\ Term("key_expiry_24h") = 25 /\ Term("key_expiry_10h") = 10 /\ Term(Grace) = 24
    /\ \A n \in 1..3 : Funnels[n].ttl = Term(Funnels[n].id)
    /\ \A n \in 1..3, l \in Int :
          NotifiesOf([left |-> l], Funnels[n].segment) <=> Due(Funnels[n].id, l)
  <1>1. /\ Len(Funnels) = 3 /\ DOMAIN Funnels = 1..3
        /\ Funnels[1] = Expiry24h /\ Funnels[2] = Expiry10h /\ Funnels[3] = ExpiredGrace
    BY DEF Funnels
  <1>2. /\ Expiry24h.id = "key_expiry_24h" /\ Expiry24h.ttl = 25 /\ Expiry24h.segment = "expiring_24h"
        /\ Expiry10h.id = "key_expiry_10h" /\ Expiry10h.ttl = 10 /\ Expiry10h.segment = "expiring_10h"
        /\ ExpiredGrace.id = Grace /\ ExpiredGrace.ttl = 24 /\ ExpiredGrace.segment = "expired"
    BY DEF Expiry24h, Expiry10h, ExpiredGrace, Grace
  <1>3. Range(Funnels) = {Expiry24h, Expiry10h, ExpiredGrace}
    BY <1>1 DEF Range
  <1>4. KeyFunnels = {"key_expiry_24h", "key_expiry_10h", Grace}
    BY <1>2, <1>3 DEF KeyFunnels
  <1>5. \A n \in 1..3 : n = 1 \/ n = 2 \/ n = 3
    OBVIOUS
  <1>6. \A n \in 1..3 : Funnels[n].id \in KeyFunnels /\ Turn(Funnels[n].id) = n
    BY <1>1, <1>2, <1>4, <1>5 DEF Turn, Grace
  <1>7. \A f \in KeyFunnels : Turn(f) \in 1..3 /\ Funnels[Turn(f)].id = f
    BY <1>1, <1>2, <1>4 DEF Turn, Grace
  <1>8. Term("key_expiry_24h") = 25 /\ Term("key_expiry_10h") = 10 /\ Term(Grace) = 24
    BY <1>1, <1>2 DEF Term, Turn, Grace
  <1>9. \A n \in 1..3 : Funnels[n].ttl = Term(Funnels[n].id)
    BY <1>6 DEF Term
  <1>10. ASSUME NEW n \in 1..3, NEW l \in Int
         PROVE  NotifiesOf([left |-> l], Funnels[n].segment) <=> Due(Funnels[n].id, l)
    <2>1. [left |-> l].left = l
      OBVIOUS
    <2>2. CASE n = 1
      <3>1. NotifiesOf([left |-> l], "expiring_24h") <=> 0 < l /\ l <= 24
        BY <2>1 DEF NotifiesOf, Within
      <3>. QED
        BY <1>1, <1>2, <2>2, <3>1 DEF Due, Grace
    <2>3. CASE n = 2
      <3>1. NotifiesOf([left |-> l], "expiring_10h") <=> 0 < l /\ l <= 10
        BY <2>1 DEF NotifiesOf, Within
      <3>. QED
        BY <1>1, <1>2, <2>3, <3>1 DEF Due, Grace
    <2>4. CASE n = 3
      <3>1. NotifiesOf([left |-> l], "expired") <=> l < 0
        BY <2>1 DEF NotifiesOf, IsExpired
      <3>. QED
        BY <1>1, <1>2, <2>4, <3>1 DEF Due, Grace
    <2>. QED
      BY <1>5, <2>2, <2>3, <2>4
  <1>. QED
    BY <1>1, <1>4, <1>6, <1>7, <1>8, <1>9, <1>10

\* What the cycle holds while it walks.
LEMMA Walking ==
    ASSUME KeyTypes, cycle.at # "idle"
    PROVE  /\ cycle \in Walks /\ cycle.at \in Stages /\ cycle.nth \in 1..3
           /\ cycle.held \in Records \cup {Shared}
           /\ Held \in Records /\ Held.period \in Periods
           /\ Funnel \in KeyFunnels /\ Turn(Funnel) = cycle.nth /\ left[Held.period] \in Int
  <1>1. cycle \in Walks
    BY DEF KeyTypes, Idle
  <1>2. cycle.at \in Stages /\ cycle.nth \in 1..3 /\ cycle.held \in Records \cup {Shared}
    BY <1>1 DEF Walks
  <1>3. Held \in Records
    BY <1>2 DEF Held, Left, KeyTypes
  <1>4. Held.period \in Periods
    BY <1>3 DEF Records
  <1>. QED
    BY <1>1, <1>2, <1>3, <1>4, FunnelFacts DEF Funnel, KeyTypes

\* The cycle goes on with its funnel, with the next, or stays where it is.
Goes(place) ==
    /\ cycle' \in Walks /\ cycle'.at = place
    /\ cycle'.nth = cycle.nth /\ Funnel' = Funnel /\ Held' = Held
Passes ==
    /\ cycle' \in {Idle} \cup Walks
    /\ IF cycle.nth = 3 THEN cycle'.at = "idle" ELSE cycle'.at = "consider" /\ cycle'.nth = cycle.nth + 1
    /\ cycle'.at # "idle" => Held' = Held
Stays ==
    /\ cycle' \in {Idle} \cup Walks
    /\ cycle'.at = cycle.at /\ cycle'.nth = cycle.nth /\ Funnel' = Funnel
    /\ cycle.at # "idle" => Held'.period = Held.period /\ Held'.flags \subseteq Held.flags

\* The cycle goes on with the same funnel.
LEMMA GoesOn ==
    ASSUME KeyTypes, cycle.at # "idle", NEW place \in Stages,
           cycle' = [cycle EXCEPT !.at = place], cached' = cached
    PROVE  Goes(place)
  <1>1. /\ cycle' \in Walks /\ cycle'.at = place /\ cycle'.nth = cycle.nth
        /\ cycle'.held = cycle.held
    BY Walking DEF Walks
  <1>2. Funnel' = Funnel
    BY <1>1 DEF Funnel
  <1>3. Held' = Held
    BY <1>1 DEF Held, Left
  <1>. QED
    BY <1>1, <1>2, <1>3 DEF Goes

\* The cycle passes to the next funnel, or is over.
LEMMA PassesOn ==
    ASSUME KeyTypes, cycle.at # "idle", cycle' = Passed, cached' = cached
    PROVE  Passes
  <1>0. Idle.at = "idle"
    BY DEF Idle
  <1>1. CASE cycle.nth = 3
    BY <1>0, <1>1, FunnelFacts DEF Passed, Passes
  <1>2. CASE cycle.nth # 3
    <2>1. cycle' = [cycle EXCEPT !.at = "consider", !.nth = cycle.nth + 1]
      BY <1>2, FunnelFacts DEF Passed
    <2>2. cycle \in Walks /\ cycle.nth + 1 \in 1..3
      BY <1>2, Walking
    <2>3. cycle' \in Walks /\ cycle'.at = "consider" /\ cycle'.nth = cycle.nth + 1
          /\ cycle'.held = cycle.held
      BY <2>1, <2>2 DEF Walks, Stages
    <2>4. Held' = Held
      BY <2>3 DEF Held, Left
    <2>. QED
      BY <1>2, <2>3, <2>4 DEF Passes
  <1>. QED
    BY <1>1, <1>2

\* Who holds an object that is replaced keeps what it was.
LEMMA StaysSo ==
    ASSUME KeyTypes, cycle' = Replaced
    PROVE  Stays
  <1>1. CASE cycle.at = "idle"
    <2>1. cycle = Idle
      BY <1>1 DEF KeyTypes, Walks, Stages
    <2>2. Idle.at = "idle" /\ Idle.held = None /\ Idle.nth = 1
      BY DEF Idle
    <2>3. cycle' = Idle
      BY <2>1, <2>2, Placeholders DEF Replaced, Idle
    <2>. QED
      BY <1>1, <2>1, <2>2, <2>3 DEF Stays, Funnel
  <1>2. CASE cycle.at # "idle"
    <2>1. cycle' = [cycle EXCEPT !.held = Held]
      BY DEF Replaced, Held, Left
    <2>2. /\ cycle' \in Walks /\ cycle'.at = cycle.at /\ cycle'.nth = cycle.nth
          /\ cycle'.held = Held
      BY <1>2, <2>1, Walking DEF Walks
    <2>3. Held' = Held
      BY <1>2, <2>2, Walking, Placeholders DEF Held, Left
    <2>4. Funnel' = Funnel
      BY <2>2 DEF Funnel
    <2>. QED
      BY <2>2, <2>3, <2>4 DEF Stays
  <1>. QED
    BY <1>1, <1>2

\* The cycle and the object it holds are left alone.
LEMMA StaysAlone ==
    ASSUME KeyTypes, cycle' = cycle, cached' = cached
    PROVE  Stays
  <1>. QED
    BY DEF Stays, KeyTypes, Funnel, Held, Left

\* The statement that sets the flag, whoever else holds the object.
LEMMA MarkSentIs ==
    ASSUME KeyTypes, MarkSent
    PROVE  /\ cycle.at = "mark" /\ cycle' \in Walks /\ cycle'.at = "persist"
           /\ cycle'.nth = cycle.nth /\ Funnel' = Funnel
           /\ Held' \in Records /\ Held'.period = Held.period
           /\ Held'.flags = Held.flags \cup {Funnel}
           /\ cached' \in Records /\ cached'.period = cached.period
           /\ cached'.flags \subseteq cached.flags \cup {Funnel}
           /\ mark' \in [KeyFunnels -> Nat \cup {None}]
           /\ mark'[Funnel] = Term(Funnel) /\ Term(Funnel) \in Nat
           /\ \A f \in KeyFunnels \ {Funnel} : mark'[f] = mark[f]
           /\ UNCHANGED <<hour, ran, left, row, reload, renewal, shown, unmarked, disturbed,
                          keyFaults>>
  <1>. DEFINE flagged == [Held EXCEPT !.flags = Held.flags \cup {Funnel}]
  <1>0. /\ cycle.at = "mark" /\ mark' = [mark EXCEPT ![Funnel] = Funnels[cycle.nth].ttl]
        /\ IF cycle.held = Shared
           THEN cached' = flagged /\ cycle' = [cycle EXCEPT !.at = "persist"]
           ELSE cycle' = [cycle EXCEPT !.at = "persist", !.held = flagged] /\ cached' = cached
        /\ UNCHANGED <<hour, ran, left, row, reload, renewal, shown, unmarked, disturbed,
                       keyFaults>>
    BY DEF MarkSent
  <1>1. cycle \in Walks /\ Held \in Records /\ Funnel \in KeyFunnels /\ cycle.nth \in 1..3
    BY <1>0, Walking
  <1>2. /\ flagged \in Records /\ flagged.period = Held.period
        /\ flagged.flags = Held.flags \cup {Funnel}
    BY <1>1 DEF Records
  <1>. HIDE DEF flagged
  <1>3. /\ mark' \in [KeyFunnels -> Nat \cup {None}]
        /\ mark'[Funnel] = Term(Funnel) /\ Term(Funnel) \in Nat
        /\ \A f \in KeyFunnels \ {Funnel} : mark'[f] = mark[f]
    <2>1. Funnels[cycle.nth].ttl = Term(Funnel)
      BY <1>1, FunnelFacts DEF Funnel
    <2>2. Term(Funnel) \in Nat
      BY <1>1, FunnelFacts
    <2>. QED
      BY <1>0, <1>1, <2>1, <2>2 DEF KeyTypes
  <1>4. CASE cycle.held = Shared
    <2>1. /\ cycle' \in Walks /\ cycle'.at = "persist" /\ cycle'.nth = cycle.nth
          /\ cycle'.held = Shared
      BY <1>0, <1>1, <1>4 DEF Walks, Stages
    <2>2. Held = cached /\ Held' = cached' /\ cached' = flagged
      BY <1>0, <1>4, <2>1 DEF Held, Left
    <2>3. Funnel' = Funnel
      BY <2>1 DEF Funnel
    <2>. QED
      BY <1>0, <1>1, <1>2, <1>3, <2>1, <2>2, <2>3
  <1>5. CASE cycle.held # Shared
    <2>1. /\ cycle' \in Walks /\ cycle'.at = "persist" /\ cycle'.nth = cycle.nth
          /\ cycle'.held = flagged
      BY <1>0, <1>1, <1>2, <1>5 DEF Walks, Stages
    <2>2. Held' = flagged
      BY <1>2, <2>1, Placeholders DEF Held, Left
    <2>3. Funnel' = Funnel
      BY <2>1 DEF Funnel
    <2>. QED
      BY <1>0, <1>1, <1>2, <1>3, <1>5, <2>1, <2>2, <2>3 DEF KeyTypes
  <1>. QED
    BY <1>4, <1>5

\* A reload puts the row it read in the place of the object others hold.
LEMMA WriteKeysIs ==
    ASSUME KeyTypes, WriteKeys
    PROVE  /\ reload.at = "write" /\ reload \in Loads /\ cached' = reload.image
           /\ reload.image \in Records /\ reload' = NoReload /\ Stays
           /\ renewal' \in {NoRenewal} \cup Saves \cup Resets /\ renewal'.at = renewal.at
           /\ renewal.at = "save" => renewal'.copy = renewal.copy
           /\ renewal.at = "reset" => Left(renewal.copy)' = Left(renewal.copy)
           /\ UNCHANGED <<hour, ran, left, row, mark, shown, unmarked, disturbed, keyFaults>>
  <1>1. reload.at = "write" /\ cached' = reload.image /\ reload' = NoReload /\ cycle' = Replaced
    BY DEF WriteKeys
  <1>2. reload \in Loads /\ reload.image \in Records
    BY <1>1 DEF KeyTypes, NoReload, Loads
  <1>3. renewal' = [renewal EXCEPT !.copy = Left(renewal.copy)]
    BY DEF WriteKeys, Left
  <1>4. CASE renewal = NoRenewal
    <2>1. NoRenewal.copy = None /\ NoRenewal.at = "idle"
      BY DEF NoRenewal
    <2>2. Left(None) = None
      BY Placeholders DEF Left
    <2>3. renewal' = NoRenewal
      BY <1>3, <1>4, <2>1, <2>2 DEF NoRenewal
    <2>. QED
      BY <1>1, <1>2, <1>4, <2>1, <2>3, StaysSo DEF WriteKeys
  <1>5. CASE renewal \in Saves
    <2>1. renewal.at = "save" /\ renewal.copy \in Records
      BY <1>5 DEF Saves
    <2>2. Left(renewal.copy) = renewal.copy
      BY <2>1, Placeholders DEF Left
    <2>3. renewal' \in Saves /\ renewal'.at = "save" /\ renewal'.copy = renewal.copy
      BY <1>3, <1>5, <2>1, <2>2 DEF Saves
    <2>. QED
      BY <1>1, <1>2, <2>1, <2>3, StaysSo DEF WriteKeys
  <1>6. CASE renewal \in Resets
    <2>1. renewal.at = "reset" /\ renewal.copy \in Records \cup {Shared}
      BY <1>6 DEF Resets
    <2>2. Left(renewal.copy) \in Records
      BY <2>1 DEF Left, KeyTypes
    <2>3. renewal' \in Resets /\ renewal'.at = "reset" /\ renewal'.copy = Left(renewal.copy)
      BY <1>3, <1>6, <2>2 DEF Resets
    <2>4. Left(renewal.copy)' = Left(renewal.copy)
      BY <2>2, <2>3, Placeholders DEF Left
    <2>. QED
      BY <1>1, <1>2, <2>1, <2>3, <2>4, StaysSo DEF WriteKeys
  <1>. QED
    BY <1>4, <1>5, <1>6 DEF KeyTypes

\* A renewal saves its copy as the row and as the object of the next period.
LEMMA SaveRenewedIs ==
    ASSUME KeyTypes, SaveRenewed,
           renewal.copy.period = row.period, row.period < MaxRenewals
    PROVE  /\ renewal.at = "save" /\ renewal \in Saves
           /\ row' \in Records /\ row'.period = row.period + 1 /\ cached' = row'
           /\ renewal' \in Resets /\ renewal'.at = "reset" /\ renewal'.copy = Shared
           /\ left' \in [Periods -> Int] /\ left'[row'.period] >= 36
           /\ \A p \in Periods : p # row'.period => left'[p] = left[p]
           /\ Stays /\ row.period \in Periods /\ row'.period \in Periods
           /\ UNCHANGED <<hour, ran, mark, reload, shown, unmarked, disturbed, keyFaults>>
  <1>. DEFINE p == row.period
              saved == [renewal.copy EXCEPT !.period = renewal.copy.period + 1]
              q == (IF left[p] > 0 THEN left[p] ELSE 0) + RenewedBy
  <1>1. /\ renewal.at = "save" /\ row' = saved /\ cached' = saved
        /\ renewal' = [at |-> "reset", copy |-> Shared]
        /\ left' = [left EXCEPT ![p + 1] = q]
        /\ cycle' = Replaced
        /\ UNCHANGED <<hour, ran, mark, reload, shown, unmarked, disturbed, keyFaults>>
    BY DEF SaveRenewed
  <1>2. renewal \in Saves /\ renewal.copy \in Records
    BY <1>1 DEF KeyTypes, NoRenewal, Saves, Resets
  <1>3. p \in Periods /\ p + 1 \in Periods /\ left[p] \in Int
    BY KeyConstants DEF KeyTypes, Records, Periods
  <1>4. saved \in Records /\ saved.period = p + 1
    BY <1>2, <1>3 DEF Records
  <1>5. q \in Int /\ q >= 36
    BY <1>3, KeyConstants
  <1>6. left' \in [Periods -> Int] /\ left'[p + 1] = q
        /\ \A r \in Periods : r # p + 1 => left'[r] = left[r]
    <2>. HIDE DEF q
    <2>. QED
      BY <1>1, <1>3, <1>5 DEF KeyTypes
  <1>7. renewal' \in Resets /\ renewal'.at = "reset" /\ renewal'.copy = Shared
    BY <1>1 DEF Resets
  <1>. HIDE DEF saved, q
  <1>. QED
    BY <1>1, <1>2, <1>3, <1>4, <1>5, <1>6, <1>7, StaysSo

\* The end of a renewal clears the two flags wherever it looks.
LEMMA ResetFlagsIs ==
    ASSUME KeyTypes, ResetFlags
    PROVE  /\ renewal.at = "reset" /\ renewal \in Resets /\ renewal' = NoRenewal
           /\ row' \in Records /\ row'.period = row.period /\ row'.flags = row.flags \ Reminders
           /\ Left(renewal.copy) \in Records
           /\ cached' \in Records /\ cached'.period = Left(renewal.copy).period
           /\ cached'.flags = Left(renewal.copy).flags \ Reminders
           /\ Stays
           /\ UNCHANGED <<hour, ran, left, mark, reload, shown, unmarked, disturbed, keyFaults>>
  <1>. DEFINE cleared(rec) == [rec EXCEPT !.flags = rec.flags \ Reminders]
  <1>1. /\ renewal.at = "reset" /\ renewal' = NoRenewal
        /\ row' = cleared(row) /\ cached' = cleared(Left(renewal.copy))
        /\ cycle' = IF renewal.copy = Shared THEN cycle ELSE Replaced
        /\ UNCHANGED <<hour, ran, left, mark, reload, shown, unmarked, disturbed, keyFaults>>
    BY DEF ResetFlags, Reminders
  <1>2. /\ renewal \in Resets /\ renewal.copy \in Records \cup {Shared}
        /\ Left(renewal.copy) \in Records
    BY <1>1 DEF KeyTypes, NoRenewal, Saves, Resets, Left
  <1>3. \A rec \in Records : /\ cleared(rec) \in Records /\ cleared(rec).period = rec.period
                            /\ cleared(rec).flags = rec.flags \ Reminders
    BY DEF Records
  <1>. HIDE DEF cleared
  <1>4. Stays
    <2>1. CASE renewal.copy # Shared
      BY <1>1, <2>1, StaysSo
    <2>2. CASE renewal.copy = Shared
      <3>1. cached' = cleared(cached) /\ cycle' = cycle
        BY <1>1, <2>2 DEF Left
      <3>2. cached'.period = cached.period /\ cached'.flags \subseteq cached.flags
        BY <1>3, <3>1 DEF KeyTypes
      <3>3. Held'.period = Held.period /\ Held'.flags \subseteq Held.flags
        BY <3>1, <3>2 DEF Held, Left
      <3>. QED
        BY <3>1, <3>3 DEF Stays, KeyTypes, Funnel
    <2>. QED
      BY <2>1, <2>2
  <1>. QED
    BY <1>1, <1>2, <1>3, <1>4 DEF KeyTypes

\* A run begins with the object cached now, in the hours of sending.
LEMMA RunCycleIs ==
    ASSUME KeyTypes, RunCycle
    PROVE  /\ cycle.at = "idle" /\ ~ran /\ ran' = TRUE
           /\ IF InSendingWindow(hour)
              THEN /\ cycle' \in Walks /\ cycle'.at = "consider" /\ cycle'.nth = 1
                   /\ Held' = cached
              ELSE cycle' = Idle
           /\ disturbed' = (disturbed \/ (InSendingWindow(hour) /\ renewal.at # "idle"))
           /\ UNCHANGED <<hour, left, row, cached, mark, reload, renewal, shown, unmarked,
                          keyFaults>>
  <1>1. CASE InSendingWindow(hour)
    <2>1. cycle' = [at |-> "consider", nth |-> 1, held |-> Shared]
      BY <1>1 DEF RunCycle
    <2>2. cycle' \in Walks /\ cycle'.held = Shared
      BY <2>1 DEF Walks, Stages
    <2>3. Held' = cached
      BY <2>2 DEF Held, Left, RunCycle
    <2>. QED
      BY <1>1, <2>1, <2>2, <2>3 DEF RunCycle
  <1>2. CASE ~InSendingWindow(hour)
    BY <1>2 DEF RunCycle
  <1>. QED
    BY <1>1, <1>2

\* The steps of a cycle but the one that sets the flag.
LEMMA WalkIs ==
    ASSUME KeyTypes, Consider \/ IsSent \/ CheckFails \/ Send \/ MarkFails \/ PersistFlag
    PROVE  /\ cycle.at # "idle"
           /\ \/ /\ Consider /\ cycle.at = "consider"
                 /\ \/ Goes("check") /\ Due(Funnel, left[Held.period])
                    \/ Passes /\ (Due(Funnel, left[Held.period]) => Funnel \in Held.flags)
                 /\ UNCHANGED disturbed
              \/ /\ IsSent /\ cycle.at = "check"
                 /\ \/ Passes /\ mark[Funnel] # None
                    \/ Goes("send") /\ mark[Funnel] \in {None, 0}
                 /\ UNCHANGED disturbed
              \/ CheckFails /\ cycle.at = "check" /\ Passes /\ disturbed' = TRUE
              \/ Send /\ cycle.at = "send" /\ Goes("mark") /\ UNCHANGED disturbed
              \/ MarkFails /\ cycle.at = "mark" /\ Passes /\ UNCHANGED disturbed
              \/ PersistFlag /\ cycle.at = "persist" /\ Passes /\ UNCHANGED disturbed
           /\ disturbed' \in BOOLEAN /\ keyFaults' \in Nat
           /\ ~disturbed' => ~disturbed
           /\ UNCHANGED <<hour, ran, left, cached, mark, reload, renewal>>
           /\ ~Send => UNCHANGED shown
           /\ ~MarkFails => UNCHANGED unmarked
           /\ ~PersistFlag => UNCHANGED row
  <1>0. /\ UNCHANGED <<hour, ran, left, cached, mark, reload, renewal>>
        /\ ~Send => UNCHANGED shown
        /\ ~MarkFails => UNCHANGED unmarked
        /\ ~PersistFlag => UNCHANGED row
        /\ disturbed' \in BOOLEAN /\ keyFaults' \in Nat /\ (~disturbed' => ~disturbed)
    <2>1. UNCHANGED <<hour, ran, left, cached, mark, reload, renewal>>
      BY DEF Consider, IsSent, CheckFails, Send, MarkFails, PersistFlag
    <2>2. ~Send => UNCHANGED shown
      BY DEF Consider, IsSent, CheckFails, MarkFails, PersistFlag
    <2>3. ~MarkFails => UNCHANGED unmarked
      BY DEF Consider, IsSent, CheckFails, Send, PersistFlag
    <2>4. ~PersistFlag => UNCHANGED row
      BY DEF Consider, IsSent, CheckFails, Send, MarkFails
    <2>5. disturbed' = disturbed \/ disturbed' = TRUE
      BY DEF Consider, IsSent, CheckFails, Send, MarkFails, PersistFlag
    <2>6. keyFaults' = keyFaults \/ keyFaults' = keyFaults + 1
      BY DEF Consider, IsSent, CheckFails, Send, MarkFails, PersistFlag
    <2>7. disturbed' \in BOOLEAN
      BY <2>5 DEF KeyTypes
    <2>8. keyFaults' \in Nat
      BY <2>6 DEF KeyTypes
    <2>9. ~disturbed' => ~disturbed
      BY <2>5
    <2>. QED
      BY <2>1, <2>2, <2>3, <2>4, <2>7, <2>8, <2>9
  <1>1. CASE Consider
    <2>1. cycle.at = "consider" /\ cycle.at # "idle" /\ UNCHANGED <<disturbed, cached>>
      BY <1>1 DEF Consider
    <2>2. NotifiesOf([left |-> left[Held.period]], Funnels[cycle.nth].segment)
             <=> Due(Funnel, left[Held.period])
      BY <2>1, Walking, FunnelFacts DEF Funnel
    <2>3. CASE Due(Funnel, left[Held.period]) /\ Funnel \notin Held.flags
      <3>1. cycle' = [cycle EXCEPT !.at = "check"]
        BY <1>1, <2>2, <2>3 DEF Consider
      <3>. QED
        BY <1>0, <1>1, <2>1, <2>3, <3>1, GoesOn DEF Stages
    <2>4. CASE ~(Due(Funnel, left[Held.period]) /\ Funnel \notin Held.flags)
      <3>1. cycle' = Passed
        BY <1>1, <2>2, <2>4 DEF Consider
      <3>. QED
        BY <1>0, <1>1, <2>1, <2>4, <3>1, PassesOn
    <2>. QED
      BY <2>3, <2>4
  <1>2. CASE IsSent
    <2>1. cycle.at = "check" /\ UNCHANGED <<disturbed, cached>>
      BY <1>2 DEF IsSent
    <2>2. CASE mark[Funnel] # None /\ cycle' = Passed
      BY <1>0, <1>2, <2>1, <2>2, PassesOn
    <2>3. CASE mark[Funnel] \in {None, 0} /\ cycle' = [cycle EXCEPT !.at = "send"]
      <3>1. Goes("send")
        BY <2>1, <2>3, GoesOn DEF Stages
      <3>. QED
        BY <1>0, <1>2, <2>1, <2>3, <3>1
    <2>. QED
      BY <1>2, <2>2, <2>3 DEF IsSent
  <1>3. CASE CheckFails
    <2>1. cycle.at = "check" /\ cycle' = Passed /\ disturbed' = TRUE
      BY <1>3 DEF CheckFails
    <2>. QED
      BY <1>0, <1>3, <2>1, PassesOn
  <1>4. CASE Send
    <2>1. cycle.at = "send" /\ UNCHANGED <<disturbed, cached>> /\ cycle' = [cycle EXCEPT !.at = "mark"]
      BY <1>4 DEF Send
    <2>2. Goes("mark")
      BY <2>1, GoesOn DEF Stages
    <2>. QED
      BY <1>0, <1>4, <2>1, <2>2
  <1>5. CASE MarkFails
    <2>1. cycle.at = "mark" /\ cycle' = Passed /\ UNCHANGED <<disturbed, cached>>
      BY <1>5 DEF MarkFails
    <2>. QED
      BY <1>0, <1>5, <2>1, PassesOn
  <1>6. CASE PersistFlag
    <2>1. cycle.at = "persist" /\ cycle' = Passed /\ UNCHANGED <<disturbed, cached>>
      BY <1>6 DEF PersistFlag
    <2>. QED
      BY <1>0, <1>6, <2>1, PassesOn
  <1>. QED
    BY <1>1, <1>2, <1>3, <1>4, <1>5, <1>6

\* What a message and a lost mark do to the histories.
LEMMA SendIs ==
    ASSUME KeyTypes, Send
    PROVE  /\ shown' \in [KeyFunnels -> [Periods -> Nat]]
           /\ shown'[Funnel][Held.period] = shown[Funnel][Held.period] + 1
           /\ \A f \in KeyFunnels, p \in Periods :
                 f # Funnel \/ p # Held.period => shown'[f][p] = shown[f][p]
  <1>1. cycle.at = "send" /\ Funnel \in KeyFunnels /\ Held.period \in Periods
    BY Walking DEF Send
  <1>2. PICK h \in Periods : h = Held.period
    BY <1>1
  <1>3. PICK g \in KeyFunnels : g = Funnel
    BY <1>1
  <1>4. shown' = [shown EXCEPT ![g][h] = shown[g][h] + 1]
    BY <1>2, <1>3 DEF Send
  <1>5. /\ shown' \in [KeyFunnels -> [Periods -> Nat]]
        /\ shown'[g][h] = shown[g][h] + 1
        /\ \A f \in KeyFunnels, p \in Periods : f # g \/ p # h => shown'[f][p] = shown[f][p]
    BY <1>4 DEF KeyTypes
  <1>. QED
    BY <1>2, <1>3, <1>5

\* The flag reaches the row, or its statement failed.
LEMMA PersistFlagIs ==
    ASSUME KeyTypes, PersistFlag
    PROVE  /\ row' \in Records /\ row'.period = row.period
           /\ row'.flags \subseteq row.flags \cup {Funnel}
  <1>1. Funnel \in KeyFunnels
    BY Walking DEF PersistFlag
  <1>2. row' = row \/ row' = [row EXCEPT !.flags = row.flags \cup {Funnel}]
    BY DEF PersistFlag
  <1>3. row \in Records
    BY DEF KeyTypes
  <1>. QED
    BY <1>1, <1>2, <1>3 DEF Records

\* A lost mark is counted for its funnel.
LEMMA MarkFailsIs ==
    ASSUME KeyTypes, MarkFails
    PROVE  /\ unmarked' \in [KeyFunnels -> Nat] /\ unmarked'[Funnel] = unmarked[Funnel] + 1
           /\ \A f \in KeyFunnels \ {Funnel} : unmarked'[f] = unmarked[f]
  <1>1. Funnel \in KeyFunnels
    BY Walking DEF MarkFails
  <1>. QED
    BY <1>1 DEF MarkFails, KeyTypes

\* A restart loses the mark that was to be written, and every object.
LEMMA KeyRestartIs ==
    ASSUME KeyTypes, KeyRestart
    PROVE  /\ unmarked' \in [KeyFunnels -> Nat]
           /\ unmarked'[Funnel] = unmarked[Funnel] + (IF cycle.at = "mark" THEN 1 ELSE 0)
           /\ \A f \in KeyFunnels \ {Funnel} : unmarked'[f] = unmarked[f]
           /\ Funnel \in KeyFunnels /\ keyFaults' \in Nat
           /\ cached' = row /\ ran' = TRUE /\ cycle' = Idle /\ cycle'.at = "idle"
           /\ reload' = NoReload /\ renewal' = NoRenewal /\ disturbed' = TRUE
           /\ UNCHANGED <<hour, left, row, mark, shown>>
  <1>1. Funnel \in KeyFunnels
    <2>1. cycle.nth \in 1..3
      <3>1. CASE cycle.at # "idle"
        BY <3>1, Walking
      <3>2. CASE cycle.at = "idle"
        BY <3>2 DEF KeyTypes, Walks, Stages, Idle
      <3>. QED
        BY <3>1, <3>2
    <2>. QED
      BY <2>1, FunnelFacts DEF Funnel
  <1>. QED
    BY <1>1 DEF KeyRestart, KeyTypes, Idle

\* The hour, the periods and the marks go on together.
LEMMA TickIs ==
    ASSUME KeyTypes, Tick
    PROVE  /\ ran /\ cycle.at = "idle" /\ reload.at = "idle" /\ renewal.at = "idle"
           /\ hour' = IF hour = 23 THEN 0 ELSE hour + 1
           /\ hour' \in 0..23 /\ ran' = FALSE
           /\ left' \in [Periods -> Int] /\ \A p \in Periods : left'[p] = left[p] - 1
           /\ mark' \in [KeyFunnels -> Nat \cup {None}]
           /\ \A f \in KeyFunnels :
                 IF mark[f] \in {None, 0} THEN mark'[f] = None ELSE mark'[f] = mark[f] - 1
           /\ UNCHANGED <<row, cached, cycle, reload, renewal, shown, unmarked, disturbed,
                          keyFaults>>
  <1>1. hour' = (hour + 1) % 24 /\ hour \in 0..23
    BY DEF Tick, KeyTypes
  <1>2. hour' = IF hour = 23 THEN 0 ELSE hour + 1
    BY <1>1
  <1>3. \A f \in KeyFunnels : mark[f] \in {None, 0} \/ mark[f] - 1 \in Nat
    BY DEF KeyTypes
  <1>4. /\ mark' \in [KeyFunnels -> Nat \cup {None}]
        /\ \A f \in KeyFunnels :
              IF mark[f] \in {None, 0} THEN mark'[f] = None ELSE mark'[f] = mark[f] - 1
    BY <1>3 DEF Tick
  <1>5. left' \in [Periods -> Int] /\ \A p \in Periods : left'[p] = left[p] - 1
    <2>1. left' = [p \in Periods |-> left[p] - 1] /\ left \in [Periods -> Int]
      BY DEF Tick, KeyTypes
    <2>. QED
      BY <2>1
  <1>6. /\ ran /\ cycle.at = "idle" /\ reload.at = "idle" /\ renewal.at = "idle" /\ ran' = FALSE
        /\ UNCHANGED <<row, cached, cycle, reload, renewal, shown, unmarked, disturbed,
                       keyFaults>>
    BY DEF Tick
  <1>. QED
    BY <1>1, <1>2, <1>4, <1>5, <1>6

\* The initial state has the types.
LEMMA KeyInitTypes == KeyInit => KeyTypes
  <1>. SUFFICES ASSUME KeyInit PROVE KeyTypes
    OBVIOUS
  <1>1. 0 \in Periods /\ FirstLeft \in Int
    BY KeyConstants DEF Periods
  <1>2. row \in Records /\ cached \in Records
    BY <1>1 DEF KeyInit, Records
  <1>3. hour \in 0..23
    BY KeyConstants DEF KeyInit
  <1>4. \A f \in KeyFunnels : shown[f] \in [Periods -> Nat]
    BY DEF KeyInit
  <1>. QED
    BY <1>1, <1>2, <1>3, <1>4 DEF KeyInit, KeyTypes

\* Every step keeps the types.
LEMMA KeyTypesStep == ASSUME KeyTypes, KeyStep, SaveRenewed =>
                             renewal.copy.period = row.period /\ row.period < MaxRenewals
                      PROVE  KeyTypes'
  <1>1. CASE RunCycle
    <2>1. cycle' \in {Idle} \cup Walks
      BY <1>1, RunCycleIs
    <2>2. disturbed' \in BOOLEAN
      BY <1>1, RunCycleIs DEF KeyTypes
    <2>. QED
      BY <1>1, <2>1, <2>2, RunCycleIs DEF KeyTypes
  <1>2. CASE Consider \/ IsSent \/ CheckFails \/ Send \/ MarkFails \/ PersistFlag
    <2>1. cycle' \in {Idle} \cup Walks
      BY <1>2, WalkIs DEF Goes, Passes
    <2>2. shown' \in [KeyFunnels -> [Periods -> Nat]]
      BY <1>2, WalkIs, SendIs DEF KeyTypes
    <2>3. unmarked' \in [KeyFunnels -> Nat]
      BY <1>2, WalkIs, MarkFailsIs DEF KeyTypes
    <2>4. row' \in Records
      BY <1>2, WalkIs, PersistFlagIs DEF KeyTypes
    <2>5. /\ disturbed' \in BOOLEAN /\ keyFaults' \in Nat
          /\ UNCHANGED <<hour, ran, left, cached, mark, reload, renewal>>
      BY <1>2, WalkIs
    <2>. QED
      BY <2>1, <2>2, <2>3, <2>4, <2>5 DEF KeyTypes
  <1>3. CASE MarkSent
    <2>1. \A f \in KeyFunnels : mark'[f] # None => mark'[f] <= Term(f)
      BY <1>3, MarkSentIs DEF KeyTypes
    <2>. QED
      BY <1>3, <2>1, MarkSentIs DEF KeyTypes
  <1>4. CASE ReadKeys
    <2>1. reload' \in Loads
      BY <1>4 DEF ReadKeys, Loads, KeyTypes
    <2>2. disturbed' \in BOOLEAN
      BY <1>4 DEF ReadKeys, KeyTypes
    <2>. QED
      BY <1>4, <2>1, <2>2 DEF ReadKeys, KeyTypes
  <1>5. CASE WriteKeys
    BY <1>5, WriteKeysIs DEF KeyTypes, Stays
  <1>6. CASE StartRenewal
    <2>1. renewal' \in Saves
      BY <1>6 DEF StartRenewal, Saves, KeyTypes
    <2>2. disturbed' \in BOOLEAN
      BY <1>6 DEF StartRenewal
    <2>. QED
      BY <1>6, <2>1, <2>2 DEF StartRenewal, KeyTypes
  <1>7. CASE SaveRenewed
    BY <1>7, SaveRenewedIs DEF KeyTypes, Stays
  <1>8. CASE ResetFlags
    BY <1>8, ResetFlagsIs DEF KeyTypes, Stays
  <1>9. CASE KeyRestart
    BY <1>9, KeyRestartIs DEF KeyTypes
  <1>10. CASE Tick
    <2>1. \A f \in KeyFunnels : mark'[f] # None => mark'[f] <= Term(f)
      <3>. SUFFICES ASSUME NEW f \in KeyFunnels, mark'[f] # None PROVE mark'[f] <= Term(f)
        OBVIOUS
      <3>1. mark[f] \in Nat /\ mark'[f] = mark[f] - 1
        BY <1>10, TickIs DEF KeyTypes
      <3>2. mark[f] <= Term(f) /\ Term(f) \in Nat
        BY <3>1, FunnelFacts, KeyConstants DEF KeyTypes
      <3>. QED
        BY <3>1, <3>2
    <2>. QED
      BY <1>10, <2>1, TickIs DEF KeyTypes
  <1>. QED
    BY <1>1, <1>2, <1>3, <1>4, <1>5, <1>6, <1>7, <1>8, <1>9, <1>10 DEF KeyStep

\* No object is ahead of the row, and the next period is not written about yet.
PeriodInv ==
    /\ cached.period <= row.period
    /\ reload.at = "write" => reload.image.period <= row.period
    /\ cycle.at # "idle" => Held.period <= row.period
    /\ renewal.at = "save" => renewal.copy.period = row.period /\ row.period < MaxRenewals
    /\ renewal.at = "reset" => Left(renewal.copy).period <= row.period
    /\ \A f \in KeyFunnels, p \in Periods : p > row.period => shown[f][p] = 0

\* Periods are numbers.
LEMMA PeriodNumbers ==
    ASSUME KeyTypes
    PROVE  /\ row.period \in Nat /\ cached.period \in Nat /\ Periods \subseteq Nat
           /\ reload.at = "write" => reload.image.period \in Nat
           /\ cycle.at # "idle" => Held.period \in Nat
           /\ renewal.at = "reset" => Left(renewal.copy).period \in Nat
  <1>1. Periods \subseteq Nat
    BY KeyConstants DEF Periods
  <1>2. \A rec \in Records : rec.period \in Nat
    BY <1>1 DEF Records
  <1>3. reload.at = "write" => reload.image \in Records
    BY DEF KeyTypes, NoReload, Loads
  <1>4. renewal.at = "reset" => Left(renewal.copy) \in Records
    BY DEF KeyTypes, NoRenewal, Saves, Resets, Left
  <1>. QED
    BY <1>1, <1>2, <1>3, <1>4, Walking DEF KeyTypes

\* Every step keeps the objects behind the row.
LEMMA PeriodStep == ASSUME KeyTypes, PeriodInv, KeyStep PROVE PeriodInv'
  <1>1. CASE RunCycle
    <2>1. cycle'.at # "idle" => Held'.period = cached.period
      BY <1>1, RunCycleIs DEF Idle
    <2>2. Left(renewal.copy)' = Left(renewal.copy)
      BY <1>1, RunCycleIs DEF Left
    <2>. QED
      BY <1>1, <2>1, <2>2, RunCycleIs DEF PeriodInv
  <1>2. CASE Consider \/ IsSent \/ CheckFails \/ Send \/ MarkFails \/ PersistFlag
    <2>1. cycle'.at # "idle" => Held'.period = Held.period
      BY <1>2, WalkIs DEF Goes, Passes
    <2>2. \A f \in KeyFunnels, p \in Periods : p > row.period => shown'[f][p] = 0
      <3>1. cycle.at # "idle" /\ Held.period <= row.period
        BY <1>2, WalkIs DEF PeriodInv
      <3>2. \A p \in Periods : p > row.period => p # Held.period
        BY <3>1, PeriodNumbers
      <3>. QED
        BY <1>2, <3>2, WalkIs, SendIs DEF PeriodInv
    <2>3. row'.period = row.period
      BY <1>2, WalkIs, PersistFlagIs
    <2>4. Left(renewal.copy)' = Left(renewal.copy) /\ UNCHANGED <<cached, reload, renewal>>
      BY <1>2, WalkIs DEF Left
    <2>5. cycle.at # "idle"
      BY <1>2, WalkIs
    <2>. QED
      BY <2>1, <2>2, <2>3, <2>4, <2>5 DEF PeriodInv
  <1>3. CASE MarkSent
    <2>1. renewal.at = "reset" => Left(renewal.copy)'.period = Left(renewal.copy).period
      BY <1>3, MarkSentIs DEF Left
    <2>. QED
      BY <1>3, <2>1, MarkSentIs DEF PeriodInv
  <1>4. CASE ReadKeys
    <2>1. reload' = [at |-> "write", image |-> row]
          /\ UNCHANGED <<row, cached, cycle, renewal, shown>>
      BY <1>4 DEF ReadKeys
    <2>2. Held' = Held /\ Left(renewal.copy)' = Left(renewal.copy)
      BY <2>1 DEF Held, Left
    <2>. QED
      BY <2>1, <2>2, PeriodNumbers DEF PeriodInv
  <1>5. CASE WriteKeys
    BY <1>5, WriteKeysIs DEF PeriodInv, Stays, NoReload
  <1>6. CASE StartRenewal
    <2>1. /\ renewal' = [at |-> "save", copy |-> row] /\ row.period < MaxRenewals
          /\ UNCHANGED <<row, cached, cycle, reload, shown>>
      BY <1>6 DEF StartRenewal
    <2>2. Held' = Held
      BY <2>1 DEF Held, Left
    <2>. QED
      BY <2>1, <2>2 DEF PeriodInv
  <1>7. CASE SaveRenewed
    <2>0. renewal.copy.period = row.period /\ row.period < MaxRenewals
      BY <1>7 DEF PeriodInv, SaveRenewed
    <2>1. row'.period = row.period + 1 /\ cached' = row' /\ reload' = reload
          /\ renewal'.at = "reset" /\ renewal'.copy = Shared /\ Stays /\ shown' = shown
      BY <1>7, <2>0, SaveRenewedIs
    <2>2. Left(renewal.copy)' = cached'
      BY <2>1 DEF Left
    <2>3. cycle'.at # "idle" => Held'.period = Held.period /\ cycle.at # "idle"
      BY <2>1 DEF Stays
    <2>. QED
      BY <2>1, <2>2, <2>3, PeriodNumbers DEF PeriodInv
  <1>8. CASE ResetFlags
    <2>1. cycle'.at # "idle" => Held'.period = Held.period /\ cycle.at # "idle"
      BY <1>8, ResetFlagsIs DEF Stays
    <2>. QED
      BY <1>8, <2>1, ResetFlagsIs DEF PeriodInv, NoRenewal
  <1>9. CASE KeyRestart
    BY <1>9, KeyRestartIs, PeriodNumbers DEF PeriodInv, NoRenewal, NoReload
  <1>10. CASE Tick
    <2>1. Left(renewal.copy)' = Left(renewal.copy) /\ Held' = Held
      BY <1>10, TickIs DEF Left, Held
    <2>. QED
      BY <1>10, <2>1, TickIs DEF PeriodInv
  <1>. QED
    BY <1>1, <1>2, <1>3, <1>4, <1>5, <1>6, <1>7, <1>8, <1>9, <1>10 DEF KeyStep

\* Who is asked about, sent to or just written to is in the class of the funnel,
\* and no mark stood in the way of the message.
SendInv ==
    /\ cycle.at \in {"check", "send", "mark"} => Due(Funnel, left[Held.period])
    /\ cycle.at \in {"send", "mark"} => mark[Funnel] \in {None, 0}

\* Every step keeps the conditions of a message.
LEMMA SendStep == ASSUME KeyTypes, PeriodInv, SendInv, KeyStep PROVE SendInv'
  <1>1. CASE RunCycle
    BY <1>1, RunCycleIs DEF SendInv, Idle
  <1>2. CASE Consider \/ IsSent \/ CheckFails \/ Send \/ MarkFails \/ PersistFlag
    <2>1. UNCHANGED <<left, mark>>
      BY <1>2, WalkIs
    <2>2. CASE Passes
      <3>1. cycle'.at \in {"idle", "consider"}
        BY <2>2 DEF Passes
      <3>. QED
        BY <3>1 DEF SendInv
    <2>3. CASE Consider /\ Goes("check") /\ Due(Funnel, left[Held.period])
      BY <2>1, <2>3 DEF SendInv, Goes
    <2>4. CASE IsSent /\ cycle.at = "check" /\ Goes("send") /\ mark[Funnel] \in {None, 0}
      BY <2>1, <2>4 DEF SendInv, Goes
    <2>5. CASE Send /\ cycle.at = "send" /\ Goes("mark")
      BY <2>1, <2>5 DEF SendInv, Goes
    <2>. QED
      BY <1>2, <2>2, <2>3, <2>4, <2>5, WalkIs
  <1>3. CASE MarkSent
    BY <1>3, MarkSentIs DEF SendInv
  <1>4. CASE ReadKeys
    BY <1>4, StaysAlone DEF SendInv, ReadKeys, Stays, Stages
  <1>5. CASE WriteKeys
    BY <1>5, WriteKeysIs DEF SendInv, Stays
  <1>6. CASE StartRenewal
    BY <1>6, StaysAlone DEF SendInv, StartRenewal, Stays
  <1>7. CASE SaveRenewed
    <2>0. renewal.copy.period = row.period /\ row.period < MaxRenewals
      BY <1>7 DEF PeriodInv, SaveRenewed
    <2>1. /\ row'.period = row.period + 1 /\ Stays /\ mark' = mark
          /\ \A p \in Periods : p # row'.period => left'[p] = left[p]
      BY <1>7, <2>0, SaveRenewedIs
    <2>2. cycle.at # "idle" => left'[Held'.period] = left[Held.period]
      BY <2>1, Walking, PeriodNumbers DEF Stays, PeriodInv
    <2>. QED
      BY <2>1, <2>2 DEF SendInv, Stays
  <1>8. CASE ResetFlags
    BY <1>8, ResetFlagsIs DEF SendInv, Stays
  <1>9. CASE KeyRestart
    BY <1>9, KeyRestartIs DEF SendInv
  <1>10. CASE Tick
    BY <1>10, TickIs DEF SendInv
  <1>. QED
    BY <1>1, <1>2, <1>3, <1>4, <1>5, <1>6, <1>7, <1>8, <1>9, <1>10 DEF KeyStep

\* A message more than were lost has its mark, or will have it, or its time is over.
Pending(f, p) == cycle.at = "mark" /\ Funnel = f /\ Held.period = p
Extra(f, p) == shown[f][p] - unmarked[f]
OnceInv ==
    \A f \in Reminders, p \in Periods :
        \/ Extra(f, p) <= 0
        \/ /\ Extra(f, p) = 1
           /\ Pending(f, p) \/ left[p] <= 0 \/ (mark[f] # None /\ mark[f] >= left[p])
DailyInv ==
    \A p \in Periods : Extra(Grace, p) > 0 =>
       IF Pending(Grace, p) THEN 24 * (Extra(Grace, p) - 1) < -left[p]
       ELSE 24 * Extra(Grace, p) < (IF mark[Grace] = None THEN 0 ELSE mark[Grace]) - left[p]
RepeatInv == OnceInv /\ DailyInv

\* The numbers messages are counted with.
LEMMA RepeatNumbers ==
    ASSUME KeyTypes
    PROVE  /\ \A f \in KeyFunnels, p \in Periods :
                 /\ Extra(f, p) \in Int /\ shown[f][p] \in Nat /\ unmarked[f] \in Nat
                 /\ left[p] \in Int
           /\ Reminders \subseteq KeyFunnels /\ Grace \in KeyFunnels /\ Grace \notin Reminders
           /\ \A f \in KeyFunnels : mark[f] \in Nat \cup {None}
           /\ None \notin Int
  BY FunnelFacts, KeyConstants DEF KeyTypes, Extra, Reminders, Grace

\* A step with no message, no mark and no lost mark.
LEMMA RepeatWaits ==
    ASSUME KeyTypes, RepeatInv, cycle'.at # "mark", cycle.at # "mark",
           UNCHANGED <<shown, unmarked, left, mark>>
    PROVE  RepeatInv'
  <1>1. \A f, p : ~Pending(f, p) /\ ~Pending(f, p)'
    BY DEF Pending
  <1>2. \A f, p : Extra(f, p)' = Extra(f, p)
    BY DEF Extra
  <1>. QED
    BY <1>1, <1>2 DEF RepeatInv, OnceInv, DailyInv

\* A step beside the cycle changes no count.
LEMMA RepeatStays ==
    ASSUME KeyTypes, RepeatInv, Stays, UNCHANGED <<shown, unmarked, left, mark>>
    PROVE  RepeatInv'
  <1>1. \A f, p : Pending(f, p)' <=> Pending(f, p)
    BY DEF Pending, Stays
  <1>2. \A f, p : Extra(f, p)' = Extra(f, p)
    BY DEF Extra
  <1>. QED
    BY <1>1, <1>2 DEF RepeatInv, OnceInv, DailyInv

\* A message finds no mark, so none of its period came before it in time.
LEMMA RepeatSends ==
    ASSUME KeyTypes, SendInv, RepeatInv, Send
    PROVE  RepeatInv'
  <1>1. /\ cycle.at = "send" /\ Goes("mark") /\ UNCHANGED <<left, mark, unmarked>>
        /\ Funnel \in KeyFunnels /\ Held.period \in Periods
    <2>1. cycle.at = "send" /\ UNCHANGED <<left, mark, unmarked, cached>>
          /\ cycle' = [cycle EXCEPT !.at = "mark"]
      BY DEF Send
    <2>2. Goes("mark")
      BY <2>1, GoesOn DEF Stages
    <2>. QED
      BY <2>1, <2>2, Walking
  <1>2. PICK g \in KeyFunnels, h \in Periods : g = Funnel /\ h = Held.period
    BY <1>1
  <1>3. /\ \A f, p : ~Pending(f, p)
        /\ \A f, p : Pending(f, p)' <=> f = g /\ p = h
    BY <1>1, <1>2 DEF Pending, Goes
  <1>4. /\ Extra(g, h)' = Extra(g, h) + 1
        /\ \A f \in KeyFunnels, p \in Periods : f # g \/ p # h => Extra(f, p)' = Extra(f, p)
    BY <1>1, <1>2, SendIs, RepeatNumbers DEF Extra
  <1>5. Due(g, left[h]) /\ mark[g] \in {None, 0}
    BY <1>1, <1>2 DEF SendInv
  <1>6. OnceInv'
    <2>. SUFFICES ASSUME NEW f \in Reminders, NEW p \in Periods
                  PROVE  \/ Extra(f, p)' <= 0
                         \/ /\ Extra(f, p)' = 1
                            /\ \/ Pending(f, p)' \/ left[p] <= 0
                               \/ (mark[f] # None /\ mark[f] >= left[p])
      BY <1>1 DEF OnceInv
    <2>1. \/ Extra(f, p) <= 0
          \/ Extra(f, p) = 1 /\ (left[p] <= 0 \/ (mark[f] # None /\ mark[f] >= left[p]))
      BY <1>3 DEF RepeatInv, OnceInv
    <2>2. CASE f = g /\ p = h
      <3>1. left[p] > 0 /\ left[p] \in Int
        BY <1>5, <2>2, RepeatNumbers DEF Due
      <3>2. Extra(f, p) <= 0
        BY <1>5, <2>1, <2>2, <3>1
      <3>. QED
        BY <1>3, <1>4, <2>2, <3>2, RepeatNumbers
    <2>3. CASE f # g \/ p # h
      BY <1>4, <2>1, <2>3, RepeatNumbers
    <2>. QED
      BY <2>2, <2>3
  <1>7. DailyInv'
    <2>. DEFINE m == IF mark[Grace] = None THEN 0 ELSE mark[Grace]
    <2>. SUFFICES ASSUME NEW p \in Periods, Extra(Grace, p)' > 0
                  PROVE  IF Pending(Grace, p)' THEN 24 * (Extra(Grace, p)' - 1) < -left[p]
                         ELSE 24 * Extra(Grace, p)' < m - left[p]
      BY <1>1 DEF DailyInv
    <2>1. Extra(Grace, p) > 0 => 24 * Extra(Grace, p) < m - left[p]
      BY <1>3 DEF RepeatInv, DailyInv
    <2>2. CASE g = Grace /\ p = h
      <3>1. left[p] < 0 /\ left[p] \in Int /\ m = 0
        BY <1>5, <2>2, RepeatNumbers DEF Due
      <3>2. PICK x \in Int : x = Extra(Grace, p) /\ Extra(Grace, p)' = x + 1
        BY <1>4, <2>2, RepeatNumbers
      <3>3. x = 0 \/ x > 0
        BY <3>2
      <3>4. 24 * x < -left[p]
        BY <2>1, <3>1, <3>2, <3>3
      <3>. QED
        BY <1>3, <2>2, <3>2, <3>4
    <2>3. CASE g # Grace \/ p # h
      <3>1. Extra(Grace, p)' = Extra(Grace, p)
        BY <1>4, <2>3, RepeatNumbers
      <3>2. ~Pending(Grace, p)'
        BY <1>3, <2>3
      <3>. QED
        BY <2>1, <3>1, <3>2
    <2>. QED
      BY <2>2, <2>3
  <1>. QED
    BY <1>6, <1>7 DEF RepeatInv

\* A mark is lost with the step that would have written it.
LEMMA RepeatLoses ==
    ASSUME KeyTypes, SendInv, RepeatInv, NEW n \in {0, 1},
           cycle'.at # "mark", UNCHANGED <<shown, left, mark>>, Funnel \in KeyFunnels,
           unmarked' \in [KeyFunnels -> Nat], unmarked'[Funnel] = unmarked[Funnel] + n,
           cycle.at = "mark" => n = 1,
           \A f \in KeyFunnels \ {Funnel} : unmarked'[f] = unmarked[f]
    PROVE  RepeatInv'
  <1>1. PICK g \in KeyFunnels : g = Funnel
    OBVIOUS
  <1>2. \A p \in Periods :
           /\ Extra(g, p)' = Extra(g, p) - n
           /\ \A f \in KeyFunnels \ {g} : Extra(f, p)' = Extra(f, p)
    BY <1>1, RepeatNumbers DEF Extra
  <1>3. \A f, p : ~Pending(f, p)' /\ (Pending(f, p) => f = g /\ n = 1)
    BY <1>1 DEF Pending
  <1>4. OnceInv'
    <2>. SUFFICES ASSUME NEW f \in Reminders, NEW p \in Periods
                  PROVE  \/ Extra(f, p)' <= 0
                         \/ /\ Extra(f, p)' = 1
                            /\ left[p] <= 0 \/ (mark[f] # None /\ mark[f] >= left[p])
      BY <1>3 DEF OnceInv
    <2>1. \/ Extra(f, p) <= 0
          \/ /\ Extra(f, p) = 1
             /\ Pending(f, p) \/ left[p] <= 0 \/ (mark[f] # None /\ mark[f] >= left[p])
      BY DEF RepeatInv, OnceInv
    <2>2. f \in KeyFunnels /\ Extra(f, p) \in Int
      BY RepeatNumbers
    <2>3. CASE f = g
      BY <1>2, <1>3, <2>1, <2>2, <2>3
    <2>4. CASE f # g
      BY <1>2, <1>3, <2>1, <2>2, <2>4
    <2>. QED
      BY <2>3, <2>4
  <1>5. DailyInv'
    <2>. DEFINE m == IF mark[Grace] = None THEN 0 ELSE mark[Grace]
    <2>. SUFFICES ASSUME NEW p \in Periods, Extra(Grace, p)' > 0
                  PROVE  24 * Extra(Grace, p)' < m - left[p]
      BY <1>3 DEF DailyInv
    <2>1. PICK x \in Int, y \in Int, l \in Int, k \in Nat :
             x = Extra(Grace, p) /\ y = Extra(Grace, p)' /\ l = left[p] /\ k = m
      <3>1. m \in Nat
        BY RepeatNumbers
      <3>2. Extra(Grace, p)' \in Int
        BY <1>2, RepeatNumbers
      <3>. QED
        BY <3>1, <3>2, RepeatNumbers
    <2>2. (y = x - n /\ Grace = g) \/ (y = x /\ Grace # g)
      BY <1>2, <2>1, RepeatNumbers
    <2>3. x > 0
      BY <2>1, <2>2
    <2>4. IF Pending(Grace, p) THEN 24 * (x - 1) < -l ELSE 24 * x < k - l
      BY <2>1, <2>3 DEF RepeatInv, DailyInv
    <2>5. CASE Pending(Grace, p)
      <3>1. y = x - 1
        BY <1>3, <2>2, <2>5
      <3>2. 24 * y < k - l
        BY <2>1, <2>4, <2>5, <3>1
      <3>. QED
        BY <2>1, <3>2
    <2>6. CASE ~Pending(Grace, p)
      <3>1. 24 * y < k - l
        BY <2>1, <2>2, <2>4, <2>6
      <3>. QED
        BY <2>1, <3>1
    <2>. QED
      BY <2>5, <2>6
  <1>. QED
    BY <1>4, <1>5 DEF RepeatInv

\* A mark outlasts what is left of a day, of ten hours, or of the next day.
LEMMA RepeatMarks ==
    ASSUME KeyTypes, SendInv, RepeatInv, MarkSent
    PROVE  RepeatInv'
  <1>1. /\ cycle.at = "mark" /\ cycle'.at = "persist" /\ Funnel \in KeyFunnels
        /\ Held.period \in Periods /\ UNCHANGED <<shown, unmarked, left>>
    BY MarkSentIs, Walking
  <1>2. PICK g \in KeyFunnels, h \in Periods : g = Funnel /\ h = Held.period
    BY <1>1
  <1>3. /\ \A f, p : Pending(f, p) <=> f = g /\ p = h
        /\ \A f, p : ~Pending(f, p)'
    BY <1>1, <1>2 DEF Pending
  <1>4. \A f, p : Extra(f, p)' = Extra(f, p)
    BY <1>1 DEF Extra
  <1>5. Due(g, left[h]) /\ mark[g] \in {None, 0} /\ mark'[g] = Term(g) /\ Term(g) \in Nat
        /\ \A f \in KeyFunnels \ {g} : mark'[f] = mark[f]
    BY <1>1, <1>2, MarkSentIs DEF SendInv
  <1>6. OnceInv'
    <2>. SUFFICES ASSUME NEW f \in Reminders, NEW p \in Periods
                  PROVE  \/ Extra(f, p) <= 0
                         \/ /\ Extra(f, p) = 1
                            /\ left[p] <= 0 \/ (mark'[f] # None /\ mark'[f] >= left[p])
      BY <1>1, <1>3, <1>4 DEF OnceInv
    <2>1. \/ Extra(f, p) <= 0
          \/ /\ Extra(f, p) = 1
             /\ Pending(f, p) \/ left[p] <= 0 \/ (mark[f] # None /\ mark[f] >= left[p])
      BY DEF RepeatInv, OnceInv
    <2>2. f \in KeyFunnels /\ left[p] \in Int /\ None \notin Int
      BY RepeatNumbers
    <2>3. CASE f = g /\ p = h
      <3>1. \/ f = "key_expiry_24h" /\ Term(f) = 25
            \/ f = "key_expiry_10h" /\ Term(f) = 10
        <4>1. f = "key_expiry_24h" \/ f = "key_expiry_10h"
          BY DEF Reminders
        <4>. QED
          BY <4>1, FunnelFacts, Zenon
      <3>2. left[p] <= Term(f)
        BY <1>5, <2>2, <2>3, <3>1 DEF Due, Grace
      <3>. QED
        BY <1>5, <2>1, <2>2, <2>3, <3>2
    <2>4. CASE f = g /\ p # h
      <3>1. mark[f] # None /\ mark[f] >= left[p] => left[p] <= 0
        BY <1>5, <2>2, <2>4
      <3>. QED
        BY <1>3, <2>1, <2>4, <3>1
    <2>5. CASE f # g
      BY <1>3, <1>5, <2>1, <2>2, <2>5
    <2>. QED
      BY <2>3, <2>4, <2>5
  <1>7. DailyInv'
    <2>. DEFINE m == IF mark[Grace] = None THEN 0 ELSE mark[Grace]
                n == IF mark'[Grace] = None THEN 0 ELSE mark'[Grace]
    <2>. SUFFICES ASSUME NEW p \in Periods, Extra(Grace, p) > 0
                  PROVE  24 * Extra(Grace, p) < n - left[p]
      BY <1>1, <1>3, <1>4 DEF DailyInv
    <2>1. PICK x \in Int, l \in Int, k \in Nat : x = Extra(Grace, p) /\ l = left[p] /\ k = m
      BY RepeatNumbers
    <2>2. IF Pending(Grace, p) THEN 24 * (x - 1) < -l ELSE 24 * x < k - l
      BY <2>1 DEF RepeatInv, DailyInv
    <2>3. CASE g = Grace
      <3>1. n = 24 /\ k = 0
        BY <1>5, <2>1, <2>3, FunnelFacts, KeyConstants
      <3>2. 24 * x < 24 - l
        BY <2>1, <2>2, <3>1
      <3>. QED
        BY <2>1, <3>1, <3>2
    <2>4. CASE g # Grace
      <3>1. n = m /\ ~Pending(Grace, p)
        BY <1>3, <1>5, <2>4, RepeatNumbers
      <3>. QED
        BY <2>1, <2>2, <3>1
    <2>. QED
      BY <2>3, <2>4
  <1>. QED
    BY <1>6, <1>7 DEF RepeatInv

\* The hour passes for the marks and the periods alike.
LEMMA RepeatTicks ==
    ASSUME KeyTypes, RepeatInv, Tick
    PROVE  RepeatInv'
  <1>1. /\ UNCHANGED <<shown, unmarked, cycle>> /\ cycle.at = "idle"
        /\ \A p \in Periods : left'[p] = left[p] - 1
        /\ \A f \in KeyFunnels :
              IF mark[f] \in {None, 0} THEN mark'[f] = None ELSE mark'[f] = mark[f] - 1
    BY TickIs
  <1>2. \A f, p : ~Pending(f, p) /\ ~Pending(f, p)' /\ Extra(f, p)' = Extra(f, p)
    BY <1>1 DEF Pending, Extra
  <1>3. OnceInv'
    <2>. SUFFICES ASSUME NEW f \in Reminders, NEW p \in Periods
                  PROVE  \/ Extra(f, p) <= 0
                         \/ /\ Extra(f, p) = 1
                            /\ left'[p] <= 0 \/ (mark'[f] # None /\ mark'[f] >= left'[p])
      BY <1>2 DEF OnceInv
    <2>1. \/ Extra(f, p) <= 0
          \/ /\ Extra(f, p) = 1
             /\ left[p] <= 0 \/ (mark[f] # None /\ mark[f] >= left[p])
      BY <1>2 DEF RepeatInv, OnceInv
    <2>2. /\ f \in KeyFunnels /\ left[p] \in Int /\ left'[p] = left[p] - 1
          /\ mark[f] \in Nat \cup {None} /\ None \notin Int
      BY <1>1, RepeatNumbers
    <2>3. IF mark[f] \in {None, 0} THEN mark'[f] = None ELSE mark'[f] = mark[f] - 1
      BY <1>1, <2>2
    <2>. QED
      BY <2>1, <2>2, <2>3
  <1>4. DailyInv'
    <2>. DEFINE m == IF mark[Grace] = None THEN 0 ELSE mark[Grace]
                n == IF mark'[Grace] = None THEN 0 ELSE mark'[Grace]
    <2>. SUFFICES ASSUME NEW p \in Periods, Extra(Grace, p) > 0
                  PROVE  24 * Extra(Grace, p) < n - left'[p]
      BY <1>2 DEF DailyInv
    <2>1. PICK x \in Int, l \in Int, k \in Nat : x = Extra(Grace, p) /\ l = left[p] /\ k = m
      BY RepeatNumbers
    <2>2. 24 * x < k - l
      BY <1>2, <2>1 DEF RepeatInv, DailyInv
    <2>3. left'[p] = l - 1
      BY <1>1, <2>1
    <2>4. (k = 0 /\ n = 0) \/ n = k - 1
      <3>1. Grace \in KeyFunnels /\ mark[Grace] \in Nat \cup {None} /\ None \notin Int
        BY RepeatNumbers
      <3>2. IF mark[Grace] \in {None, 0} THEN mark'[Grace] = None ELSE mark'[Grace] = mark[Grace] - 1
        BY <1>1, <3>1
      <3>. QED
        BY <2>1, <3>1, <3>2
    <2>5. 24 * x < n - (l - 1)
      BY <2>1, <2>2, <2>4
    <2>. QED
      BY <2>1, <2>3, <2>5
  <1>. QED
    BY <1>3, <1>4 DEF RepeatInv

\* A renewal moves only the end of a period that is not written about yet.
LEMMA RepeatRenews ==
    ASSUME KeyTypes, PeriodInv, RepeatInv, SaveRenewed
    PROVE  RepeatInv'
  <1>0. renewal.copy.period = row.period /\ row.period < MaxRenewals
    BY DEF PeriodInv, SaveRenewed
  <1>1. /\ row'.period = row.period + 1 /\ row'.period \in Periods /\ Stays
        /\ UNCHANGED <<shown, unmarked, mark>>
        /\ \A p \in Periods : p # row'.period => left'[p] = left[p]
    BY <1>0, SaveRenewedIs
  <1>2. \A f \in KeyFunnels : Extra(f, row'.period) <= 0
    <2>1. \A f \in KeyFunnels : shown[f][row'.period] = 0
      BY <1>1, PeriodNumbers DEF PeriodInv
    <2>. QED
      BY <1>1, <2>1, RepeatNumbers DEF Extra
  <1>3. \A f, p : (Pending(f, p)' <=> Pending(f, p)) /\ Extra(f, p)' = Extra(f, p)
    BY <1>1 DEF Pending, Stays, Extra
  <1>4. OnceInv'
    <2>. SUFFICES ASSUME NEW f \in Reminders, NEW p \in Periods
                  PROVE  \/ Extra(f, p) <= 0
                         \/ /\ Extra(f, p) = 1
                            /\ \/ Pending(f, p) \/ left'[p] <= 0
                               \/ (mark[f] # None /\ mark[f] >= left'[p])
      BY <1>1, <1>3 DEF OnceInv
    <2>1. CASE p = row'.period
      BY <1>2, <2>1, RepeatNumbers
    <2>2. CASE p # row'.period
      BY <1>1, <2>2 DEF RepeatInv, OnceInv
    <2>. QED
      BY <2>1, <2>2
  <1>5. DailyInv'
    <2>. SUFFICES ASSUME NEW p \in Periods, Extra(Grace, p) > 0
                  PROVE  IF Pending(Grace, p) THEN 24 * (Extra(Grace, p) - 1) < -left'[p]
                         ELSE 24 * Extra(Grace, p)
                                 < (IF mark[Grace] = None THEN 0 ELSE mark[Grace]) - left'[p]
      BY <1>1, <1>3 DEF DailyInv
    <2>1. p # row'.period
      BY <1>2, RepeatNumbers
    <2>. QED
      BY <1>1, <2>1 DEF RepeatInv, DailyInv
  <1>. QED
    BY <1>4, <1>5 DEF RepeatInv

\* Every step keeps the count of the messages.
LEMMA RepeatStep == ASSUME KeyTypes, PeriodInv, SendInv, RepeatInv, KeyStep PROVE RepeatInv'
  <1>1. CASE RunCycle
    <2>1. cycle'.at # "mark" /\ cycle.at # "mark" /\ UNCHANGED <<shown, unmarked, left, mark>>
      BY <1>1, RunCycleIs DEF Idle
    <2>. QED
      BY <2>1, RepeatWaits
  <1>2. CASE Consider \/ IsSent \/ CheckFails \/ PersistFlag
    <2>1. cycle'.at # "mark" /\ cycle.at # "mark" /\ UNCHANGED <<left, mark>>
      <3>1. cycle.at \in {"consider", "check", "persist"} /\ UNCHANGED <<left, mark>>
        BY <1>2 DEF Consider, IsSent, CheckFails, PersistFlag
      <3>2. ~Send /\ ~MarkFails
        BY <3>1 DEF Send, MarkFails
      <3>3. Goes("check") \/ Goes("send") \/ Passes
        BY <1>2, <3>2, WalkIs
      <3>. QED
        BY <3>1, <3>3 DEF Goes, Passes
    <2>2. UNCHANGED <<shown, unmarked>>
      BY <1>2 DEF Consider, IsSent, CheckFails, PersistFlag
    <2>. QED
      BY <2>1, <2>2, RepeatWaits
  <1>3. CASE Send
    BY <1>3, RepeatSends
  <1>4. CASE MarkFails
    <2>1. cycle.at = "mark" /\ Passes /\ UNCHANGED <<shown, left, mark>>
      <3>1. cycle.at = "mark" /\ cycle' = Passed /\ UNCHANGED <<shown, left, mark, cached>>
        BY <1>4 DEF MarkFails
      <3>. QED
        BY <3>1, PassesOn
    <2>2. cycle'.at # "mark"
      BY <2>1 DEF Passes
    <2>3. Funnel \in KeyFunnels
      BY <2>1, Walking
    <2>. QED
      BY <1>4, <2>1, <2>2, <2>3, MarkFailsIs, RepeatLoses
  <1>5. CASE MarkSent
    BY <1>5, RepeatMarks
  <1>6. CASE ReadKeys
    <2>1. Stays
      BY <1>6, StaysAlone DEF ReadKeys
    <2>. QED
      BY <1>6, <2>1, RepeatStays DEF ReadKeys
  <1>7. CASE WriteKeys
    BY <1>7, WriteKeysIs, RepeatStays
  <1>8. CASE StartRenewal
    <2>1. Stays
      BY <1>8, StaysAlone DEF StartRenewal
    <2>. QED
      BY <1>8, <2>1, RepeatStays DEF StartRenewal
  <1>9. CASE SaveRenewed
    BY <1>9, RepeatRenews
  <1>10. CASE ResetFlags
    BY <1>10, ResetFlagsIs, RepeatStays
  <1>11. CASE KeyRestart
    <2>. DEFINE n == IF cycle.at = "mark" THEN 1 ELSE 0
    <2>1. n \in {0, 1} /\ (cycle.at = "mark" => n = 1)
      OBVIOUS
    <2>2. /\ cycle'.at # "mark" /\ UNCHANGED <<shown, left, mark>> /\ Funnel \in KeyFunnels
          /\ unmarked' \in [KeyFunnels -> Nat] /\ unmarked'[Funnel] = unmarked[Funnel] + n
          /\ \A f \in KeyFunnels \ {Funnel} : unmarked'[f] = unmarked[f]
      BY <1>11, KeyRestartIs
    <2>. HIDE DEF n
    <2>. QED
      BY <2>1, <2>2, RepeatLoses
  <1>12. CASE Tick
    BY <1>12, RepeatTicks
  <1>. QED
    BY <1>1, <1>2, <1>3, <1>4, <1>5, <1>6, <1>7, <1>8, <1>9, <1>10, <1>11, <1>12 DEF KeyStep

\* In an undisturbed period a renewal is alone, and every object is of the row's period.
AloneInv ==
    ~disturbed =>
      /\ renewal.at # "idle" => cycle.at = "idle" /\ reload.at = "idle"
      /\ renewal.at = "reset" => renewal.copy = Shared
      /\ renewal.at # "save" => cached.period = row.period
      /\ renewal.at = "idle" /\ reload.at = "write" => reload.image.period = row.period
      /\ renewal.at = "idle" /\ cycle.at # "idle" => Held.period = row.period

\* Where a renewal and a reload can be.
LEMMA KeyPlaces ==
    ASSUME KeyTypes
    PROVE  /\ renewal.at \in {"idle", "save", "reset"} /\ reload.at \in {"idle", "write"}
           /\ disturbed \in BOOLEAN /\ Idle.at = "idle"
           /\ NoReload.at = "idle" /\ NoRenewal.at = "idle"
  <1>1. disturbed \in BOOLEAN
    BY DEF KeyTypes
  <1>2. NoReload.at = "idle" /\ NoRenewal.at = "idle" /\ Idle.at = "idle"
    BY DEF NoReload, NoRenewal, Idle
  <1>3. renewal.at \in {"idle", "save", "reset"}
    BY <1>2 DEF KeyTypes, Saves, Resets
  <1>4. reload.at \in {"idle", "write"}
    BY <1>2 DEF KeyTypes, Loads
  <1>. QED
    BY <1>1, <1>2, <1>3, <1>4

\* Every step keeps an undisturbed renewal alone.
LEMMA AloneStep == ASSUME KeyTypes, PeriodInv, AloneInv, KeyStep PROVE AloneInv'
  <1>. SUFFICES ASSUME ~disturbed' PROVE AloneInv'
    BY DEF AloneInv
  <1>1. CASE RunCycle
    <2>1. /\ ~disturbed /\ cycle.at = "idle"
          /\ InSendingWindow(hour) => renewal.at = "idle"
          /\ cycle'.at # "idle" => InSendingWindow(hour) /\ Held'.period = cached.period
          /\ UNCHANGED <<row, cached, reload, renewal>>
      BY <1>1, RunCycleIs, KeyPlaces DEF Idle
    <2>. QED
      BY <2>1, KeyPlaces DEF AloneInv
  <1>2. CASE Consider \/ IsSent \/ CheckFails \/ Send \/ MarkFails \/ PersistFlag
    <2>1. /\ ~disturbed /\ cycle.at # "idle" /\ UNCHANGED <<cached, reload, renewal>>
      BY <1>2, WalkIs
    <2>2. cycle'.at # "idle" => Held'.period = Held.period
      BY <1>2, WalkIs DEF Goes, Passes
    <2>3. row'.period = row.period
      BY <1>2, WalkIs, PersistFlagIs
    <2>. QED
      BY <2>1, <2>2, <2>3 DEF AloneInv
  <1>3. CASE MarkSent
    <2>1. /\ ~disturbed /\ cycle.at # "idle" /\ cached'.period = cached.period
          /\ Held'.period = Held.period /\ UNCHANGED <<row, reload, renewal>>
      BY <1>3, MarkSentIs
    <2>. QED
      BY <2>1 DEF AloneInv
  <1>4. CASE ReadKeys
    <2>1. /\ ~disturbed /\ renewal.at = "idle" /\ reload'.image = row
          /\ UNCHANGED <<row, cached, cycle, renewal>>
      BY <1>4 DEF ReadKeys
    <2>2. Held' = Held
      BY <2>1 DEF Held, Left
    <2>. QED
      BY <2>1, <2>2 DEF AloneInv
  <1>5. CASE WriteKeys
    <2>1. /\ ~disturbed /\ reload.at = "write" /\ cached' = reload.image /\ row' = row
          /\ reload'.at = "idle" /\ renewal'.at = renewal.at /\ Stays
      BY <1>5, WriteKeysIs, KeyPlaces
    <2>2. renewal.at = "idle"
      BY <2>1 DEF AloneInv
    <2>. QED
      BY <2>1, <2>2 DEF AloneInv, Stays
  <1>6. CASE StartRenewal
    <2>1. /\ renewal'.at = "save" /\ cycle.at = "idle" /\ reload.at = "idle"
          /\ UNCHANGED <<cycle, reload>>
      BY <1>6 DEF StartRenewal
    <2>. QED
      BY <2>1 DEF AloneInv
  <1>7. CASE SaveRenewed
    <2>1. renewal.copy.period = row.period /\ row.period < MaxRenewals /\ renewal.at = "save"
      BY <1>7 DEF PeriodInv, SaveRenewed
    <2>2. /\ ~disturbed /\ cached' = row' /\ renewal'.at = "reset" /\ renewal'.copy = Shared
          /\ Stays /\ reload' = reload
      BY <1>7, <2>1, SaveRenewedIs
    <2>. QED
      BY <2>1, <2>2 DEF AloneInv, Stays
  <1>8. CASE ResetFlags
    <2>1. /\ ~disturbed /\ renewal.at = "reset" /\ renewal'.at = "idle" /\ Stays
          /\ row'.period = row.period /\ cached'.period = Left(renewal.copy).period
          /\ reload' = reload
      BY <1>8, ResetFlagsIs, KeyPlaces
    <2>2. /\ cycle'.at = "idle" /\ reload'.at = "idle" /\ renewal.copy = Shared
          /\ cached.period = row.period
      BY <2>1 DEF AloneInv, Stays
    <2>3. cached'.period = row'.period
      BY <2>1, <2>2 DEF Left
    <2>. QED
      BY <2>1, <2>2, <2>3 DEF AloneInv
  <1>9. CASE KeyRestart
    BY <1>9, KeyRestartIs
  <1>10. CASE Tick
    <2>1. ~disturbed /\ UNCHANGED <<row, cached, cycle, reload, renewal>>
      BY <1>10, TickIs
    <2>2. Held' = Held
      BY <2>1 DEF Held, Left
    <2>. QED
      BY <2>1, <2>2 DEF AloneInv
  <1>. QED
    BY <1>1, <1>2, <1>3, <1>4, <1>5, <1>6, <1>7, <1>8, <1>9, <1>10 DEF KeyStep

\* There a flag tells of a message of this period.
Reminded(f) == shown[f][row.period] > 0
FlagsInv ==
    ~disturbed /\ renewal.at = "idle" =>
        \A f \in Reminders :
            /\ f \in row.flags \cup cached.flags => Reminded(f)
            /\ reload.at = "write" /\ f \in reload.image.flags => Reminded(f)
            /\ cycle.at # "idle" /\ f \in Held.flags => Reminded(f)
            /\ cycle.at \in {"mark", "persist"} /\ Funnel = f => Reminded(f)

\* A message stays sent as long as the period is the row's.
LEMMA RemindedStays ==
    ASSUME KeyTypes, KeyStep, row'.period = row.period,
           NEW f \in KeyFunnels, Reminded(f)
    PROVE  Reminded(f)'
  <1>1. row.period \in Periods /\ shown[f][row.period] \in Nat
    BY DEF KeyTypes, Records
  <1>2. CASE Send
    BY <1>1, <1>2, SendIs DEF Reminded, KeyTypes
  <1>3. CASE ~Send
    <2>1. shown' = shown
      BY <1>3 DEF KeyStep, RunCycle, Consider, IsSent, CheckFails, MarkSent, MarkFails, PersistFlag,
         ReadKeys, WriteKeys, StartRenewal, SaveRenewed, ResetFlags, KeyRestart, Tick
    <2>. QED
      BY <2>1 DEF Reminded
  <1>. QED
    BY <1>2, <1>3

\* Every step keeps the flags of an undisturbed period true.
LEMMA FlagsStep == ASSUME KeyTypes, PeriodInv, AloneInv, FlagsInv, KeyStep PROVE FlagsInv'
  <1>. SUFFICES ASSUME ~disturbed', renewal'.at = "idle", NEW f \in Reminders
                PROVE  /\ f \in row'.flags \cup cached'.flags => Reminded(f)'
                       /\ reload'.at = "write" /\ f \in reload'.image.flags => Reminded(f)'
                       /\ cycle'.at # "idle" /\ f \in Held'.flags => Reminded(f)'
                       /\ cycle'.at \in {"mark", "persist"} /\ Funnel' = f => Reminded(f)'
    BY DEF FlagsInv
  <1>0. f \in KeyFunnels
    BY RepeatNumbers
  <1>1. CASE RunCycle
    <2>1. /\ ~disturbed /\ renewal.at = "idle" /\ UNCHANGED <<row, cached, reload, shown>>
          /\ cycle'.at # "idle" => cycle'.at = "consider" /\ Held' = cached
      BY <1>1, RunCycleIs, KeyPlaces
    <2>2. Reminded(f)' <=> Reminded(f)
      BY <2>1 DEF Reminded
    <2>. QED
      BY <2>1, <2>2 DEF FlagsInv
  <1>2. CASE Consider \/ IsSent \/ CheckFails \/ Send \/ MarkFails \/ PersistFlag
    <2>1. /\ ~disturbed /\ renewal.at = "idle" /\ cycle.at # "idle"
          /\ UNCHANGED <<cached, reload>>
      BY <1>2, WalkIs
    <2>2. row'.period = row.period
      BY <1>2, WalkIs, PersistFlagIs
    <2>3. Reminded(f) => Reminded(f)'
      BY <1>0, <2>2, RemindedStays
    <2>4. cycle'.at # "idle" => Held' = Held
      BY <1>2, WalkIs DEF Goes, Passes
    <2>5. f \in row'.flags => Reminded(f)'
      <3>1. CASE PersistFlag
        <4>1. row'.flags \subseteq row.flags \cup {Funnel} /\ cycle.at = "persist"
          BY <3>1, PersistFlagIs DEF PersistFlag
        <4>. QED
          BY <2>1, <2>3, <4>1 DEF FlagsInv
      <3>2. CASE ~PersistFlag
        BY <1>2, <2>1, <2>3, <3>2, WalkIs DEF FlagsInv
      <3>. QED
        BY <3>1, <3>2
    <2>6. cycle'.at \in {"mark", "persist"} /\ Funnel' = f => Reminded(f)'
      <3>1. CASE Send
        <4>1. Goes("mark")
          <5>1. cycle.at = "send"
            BY <3>1 DEF Send
          <5>. QED
            BY <3>1, <5>1, WalkIs
        <4>2. /\ Held.period = row.period /\ row.period \in Periods
              /\ shown[Funnel][Held.period] \in Nat
          BY <2>1, Walking DEF AloneInv, KeyTypes
        <4>3. Funnel' = Funnel
          BY <4>1 DEF Goes
        <4>. QED
          BY <2>2, <3>1, <4>2, <4>3, SendIs DEF Reminded
      <3>2. CASE ~Send
        <4>1. cycle'.at \notin {"mark", "persist"}
          BY <1>2, <3>2, WalkIs DEF Goes, Passes
        <4>. QED
          BY <4>1
      <3>. QED
        BY <3>1, <3>2
    <2>. QED
      BY <2>1, <2>3, <2>4, <2>5, <2>6 DEF FlagsInv
  <1>3. CASE MarkSent
    <2>1. /\ ~disturbed /\ renewal.at = "idle" /\ cycle.at = "mark" /\ cycle'.at = "persist"
          /\ Held'.flags = Held.flags \cup {Funnel}
          /\ cached'.flags \subseteq cached.flags \cup {Funnel} /\ Funnel' = Funnel
          /\ UNCHANGED <<row, reload, shown>>
      BY <1>3, MarkSentIs
    <2>2. Reminded(f)' <=> Reminded(f)
      BY <2>1 DEF Reminded
    <2>. QED
      BY <2>1, <2>2 DEF FlagsInv
  <1>4. CASE ReadKeys
    <2>1. /\ ~disturbed /\ renewal.at = "idle" /\ reload'.image = row
          /\ UNCHANGED <<row, cached, cycle, shown>>
      BY <1>4 DEF ReadKeys
    <2>2. Held' = Held /\ Funnel' = Funnel /\ (Reminded(f)' <=> Reminded(f))
      BY <2>1 DEF Held, Left, Funnel, Reminded
    <2>. QED
      BY <2>1, <2>2 DEF FlagsInv
  <1>5. CASE WriteKeys
    <2>1. /\ ~disturbed /\ reload.at = "write" /\ cached' = reload.image
          /\ reload'.at = "idle" /\ renewal.at = "idle" /\ Stays /\ UNCHANGED <<row, shown>>
      BY <1>5, WriteKeysIs, KeyPlaces
    <2>2. Reminded(f)' <=> Reminded(f)
      BY <2>1 DEF Reminded
    <2>. QED
      BY <2>1, <2>2 DEF FlagsInv, Stays
  <1>6. CASE StartRenewal
    BY <1>6 DEF StartRenewal
  <1>7. CASE SaveRenewed
    BY <1>7 DEF SaveRenewed
  <1>8. CASE ResetFlags
    <2>1. /\ ~disturbed /\ renewal.at = "reset" /\ Stays /\ reload' = reload
          /\ row'.flags = row.flags \ Reminders
          /\ cached'.flags = Left(renewal.copy).flags \ Reminders
      BY <1>8, ResetFlagsIs
    <2>2. cycle'.at = "idle" /\ reload'.at = "idle"
      BY <2>1 DEF AloneInv, Stays
    <2>. QED
      BY <2>1, <2>2
  <1>9. CASE KeyRestart
    BY <1>9, KeyRestartIs
  <1>10. CASE Tick
    <2>1. /\ ~disturbed /\ renewal.at = "idle"
          /\ UNCHANGED <<row, cached, cycle, reload, shown>>
      BY <1>10, TickIs
    <2>2. Held' = Held /\ Funnel' = Funnel /\ (Reminded(f)' <=> Reminded(f))
      BY <2>1 DEF Held, Left, Funnel, Reminded
    <2>. QED
      BY <2>1, <2>2 DEF FlagsInv
  <1>. QED
    BY <1>1, <1>2, <1>3, <1>4, <1>5, <1>6, <1>7, <1>8, <1>9, <1>10 DEF KeyStep

\* In the last ten hours of an undisturbed period who has had no message is in a
\* night that has lasted since, or the cycle is on its way to him; and the mark
\* of the last period is over by then.
TermLeft == left[row.period]
OnTheWay(f) ==
    /\ cycle.at # "idle" /\ cycle.nth <= Turn(f)
    /\ cycle.nth = Turn(f) => cycle.at \in {"consider", "check", "send"}
Unmarked(f) == mark[f] # None => mark[f] + 11 <= TermLeft
NightSince == TermLeft <= 9 => hour <= 8 /\ 9 - TermLeft <= hour
Reached(f) == ran /\ InSendingWindow(hour) /\ TermLeft \in 1..10 => OnTheWay(f)
ReachInv ==
    ~disturbed /\ renewal.at # "save" =>
        \A f \in Reminders : Reminded(f) \/ (Unmarked(f) /\ NightSince /\ Reached(f))

\* The class and the mark leave the walk of an undisturbed cycle no way past.
LEMMA WalkReaches ==
    ASSUME KeyTypes, AloneInv, FlagsInv, ~disturbed', NEW f \in Reminders,
           Consider \/ IsSent \/ CheckFails \/ Send \/ MarkFails \/ PersistFlag,
           ~Reminded(f), ~Reminded(f)', Unmarked(f), OnTheWay(f), TermLeft \in 1..10
    PROVE  OnTheWay(f)'
  <1>1. /\ ~disturbed /\ cycle.at # "idle" /\ f \in KeyFunnels /\ f # Grace
        /\ Turn(f) \in {1, 2} /\ cycle.nth \in 1..3 /\ Turn(Funnel) = cycle.nth
        /\ Funnel \in KeyFunnels
    <2>1. ~disturbed /\ cycle.at # "idle"
      BY WalkIs
    <2>2. f \in KeyFunnels /\ f # Grace
      BY RepeatNumbers
    <2>3. Turn(f) \in {1, 2}
      BY DEF Turn, Reminders
    <2>. QED
      BY <2>1, <2>2, <2>3, Walking
  <1>2. Held.period = row.period
    BY <1>1, KeyPlaces DEF AloneInv
  <1>3. CASE cycle.nth # Turn(f)
    <2>1. cycle.nth < Turn(f)
      BY <1>1, <1>3 DEF OnTheWay
    <2>2. CASE Passes
      <3>1. cycle'.at = "consider" /\ cycle'.nth = cycle.nth + 1
        BY <1>1, <2>1, <2>2 DEF Passes
      <3>. QED
        BY <1>1, <2>1, <3>1 DEF OnTheWay
    <2>3. CASE \E place \in Stages : Goes(place)
      BY <1>1, <1>3, <2>1, <2>3 DEF OnTheWay, Goes, Stages
    <2>. QED
      BY <2>2, <2>3, WalkIs DEF Stages
  <1>4. CASE cycle.nth = Turn(f)
    <2>1. Funnel = f
      BY <1>1, <1>4, FunnelFacts
    <2>2. cycle.at \in {"consider", "check", "send"}
      BY <1>4 DEF OnTheWay
    <2>3. renewal.at = "idle"
      BY <1>1, KeyPlaces DEF AloneInv
    <2>4. CASE Goes("check") \/ Goes("send")
      BY <1>4, <2>4 DEF Goes, OnTheWay
    <2>5. CASE Consider /\ Passes
      <3>1. Due(f, left[Held.period])
        BY <1>1, <1>2 DEF Due, Reminders, TermLeft
      <3>2. f \in Held.flags
        BY <2>1, <2>5, <3>1, WalkIs DEF Goes, Passes, Consider, IsSent, CheckFails, Send
      <3>. QED
        BY <1>1, <2>3, <3>2 DEF FlagsInv
    <2>6. CASE IsSent /\ mark[Funnel] # None
      <3>1. mark[f] \in Nat /\ mark[f] # None
        BY <1>1, <2>1, <2>6 DEF KeyTypes
      <3>2. mark[f] + 11 <= TermLeft
        BY <3>1 DEF Unmarked
      <3>. QED
        BY <3>1, <3>2
    <2>7. CASE Send
      <3>1. cycle.at = "send" /\ row' = row
        BY <2>7 DEF Send
      <3>2. shown'[f][row.period] = shown[f][row.period] + 1 /\ shown[f][row.period] \in Nat
        BY <1>1, <1>2, <2>1, <2>7, SendIs, Walking DEF KeyTypes
      <3>3. shown'[f][row'.period] > 0
        BY <3>1, <3>2
      <3>. QED
        BY <3>3 DEF Reminded
    <2>. QED
      BY <2>2, <2>4, <2>5, <2>6, <2>7, WalkIs
  <1>. QED
    BY <1>3, <1>4

\* The night goes on, and no hour of sending passes unused.
LEMMA ReachTicks ==
    ASSUME KeyTypes, Tick, NEW f \in Reminders, Unmarked(f), NightSince, Reached(f)
    PROVE  Unmarked(f)' /\ NightSince' /\ Reached(f)'
  <1>1. /\ ran /\ cycle.at = "idle" /\ ran' = FALSE /\ row' = row
        /\ hour' = IF hour = 23 THEN 0 ELSE hour + 1
        /\ \A p \in Periods : left'[p] = left[p] - 1
        /\ \A g \in KeyFunnels :
              IF mark[g] \in {None, 0} THEN mark'[g] = None ELSE mark'[g] = mark[g] - 1
    BY TickIs
  <1>2. PICK l \in Int, h \in 0..23 : l = TermLeft /\ h = hour
    BY DEF TermLeft, KeyTypes, Records
  <1>3. TermLeft' = l - 1
    BY <1>1, <1>2 DEF TermLeft, KeyTypes, Records
  <1>4. Unmarked(f)'
    <2>1. f \in KeyFunnels /\ mark[f] \in Nat \cup {None} /\ None \notin Int
      BY RepeatNumbers
    <2>2. IF mark[f] \in {None, 0} THEN mark'[f] = None ELSE mark'[f] = mark[f] - 1
      BY <1>1, <2>1
    <2>3. mark[f] # None => mark[f] + 11 <= l
      BY <1>2 DEF Unmarked
    <2>4. mark'[f] # None => mark'[f] + 11 <= l - 1
      BY <2>1, <2>2, <2>3
    <2>. QED
      BY <1>3, <2>4 DEF Unmarked
  <1>5. NightSince'
    <2>1. l <= 9 => h <= 8 /\ 9 - l <= h
      BY <1>2 DEF NightSince
    <2>2. l \in 1..10 => ~(8 <= h /\ h < 23)
      BY <1>1, <1>2 DEF Reached, OnTheWay, InSendingWindow
    <2>3. hour' = IF h = 23 THEN 0 ELSE h + 1
      BY <1>1, <1>2
    <2>4. l - 1 <= 9 => hour' <= 8 /\ 9 - (l - 1) <= hour'
      BY <2>1, <2>2, <2>3
    <2>. QED
      BY <1>3, <2>4 DEF NightSince
  <1>6. Reached(f)'
    BY <1>1 DEF Reached
  <1>. QED
    BY <1>4, <1>5, <1>6

\* Every step keeps the user within reach of the cycle.
LEMMA ReachStep ==
    ASSUME KeyTypes, PeriodInv, AloneInv, FlagsInv, ReachInv, KeyStep
    PROVE  ReachInv'
  <1>. SUFFICES ASSUME ~disturbed', renewal'.at # "save", NEW f \in Reminders, ~Reminded(f)'
                PROVE  Unmarked(f)' /\ NightSince' /\ Reached(f)'
    BY DEF ReachInv
  <1>0. f \in KeyFunnels /\ mark[f] \in Nat \cup {None} /\ None \notin Int /\ Turn(f) \in 1..3
    BY RepeatNumbers, FunnelFacts
  <1>1. CASE RunCycle
    <2>1. /\ ~disturbed /\ renewal.at # "save" /\ cycle.at = "idle"
          /\ IF InSendingWindow(hour)
             THEN cycle'.at = "consider" /\ cycle'.nth = 1 ELSE cycle'.at = "idle"
          /\ UNCHANGED <<hour, left, row, mark, shown>>
      BY <1>1, RunCycleIs, KeyPlaces
    <2>2. /\ (Reminded(f)' <=> Reminded(f)) /\ (Unmarked(f)' <=> Unmarked(f))
          /\ (NightSince' <=> NightSince)
      BY <2>1 DEF Reminded, Unmarked, NightSince, TermLeft
    <2>3. Reached(f)'
      BY <1>0, <2>1 DEF Reached, OnTheWay
    <2>. QED
      BY <2>1, <2>2, <2>3 DEF ReachInv
  <1>2. CASE Consider \/ IsSent \/ CheckFails \/ Send \/ MarkFails \/ PersistFlag
    <2>1. /\ ~disturbed /\ renewal' = renewal /\ UNCHANGED <<hour, ran, left, mark>>
      BY <1>2, WalkIs
    <2>2. row'.period = row.period
      BY <1>2, WalkIs, PersistFlagIs
    <2>3. ~Reminded(f)
      BY <1>0, <2>2, RemindedStays
    <2>4. Unmarked(f) /\ NightSince /\ Reached(f)
      BY <2>1, <2>3 DEF ReachInv
    <2>5. TermLeft' = TermLeft
      BY <2>1, <2>2 DEF TermLeft
    <2>6. Unmarked(f)' /\ NightSince'
      BY <2>1, <2>4, <2>5 DEF Unmarked, NightSince
    <2>7. Reached(f)'
      BY <1>2, <2>1, <2>3, <2>4, <2>5, WalkReaches DEF Reached
    <2>. QED
      BY <2>6, <2>7
  <1>3. CASE MarkSent
    <2>1. /\ ~disturbed /\ cycle.at = "mark" /\ cycle'.at = "persist" /\ cycle'.nth = cycle.nth
          /\ \A g \in KeyFunnels \ {Funnel} : mark'[g] = mark[g]
          /\ UNCHANGED <<hour, ran, left, row, renewal, shown>>
      BY <1>3, MarkSentIs
    <2>2. Reminded(f)' <=> Reminded(f)
      BY <2>1 DEF Reminded
    <2>3. f # Funnel
      BY <2>1, <2>2, KeyPlaces DEF AloneInv, FlagsInv
    <2>4. /\ mark'[f] = mark[f] /\ TermLeft' = TermLeft
          /\ Unmarked(f) /\ NightSince /\ Reached(f)
      BY <1>0, <2>1, <2>2, <2>3 DEF ReachInv, TermLeft
    <2>5. cycle.nth # Turn(f)
      BY <1>0, <2>1, <2>3, Walking, FunnelFacts
    <2>. QED
      BY <2>1, <2>4, <2>5 DEF Unmarked, NightSince, Reached, OnTheWay
  <1>4. CASE ReadKeys
    <2>1. /\ ~disturbed
          /\ UNCHANGED <<hour, ran, left, row, mark, cycle, renewal, shown>>
      BY <1>4 DEF ReadKeys
    <2>. QED
      BY <2>1 DEF ReachInv, Reminded, Unmarked, NightSince, Reached, OnTheWay, TermLeft
  <1>5. CASE WriteKeys
    <2>1. /\ ~disturbed /\ renewal'.at = renewal.at
          /\ cycle'.at = cycle.at /\ cycle'.nth = cycle.nth
          /\ UNCHANGED <<hour, ran, left, row, mark, shown>>
      BY <1>5, WriteKeysIs DEF Stays
    <2>. QED
      BY <2>1 DEF ReachInv, Reminded, Unmarked, NightSince, Reached, OnTheWay, TermLeft
  <1>6. CASE StartRenewal
    BY <1>6 DEF StartRenewal
  <1>7. CASE SaveRenewed
    <2>1. renewal.copy.period = row.period /\ row.period < MaxRenewals
      BY <1>7 DEF PeriodInv, SaveRenewed
    <2>2. /\ left'[row'.period] >= 36 /\ left' \in [Periods -> Int] /\ row'.period \in Periods
          /\ UNCHANGED <<hour, mark>>
      BY <1>7, <2>1, SaveRenewedIs
    <2>3. PICK l \in Int : l = TermLeft' /\ l >= 36
      BY <2>2 DEF TermLeft
    <2>4. mark[f] # None => mark[f] \in Nat /\ mark[f] <= 25
      <3>1. Term(f) \in Nat /\ Term(f) <= 25
        BY FunnelFacts DEF Reminders
      <3>. QED
        BY <1>0, <3>1 DEF KeyTypes
    <2>5. mark'[f] # None => mark'[f] + 11 <= l
      BY <2>2, <2>3, <2>4
    <2>6. ~(l <= 9) /\ l \notin 1..10
      BY <2>3
    <2>. QED
      BY <2>3, <2>5, <2>6 DEF Unmarked, NightSince, Reached
  <1>8. CASE ResetFlags
    <2>1. /\ ~disturbed /\ renewal.at = "reset" /\ row'.period = row.period
          /\ cycle'.at = cycle.at /\ cycle'.nth = cycle.nth
          /\ UNCHANGED <<hour, ran, left, mark, shown>>
      BY <1>8, ResetFlagsIs DEF Stays
    <2>. QED
      BY <2>1 DEF ReachInv, Reminded, Unmarked, NightSince, Reached, OnTheWay, TermLeft
  <1>9. CASE KeyRestart
    BY <1>9, KeyRestartIs
  <1>10. CASE Tick
    <2>1. ~disturbed /\ UNCHANGED <<row, renewal, shown>>
      BY <1>10, TickIs
    <2>2. Reminded(f)' <=> Reminded(f)
      BY <2>1 DEF Reminded
    <2>3. Unmarked(f) /\ NightSince /\ Reached(f)
      BY <2>1, <2>2 DEF ReachInv
    <2>. QED
      BY <1>10, <2>3, ReachTicks
  <1>. QED
    BY <1>1, <1>2, <1>3, <1>4, <1>5, <1>6, <1>7, <1>8, <1>9, <1>10 DEF KeyStep

KeyInv ==
    /\ KeyTypes /\ PeriodInv /\ SendInv /\ RepeatInv
    /\ AloneInv /\ FlagsInv /\ ReachInv

\* With no message the facts hold.
LEMMA KeyInitInv == KeyInit => KeyInv
  <1>. SUFFICES ASSUME KeyInit PROVE KeyInv
    OBVIOUS
  <1>1. KeyTypes
    BY KeyInitTypes
  <1>2. /\ row = [period |-> 0, flags |-> {}] /\ cached = row /\ cycle = Idle
        /\ reload = NoReload /\ renewal = NoRenewal /\ ran = FALSE
        /\ 0 \in Periods /\ left[0] = FirstLeft
        /\ \A f \in KeyFunnels : mark[f] = None /\ unmarked[f] = 0
        /\ \A f \in KeyFunnels, p \in Periods : shown[f][p] = 0
    BY KeyConstants DEF KeyInit, Periods
  <1>3. row.period = 0 /\ row.flags = {} /\ cycle.at = "idle" /\ reload.at = "idle"
        /\ renewal.at = "idle"
    BY <1>1, <1>2, KeyPlaces
  <1>4. PeriodInv
    BY <1>2, <1>3 DEF PeriodInv
  <1>5. SendInv
    BY <1>3 DEF SendInv
  <1>6. RepeatInv
    <2>1. \A f \in KeyFunnels, p \in Periods : Extra(f, p) = 0
      BY <1>2 DEF Extra
    <2>. QED
      BY <1>1, <2>1, RepeatNumbers DEF RepeatInv, OnceInv, DailyInv
  <1>7. AloneInv
    BY <1>2, <1>3 DEF AloneInv
  <1>8. FlagsInv
    BY <1>2, <1>3 DEF FlagsInv
  <1>9. ReachInv
    <2>1. TermLeft = FirstLeft
      BY <1>2, <1>3 DEF TermLeft
    <2>2. \A f \in Reminders : Unmarked(f)
      BY <1>1, <1>2, RepeatNumbers DEF Unmarked
    <2>3. NightSince
      BY <2>1, KeyConstants DEF NightSince
    <2>4. \A f \in Reminders : Reached(f)
      BY <1>2 DEF Reached
    <2>. QED
      BY <2>2, <2>3, <2>4 DEF ReachInv
  <1>. QED
    BY <1>1, <1>4, <1>5, <1>6, <1>7, <1>8, <1>9 DEF KeyInv

\* Every step of the funnels about keys keeps the facts.
LEMMA KeyStepKeeps == KeyInv /\ KeyStep => KeyInv'
  <1>. SUFFICES ASSUME KeyInv, KeyStep PROVE KeyInv'
    OBVIOUS
  <1>1. SaveRenewed => renewal.copy.period = row.period /\ row.period < MaxRenewals
    BY DEF KeyInv, PeriodInv, SaveRenewed
  <1>. QED
    BY <1>1, KeyTypesStep, PeriodStep, SendStep, RepeatStep, AloneStep, FlagsStep, ReachStep
       DEF KeyInv

\* So does a step of another kind of work.
LEMMA KeyStays == KeyInv /\ UNCHANGED keyVars => KeyInv'
  <1>. SUFFICES ASSUME KeyInv, UNCHANGED keyVars PROVE KeyInv'
    OBVIOUS
  <1>1. UNCHANGED <<hour, ran, left, row, cached, mark, cycle, reload, renewal, shown, unmarked,
                    disturbed, keyFaults>>
    BY DEF keyVars
  <1>2. Held' = Held /\ Funnel' = Funnel /\ Left(renewal.copy)' = Left(renewal.copy)
    BY <1>1 DEF Held, Left, Funnel
  <1>3. KeyTypes' /\ PeriodInv' /\ SendInv'
    BY <1>1, <1>2 DEF KeyInv, KeyTypes, PeriodInv, SendInv
  <1>4. RepeatInv'
    BY <1>1, <1>2 DEF KeyInv, RepeatInv, OnceInv, DailyInv, Extra, Pending
  <1>5. AloneInv' /\ FlagsInv'
    BY <1>1, <1>2 DEF KeyInv, AloneInv, FlagsInv, Reminded
  <1>6. ReachInv'
    BY <1>1, <1>2 DEF KeyInv, ReachInv, Reminded, Unmarked, NightSince, Reached, OnTheWay, TermLeft
  <1>. QED
    BY <1>3, <1>4, <1>5, <1>6 DEF KeyInv

\* The inductive invariant of the funnels about keys.
LEMMA KeyInvariant == Spec => []KeyInv
  <1>1. Init => KeyInv
    BY KeyInitInv DEF Init
  <1>2. KeyInv /\ [Next]_schedulerVars => KeyInv'
    <2>. SUFFICES ASSUME KeyInv, [Next]_schedulerVars PROVE KeyInv'
      OBVIOUS
    <2>1. KeyStep \/ UNCHANGED keyVars
      BY DEF Next, RunsKeys, RunsUsers, RunsSync, RunsBulk, RunsReports, schedulerVars
    <2>. QED
      BY <2>1, KeyStepKeeps, KeyStays
  <1>. QED
    BY <1>1, <1>2, PTL DEF Spec

\* No night is ten hours long, and an extra message has its mark or its day.
LEMMA KeyInvImplies == KeyInv => RemindedOnce
  <1>. SUFFICES ASSUME KeyInv PROVE RemindedOnce
    OBVIOUS
  <1>0. KeyTypes
    BY DEF KeyInv
  <1>1. RemindedInTime
    <2>. SUFFICES ASSUME left[row.period] = 0, ~disturbed, renewal.at = "idle",
                         NEW f \in Reminders
                  PROVE  Reminded(f)
      BY DEF RemindedInTime, Reminded, Reminders
    <2>1. TermLeft = 0 /\ hour \in 0..23
      BY <1>0 DEF TermLeft, KeyTypes
    <2>2. ~NightSince
      BY <2>1 DEF NightSince
    <2>. QED
      BY <2>2 DEF KeyInv, ReachInv
  <1>2. NoRepeat
    <2>. SUFFICES ASSUME NEW p \in Periods
                  PROVE  /\ \A f \in Reminders : shown[f][p] <= 1 + unmarked[f]
                         /\ Extra(Grace, p) - 1 >= 0 => 24 * (Extra(Grace, p) - 1) < -left[p]
      BY DEF NoRepeat, Reminders, Grace, Extra
    <2>1. ASSUME NEW f \in Reminders PROVE shown[f][p] <= 1 + unmarked[f]
      <3>1. PICK s \in Nat, u \in Nat : s = shown[f][p] /\ u = unmarked[f]
        BY <1>0, RepeatNumbers
      <3>2. s - u <= 0 \/ s - u = 1
        BY <3>1 DEF KeyInv, RepeatInv, OnceInv, Extra
      <3>. QED
        BY <3>1, <3>2
    <2>2. ASSUME Extra(Grace, p) - 1 >= 0 PROVE 24 * (Extra(Grace, p) - 1) < -left[p]
      <3>. DEFINE m == IF mark[Grace] = None THEN 0 ELSE mark[Grace]
      <3>1. m \in Nat /\ m <= 24
        <4>1. Grace \in KeyFunnels /\ mark[Grace] \in Nat \cup {None} /\ Term(Grace) = 24
          BY <1>0, RepeatNumbers, FunnelFacts
        <4>. QED
          BY <1>0, <4>1 DEF KeyTypes
      <3>2. PICK x \in Int, l \in Int : x = Extra(Grace, p) /\ l = left[p]
        BY <1>0, RepeatNumbers
      <3>3. IF Pending(Grace, p) THEN 24 * (x - 1) < -l ELSE 24 * x < m - l
        BY <2>2, <3>2 DEF KeyInv, RepeatInv, DailyInv
      <3>. HIDE DEF m
      <3>4. 24 * (x - 1) < -l
        BY <3>1, <3>2, <3>3
      <3>. QED
        BY <3>2, <3>4
    <2>. QED
      BY <2>1, <2>2
  <1>. QED
    BY <1>1, <1>2 DEF RemindedOnce

\* For terms of any length that outlasts the marks of the last, whatever renews, reloads
\* or fails, who reaches the end of an undisturbed period has been reminded, and no
\* message about a period is repeated but for a lost mark.
THEOREM RemindedOnceHolds == Spec => []RemindedOnce
  BY KeyInvariant, KeyInvImplies, PTL
=============================================================================
