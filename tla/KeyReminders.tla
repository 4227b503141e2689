----------------------------- MODULE KeyReminders -----------------------------
(***************************************************************************)
(* The three funnels that write about a key: a day before it expires, ten  *)
(* hours before, and after it expired.  One key, by the hour.  A cycle     *)
(* takes the cached object of the key at its start and may find the cache  *)
(* changed under it: a renewal saves a copy, a reload puts a new object in *)
(* its place.  What keeps a message from being repeated is a flag, on the  *)
(* object and in the row, and a mark with a term in the table cache.       *)
(*                                                                         *)
(* Expiry times are numbered by the renewals: period p is the p-th term of *)
(* the key, left[p] the hours to its end.                                  *)
(***************************************************************************)
EXTENDS Segments, FiniteSets, Functions

CONSTANTS
    Shared,
    StartHours,     \* hours of the day at which the model may begin
    FirstLeft,      \* hours the first period has then
    RenewAt,        \* hours left at which the key may be renewed
    ReloadHours,    \* hours of the day at which the cache may be loaded
    MaxRenewals,
    RenewedBy,      \* the hours a renewal adds
    LastLeft,       \* the model ends this many hours from expiry
    KeyFaults       \* crashes and failed statements

\* A term is days long: by its last ten hours the marks left by the one before
\* are over.
ASSUME KeyConstants ==
    /\ StartHours \subseteq 0..23 /\ MaxRenewals \in Nat /\ KeyFaults \in Nat
    /\ FirstLeft \in Int /\ FirstLeft >= 10
    /\ RenewedBy \in Int /\ RenewedBy >= 36
    /\ None \notin Int

VARIABLES
    hour,           \* of the day, Moscow time
    ran,            \* this hour's run of the job is over
    left,           \* hours to the end of each period
    row,            \* the row of keys: its period and flags
    cached,         \* the object in cache.keys
    mark,           \* hours the mark of each funnel is valid for, or None
    cycle,          \* the cycle: where it is, its funnel, the object it holds
    reload,         \* the reload: where it is, the row it read
    renewal,        \* the renewal: where it is, the copy it makes
    shown,          \* history: messages of a funnel about a period
    unmarked,       \* history: messages whose mark was not written
    disturbed,      \* history: something failed, or a renewal met another task,
                    \* since the last renewal that met none
    keyFaults       \* crashes and failures so far

keyVars == <<hour, ran, left, row, cached, mark, cycle, reload, renewal,
             shown, unmarked, disturbed, keyFaults>>

\* The three classes are one code but for the segment and the hours of the mark.
Expiry24h == [id |-> "key_expiry_24h", segment |-> "expiring_24h", ttl |-> 25]
Expiry10h == [id |-> "key_expiry_10h", segment |-> "expiring_10h", ttl |-> 10]
ExpiredGrace == [id |-> "key_expired_grace", segment |-> "expired", ttl |-> 24]
Funnels == <<Expiry24h, Expiry10h, ExpiredGrace>>
KeyFunnels == {f.id : f \in Range(Funnels)}
\* Mutant: messages only in the afternoon.
InSendingWindow_Short(h) == 14 <= h /\ h < 23
InSendingWindow(h) == 8 <= h /\ h < 23

Periods == 0..MaxRenewals
Records == [period : Periods, flags : SUBSET KeyFunnels]
ASSUME Placeholders == None # Shared /\ None \notin Records /\ Shared \notin Records
\* A holder of the cached object holds "cached"; once another object took its
\* place there, what it was then.
Left(holder) == IF holder = Shared THEN cached ELSE holder
Idle == [at |-> "idle", nth |-> 1, held |-> None]
NoReload == [at |-> "idle", image |-> None]
NoRenewal == [at |-> "idle", copy |-> None]

KeyInit ==
    /\ hour \in StartHours
    /\ ran = FALSE
    /\ left = [p \in Periods |-> FirstLeft]
    /\ row = [period |-> 0, flags |-> {}]
    /\ cached = row
    /\ mark = [f \in KeyFunnels |-> None]
    /\ cycle = Idle
    /\ reload = NoReload
    /\ renewal = NoRenewal
    /\ shown = [f \in KeyFunnels |-> [p \in Periods |-> 0]]
    /\ unmarked = [f \in KeyFunnels |-> 0]
    /\ disturbed = FALSE
    /\ keyFaults = 0

-----------------------------------------------------------------------------
(* The cycle.  Once an hour it goes through the funnels; a failure in one  *)
(* is logged and the next is run.                                          *)
Funnel == Funnels[cycle.nth].id
Held == Left(cycle.held)
Passed == IF cycle.nth = Len(Funnels) THEN Idle
          ELSE [cycle EXCEPT !.at = "consider", !.nth = @ + 1]
MayFail == keyFaults < KeyFaults

\* keys.get_all(): the cycle holds the object cached now.
RunCycle ==
    /\ cycle.at = "idle" /\ ~ran
    /\ ran' = TRUE
    /\ cycle' = IF InSendingWindow(hour)
                THEN [at |-> "consider", nth |-> 1, held |-> Shared] ELSE Idle
    /\ disturbed' = (disturbed \/ (InSendingWindow(hour) /\ renewal.at # "idle"))
    /\ UNCHANGED <<hour, left, row, cached, mark, reload, renewal, shown,
                   unmarked, keyFaults>>

\* should_send and the flag: the held without a wait between.
Consider ==
    /\ cycle.at = "consider"
    /\ cycle' =
          IF /\ NotifiesOf([left |-> left[Held.period]], Funnels[cycle.nth].segment)
             /\ Funnel \notin Held.flags
          THEN [cycle EXCEPT !.at = "check"] ELSE Passed
    /\ UNCHANGED <<hour, ran, left, row, cached, mark, reload, renewal, shown,
                   unmarked, disturbed, keyFaults>>

\* is_sent.  At the very hour its term ends a mark may be found or not: the
\* check may come a little before the second at which it was written.
IsSent ==
    /\ cycle.at = "check"
    /\ \/ /\ mark[Funnel] # None
          /\ cycle' = Passed
       \/ /\ mark[Funnel] \in {None, 0}
          /\ cycle' = [cycle EXCEPT !.at = "send"]
    /\ UNCHANGED <<hour, ran, left, row, cached, mark, reload, renewal, shown,
                   unmarked, disturbed, keyFaults>>

CheckFails ==
    /\ cycle.at = "check" /\ MayFail
    /\ cycle' = Passed
    /\ keyFaults' = keyFaults + 1
    /\ disturbed' = TRUE
    /\ UNCHANGED <<hour, ran, left, row, cached, mark, reload, renewal, shown,
                   unmarked>>

\* The text names the expiry of the held object.  send_message answers every
\* failure with None, so the funnel takes each message for a sent one.
Send ==
    /\ cycle.at = "send"
    /\ shown' = [shown EXCEPT ![Funnel][Held.period] = @ + 1]
    /\ cycle' = [cycle EXCEPT !.at = "mark"]
    /\ UNCHANGED <<hour, ran, left, row, cached, mark, reload, renewal,
                   unmarked, disturbed, keyFaults>>

\* mark_sent, then the flag of the held object.
MarkSent ==
    /\ cycle.at = "mark"
    /\ mark' = [mark EXCEPT ![Funnel] = Funnels[cycle.nth].ttl]
    /\ LET flagged == [Held EXCEPT !.flags = @ \cup {Funnel}]
       IN IF cycle.held = Shared
          THEN /\ cached' = flagged
               /\ cycle' = [cycle EXCEPT !.at = "persist"]
          ELSE /\ cycle' = [cycle EXCEPT !.at = "persist", !.held = flagged]
               /\ UNCHANGED cached
    /\ UNCHANGED <<hour, ran, left, row, reload, renewal, shown, unmarked,
                   disturbed, keyFaults>>

MarkFails ==
    /\ cycle.at = "mark" /\ MayFail
    /\ unmarked' = [unmarked EXCEPT ![Funnel] = @ + 1]
    /\ cycle' = Passed
    /\ keyFaults' = keyFaults + 1
    /\ UNCHANGED <<hour, ran, left, row, cached, mark, reload, renewal, shown,
                   disturbed>>

\* _persist_flag swallows its failure.
PersistFlag ==
    /\ cycle.at = "persist"
    /\ \/ /\ row' = [row EXCEPT !.flags = @ \cup {Funnel}]
          /\ UNCHANGED keyFaults
       \/ /\ MayFail
          /\ keyFaults' = keyFaults + 1
          /\ UNCHANGED row
    /\ cycle' = Passed
    /\ UNCHANGED <<hour, ran, left, cached, mark, reload, renewal, shown,
                   unmarked, disturbed>>

-----------------------------------------------------------------------------
(* A reload, by the timer or by an admin, at any hour                      *)
ReadKeys ==
    /\ reload.at = "idle"
    /\ hour \in ReloadHours
    /\ reload' = [at |-> "write", image |-> row]
    /\ disturbed' = (disturbed \/ renewal.at # "idle")
    /\ UNCHANGED <<hour, ran, left, row, cached, mark, cycle, renewal, shown,
                   unmarked, keyFaults>>

\* Who holds an object the cache gives up keeps it.
Replaced == [cycle EXCEPT !.held = IF @ = Shared THEN cached ELSE @]

WriteKeys ==
    /\ reload.at = "write"
    /\ cached' = reload.image
    /\ cycle' = Replaced
    /\ renewal' = [renewal EXCEPT !.copy = IF @ = Shared THEN cached ELSE @]
    /\ reload' = NoReload
    /\ UNCHANGED <<hour, ran, left, row, mark, shown, unmarked, disturbed, keyFaults>>

-----------------------------------------------------------------------------
(* A renewal: it reads the row, extends the panel, saves the whole row     *)
(* and then clears the flags.                                              *)
StartRenewal ==
    /\ renewal.at = "idle"
    /\ row.period < MaxRenewals
    /\ left[row.period] \in RenewAt
    /\ renewal' = [at |-> "save", copy |-> row]
    /\ disturbed' = (cycle.at # "idle" \/ reload.at # "idle")
    /\ UNCHANGED <<hour, ran, left, row, cached, mark, cycle, reload, shown, unmarked,
                   keyFaults>>

SaveRenewed ==
    LET p == renewal.copy.period
        saved == [renewal.copy EXCEPT !.period = p + 1]
    IN
    /\ renewal.at = "save"
    /\ left' = [left EXCEPT ![p + 1] = (IF left[p] > 0 THEN left[p] ELSE 0) + RenewedBy]
    /\ row' = saved
    /\ cached' = saved
    /\ cycle' = Replaced
    /\ renewal' = [at |-> "reset", copy |-> Shared]
    /\ UNCHANGED <<hour, ran, mark, reload, shown, unmarked, disturbed, keyFaults>>

\* KeyResetter: two of the three flags, in the row and in the renewed object,
\* which it puts back into the cache.
ResetFlags ==
    LET cleared(rec) == [rec EXCEPT !.flags = @ \ {"key_expiry_24h", "key_expiry_10h"}]
    IN
    /\ renewal.at = "reset"
    /\ row' = cleared(row)
    /\ cached' = cleared(Left(renewal.copy))
    /\ cycle' = IF renewal.copy = Shared THEN cycle ELSE Replaced
    /\ renewal' = NoRenewal
    /\ UNCHANGED <<hour, ran, left, mark, reload, shown, unmarked, disturbed, keyFaults>>

-----------------------------------------------------------------------------
(* A restart drops the tasks and loads the cache; the interval job runs    *)
(* again an hour later.                                                    *)
KeyRestart ==
    /\ MayFail
    /\ keyFaults' = keyFaults + 1
    /\ unmarked' = [unmarked EXCEPT ![Funnel] = @ + IF cycle.at = "mark" THEN 1 ELSE 0]
    /\ cached' = row
    /\ ran' = TRUE
    /\ cycle' = Idle /\ reload' = NoReload /\ renewal' = NoRenewal
    /\ disturbed' = TRUE
    /\ UNCHANGED <<hour, left, row, mark, shown>>

\* Every task of an hour ends within it.
Tick ==
    /\ ran /\ cycle.at = "idle" /\ reload.at = "idle" /\ renewal.at = "idle"
    /\ left[row.period] > LastLeft
    /\ hour' = (hour + 1) % 24
    /\ ran' = FALSE
    /\ left' = [p \in Periods |-> left[p] - 1]
    /\ mark' = [f \in KeyFunnels |->
                   IF mark[f] \in {None, 0} THEN None ELSE mark[f] - 1]
    /\ UNCHANGED <<row, cached, cycle, reload, renewal, shown, unmarked,
                   disturbed, keyFaults>>

KeyStep ==
    \/ RunCycle \/ Consider \/ IsSent \/ CheckFails \/ Send \/ MarkSent \/ MarkFails
    \/ PersistFlag \/ ReadKeys \/ WriteKeys
    \/ StartRenewal \/ SaveRenewed \/ ResetFlags \/ KeyRestart \/ Tick

-----------------------------------------------------------------------------
\* Who reaches the end of a period in which nothing failed, and which began
\* with a renewal no other task met, was written to both a day and ten hours
\* before: the nights without messages, the terms of the marks left by the last
\* period, the flags and the reloads never swallow a reminder.
RemindedInTime ==
    left[row.period] = 0 /\ ~disturbed /\ renewal.at = "idle" =>
        \A f \in {"key_expiry_24h", "key_expiry_10h"} : shown[f][row.period] > 0

\* No reminder about one expiry is sent twice, and the one about an expired key
\* at most once a day, whatever reload, renewal or lost flag comes between,
\* unless the mark of the message itself was lost.
NoRepeat ==
    \A p \in Periods :
        /\ \A f \in {"key_expiry_24h", "key_expiry_10h"} : shown[f][p] <= 1 + unmarked[f]
        /\ LET repeats == shown["key_expired_grace"][p] - unmarked["key_expired_grace"] - 1
           IN repeats >= 0 => 24 * repeats < -left[p]

\* Every reminder of an undisturbed period is sent, and none of any period twice.
RemindedOnce == RemindedInTime /\ NoRepeat

\* Not true: a message held an old expiry, or set the flag after the renewal.
NoStaleReminder ==
    \A f \in {"key_expiry_24h", "key_expiry_10h"} :
        f \in row.flags => renewal.at # "idle" \/ left[row.period] <= 24
=============================================================================
