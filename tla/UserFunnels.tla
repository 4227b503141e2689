----------------------------- MODULE UserFunnels ------------------------------
(***************************************************************************)
(* The funnels that write to a user, by the day: four with a mark of their *)
(* own, the reminder of the channel bonus with its steps, and the win-back *)
(* offer with a personal code.  Each keeps its own record in the database  *)
(* and reads nothing of the others', so a behaviour follows one of them.   *)
(* The cycle of the backend may meet the cycle of run_funnel_once.py,      *)
(* another process with a cache of its own.                                *)
(***************************************************************************)
EXTENDS Integers, FiniteSets, Functions, Segments

CONSTANTS
    Backend, Script,  \* the two processes that run cycles
    UserFunnelIds,  \* the funnels followed
    Ttl,            \* days the mark of a funnel holds, by the funnel
    StepOffsets,    \* days from the key's creation to each of the three steps
    MinGap,         \* days between two steps
    StateTtl,       \* days the steps are remembered
    LapsedDays,     \* days since expiry at which an offer is made
    RepeatDays,     \* days between two offers
    LastDay, RunsADay, UserFaults,
    LifeEvents      \* the user's steps and the runs of the script

VARIABLES
    funnel,         \* the funnel of this behaviour
    day, runs,      \* the day, and the cycles begun on it
    life,           \* what the database holds of the user
    events,         \* its changes so far
    run,            \* where each runner is, and the user as it loaded it
    marked,         \* days the mark holds, or None
    state,          \* the row of steps: [step, sentOn, term], or None
    offeredOn,      \* days of the recorded offers
    codes,          \* personal codes issued
    messages,       \* history: messages, early ones, terms of the steps that
                    \* ended, cycles that met and cycles that failed
    userFaults

userVars == <<funnel, day, runs, life, events, run, marked, state, offeredOn, codes,
              messages, userFaults>>

Runners == {Backend, Script}
MaxSteps == 3
Marked == {"cold_lead", "referral_bonus", "trial_unused", "referral_reminder"}
OfCustomers == {"channel_bonus_reminder", "winback_offer"}
Resting == [at |-> "idle", step |-> 0]

StateRows == [step : Nat, sentOn : Nat, term : Int]

ASSUME UserConstants ==
    /\ Backend # Script /\ UserFunnelIds \subseteq Marked \cup OfCustomers
    /\ \A f \in Marked : Ttl[f] \in Nat
    /\ MinGap \in Nat /\ StateTtl \in Nat /\ MinGap <= StateTtl + 1
    /\ RepeatDays \in Nat \ {0}
    /\ None \notin Nat /\ None \notin StateRows

\* A new user has no key; a customer has a key bought on the first day.
Newcomer ==
    [trial |-> 0, key |-> "none", lapsedOn |-> 0, link |-> FALSE, claimed |-> FALSE]
Customer == [Newcomer EXCEPT !.key = "used"]

UserInit ==
    /\ funnel \in UserFunnelIds
    /\ day = 0 /\ runs = 0
    /\ life = IF funnel \in OfCustomers THEN Customer ELSE Newcomer
    /\ events = 0
    /\ run = [r \in Runners |-> Resting]
    /\ marked = None
    /\ state = None
    /\ offeredOn = {}
    /\ codes = 0
    /\ messages =
          [sent |-> 0, early |-> 0, last |-> None, lapses |-> 0, met |-> 0, torn |-> 0]
    /\ userFaults = 0

-----------------------------------------------------------------------------
(* The user's own steps, those the followed funnel looks at                *)
Lives(of, changed) ==
    /\ funnel \in of
    /\ events < LifeEvents
    /\ events' = events + 1
    /\ life' = changed
    /\ UNCHANGED <<funnel, day, runs, run, marked, state, offeredOn, codes, messages,
                   userFaults>>

TakesTrial == life.trial = 0 /\ life.key = "none"
    /\ Lives(Marked, [life EXCEPT !.trial = 1, !.key = "unused"])
Connects == life.key = "unused" /\ Lives({"trial_unused"}, [life EXCEPT !.key = "used"])
KeyLapses == life.key = "used"
    /\ Lives(OfCustomers, [life EXCEPT !.key = "lapsed", !.lapsedOn = day])
Renews == life.key = "lapsed" /\ Lives(OfCustomers, [life EXCEPT !.key = "used"])
MakesLink == ~life.link /\ Lives({"referral_reminder"}, [life EXCEPT !.link = TRUE])
ClaimsBonus == ~life.claimed
    /\ Lives({"channel_bonus_reminder"}, [life EXCEPT !.claimed = TRUE])

LifeStep == TakesTrial \/ Connects \/ KeyLapses \/ Renews \/ MakesLink \/ ClaimsBonus

-----------------------------------------------------------------------------
(* One runner through the funnel                                           *)
At(r, place) == run[r].at = place
Move(r, place) == run' = [run EXCEPT ![r].at = place]
Stop(r) == run' = [run EXCEPT ![r] = Resting]
Quiet == UNCHANGED <<funnel, day, runs, life, events, userFaults>>
Stored == <<marked, state, offeredOn, codes>>

\* What a funnel asks of the user and keys in the cache, before any query.
ColdLead(user) == user.trial = 0 /\ user.key = "none"
InvitedLead(user) == user.trial = 0
UnusedTrial(user) == user.key = "unused"
HasActiveKey(user) == user.key \in {"unused", "used"}
LapsedKey(user) == user.key = "lapsed" /\ day - user.lapsedOn \in LapsedDays
Eligible(user) ==
    CASE funnel = "cold_lead" -> ColdLead(user)
      [] funnel = "referral_bonus" -> InvitedLead(user)
      [] funnel = "trial_unused" -> UnusedTrial(user)
      [] funnel = "referral_reminder" -> TRUE
      [] funnel = "channel_bonus_reminder" -> HasActiveKey(user)
      [] funnel = "winback_offer" -> LapsedKey(user)

\* Two cycles meet when one begins while the other is on its way to a message.
BeginRun(r) ==
    /\ At(r, "idle")
    /\ IF r = Script THEN /\ events < LifeEvents
                         /\ events' = events + 1
                         /\ UNCHANGED runs
                    ELSE /\ runs < RunsADay
                         /\ runs' = runs + 1
                         /\ UNCHANGED events
    /\ run' = [run EXCEPT ![r] =
                  IF Eligible(life) THEN [Resting EXCEPT !.at = "check"] ELSE Resting]
    /\ messages' = IF \E s \in Runners \ {r} : ~At(s, "idle")
                   THEN [messages EXCEPT !.met = @ + 1] ELSE messages
    /\ UNCHANGED <<funnel, day, life, userFaults, Stored>>

\* A mark may be found or not at the very end of its term.
IsMarked(r) ==
    /\ funnel \in Marked /\ At(r, "check")
    /\ \/ marked # None /\ Stop(r)
       \/ /\ marked \in {None, 0}
          /\ Move(r, IF funnel = "referral_reminder" THEN "link" ELSE "send")
    /\ Quiet /\ UNCHANGED <<messages, Stored>>

HasLink(r) ==
    /\ At(r, "link")
    /\ IF life.link THEN Stop(r) ELSE Move(r, "send")
    /\ Quiet /\ UNCHANGED <<messages, Stored>>

Gap == CASE funnel \in Marked -> Ttl[funnel]
         [] funnel = "channel_bonus_reminder" -> MinGap
         [] funnel = "winback_offer" -> RepeatDays
After == CASE funnel \in Marked -> "mark"
           [] funnel = "channel_bonus_reminder" -> "advance"
           [] funnel = "winback_offer" -> "record"

SendTo(r) ==
    /\ At(r, "send")
    /\ messages' = [messages EXCEPT
          !.sent = @ + 1, !.last = day,
          !.early = IF messages.last # None /\ day - messages.last < Gap THEN @ + 1 ELSE @]
    /\ Move(r, After)
    /\ Quiet /\ UNCHANGED Stored

MarkUser(r) ==
    /\ At(r, "mark")
    /\ marked' = Ttl[funnel]
    /\ Stop(r)
    /\ Quiet /\ UNCHANGED <<state, offeredOn, codes, messages>>

-----------------------------------------------------------------------------
(* channel_bonus_reminder: should_send                                     *)
LiveStep == IF state = None \/ state.term < 0 THEN 0 ELSE state.step
Terminal == [step |-> MaxSteps, sentOn |-> 0, term |-> StateTtl]

IsClaimed(r) ==
    /\ funnel = "channel_bonus_reminder" /\ At(r, "check")
    /\ Move(r, IF life.claimed THEN "terminal" ELSE "state")
    /\ Quiet /\ UNCHANGED <<messages, Stored>>

DueStep(r) ==
    /\ At(r, "state")
    /\ IF /\ LiveStep < MaxSteps
          /\ day >= StepOffsets[LiveStep + 1]
          /\ LiveStep > 0 => day - state.sentOn >= MinGap
       THEN Move(r, "member") ELSE Stop(r)
    /\ Quiet /\ UNCHANGED <<messages, Stored>>

\* A member of the channel, or an answer that did not come: no message.
AskChannel(r) ==
    /\ At(r, "member")
    /\ Move(r, "reread") \/ Stop(r)
    /\ Quiet /\ UNCHANGED <<messages, Stored>>

\* process() reads the state once more, then sends.
RereadState(r) ==
    /\ At(r, "reread")
    /\ IF LiveStep < MaxSteps THEN Move(r, "send") ELSE Stop(r)
    /\ Quiet /\ UNCHANGED <<messages, Stored>>

\* advance_step reads the row whether or not its term ended, and then writes.
StepRead == IF state = None THEN 0 ELSE state.step
ReadStep(r) ==
    /\ At(r, "advance")
    /\ run' = [run EXCEPT ![r].at = "upsert", ![r].step = StepRead + 1]
    /\ Quiet /\ UNCHANGED <<messages, Stored>>

WriteStep(r) ==
    /\ At(r, "upsert")
    /\ state' = [step |-> run[r].step, sentOn |-> day, term |-> StateTtl]
    /\ IF run[r].step >= MaxSteps THEN Move(r, "terminal") ELSE Stop(r)
    /\ Quiet /\ UNCHANGED <<marked, offeredOn, codes, messages>>

MarkTerminal(r) ==
    /\ At(r, "terminal")
    /\ state' = Terminal
    /\ Stop(r)
    /\ Quiet /\ UNCHANGED <<marked, offeredOn, codes, messages>>

-----------------------------------------------------------------------------
(* winback_offer                                                           *)
\* Mutant: only an offer of this day counts.
OfferedWithin_Today(days) == day \in offeredOn

OfferedWithin(days) == \E d \in offeredOn : day - d < days

\* At the very end of the term an offer may still count or no more.
\* A customer may have had a trial only.
HasPaid(r) ==
    /\ funnel = "winback_offer" /\ At(r, "check")
    /\ Move(r, "offered") \/ Stop(r)
    /\ Quiet /\ UNCHANGED <<messages, Stored>>

WasOffered(r) ==
    /\ At(r, "offered")
    /\ \/ OfferedWithin(RepeatDays + 1) /\ Stop(r)
       \/ ~OfferedWithin(RepeatDays) /\ Move(r, "issue")
    /\ Quiet /\ UNCHANGED <<messages, Stored>>

\* The offer cohort gets a code, the control cohort the message alone.
IssueCode(r) ==
    /\ At(r, "issue")
    /\ codes' \in {codes, codes + 1}
    /\ Move(r, "send")
    /\ Quiet /\ UNCHANGED <<marked, state, offeredOn, messages>>

RecordOffer(r) ==
    /\ At(r, "record")
    /\ offeredOn' = offeredOn \cup {day}
    /\ Stop(r)
    /\ Quiet /\ UNCHANGED <<marked, state, codes, messages>>

-----------------------------------------------------------------------------
\* A failed statement or the end of the process, anywhere on the way.
RunFails(r) ==
    /\ ~At(r, "idle") /\ userFaults < UserFaults
    /\ userFaults' = userFaults + 1
    /\ messages' = [messages EXCEPT !.torn = @ + 1]
    /\ Stop(r)
    /\ UNCHANGED <<funnel, day, runs, life, events, Stored>>

Older(term) == IF term \in {None, 0} THEN None ELSE term - 1
NextDay ==
    /\ day < LastDay
    /\ \A r \in Runners : At(r, "idle")
    /\ day' = day + 1
    /\ runs' = 0
    /\ marked' = Older(marked)
    /\ state' = IF state = None \/ state.term < 0 THEN state
                ELSE [state EXCEPT !.term = @ - 1]
    /\ messages' = IF state # None /\ state.term = 0
                   THEN [messages EXCEPT !.lapses = @ + 1] ELSE messages
    /\ UNCHANGED <<funnel, life, events, run, offeredOn, codes, userFaults>>

Walk(r) ==
    \/ BeginRun(r) \/ IsMarked(r) \/ HasLink(r) \/ SendTo(r) \/ MarkUser(r)
    \/ IsClaimed(r) \/ DueStep(r) \/ AskChannel(r) \/ RereadState(r)
    \/ ReadStep(r) \/ WriteStep(r) \/ MarkTerminal(r)
    \/ HasPaid(r) \/ WasOffered(r) \/ IssueCode(r) \/ RecordOffer(r) \/ RunFails(r)

UserStep == LifeStep \/ (\E r \in Runners : Walk(r)) \/ NextDay

-----------------------------------------------------------------------------
\* A user is not flooded.  No funnel writes again before its term ended; the
\* channel is recalled three times, and once more for each month of silence; a
\* personal code is issued for a recorded offer.  A message beyond that is owed
\* to a cycle that failed on its way or met the cycle of the other process.
FewMessages ==
    LET excused == messages.torn + messages.met IN
    /\ messages.early <= excused
    /\ funnel = "channel_bonus_reminder" =>
          messages.sent <= MaxSteps + messages.lapses + excused
    /\ codes <= Cardinality(offeredOn) + excused
                + Cardinality({r \in Runners : ~At(r, "idle")})
=============================================================================
