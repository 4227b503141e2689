--------------------------- MODULE PaymentRouting ---------------------------
(***************************************************************************)
(* A create_key payment on its way from "paid at YooKassa" to "succeeded": *)
(* PaymentRouter.route (services/core/payment/router.py) run by webhooks   *)
(* of the web application and by the sweep script, a second process, over  *)
(* the conditional UPDATEs of PaymentRepository (database/service.py) and  *)
(* the key creation of KeyCreationService and upgrade_landing_key.         *)
(*                                                                         *)
(* One step is one database statement, one panel operation or one stretch  *)
(* of Python between two awaits.  A run is one call of route: it makes one *)
(* claim, so the run itself stands for the uuid its claim draws.  A token  *)
(* left behind by an earlier call of the same run is nobody's: the run     *)
(* compares tokens only after a claim of its own replaced it.              *)
(***************************************************************************)
EXTENDS Naturals, FiniteSets

CONSTANTS
    Payments,       \* invoices of type create_key
    AppRuns,        \* route calls of the web application (webhooks)
    SweepRuns,      \* route calls of scripts/sweep_pending_payments.py
    LandingKeys,    \* keys issued to landing-page visitors before they paid
    LandingOf,      \* the landing key of the buyer of each payment, or None
    MaxFaults,      \* bound on crashes, failures and slow runs
    None

Runs  == AppRuns \cup SweepRuns
Procs == {"app", "sweep"}
ProcOf(r) == IF r \in AppRuns THEN "app" ELSE "sweep"

ASSUME RoutingConstants ==
    /\ AppRuns \cap SweepRuns = {}
    /\ None \notin Runs \cup Payments \cup LandingKeys
    /\ LandingOf \in [Payments -> LandingKeys \cup {None}]
    /\ MaxFaults \in Nat

VARIABLES
    yk,             \* the status YooKassa answers for each payment
    status,         \* payments.status
    token,          \* payments.processing_token
    stale,          \* processing_started_at is PAYMENT_CLAIM_STALE_MINUTES old
    cached,         \* per process: the status in the payments cache
    newKeys,        \* payments with a key row of their own (keys.payment_id)
    landingPaid,    \* per landing key: its payment_id column, None until moved
    upgradable,     \* per process: landing keys its cache still shows unmoved
    clients,        \* per payment: clients its runs added on the 3x-ui panel
    extended,       \* per landing key: payments that extended it on the panel
    pc, on,         \* per run: its place in route, and its payment
    effects,        \* per payment and follow-up: how often it was carried out
    faults          \* crashes, failures and slow runs so far

rowVars   == <<status, token, stale>>
keyVars   == <<newKeys, landingPaid, upgradable, clients, extended>>
vars == <<yk, rowVars, cached, keyVars, pc, on, effects, faults>>

PaymentStatus == {"pending", "processing", "succeeded", "canceled"}

\* What route does after the status is final, in this order.
FollowUps == {"notify", "listeners", "balance", "bonus"}
AfterFollowUp == [notify |-> "listeners", listeners |-> "balance",
                  balance |-> "bonus", bonus |-> "idle"]

Working == {"check", "upgrade", "upgradeSave", "add", "save", "complete", "release"}
Places  == {"idle", "load", "claim"} \cup Working \cup FollowUps

\* The payment's key is recorded: SELECT ... FROM keys WHERE payment_id = p.
Delivered(p) == p \in newKeys \/ \E k \in LandingKeys : landingPaid[k] = p

TypeOK ==
    /\ yk \in [Payments -> {"pending", "succeeded", "canceled"}]
    /\ status \in [Payments -> PaymentStatus]
    /\ token \in [Payments -> Runs \cup {None}]
    /\ stale \in [Payments -> BOOLEAN]
    /\ cached \in [Procs -> [Payments -> PaymentStatus]]
    /\ newKeys \in SUBSET Payments
    /\ landingPaid \in [LandingKeys -> Payments \cup {None}]
    /\ upgradable \in [Procs -> SUBSET LandingKeys]
    /\ clients \in [Payments -> Nat]
    /\ extended \in [LandingKeys -> SUBSET Payments]
    /\ pc \in [Runs -> Places]
    /\ on \in [Runs -> Payments \cup {None}]
    /\ effects \in [Payments -> [FollowUps -> Nat]]
    /\ faults \in Nat

Init ==
    /\ yk = [p \in Payments |-> "pending"]
    /\ status = [p \in Payments |-> "pending"]
    /\ token = [p \in Payments |-> None]
    /\ stale = [p \in Payments |-> FALSE]
    /\ cached = [c \in Procs |-> [p \in Payments |-> "pending"]]
    /\ newKeys = {}
    /\ landingPaid = [k \in LandingKeys |-> None]
    /\ upgradable = [c \in Procs |-> LandingKeys]
    /\ clients = [p \in Payments |-> 0]
    /\ extended = [k \in LandingKeys |-> {}]
    /\ pc = [r \in Runs |-> "idle"]
    /\ on = [r \in Runs |-> None]
    /\ effects = [p \in Payments |-> [e \in FollowUps |-> 0]]
    /\ faults = 0

Fault == faults < MaxFaults /\ faults' = faults + 1

Goto(r, place) == pc' = [pc EXCEPT ![r] = place] /\ UNCHANGED on

-----------------------------------------------------------------------------
(* YooKassa and the cancellation of an invoice                             *)

\* The buyer pays, or the invoice lapses; both are final at YooKassa.
YooKassaDecides(p) ==
    /\ yk[p] = "pending"
    /\ \E s \in {"succeeded", "canceled"} : yk' = [yk EXCEPT ![p] = s]
    /\ UNCHANGED <<rowVars, cached, keyVars, pc, on, effects, faults>>

\* Mutant: an invoice that is merely unpaid yet counts as canceled.
MarkCanceledIfPending_Unpaid(c, p) ==
    /\ yk[p] # "succeeded" /\ status[p] = "pending"
    /\ status' = [status EXCEPT ![p] = "canceled"]
    /\ UNCHANGED <<yk, token, stale, cached, keyVars, pc, on, effects, faults>>

\* GET /payments/{id} and the sweep: YooKassa said "canceled", so
\* mark_canceled_if_pending, and the cache follows when its update works.
MarkCanceledIfPending(c, p) ==
    /\ yk[p] = "canceled"
    /\ IF status[p] = "pending"
       THEN /\ status' = [status EXCEPT ![p] = "canceled"]
            /\ \/ cached' = [cached EXCEPT ![c][p] = "canceled"]
               \/ UNCHANGED cached
       ELSE UNCHANGED <<status, cached>>
    /\ UNCHANGED <<yk, token, stale, keyVars, pc, on, effects, faults>>

-----------------------------------------------------------------------------
(* Entering route                                                          *)

Begin(r, p) ==
    /\ pc[r] = "idle"
    /\ pc' = [pc EXCEPT ![r] = "load"]
    /\ on' = [on EXCEPT ![r] = p]
    /\ UNCHANGED <<yk, rowVars, cached, keyVars, effects, faults>>

\* POST /payments/webhook, after YooKassa's API confirmed the payment.
Webhook(r, p) ==
    /\ yk[p] = "succeeded"
    /\ Begin(r, p)

ListedBySweep(p) ==
    status[p] = "pending" \/ (status[p] = "processing" /\ stale[p])

\* sweep_pending_payments: the row was listed and YooKassa says succeeded.
Sweep(r, p) ==
    /\ ListedBySweep(p)
    /\ yk[p] = "succeeded"
    /\ Begin(r, p)

\* load_payment_data reads the cache; a payment it shows succeeded is done.
LoadPaymentData(r) ==
    /\ pc[r] = "load"
    /\ IF cached[ProcOf(r)][on[r]] = "succeeded"
       THEN Goto(r, "idle")
       ELSE Goto(r, "claim")
    /\ UNCHANGED <<yk, rowVars, cached, keyVars, effects, faults>>

\* Mutants: a busy claim can be taken; a stale claim cannot.
Claimable_Busy(p) == status[p] \in {"pending", "processing"}
Claimable_NoTakeover(p) == status[p] = "pending"
Claimable(p) == status[p] = "pending" \/ (status[p] = "processing" /\ stale[p])

ClaimPending(r) ==
    LET p == on[r] IN
    /\ pc[r] = "claim"
    /\ IF Claimable(p)
       THEN /\ status' = [status EXCEPT ![p] = "processing"]
            /\ token' = [token EXCEPT ![p] = r]
            /\ stale' = [stale EXCEPT ![p] = FALSE]
            /\ Goto(r, "check")
       ELSE /\ Goto(r, "idle")
            /\ UNCHANGED rowVars
    /\ UNCHANGED <<yk, cached, keyVars, effects, faults>>

\* The claim raises out of route, not executed or with its answer lost: in
\* the second case nobody releases what was claimed.
ClaimFails(r) ==
    LET p == on[r] IN
    /\ pc[r] = "claim"
    /\ Fault
    /\ \/ UNCHANGED rowVars
       \/ /\ Claimable(p)
          /\ status' = [status EXCEPT ![p] = "processing"]
          /\ token' = [token EXCEPT ![p] = r]
          /\ stale' = [stale EXCEPT ![p] = FALSE]
    /\ Goto(r, "idle")
    /\ UNCHANGED <<yk, cached, keyVars, effects>>

-----------------------------------------------------------------------------
(* KeyCreationService.process                                              *)

\* The guard against a second key, then the search for a landing key that
\* the cache of this process still shows under its visitor's pseudo id.
CheckExisting(r) ==
    LET p == on[r] IN
    /\ pc[r] = "check"
    /\ IF Delivered(p)                              THEN Goto(r, "complete")
       ELSE IF LandingOf[p] \in upgradable[ProcOf(r)] THEN Goto(r, "upgrade")
       ELSE Goto(r, "add")
    /\ UNCHANGED <<yk, rowVars, cached, keyVars, effects, faults>>

\* upgrade_landing_key up to its await of the row update: the panel client
\* is extended and the cached key object already carries its new owner.
UpgradePanel(r) ==
    LET p == on[r]  k == LandingOf[p] IN
    /\ pc[r] = "upgrade"
    /\ extended' = [extended EXCEPT ![k] = @ \cup {p}]
    /\ upgradable' = [upgradable EXCEPT ![ProcOf(r)] = @ \ {k}]
    /\ Goto(r, "upgradeSave")
    /\ UNCHANGED <<yk, rowVars, cached, newKeys, landingPaid, clients, effects, faults>>

\* Mutant: the None of a failed upgrade passes for an upgraded key.
UpgradePanelFails_TakenAsDone(r) ==
    /\ pc[r] = "upgrade"
    /\ Fault
    /\ Goto(r, "complete")
    /\ UNCHANGED <<yk, rowVars, cached, keyVars, effects>>

\* set_inbounds or extend_client_key answers False (the second possibly after
\* the panel applied it): upgrade_landing_key returns None, a new key follows.
UpgradePanelFails(r) ==
    LET p == on[r]  k == LandingOf[p] IN
    /\ pc[r] = "upgrade"
    /\ Fault
    /\ \/ extended' = [extended EXCEPT ![k] = @ \cup {p}]
       \/ UNCHANGED extended
    /\ Goto(r, "add")
    /\ UNCHANGED <<yk, rowVars, cached, newKeys, landingPaid, upgradable, clients, effects>>

\* keys.update writes payment_id p unless uq_keys_payment_id forbids it.
UpgradeSave(r) ==
    LET p == on[r]  k == LandingOf[p] IN
    /\ pc[r] = "upgradeSave"
    /\ IF p \in newKeys
       THEN Goto(r, "release") /\ UNCHANGED landingPaid
       ELSE Goto(r, "complete") /\ landingPaid' = [landingPaid EXCEPT ![k] = p]
    /\ UNCHANGED <<yk, rowVars, cached, newKeys, upgradable, clients, extended, effects, faults>>

AddClient(r) ==
    /\ pc[r] = "add"
    /\ clients' = [clients EXCEPT ![on[r]] = @ + 1]
    /\ Goto(r, "save")
    /\ UNCHANGED <<yk, rowVars, cached, newKeys, landingPaid, upgradable, extended, effects, faults>>

\* save_data inserts the key unless uq_keys_payment_id forbids it.
SaveKey(r) ==
    LET p == on[r] IN
    /\ pc[r] = "save"
    /\ IF Delivered(p)
       THEN Goto(r, "release") /\ UNCHANGED newKeys
       ELSE Goto(r, "complete") /\ newKeys' = newKeys \cup {p}
    /\ UNCHANGED <<yk, rowVars, cached, landingPaid, upgradable, clients, extended, effects, faults>>

\* process raises and the claim will be released: maintenance, an exception of
\* a statement, or add_client answering False, with or without its effect.
ProcessFails(r) ==
    /\ pc[r] \in {"check", "add", "save", "upgradeSave"}
    /\ Fault
    /\ \/ pc[r] = "add" /\ clients' = [clients EXCEPT ![on[r]] = @ + 1]
       \/ UNCHANGED clients
    /\ Goto(r, "release")
    /\ UNCHANGED <<yk, rowVars, cached, newKeys, landingPaid, upgradable, extended, effects>>

\* The key row is written, but the answer is lost and the statement raises.
SaveAnswerLost(r) ==
    LET p == on[r] IN
    /\ ~Delivered(p)
    /\ Fault
    /\ \/ pc[r] = "save" /\ newKeys' = newKeys \cup {p} /\ UNCHANGED landingPaid
       \/ /\ pc[r] = "upgradeSave"
          /\ landingPaid' = [landingPaid EXCEPT ![LandingOf[p]] = p]
          /\ UNCHANGED newKeys
    /\ Goto(r, "release")
    /\ UNCHANGED <<yk, rowVars, cached, upgradable, clients, extended, effects>>

-----------------------------------------------------------------------------
(* Leaving the claim, and what follows a success                           *)

\* Mutant: the WHERE clause does not compare the token.
Owns_AnyToken(r, p) == status[p] = "processing"

Owns(r, p) == status[p] = "processing" /\ token[p] = r

\* Mutant: release_claim resets the row by its payment_id alone.
ReleaseClaim_ById(r) ==
    /\ pc[r] = "release"
    /\ status' = [status EXCEPT ![on[r]] = "pending"]
    /\ token' = [token EXCEPT ![on[r]] = None]
    /\ Goto(r, "idle")
    /\ UNCHANGED <<yk, stale, cached, keyVars, effects, faults>>

ReleaseClaim(r) ==
    LET p == on[r] IN
    /\ pc[r] = "release"
    /\ IF Owns(r, p)
       THEN /\ status' = [status EXCEPT ![p] = "pending"]
            /\ token' = [token EXCEPT ![p] = None]
            /\ stale' = [stale EXCEPT ![p] = FALSE]
       ELSE UNCHANGED rowVars
    /\ Goto(r, "idle")
    /\ UNCHANGED <<yk, cached, keyVars, effects, faults>>

\* Mutant: the False of complete_claim is ignored.
CompleteClaim_ResultIgnored(r) ==
    LET p == on[r] IN
    /\ pc[r] = "complete"
    /\ status' = [status EXCEPT ![p] = IF Owns(r, p) THEN "succeeded" ELSE @]
    /\ Goto(r, "notify")
    /\ UNCHANGED <<yk, token, stale, cached, keyVars, effects, faults>>

\* complete_claim, and with it refresh_payment_cache; a run that lost its
\* claim raises and changes nothing.
CompleteClaim(r) ==
    LET p == on[r] IN
    /\ pc[r] = "complete"
    /\ IF Owns(r, p)
       THEN /\ status' = [status EXCEPT ![p] = "succeeded"]
            /\ token' = [token EXCEPT ![p] = None]
            /\ cached' = [cached EXCEPT ![ProcOf(r)][p] = "succeeded"]
            /\ Goto(r, "notify")
       ELSE /\ Goto(r, "idle")
            /\ UNCHANGED <<status, token, cached>>
    /\ UNCHANGED <<yk, stale, keyVars, effects, faults>>

\* The statement raises: not executed, or executed with its answer lost.
CompleteFails(r) ==
    LET p == on[r] IN
    /\ pc[r] = "complete"
    /\ Fault
    /\ \/ UNCHANGED <<status, token>>
       \/ /\ Owns(r, p)
          /\ status' = [status EXCEPT ![p] = "succeeded"]
          /\ token' = [token EXCEPT ![p] = None]
    /\ Goto(r, "release")
    /\ UNCHANGED <<yk, stale, cached, keyVars, effects>>

\* release_claim itself raises: the claim stays until it is stale.
ReleaseFails(r) ==
    /\ pc[r] = "release"
    /\ Fault
    /\ Goto(r, "idle")
    /\ UNCHANGED <<yk, rowVars, cached, keyVars, effects>>

\* notification, success listeners, balance deduction, referral bonus.
FollowUp(r) ==
    LET p == on[r] IN
    /\ pc[r] \in FollowUps
    /\ effects' = [effects EXCEPT ![p][pc[r]] = @ + 1]
    /\ Goto(r, AfterFollowUp[pc[r]])
    /\ UNCHANGED <<yk, rowVars, cached, keyVars, faults>>

\* Each follow-up is best effort: its exception is logged, route goes on.
FollowUpFails(r) ==
    /\ pc[r] \in FollowUps
    /\ Fault
    /\ Goto(r, AfterFollowUp[pc[r]])
    /\ UNCHANGED <<yk, rowVars, cached, keyVars, effects>>

-----------------------------------------------------------------------------
(* Time and crashes                                                        *)

\* Run r is between its claim of p and the end of that claim.
AtWork(r, p) == on[r] = p /\ pc[r] \in Working

Abandoned(p) == token[p] # None /\ ~AtWork(token[p], p)

\* Ten minutes pass since the claim.  A claim whose run is still at work only
\* gets that old when the run is slow, which counts as a fault.
ClaimExpires(p) ==
    /\ status[p] = "processing"
    /\ ~stale[p]
    /\ IF Abandoned(p) THEN UNCHANGED faults ELSE Fault
    /\ stale' = [stale EXCEPT ![p] = TRUE]
    /\ UNCHANGED <<yk, status, token, cached, keyVars, pc, on, effects>>

\* A process stops, with the runs it cuts off, and loads its caches anew when
\* it starts again: a crash of the web application, or one sweep ending and
\* the next beginning.  It is a fault only if it cuts off a run.
Restart(c) ==
    /\ IF \E r \in Runs : ProcOf(r) = c /\ pc[r] # "idle" THEN Fault ELSE UNCHANGED faults
    /\ pc' = [r \in Runs |-> IF ProcOf(r) = c THEN "idle" ELSE pc[r]]
    /\ cached' = [cached EXCEPT ![c] = status]
    /\ upgradable' = [upgradable EXCEPT ![c] = {k \in LandingKeys : landingPaid[k] = None}]
    /\ UNCHANGED <<yk, rowVars, newKeys, landingPaid, clients, extended, on, effects>>

-----------------------------------------------------------------------------
\* What a run does when nothing goes wrong, step by step.
Advance(r) ==
    \/ LoadPaymentData(r) \/ ClaimPending(r) \/ CheckExisting(r)
    \/ UpgradePanel(r) \/ UpgradeSave(r) \/ AddClient(r) \/ SaveKey(r)
    \/ CompleteClaim(r) \/ ReleaseClaim(r) \/ FollowUp(r)

Fail(r) ==
    \/ ClaimFails(r) \/ UpgradePanelFails(r) \/ ProcessFails(r)
    \/ SaveAnswerLost(r) \/ CompleteFails(r) \/ ReleaseFails(r) \/ FollowUpFails(r)

Next ==
    \/ \E p \in Payments : YooKassaDecides(p) \/ ClaimExpires(p)
    \/ \E c \in Procs, p \in Payments : MarkCanceledIfPending(c, p)
    \/ \E r \in AppRuns, p \in Payments : Webhook(r, p)
    \/ \E r \in SweepRuns, p \in Payments : Sweep(r, p)
    \/ \E r \in Runs : Advance(r) \/ Fail(r)
    \/ \E c \in Procs : Restart(c)

Spec == Init /\ [][Next]_vars

\* Handlers run to their next await, an abandoned claim grows old, and the
\* operator runs the sweep again while it lists something.  Webhooks, faults
\* and the buyer's payment need not happen.
Fairness ==
    /\ \A r \in Runs : WF_vars(Advance(r))
    /\ \A p \in Payments : WF_vars(Abandoned(p) /\ ClaimExpires(p))
    /\ \A r \in SweepRuns, p \in Payments : WF_vars(Sweep(r, p))

FairSpec == Spec /\ Fairness
-----------------------------------------------------------------------------
(* Properties                                                              *)

\* A payment is marked succeeded only when its key is recorded, whichever run
\* wrote the key and however many were taken over, crashed or retried: the
\* order of SaveKey / UpgradeSave before complete_claim in route.
SucceededIsDelivered ==
    \A p \in Payments : status[p] = "succeeded" => Delivered(p)

\* No follow-up of a payment (notification, promo and admin listeners,
\* balance deduction, referral bonus) is carried out twice, and none before
\* the payment is final: complete_claim lets one run through.
FollowUpsAtMostOnce ==
    \A p \in Payments, e \in FollowUps :
        /\ effects[p][e] <= 1
        /\ effects[p][e] > 0 => status[p] = "succeeded"

\* A cancelled invoice was really cancelled at YooKassa and no run has begun
\* anything for it: mark_canceled_if_pending cannot cut off a run.
CanceledIsUntouched ==
    \A p \in Payments : status[p] = "canceled" =>
        /\ yk[p] = "canceled"
        /\ ~Delivered(p)
        /\ clients[p] = 0
        /\ \A r \in Runs : on[r] = p => pc[r] = "idle"

\* No phantom keys (create_key.py, "bug dp5649"): a recorded key is backed by
\* a client that exists, or was extended, on the panel for that payment.
DeliveredIsOnPanel ==
    /\ \A p \in newKeys : clients[p] > 0
    /\ \A k \in LandingKeys : landingPaid[k] # None => landingPaid[k] \in extended[k]

\* Panel subscriptions granted for a payment, recorded or not.
Granted(p) == clients[p] + Cardinality({k \in LandingKeys : p \in extended[k]})

\* A payment grants one subscription on the panel; every further one costs a
\* crash, a failure or a slow run.  Redelivered webhooks and a sweep at the
\* same time cost nothing.
OneSubscriptionPerPayment ==
    \A p \in Payments : Granted(p) <= 1 + faults

\* Fencing: a row leaves "processing" only by the hand of the run whose token
\* it holds, and changes hands only when the claim is stale.
OnlyOwnerMoves ==
    [][\A p \in Payments : status[p] = "processing" =>
          /\ status'[p] # "processing" =>
                AtWork(token[p], p) /\ pc[token[p]] \in {"complete", "release"}
          /\ status'[p] = "processing" /\ token'[p] # token[p] => stale[p]]_vars

\* An upgrade for p got past the panel, but its row update did not happen yet.
PartlyUpgraded(p) ==
    \E k \in LandingKeys, c \in Procs :
        p \in extended[k] /\ k \notin upgradable[c] /\ landingPaid[k] = None

\* creation_service.py, the comment above its guard: the guard stands before
\* the landing upgrade, "otherwise a retry after a partial upgrade would
\* create one more key".  So no key is created for a partly upgraded payment.
NoKeyAfterPartialUpgrade ==
    [][\A p \in Payments : PartlyUpgraded(p) /\ p \in newKeys' => p \in newKeys]_vars

\* Every invoice paid at YooKassa is settled in the end, whatever crashed on
\* the way: stale claims are taken over, and retries find the key.
PaidIsSettled ==
    \A p \in Payments : yk[p] = "succeeded" ~> status[p] = "succeeded"

\* The stage of each payment as the abstract specification sees it.
promiseStage ==
    [p \in Payments |->
        IF status[p] = "succeeded" THEN "settled"
        ELSE IF status[p] = "canceled" THEN "canceled"
        ELSE IF Delivered(p) THEN "delivered" ELSE "open"]

Promise == INSTANCE PaymentPromise WITH stage <- promiseStage

\* Routing keeps the promise: key before settlement, settlement and
\* cancellation final, cancellation only of what was never delivered.
KeepsPromise == Promise!Spec

\* Two payments never share a landing key: a buyer with an unmoved landing
\* key has one create_key payment in flight.
NoSharedLanding ==
    \A p, q \in Payments :
        p # q /\ LandingOf[p] = LandingOf[q] => LandingOf[p] = None

=============================================================================
