----------------------------- MODULE PromoCodes -----------------------------
(***************************************************************************)
(* One promo code with a limit of activations: the check with a quoted     *)
(* price, the reservation under the row lock of the code, the discounted   *)
(* invoice, and the listener that counts a paid activation                 *)
(* (services/core/promo_codes, called by api/v1/payments.py and by         *)
(* PaymentRouter), with the admin who switches the code and reads its      *)
(* totals.  A purchase is one POST /payments/create with the code, or a    *)
(* plain one without, and the invoice that comes of it; the lock of its    *)
(* user holds until the invoice is handed out.  The rules about owner and  *)
(* operation of the code are in Checkout.                                  *)
(***************************************************************************)
EXTENDS Naturals, FiniteSets

CONSTANTS
    Users, Purchases,
    OwnerOf,        \* the user of each purchase
    Plain,          \* the purchases without the code
    NewOnly,        \* the code is for those who have not paid yet
    MaxRedemptions,
    MaxSwitches,
    MaxFaults

VARIABLES
    redemption,     \* per user: the row of promo_redemptions
    fresh,          \* per user: reserved_at is younger than the TTL
    stage,          \* per purchase: how far it got
    coded,          \* purchases whose payment row carries promo_code_id
    early,          \* history: reservations that lapsed under a live purchase
    active,         \* is_active, within starts_at..ends_at
    wasNew,         \* per user: was_new_user of the reservation
    switches,
    faults

vars == <<redemption, fresh, stage, coded, early, active, wasNew, switches, faults>>
adminVars == <<active, switches>>

InRequest == {"quoted", "reserved", "saved"}
Bought    == {"paid", "settled", "counted"}
Stages    == {"none", "open", "gone"} \cup InRequest \cup Bought

Init ==
    /\ redemption = [u \in Users |-> "none"]
    /\ fresh = [u \in Users |-> FALSE]
    /\ stage = [p \in Purchases |-> "none"]
    /\ coded = {} /\ early = {} /\ faults = 0
    /\ active = TRUE /\ switches = 0
    /\ wasNew = [u \in Users |-> FALSE]

Fault == faults < MaxFaults /\ faults' = faults + 1

Goto(p, s) == stage' = [stage EXCEPT ![p] = s]

\* Mutant: only activations already paid count against the limit.
Taken_UsedOnly(u) == {v \in Users \ {u} : redemption[v] = "used"}

\* taken_by_others: used, or reserved not longer than the TTL ago.
Taken(u) == {v \in Users \ {u} : redemption[v] = "used" \/ (redemption[v] = "reserved" /\ fresh[v])}

\* has_paid: any payment of the user that succeeded.
HasPaid(u) == \E p \in Purchases : OwnerOf[p] = u /\ stage[p] \in {"settled", "counted"}

\* ActiveRule and WindowRule, AudienceRule, OncePerUserRule, LimitRule.
RulesPass(u) ==
    /\ active
    /\ NewOnly => ~HasPaid(u)
    /\ redemption[u] # "used"
    /\ Cardinality(Taken(u)) < MaxRedemptions

-----------------------------------------------------------------------------
\* check, for the quoted price.
Quote(p) ==
    /\ p \notin Plain
    /\ stage[p] = "none"
    /\ \A q \in Purchases : OwnerOf[q] = OwnerOf[p] => stage[q] \notin InRequest
    /\ RulesPass(OwnerOf[p])
    /\ Goto(p, "quoted")
    /\ UNCHANGED <<redemption, fresh, coded, early, faults, adminVars, wasNew>>

\* reserve: the rules once more, then the upsert that leaves a used row alone.
Reserve(p) ==
    LET u == OwnerOf[p] IN
    /\ stage[p] = "quoted"
    /\ RulesPass(u)
    /\ redemption' = [redemption EXCEPT ![u] = "reserved"]
    /\ fresh' = [fresh EXCEPT ![u] = TRUE]
    /\ wasNew' = [wasNew EXCEPT ![u] = ~HasPaid(u)]
    /\ Goto(p, "reserved")
    /\ UNCHANGED <<coded, early, adminVars, faults>>

\* A rule refuses under the lock: 409.
ReserveRefused(p) ==
    /\ stage[p] = "quoted"
    /\ Goto(p, "none")
    /\ UNCHANGED <<redemption, fresh, coded, early, faults, adminVars, wasNew>>

\* A purchase without the code: one of the same user may be open with it.
PlainInvoice(p) ==
    /\ p \in Plain
    /\ stage[p] = "none"
    /\ \A q \in Purchases : OwnerOf[q] = OwnerOf[p] => stage[q] \notin InRequest
    /\ Goto(p, "open")
    /\ UNCHANGED <<redemption, fresh, coded, early, faults, adminVars, wasNew>>

\* YooKassa issues the invoice at the lower price and its row is saved.
IssueInvoice(p) ==
    /\ stage[p] = "reserved"
    /\ Goto(p, "saved")
    /\ UNCHANGED <<redemption, fresh, coded, early, faults, adminVars, wasNew>>

\* Another invoice is open or paid, or issuing fails: the reservation stays.
NoInvoice(p) ==
    /\ stage[p] = "reserved"
    /\ Goto(p, "none")
    /\ UNCHANGED <<redemption, fresh, coded, early, faults, adminVars, wasNew>>

\* attach_payment in one transaction; then the link is handed out.
AttachPayment(p) ==
    /\ stage[p] = "saved"
    /\ coded' = coded \cup {p}
    /\ Goto(p, "open")
    /\ UNCHANGED <<redemption, fresh, early, faults, adminVars, wasNew>>

\* It fails: logged, and the discounted invoice goes out all the same.
AttachFails(p) ==
    /\ stage[p] = "saved"
    /\ Fault
    /\ Goto(p, "open")
    /\ UNCHANGED <<redemption, fresh, coded, early, adminVars, wasNew>>

Pay(p) ==
    /\ stage[p] = "open" /\ Goto(p, "paid")
    /\ UNCHANGED <<redemption, fresh, coded, early, faults, adminVars, wasNew>>

Lapse(p) ==
    /\ stage[p] = "open" /\ Goto(p, "gone")
    /\ UNCHANGED <<redemption, fresh, coded, early, faults, adminVars, wasNew>>

\* complete_claim: the payment is succeeded.
Settle(p) ==
    /\ stage[p] = "paid" /\ Goto(p, "settled")
    /\ UNCHANGED <<redemption, fresh, coded, early, faults, adminVars, wasNew>>

\* Mutant: whatever the user pays counts the reservation as used.
MarkUsed_AnyPayment(p) ==
    LET u == OwnerOf[p] IN
    /\ stage[p] = "settled"
    /\ redemption' = [redemption EXCEPT ![u] = IF @ = "reserved" THEN "used" ELSE @]
    /\ Goto(p, "counted")
    /\ UNCHANGED <<fresh, coded, early, faults, adminVars, wasNew>>

\* PromoRedemptionListener: mark_used by the payment's promo_code_id.
MarkUsed(p) ==
    LET u == OwnerOf[p] IN
    /\ stage[p] = "settled"
    /\ redemption' = [redemption EXCEPT ![u] =
                         IF p \in coded /\ @ = "reserved" THEN "used" ELSE @]
    /\ Goto(p, "counted")
    /\ UNCHANGED <<fresh, coded, early, faults, adminVars, wasNew>>

\* The listener fails, or the process stops before it.
ListenerFails(p) ==
    /\ stage[p] = "settled"
    /\ Fault
    /\ Goto(p, "counted")
    /\ UNCHANGED <<redemption, fresh, coded, early, adminVars, wasNew>>

\* A purchase with the discount that may still be paid, or was.
Discounted(p) == p \notin Plain /\ stage[p] \in {"reserved", "saved", "open"} \cup Bought

\* PROMO_RESERVATION_TTL_MINUTES after the last reservation of u.
Expire(u) ==
    /\ fresh[u]
    /\ fresh' = [fresh EXCEPT ![u] = FALSE]
    /\ early' = IF redemption[u] = "reserved" /\ \E p \in Purchases : OwnerOf[p] = u /\ Discounted(p)
                THEN early \cup {u} ELSE early
    /\ UNCHANGED <<redemption, stage, coded, faults, adminVars, wasNew>>

\* set_active, or a bound of the window passes.  Invoices stay as they are.
SetActive ==
    /\ switches < MaxSwitches
    /\ switches' = switches + 1
    /\ active' = ~active
    /\ UNCHANGED <<redemption, fresh, stage, coded, early, wasNew, faults>>

Next ==
    \/ \E p \in Purchases :
          \/ Quote(p) \/ Reserve(p) \/ ReserveRefused(p) \/ PlainInvoice(p)
          \/ IssueInvoice(p) \/ NoInvoice(p) \/ AttachPayment(p) \/ AttachFails(p)
          \/ Pay(p) \/ Lapse(p) \/ Settle(p) \/ MarkUsed(p) \/ ListenerFails(p)
    \/ \E u \in Users : Expire(u)
    \/ SetActive

\* PromoCodeRepository.stats and list_with_usage, by user and by payment.
Usage ==
    [used |-> {u \in Users : redemption[u] = "used"},
     usedNew |-> {u \in Users : redemption[u] = "used" /\ wasNew[u]},
     reservedNow |-> {u \in Users : redemption[u] = "reserved" /\ fresh[u]},
     abandoned |-> {u \in Users : redemption[u] = "reserved" /\ ~fresh[u]},
     discounted |-> {p \in coded : stage[p] \in {"settled", "counted"}}]

-----------------------------------------------------------------------------
(* Properties                                                              *)

Buyers == {u \in Users : \E p \in Purchases \ Plain : OwnerOf[p] = u /\ stage[p] \in Bought}

\* Parallel reservations never exceed the limit: more users than it allows
\* buy with the discount only if a reservation lapsed under a live purchase.
LimitKept == Cardinality(Buyers) <= MaxRedemptions + Cardinality(early)

\* The totals the admin sees agree between the two tables: who used the code
\* has paid an invoice that carries it, and the limit covers all who have the
\* discount but those who kept theirs past its reservation; a code for new users
\* was reserved by users who were new.
UsageAgrees ==
    /\ \A u \in Usage.used : \E p \in Usage.discounted : OwnerOf[p] = u
    /\ NewOnly => Usage.used \subseteq Usage.usedNew
    /\ Cardinality(Usage.used \cup Usage.reservedNow) <= MaxRedemptions + Cardinality(early)

\* config.py: a reservation lives "as long as the invoice can be paid", so
\* the limit of the code is the number of users who buy with it.
LimitHolds == Cardinality(Buyers) <= MaxRedemptions

\* rules.py, OncePerUserRule: a user has the discount once.
OncePerUser ==
    \A p, q \in Purchases \ Plain :
        p # q /\ OwnerOf[p] = OwnerOf[q] => ~(stage[p] \in Bought /\ stage[q] \in Bought)

\* AudienceRule: "only for the first purchase".
FirstPurchase ==
    [][\A p \in Purchases \ Plain :
          NewOnly /\ stage[p] # "paid" /\ stage'[p] = "paid" => ~HasPaid(OwnerOf[p])]_vars
=============================================================================
