------------------------------- MODULE Payments -------------------------------
(***************************************************************************)
(* What api/v1/payments.py does before and after the money, from four      *)
(* sides: the buyers who race for the activations of one code, one buyer   *)
(* at every price there is, one user's invoices, and the balances that     *)
(* invoices take from and bonuses add to.  A behaviour exercises one side, *)
(* and the variables of the others hold nothing: the sides meet as facts   *)
(* of one another.  What happens to a code is CodeChanges of Checkout and  *)
(* to a balance its TermsChange; the invoice of Checkout is CreateInvoice  *)
(* of Invoices; a settlement is RouteEnds of Invoices.                     *)
(***************************************************************************)
EXTENDS Naturals, FiniteSets

CONSTANTS
    Sides, None,
    \* PromoCodes
    Users, Purchases, OwnerOf, Plain, NewOnly, MaxRedemptions, MaxSwitches, PromoFaults,
    \* Checkout
    Discounts, ReferralPercent, MinPayment, Tariffs, OnSale, KeyTariff, Months, Stocks,
    Balances, Codes, Offers, MaxAttempts, MaxEvents,
    \* Invoices
    Requests, Terms, Limit, MaxInvoices, InvoiceFaults,
    \* ReferralBalance
    Accounts, Settlements, Edits, ReferrerOf, Opening, Price, Least, Reward, Settable,
    Objects, BalanceFaults

\* What the table of codes and the list of open invoices are about.
ASSUME CodeConstants ==
    /\ IsFiniteSet(Users) /\ MaxRedemptions \in Nat
    /\ OwnerOf \in [Purchases -> Users]
ASSUME InvoiceConstants ==
    /\ IsFiniteSet(Terms) /\ Limit \in Nat \ {0} /\ MaxInvoices \in Nat /\ InvoiceFaults \in Nat
    /\ None \notin Requests \cup Terms \cup Nat

VARIABLES
    side,
    redemption, fresh, stage, coded, early, active, wasNew, switches, promoFaults,
    buyer, code, facts, key, failures, page, order, changed, events,
    issued, yk, terms, invoiceRow, linked, old, lock, pc, want, todo, busy, mine, paidThen,
    invoiceFaults,
    userRow, heap, cached, payer, at, obj, image, discount, balanceFaults, rewards, read, saved,
    torn, met, unsaved, missed

Promo == INSTANCE PromoCodes WITH faults <- promoFaults, MaxFaults <- PromoFaults
Till == INSTANCE Checkout
Bill == INSTANCE Invoices WITH
    row <- invoiceRow, faults <- invoiceFaults, MaxFaults <- InvoiceFaults
Balance == INSTANCE ReferralBalance WITH
    row <- userRow, faults <- balanceFaults, MaxFaults <- BalanceFaults,
    Users <- Accounts, Payments <- Settlements, MinPayment <- Least

promoVars == <<redemption, fresh, stage, coded, early, active, wasNew, switches, promoFaults>>
tillVars == <<buyer, code, facts, key, failures, page, order, changed, events>>
billVars == <<issued, yk, terms, invoiceRow, linked, old, lock, pc, want, todo, busy, mine,
              paidThen, invoiceFaults>>
balanceVars == <<userRow, heap, cached, payer, at, obj, image, discount, balanceFaults, rewards,
                 read, saved, torn, met, unsaved, missed>>
paymentsVars == <<side, promoVars, tillVars, billVars, balanceVars>>

\* What a behaviour does not exercise holds nothing.
NoPromo ==
    /\ redemption = None /\ fresh = None /\ stage = None /\ coded = None /\ early = None
    /\ active = None /\ wasNew = None /\ switches = None /\ promoFaults = None
NoTill ==
    /\ buyer = None /\ code = None /\ facts = None /\ key = None /\ failures = None
    /\ page = None /\ order = None /\ changed = None /\ events = None
NoBill ==
    /\ issued = None /\ yk = None /\ terms = None /\ invoiceRow = None /\ linked = None
    /\ old = None /\ lock = None /\ pc = None /\ want = None /\ todo = None /\ busy = None
    /\ mine = None /\ paidThen = None /\ invoiceFaults = None
NoBalance ==
    /\ userRow = None /\ heap = None /\ cached = None /\ payer = None /\ at = None
    /\ obj = None /\ image = None /\ discount = None /\ balanceFaults = None
    /\ rewards = None /\ read = None /\ saved = None /\ torn = None /\ met = None
    /\ unsaved = None /\ missed = None

Init ==
    /\ side \in Sides
    /\ IF side = "race" THEN Promo!Init ELSE NoPromo
    /\ IF side = "price" THEN Till!Init ELSE NoTill
    /\ IF side = "invoice" THEN Bill!Init ELSE NoBill
    /\ IF side = "balance" THEN Balance!Init ELSE NoBalance

Race == side = "race" /\ Promo!Next /\ UNCHANGED <<side, tillVars, billVars, balanceVars>>
Buy == side = "price" /\ Till!Next /\ UNCHANGED <<side, promoVars, billVars, balanceVars>>
Invoice == side = "invoice" /\ Bill!Next /\ UNCHANGED <<side, promoVars, tillVars, balanceVars>>
Settlement ==
    side = "balance" /\ Balance!Next /\ UNCHANGED <<side, promoVars, tillVars, billVars>>

Next == Race \/ Buy \/ Invoice \/ Settlement
Spec == Init /\ [][Next]_paymentsVars

-----------------------------------------------------------------------------
(* The properties of the parts, where a behaviour exercises them           *)

\* The limit of a code holds against parallel reservations, and its totals
\* agree between redemptions and payments (reserve, mark_used, list_with_usage).
CodeKept == side = "race" => Promo!LimitKept /\ Promo!UsageAgrees

\* The price is fair: typing a code never makes the price before the balance
\* higher, the parts of a price add up to it and the balance in it is the owner's
\* (_quote_payment), on the screen and in the invoice, which may bring a discount
\* of the bot's own; and no invoice is dearer than the screen said because the
\* code stopped passing in between (create_payment_for_user).
FairPrice ==
    side = "price" => Till!CodeNeverCosts /\ Till!PartsAddUp /\ Till!NeverDearer

\* The invoice is for what was shown.  It does not hold (Checkout).
PricedAsShown == side = "price" => Till!PricedAsShown

\* However often and in how many windows one user presses "pay", there is one
\* payable invoice for the same terms, and every link given away has a row that a
\* webhook or the sweep can settle (_user_payment_lock, _find_open_payment).
OneInvoicePerTerms == side = "invoice" => Bill!OneInvoicePerTerms /\ Bill!LinkedHasRow

\* While an invoice is paid and not settled, no request that looked after the
\* payment issues another, for whatever terms (the 409 of _find_open_payment).
NoInvoiceOverPaid == side = "invoice" => Bill!NoInvoiceOverPaid

\* A referred user brings one bonus, however many payments succeed at once, and
\* another only by a save that put an older row back; without such a save the
\* balance is what the user had, plus the bonuses recorded, minus what was taken;
\* and a save puts an older row back only when handlers of one user overlap or a
\* save failed before (_do_atomic_bonus, the deduction in route, update_user).
BalanceIsRight ==
    side = "balance" => Balance!BonusPerMark /\ Balance!Conserved /\ Balance!TornByOverlap

\* A bonus is never given twice.  It does not hold (ReferralBalance).
BonusOnce == side = "balance" => Balance!BonusOnce

\* What an invoice took from the balance was there.  It does not hold either.
TakenAsQuoted == side = "balance" => Balance!TakenAsQuoted
=============================================================================
