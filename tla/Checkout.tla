------------------------------- MODULE Checkout -------------------------------
(***************************************************************************)
(* One buyer at the till: a price is asked for and shown, the world moves  *)
(* on, and the payment is created at the price of that moment.  The bot,   *)
(* the cabinet (api/v1/cabinet.py) and the public renewal link             *)
(* (api/v1/renew_link.py) lead to the same quote_for_user and              *)
(* create_payment_for_user; the code the buyer types is checked by the     *)
(* rules of services/core/promo_codes, and wrong ones are counted.         *)
(***************************************************************************)
EXTENDS Pricing, Sequences, TLC

CONSTANTS
    Tariffs,        \* the amount of each tariff, 0 for a free one
    OnSale,         \* AVAILABLE_RATES
    KeyTariff,      \* of the key there is to renew
    Months, Stocks, Balances, Codes,
    Offers,         \* discounts for an invited user that the bot may send, and 0
    MaxAttempts,    \* PROMO_MAX_FAILED_ATTEMPTS
    MaxEvents

VARIABLES
    buyer,          \* stock, invited (and no bonus paid for it yet), balance
    code,           \* the promo code as administered
    facts,          \* what the database knows of code and buyer
    key,            \* "own" or "gone"
    failures,       \* wrong codes in the window of the limiter
    page,           \* the price on the screen, and what was asked
    order,          \* the payment being created
    changed,        \* history: the buyer's own terms changed since the page
    events          \* changes so far

vars == <<buyer, code, facts, key, failures, page, order, changed, events>>

Nothing == [step |-> "none"]

\* A code is one that PromoCodeAdmin.create or WinbackOffers.issue_code made.
Init ==
    /\ buyer \in [stock : Stocks, invited : BOOLEAN, balance : Balances]
    /\ code \in Codes
    /\ facts \in [active : {TRUE}, when : {"before", "during"},
                  paid : {FALSE}, used : {FALSE}, left : {TRUE}]
    /\ key = "own"
    /\ failures = 0
    /\ page = Nothing /\ order = Nothing
    /\ changed = FALSE /\ events = 0

-----------------------------------------------------------------------------
\* DEFAULT_RULES, in their order, each with the condition that refuses.
DefaultRules(req) ==
    << [reason |-> "not_found",       refuses |-> code.owner = "other"],
       [reason |-> "inactive",        refuses |-> ~facts.active],
       [reason |-> "not_started",     refuses |-> facts.when = "before"],
       [reason |-> "expired",         refuses |-> facts.when = "after"],
       [reason |-> "wrong_operation", refuses |-> code.operations \notin {"any", req.operation}],
       [reason |-> "not_new_user",    refuses |-> code.audience = "new" /\ facts.paid],
       [reason |-> "already_used",    refuses |-> facts.used],
       [reason |-> "limit_reached",   refuses |-> ~facts.left] >>

FirstFailure(req) ==
    LET failing == {i \in DOMAIN DefaultRules(req) : DefaultRules(req)[i].refuses}
    IN IF failing = {} THEN "passes"
       ELSE DefaultRules(req)[CHOOSE i \in failing : \A j \in failing : i <= j].reason

\* PromoCodeService.check.
Check(req) ==
    CASE req.typed = "none" -> "none"
      [] req.typed # "none" /\ failures >= MaxAttempts -> "too_many_attempts"
      [] req.typed = "wrong" /\ failures < MaxAttempts -> "not_found"
      [] req.typed = "code" /\ failures < MaxAttempts -> FirstFailure(req)

\* The limiter counts a code that is not there, or is another's.
CountFailure(req) ==
    failures' = IF Check(req) = "not_found" THEN failures + 1 ELSE failures

\* Mutant: the renewal link pays with the balance of the key's owner.
BalanceOf_Link(req) == buyer.balance

\* use_balance is FALSE by link, where anyone may pay.
BalanceOf(req) == IF req.source = "link" THEN 0 ELSE buyer.balance

\* The discount for an invited user that comes with the request for an
\* invoice: the bot may send one, the cabinet and the link send none
\* (cabinet.py:353, renew_link.py:181), and /quotes knows none.
OffersOf(req) == IF req.source = "bot" THEN Offers ELSE {0}

\* _quote_payment: the price, and what became of the code.
QuotePayment(req, offer) ==
    LET amount == Tariffs[req.tariff]
        status == Check(req)
        better == IsBetter(amount, req.months, buyer, code, offer, BalanceOf(req))
    IN IF status = "passes" /\ better
       THEN [result |-> CodeQuote(amount, req.months, code, BalanceOf(req)), status |-> "applied"]
       ELSE [result |-> PlainQuote(amount, req.months, buyer, offer, BalanceOf(req)),
             status |-> IF status = "passes" THEN "not_better" ELSE status]

\* is_off_sale_paid and allowed_tariff_ids.
IsOffSalePaid(tariff) == tariff \notin OnSale /\ Tariffs[tariff] > 0
AllowedTariffIds(req) ==
    IF req.operation = "renew_key" /\ IsOffSalePaid(KeyTariff) THEN {KeyTariff} ELSE OnSale

\* require_own_key, _renewable_key and require_payable_tariff; the bot asks
\* for whatever tariff there is.
MayPay(req) ==
    req.source # "bot" =>
        /\ req.operation = "renew_key" => key = "own"
        /\ req.tariff \in AllowedTariffIds(req)
        /\ Tariffs[req.tariff] > 0

Sources == {"bot", "cabinet", "link"}

\* The link renews, and nothing else.
Asked ==
    {req \in [source : Sources, operation : {"create_key", "renew_key"}, tariff : DOMAIN Tariffs,
              months : Months, typed : {"none", "code", "wrong"}] :
        req.source = "link" => req.operation = "renew_key"}

-----------------------------------------------------------------------------
\* POST .../quotes: the screen shows the price.
ShowPrice(req) ==
    /\ page = Nothing
    /\ MayPay(req)
    /\ CountFailure(req)
    /\ page' = [step |-> "shown", req |-> req, quote |-> QuotePayment(req, 0)]
    /\ changed' = FALSE
    /\ UNCHANGED <<buyer, code, facts, key, order, events>>

ShowRefused(req) ==
    /\ page = Nothing
    /\ ~MayPay(req)
    /\ UNCHANGED vars

\* Mutant: a code that no longer passes is left out of the invoice.
Create_WithoutCode(offer) ==
    LET req == page.req
        quote == QuotePayment(req, offer)
    IN /\ page.step = "shown" /\ order = Nothing
       /\ MayPay(req) /\ offer \in OffersOf(req)
       /\ CountFailure(req)
       /\ order' = [step |-> "priced", quote |-> quote, offer |-> offer]
       /\ UNCHANGED <<buyer, code, facts, key, page, changed, events>>

\* POST .../payments for what the page shows, priced anew; a code that was
\* typed and is refused now stops it with 409.
Create(offer) ==
    LET req == page.req
        quote == QuotePayment(req, offer)
    IN /\ page.step = "shown" /\ order = Nothing
       /\ MayPay(req) /\ offer \in OffersOf(req)
       /\ CountFailure(req)
       /\ order' = IF quote.status \in {"none", "applied", "not_better"}
                   THEN [step |-> "priced", quote |-> quote, offer |-> offer]
                   ELSE [step |-> "refused"]
       /\ UNCHANGED <<buyer, code, facts, key, page, changed, events>>

\* The tariff or the key is gone: 404.
CreateRefused ==
    /\ page.step = "shown" /\ order = Nothing
    /\ ~MayPay(page.req)
    /\ order' = [step |-> "refused"]
    /\ UNCHANGED <<buyer, code, facts, key, failures, page, changed, events>>

\* The code is reserved under its lock, by the rules once more, and YooKassa
\* issues the invoice; it takes no payment of nothing.
Issue ==
    LET reserved == order.quote.status = "applied" => FirstFailure(page.req) = "passes"
    IN /\ order.step = "priced"
       /\ order' = IF reserved /\ order.quote.result.final > 0
                   THEN [order EXCEPT !.step = "issued"] ELSE [step |-> "refused"]
       /\ UNCHANGED <<buyer, code, facts, key, failures, page, changed, events>>

\* Back to the price list, with an invoice, a refusal or neither.
Again ==
    /\ page # Nothing /\ order.step # "priced"
    /\ order' = Nothing /\ page' = Nothing /\ changed' = FALSE
    /\ UNCHANGED <<buyer, code, facts, key, failures, events>>

-----------------------------------------------------------------------------
Event == events < MaxEvents /\ events' = events + 1

\* The admin gives or takes a stock, its day passes, the balance is spent or
\* credited, the bonus for the invited buyer is paid: the buyer's own terms.
TermsChange ==
    /\ Event
    /\ \/ \E s \in Stocks \ {buyer.stock} : buyer' = [buyer EXCEPT !.stock = s]
       \/ IsValid(buyer.stock) /\ buyer' = [buyer EXCEPT !.stock.expired = TRUE]
       \/ \E b \in Balances \ {buyer.balance} : buyer' = [buyer EXCEPT !.balance = b]
       \/ buyer.invited /\ buyer' = [buyer EXCEPT !.invited = FALSE]
    /\ changed' = TRUE
    /\ UNCHANGED <<code, facts, key, failures, page, order>>

\* The admin switches the code, its window opens or closes, the buyer's other
\* payment is settled (with the code or not), others take the last activation
\* or let their reservation lapse.
CodeChanges ==
    /\ Event
    /\ \/ facts' = [facts EXCEPT !.active = ~@]
       \/ facts.when = "before" /\ facts' = [facts EXCEPT !.when = "during"]
       \/ facts.when = "during" /\ facts' = [facts EXCEPT !.when = "after"]
       \/ ~facts.used /\ \E used \in BOOLEAN : facts' = [facts EXCEPT !.paid = TRUE, !.used = used]
       \/ facts' = [facts EXCEPT !.left = ~@]
    /\ UNCHANGED <<buyer, code, key, failures, page, order, changed>>

\* The key is deleted.
KeyGoes ==
    /\ Event
    /\ key = "own" /\ key' = "gone"
    /\ UNCHANGED <<buyer, code, facts, failures, page, order, changed>>

\* The window of the limiter moves past the oldest failure.
WindowMoves ==
    /\ failures > 0 /\ failures' = failures - 1
    /\ UNCHANGED <<buyer, code, facts, key, page, order, changed, events>>

Next ==
    \/ \E req \in Asked : ShowPrice(req) \/ ShowRefused(req)
    \/ \E offer \in Offers : Create(offer)
    \/ CreateRefused \/ Issue \/ Again
    \/ TermsChange \/ CodeChanges \/ KeyGoes \/ WindowMoves

-----------------------------------------------------------------------------
(* Properties                                                              *)

\* The invoice is for what the screen showed, or less: when a code stops
\* passing in between, the buyer is told and no dearer invoice is issued
\* (payments.py:552-554).  Only the buyer's own terms may make it dearer, and
\* a bot that sends less for the invitation than the screen showed.
NeverDearer ==
    /\ order.step = "issued" /\ ~changed
    /\ order.offer = 0 \/ order.offer >= page.quote.result.referral
    => order.quote.result.final <= page.quote.result.final

\* The prices there are now, on the screen and in the order, each with what
\* was offered for it.
Prices ==
    (IF page.step = "shown" THEN {[quote |-> page.quote, offer |-> 0]} ELSE {})
    \cup (IF order.step \in {"priced", "issued"}
          THEN {[quote |-> order.quote, offer |-> order.offer]} ELSE {})

\* Typing a code never costs: with it the price before the balance is at most
\* the price without (_quote_payment's docstring), for all the buyer has and
\* the bot offers.
CodeNeverCosts ==
    ~changed => \A price \in Prices :
        BeforeBalance(price.quote.result) <=
            BeforeBalance(QuotePayment([page.req EXCEPT !.typed = "none"], price.offer).result)

\* The balance is spent by its owner only, no more than there is, and leaves
\* the minimum to pay; and the parts of the price add up to it within a kopeck
\* of rounding, so the lines of the payment window and of the invoice agree
\* with its sum.
PartsAddUp ==
    \A price \in Prices :
        LET r == price.quote.result
            gap == r.base - r.promo - r.volume - r.referral - r.balance - r.final
        IN /\ gap \in -Kopeck..Kopeck
           /\ r.balance > 0 =>
                 /\ page.req.source # "link"
                 /\ r.final >= MinPayment * Kopeck
                 /\ ~changed => r.balance <= buyer.balance

\* /quotes and /create price by one calculation (_quote_payment's docstring):
\* as long as nothing happens in between, the invoice is for the sum that was
\* shown.  It does not hold: only /create takes the bot's discount.
PricedAsShown ==
    order.step = "issued" /\ events = 0 =>
        order.quote.result.final = page.quote.result.final

\* "A discount does not take the sum below the minimum payment"
\* (payments.py:234, of the code).
MinimumKept ==
    page.step = "shown" /\ page.quote.status = "applied" =>
        page.quote.result.final >= MinPayment * Kopeck
=============================================================================
