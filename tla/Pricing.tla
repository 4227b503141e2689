------------------------------- MODULE Pricing --------------------------------
(***************************************************************************)
(* What a payment costs: the personal discount ("stock") on the monthly    *)
(* price, the promo code, the discount for several months, the discount of *)
(* an invited user and the balance (api/v1/payments.py, models/price_model,*)
(* services/core/price).  Money is counted in hundredths of a kopeck: all  *)
(* the code rounds is rounded to a kopeck (Kopeck units), the stock price  *)
(* alone is not.  A half kopeck goes up; the code's floats decide it       *)
(* either way.                                                             *)
(***************************************************************************)
EXTENDS Naturals, Integers, FiniteSets

CONSTANTS
    Discounts,          \* config.DISCOUNTS: percent from two months on
    ReferralPercent,    \* REFERRAL_DISCOUNT_PERCENT
    MinPayment          \* MIN_PAYMENT_AMOUNT, in kopecks

Kopeck == 100
Roubles(n) == n * 100 * Kopeck
AtMost(x, y) == IF x < y THEN x ELSE y
AtLeast(x, y) == IF x > y THEN x ELSE y

\* round(x, 2) and round(x * p / 100, 2).
Rounded(x) == Kopeck * ((x + Kopeck \div 2) \div Kopeck)
PercentOf(x, p) == Kopeck * ((x * p + 50 * Kopeck) \div (100 * Kopeck))

\* Stock.is_valid: active, and not past its day.
IsValid(stock) == stock.active /\ ~stock.expired

\* Price.format_price by Pricing.formating, for a stock that is valid.
FormatPrice(amount, stock) ==
    IF stock.type = "fix" THEN AtLeast(0, amount - stock.value)
    ELSE (amount * (100 - stock.value)) \div 100

\* _apply_stock_to_tariff; PriceService._apply shows the same price.
StockPrice(amount, stock) == IF IsValid(stock) THEN FormatPrice(amount, stock) ELSE amount

\* PromoCode.discount_for: a percentage of the first max_months months; no
\* maximum is 0.
DiscountFor(code, amount, months) ==
    PercentOf(amount * (IF code.maxMonths = 0 THEN months ELSE AtMost(months, code.maxMonths)),
              code.percent)

\* _calculate_payment_amount; offer is the discount for an invited user that
\* the request brings, 0 for none: it goes before the one computed here.
Amounts(monthly, months, promo, referral, offer, balance) ==
    LET base == monthly * months
        coded == IF promo > 0 THEN Rounded(base - promo) ELSE base
        percent == IF months >= 2 THEN Discounts ELSE 0
        bulk == IF percent > 0 THEN PercentOf(coded, 100 - percent) ELSE coded
        friend == IF offer > 0 THEN offer
                  ELSE IF referral THEN PercentOf(bulk, ReferralPercent) ELSE 0
        left == bulk - friend
        paid == IF balance > 0 /\ left > MinPayment * Kopeck
                THEN AtMost(balance, Rounded(left - MinPayment * Kopeck)) ELSE 0
    IN [base |-> base, promo |-> promo, volume |-> Rounded(coded - bulk),
        referral |-> friend, balance |-> paid, final |-> Rounded(left - paid)]

BeforeBalance(result) == result.final + result.balance

\* _quote_payment without a code.
PlainQuote(amount, months, buyer, offer, balance) ==
    Amounts(StockPrice(amount, buyer.stock), months, 0, buyer.invited, offer, balance)

\* _quote_payment with a code that passes: its discount leaves the minimum of
\* the full price, and takes the place of the stock and of the invitation,
\* with what the request offers for it.
CodeDiscount(amount, months, code) ==
    AtMost(DiscountFor(code, amount, months),
           AtLeast(0, Rounded(amount * months - MinPayment * Kopeck)))

CodeQuote(amount, months, code, balance) ==
    Amounts(amount, months, CodeDiscount(amount, months, code), FALSE, 0, balance)

\* Mutant: a code that passes always applies.
IsBetter_Always(amount, months, buyer, code, offer, balance) == TRUE

\* The code counts when its price is lower before the balance.
IsBetter(amount, months, buyer, code, offer, balance) ==
    /\ CodeDiscount(amount, months, code) > 0
    /\ BeforeBalance(CodeQuote(amount, months, code, balance))
         < BeforeBalance(PlainQuote(amount, months, buyer, offer, balance))
=============================================================================
