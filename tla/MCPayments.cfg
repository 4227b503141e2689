SPECIFICATION Spec
CONSTANTS
    None = None
    Sides = {"race", "price", "invoice", "balance"}
    u1 = u1
    u2 = u2
    x1 = x1
    x2 = x2
    x3 = x3
    y1 = y1
    Users = {u1, u2}
    Purchases = {x1, x2, x3, y1}
    Plain = {y1}
    OwnerOf <- MCOwnerOf
    NewOnly = TRUE
    MaxRedemptions = 1
    MaxSwitches = 1
    PromoFaults = 2
    Discounts = 3
    ReferralPercent = 10
    MinPayment = 1000
    Tariffs <- MCTariffs
    OnSale = {"sale"}
    KeyTariff = "off"
    Months = {1, 3}
    Stocks <- MCStocks
    Balances <- MCBalances
    Codes <- MCCodes
    Offers <- MCOffers
    MaxAttempts = 1
    MaxEvents = 1
    Requests = {r1, r2}
    Terms = {t1, t2}
    Limit = 2
    MaxInvoices = 3
    InvoiceFaults = 1
    a1 = a1
    b1 = b1
    c1 = c1
    p1 = p1
    p2 = p2
    e1 = e1
    Accounts = {a1, b1, c1}
    Settlements = {p1, p2}
    Edits = {e1}
    ReferrerOf <- MCReferrer
    Opening <- MCOpening
    Price = 3
    Least = 1
    Reward = 1
    Settable = {1}
    Objects = {1, 2, 3, 4, 5, 6, 7}
    BalanceFaults = 1
SYMMETRY MCSymmetry
INVARIANTS
    CodeKept
    FairPrice
    OneInvoicePerTerms
    NoInvoiceOverPaid
    
CHECK_DEADLOCK FALSE
