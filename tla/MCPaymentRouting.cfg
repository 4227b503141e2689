\* One payment whose buyer has a landing key, two webhooks and the sweep, fair.
SPECIFICATION FairSpec
CONSTANTS
    p1 = p1 k1 = k1 a1 = a1 a2 = a2 s1 = s1  None = None
    Payments = {p1}
    AppRuns = {a1, a2}
    SweepRuns = {s1}
    LandingKeys = {k1}
    LandingOf <- MCLandingOf
    MaxFaults = 3
INVARIANTS
    SucceededIsDelivered
    FollowUpsAtMostOnce
    CanceledIsUntouched
    OneSubscriptionPerPayment
PROPERTIES
    OnlyOwnerMoves
    KeepsPromise
    PaidIsSettled
