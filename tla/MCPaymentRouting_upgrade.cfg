\* One fault inside the landing upgrade, then the retry.
SPECIFICATION Spec
CONSTANTS
    p1 = p1 k1 = k1 a1 = a1 a2 = a2 s1 = s1  None = None
    Payments = {p1}
    AppRuns = {a1}
    SweepRuns = {s1}
    LandingKeys = {k1}
    LandingOf <- MCLandingOf
    MaxFaults = 1
PROPERTIES
    NoKeyAfterPartialUpgrade
