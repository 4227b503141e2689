\* Two keys on pages of one, a renewal, a failure, and fair syncs.
SPECIFICATION FairSyncSpec
CONSTANTS
    e1 = e1  e2 = e2  e3 = e3  b1 = b1  b2 = b2  b3 = b3  Absent = Absent
    Emails = {e1, e2}
    PurchaseOf <- MCApart
    PageSize = 1
    MaxRenewals = 1
    MaxFaults = 1
INVARIANTS
    KeysStay
PROPERTIES
    Converges
