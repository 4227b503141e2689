\* Any two of two payments, each of the other renewals, an edit and two bonus claims, in two processes.
SPECIFICATION Spec
CONSTANTS
    p1 = p1 p2 = p2 f1 = f1 b1 = b1 e1 = e1 c1 = c1 c2 = c2  None = None
    Payments = {p1, p2}
    Procs = {"app", "sweep"}
    FreeRenewals = {f1}
    BulkRenewals = {b1}
    Edits = {e1}
    EditDates = {3}
    NamedTariffs = {TRUE, FALSE}
    Bonuses = {c1, c2}
    Period <- MCPeriod
    InitialExpiry = 1
    InitialTrials = {FALSE}
    TrialEnd = 1
    MaxNow = 1
    MaxFaults = 1
    MaxReloads = 1
    MaxTasks = 2
INVARIANTS
    NoFreeTime
    LockKeepsPeriods
SYMMETRY MCClaims
CHECK_DEADLOCK FALSE
