\* A renewal fails once and is retried after another one.
SPECIFICATION Spec
CONSTANTS
    p1 = p1 p2 = p2 f1 = f1 b1 = b1 e1 = e1 c1 = c1 c2 = c2  None = None
    Payments = {p1, p2}
    Procs = {"app"}
    FreeRenewals = {}
    BulkRenewals = {}
    Edits = {}
    EditDates = {}
    NamedTariffs = {FALSE}
    Bonuses = {}
    Period <- MCPeriod
    InitialExpiry = 1
    InitialTrials = {FALSE}
    TrialEnd = 0
    MaxNow = 0
    MaxFaults = 1
    MaxReloads = 0
    MaxTasks = 2
INVARIANTS
    PeriodsKept
CHECK_DEADLOCK FALSE
