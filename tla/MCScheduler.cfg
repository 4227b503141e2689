SPECIFICATION Spec
CONSTANTS
    None = None
    Shared = Shared
    Families = {"keys", "users", "sync", "bulk", "segments", "reports"}
    StartHours = {0, 1, 2, 3, 4, 5, 6, 7, 8, 9, 10, 11, 12, 13, 14, 15, 16, 17, 18, 19, 20, 21, 22, 23}
    FirstLeft = 28
    RenewAt <- MCRenewAt
    ReloadHours = {0, 6, 12, 18}
    MaxRenewals = 1
    RenewedBy = 36
    LastLeft <- MCLastLeft
    KeyFaults = 1
    Backend = Backend
    Script = Script
    UserFunnelIds = {"cold_lead", "referral_bonus", "trial_unused", "referral_reminder", "channel_bonus_reminder", "winback_offer"}
    Ttl <- MCTtl
    StepOffsets <- MCStepOffsets
    MinGap = 1
    StateTtl = 3
    LapsedDays = {1, 2, 3, 4, 5}
    RepeatDays = 4
    LastDay = 7
    RunsADay = 2
    LifeEvents = 2
    UserFaults = 1
    JobIds = {j1, j2, j3, j4}
    KeepJobs = 2
    NoJob = NoJob
    Unknown = Unknown
    MaxRestarts = 1
    e1 = e1
    e2 = e2
    e3 = e3
    w1 = w1
    w2 = w2
    Emails = {e1, e2, e3}
    Requests = {q1, q2}
    Workers <- MCWorkers
    KeepFinished = 1
    BulkRestarts = 1
    v1 = v1
    Absent = Absent
    v2 = v2
    Visitors = {v1, v2}
    Guests = {g}
    FirstUser = v1
    MaxOrders = 2
    MonthDays <- MCMonthDays
    Zone = 1
    Migrated = 4
    ReportTerm = 5
    ReportTrial = 2
    CohortMonths = 3
    RiskDays = 2
    YearDays = 4
    FunnelDays = 2
    WritingTimes = {1, 3, 8}
    Instants = {1, 3, 5, 8, 9, 12}
    MaxWrites = 4
INVARIANTS
    RemindedOnce
    FewMessages
    JobsAreHonest
    BulkAccounts
    SegmentsAgree
    FiguresAgree
CHECK_DEADLOCK FALSE
