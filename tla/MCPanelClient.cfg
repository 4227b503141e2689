\* Two overlapping calls, two failures open the breaker, two attempts, two
\* operations in a session.
SPECIFICATION FairClientSpec
CONSTANTS
    a = a  b = b  None = None
    Calls = {a, b}
    FailMax = 2
    ResetTimeout = 1
    SuccessThreshold = 1
    Modes = {"token", "cookie"}
    OpsOf <- MCOps
    MaxTries = 2
    MaxOps <- MCSessions
INVARIANTS
    SentOnce
    NothingZeroed
    TrueIsDone
PROPERTIES
    UsesBreaker
    RestsWhenOpen
    RecoversWithPanel
