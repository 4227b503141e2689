\* Any three of four requests, a renewal, an edit, a creation, loads and faults; jobs of two workers.
SPECIFICATION FairInboundSpec
CONSTANTS
    i1 = i1  i2 = i2  a1 = a1  v1 = v1  v2 = v2  y1 = y1
    k1 = k1  n1 = n1  e1 = e1  e2 = e2  Loader = Loader  Nil = Nil
    Inbounds = {i1, i2}
    Env = {i1}
    AtStart = {{i1, i2}}
    Approvals = {a1}
    Revocations = {v1, v2}
    Syncs = {y1}
    AboutOf <- MCAbout
    OldKeys = {k1}
    NewKeys = {n1}
    Renewals = {e1}
    Edits = {e2}
    KeyOf <- MCKey
    Concurrency = 2
    MaxEvents = 3
INVARIANTS
    
    JobsAreWhole
    Converged
PROPERTIES
    JobsEnd
CHECK_DEADLOCK FALSE
