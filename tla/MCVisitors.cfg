SPECIFICATION Spec
CONSTANTS
    None = None
    Pseudo = Pseudo
    k1 = k1
    b1 = b1
    q1 = q1
    q2 = q2
    k2 = k2
    s1 = s1
    s2 = s2
    t1 = t1
    t2 = t2
    l2 = l2
    e1 = e1
    l1 = l1
    r1 = r1
    Users = {u1, u2}
    Browsers = {b1}
    Keys = {k1, k2}
    Tokens = {l1, l2}
    Calls = {q1, q2, s1, s2, t1, t2, e1, l1, l2}
    QuickCalls = {q1, q2}
    StartCalls = {s1, s2}
    TrialCalls = {t1, t2}
    EditCalls = {e1}
    UserObjects = {o1, o2, o3, o4, o5, o6, o7, o8, o9, o10, o11, o12, o13, o14, o15, o16, o17, o18, o19, o20, o21, o22}
    KeyObjects = {d1, d2, d3, d4, d5, d6, d7, d8, d9, d10, d11, d12, d13}
    GiftSender = GiftSender
    KeyOf <- MCKeyOf
    BrowserOf <- MCBrowserOf
    RefOf <- MCRefOf
    GiftOf <- MCGiftOf
    Scenarios <- MCScenarios
    MaxActive = 2
    MaxLost = 1
SYMMETRY Alike
INVARIANTS
    LoginIsOwn
    OneClaimant
    OwnedIsUpgraded
    TrialIsRecorded
CHECK_DEADLOCK FALSE
