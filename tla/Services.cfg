SPECIFICATION Spec
CONSTANTS
    f1 = f1
    f2 = f2
    Flows = {f1, f2}
    NoFlow = NoFlow
    r1 = r1
    r2 = r2
    Refreshers = {r1}
    Span = 2
    a1 = a1
    a2 = a2
    Accounts = {a1, a2}
    Requests = {r1, r2}
    b1 = b1
    b2 = b2
    Bodies = {b1, b2}
    NoBody = NoBody
    i1 = i1
    i2 = i2
    i3 = i3
    Items = {i1, i2, i3}
    MaxSyncPages = 2
    m1 = m1
    m2 = m2
    Spoken = {m1}
    Notices = {m2}
    x1 = x1
    x2 = x2
    Outgoing = {x1, x2}
    NoMessage = NoMessage
    Adders = {r1, r2}
    MaxQuick = 2
    MaxReminders = 2
    MaxDefaults = 2
    h1 = h1
    e1 = e1
    Channels = {h1, e1}
    Emails = {e1}
    q1 = q1
    q2 = q2
    RuleIds = {q1, q2}
    p1 = p1
    Pools = {p1}
    t1 = t1
    Templates = {t1}
    NoRule = NoRule
    MaxPriority = 2
    k1 = k1
    k2 = k2
    StockPools = {k1, k2}
    n1 = n1
    n2 = n2
    PoolNames = {n1, n2}
    l1 = l1
    Lines = {l1}
    w1 = w1
    w2 = w2
    Clerks = {w1, w2}
    NoPool = NoPool
    Dropped = Dropped
    MaxVersion = 2
    s1 = s1
    s2 = s2
    Sales = {s1, s2}
    d1 = d1
    Calls = {d1}
    OwnCalls = {d1}
    MaxSessions = 2
    MaxPushed = 2
    Signers = {r1, r2}
    ByGet = {r2}
    TokenRetryMax = 3
    MaxIssued = 2
    MsgBound = 1
    EventBound = 1
    CmdBound = 1
    Signs = {"{", "}", " ", "k"}
    MaxText = 6
    CardKeys = {k1, k2}
    CustomKeys = {}
    Need = 1
    MaxStock = 2
    Browsers = {w1, w2}
    MaxFailures = 2
    MaxPassword = 2
INVARIANTS
    ServicesTypeOK
    AuthorizationSafe
    BooksAreTrue
    MessagesSafe
    CatalogSafe
    EnvironmentSafe
CHECK_DEADLOCK FALSE
