SPECIFICATION Spec
CONSTANTS
    s1 = s1
    s2 = s2
    Sessions = {s1, s2}
    c1 = c1
    Callers = {c1}
    MaxRetries = 1
    o1 = o1
    o2 = o2
    Orders = {o1, o2}
    Signals = {"pending_ship", "completed"}
INVARIANTS
    UpkeepTypeOK
    VerificationSafe
    IntakeSafe
PROPERTIES
    GateReopens
    SoldIsHandled
CHECK_DEADLOCK FALSE
