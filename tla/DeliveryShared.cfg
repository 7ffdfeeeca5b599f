\* One card, two orders, retries that run out.
SPECIFICATION Spec
CONSTANTS
    Orders = {o1, o2}
    Tasks = {t1, t2}
    Cards = {c1}
    Units = 1
    MaxRetries = 1
    Outcomes = {"accepted", "not_submitted"}
    MaxCrashes = 0
    MaxControls = 0
    BootRuns = FALSE
    NoOrder = NoOrder
INVARIANTS
    CardOneOrder
