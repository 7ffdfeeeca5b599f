\* A crash and a restart as serve does it.
SPECIFICATION Spec
CONSTANTS
    Orders = {o1}
    Tasks = {t1, t2}
    Cards = {c1}
    Units = 1
    MaxRetries = 1
    Outcomes = {"accepted", "unknown"}
    MaxCrashes = 1
    MaxControls = 0
    BootRuns = FALSE
    NoOrder = NoOrder
INVARIANTS
    NoOrphanAttempt
