\* Liveness without crashes: one order, one card, one change of the account.
SPECIFICATION FairSpec
CONSTANTS
    Orders = {o1}
    Tasks = {t1, t2}
    Cards = {c1}
    Units = 1
    MaxRetries = 1
    Outcomes = {"accepted", "not_submitted", "refused", "rejected", "unknown"}
    MaxCrashes = 0
    MaxControls = 1
    BootRuns = FALSE
    NoOrder = NoOrder
PROPERTIES
    GuardComesBack
    FailureSurfaces
