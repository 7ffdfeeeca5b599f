\* A refused delivery is dispatched again without a person.
SPECIFICATION Spec
CONSTANTS
    Orders = {o1}
    Tasks = {t1, t2}
    Cards = {c1, c2}
    Units = 1
    MaxRetries = 1
    Outcomes = {"accepted", "rejected", "unknown"}
    MaxCrashes = 0
    MaxControls = 0
    BootRuns = FALSE
    NoOrder = NoOrder
PROPERTIES
    RequiredIsManual
