\* One order, two callers of handle, two manual requests, no crash: a resend while a declared
\* receipt has freed the guard under a task.
SPECIFICATION ManualSpec
CONSTANTS
    Orders = {o1}
    Tasks = {t1, t2}
    Requests = {r1, r2}
    Operations = {"resend", "mark_received"}
    Cards = {}
    Units = 0
    MaxRetries = 1
    Outcomes = {"accepted", "rejected"}
    MaxCrashes = 0
    MaxControls = 0
    BootRuns = TRUE
    NoOrder = NoOrder
PROPERTIES
    DecidedStopsAutomatic
