\* One order, one caller of handle, two manual requests, one crash
\* that is recovered from.
SPECIFICATION ManualSpec
CONSTANTS
    Orders = {o1}
    Tasks = {t1}
    Requests = {r1, r2}
    Operations = {"resend", "mark_received", "terminate"}
    Cards = {c1}
    Units = 1
    MaxRetries = 1
    Outcomes = {"accepted", "rejected", "unknown"}
    MaxCrashes = 1
    MaxControls = 0
    BootRuns = TRUE
    NoOrder = NoOrder
SYMMETRY Symmetry
INVARIANTS
    ManualTypeOK
    AtMostOneCopy
    ResentIsRecorded
    OneResend
