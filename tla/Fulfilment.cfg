\* A template of three messages, two administrators, two crashes, every result.
\* Deadlock is not checked: once its result is unknown a delivery rests until a
\* person decides, and no one may be left to act.
SPECIFICATION Spec
CONSTANTS
    hello = hello
    key = key
    Template <- MCTemplate
    Requests = {r1, r2}
    Replies = {"accepted", "not_submitted", "rejected", "unknown", "error"}
    Confirmations = {"accepted", "not_submitted", "rejected", "unknown", "error"}
    MaxCrashes = 2
CHECK_DEADLOCK FALSE
SYMMETRY Symmetry
INVARIANTS
    FulfilmentTypeOK
    SentInOrder
    ProofsAreComplete
    AcceptedIsComplete
    ConfirmedIsTrue
    ShippedIsRecorded
