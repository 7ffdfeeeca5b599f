SPECIFICATION FairSpec
CONSTANTS
    Tasks = {t1, t2}
    NoTask = NoTask
    MaxCrashes = 1
    InboxCap = 2
INVARIANTS
    RuntimeTypeOK
    OneConnection
    OnlineHasTask
    EntryStays
PROPERTIES
    StopIsHonoured
    StartIsHonoured
