\* One account, no crash: a task is started again after its authorisation has expired.
SPECIFICATION FairSpec
CONSTANTS
    Tasks = {t1, t2}
    NoTask = NoTask
    MaxCrashes = 0
    InboxCap = 2
PROPERTIES
    ExpiredWaits
