SPECIFICATION GroupsSpec
CONSTANTS
    Messages = {m1}
    Contacts = {a, b}
    MaxLosses = 1
    MaxChanges = 1
    Total = 2
    Window = 2
    MaxSpan = 2
    MaxMissing = 2
    EarlyCap = 0
    MaxFileLosses = 1
    MaxRestarts = 1
CONSTRAINT StillGoing
PROPERTIES
    GroupKeeps
    GroupHears
    FileComesThrough
CHECK_DEADLOCK FALSE
