SPECIFICATION Spec
CONSTANTS
    c1 = c1
    Chats <- OneChat
    Scripts <- Talks
    Overhead = 1
    Window = 3
    MaxMessages = 4
    MaxUpsets = 2
CHECK_DEADLOCK FALSE
INVARIANTS TypeOK ConsolidatedIsArchived FactsMissedOnlyAfterClear
PROPERTIES TurnsLeaveArchived ArchiveGuaranteed
