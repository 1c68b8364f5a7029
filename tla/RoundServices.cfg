SPECIFICATION FairSpec
CONSTANTS
    Round = {1}
    StartTime = {0,2}
    User = {"org","b"}
    organizer = "org"
    Member = {"b"}
    Scan = {"s1","s2"}
    FromSec <- Window
    ToSec <- Window
    NoType = NoType
    NoRound = NoRound
    NoJob = NoJob
    MaxPatches = 1
    ReminderType = {"round_reminder_24h"}
    memberCount = 2
    roundIntervalSec = 1
    Attempts = 2
    NoSeqno = NoSeqno
    Horizon = 3
    MaxFaults = 2
    MaxForgotten = 1
INVARIANTS
    TypeOK
    SendsBounded
    RowsMatchChain
    ToldOnce
    RecordedMeansQueued
PROPERTIES
    CatchUpKept
    DueRoundSettles
    FailureReported
CHECK_DEADLOCK FALSE
