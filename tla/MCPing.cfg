CONSTANTS
    Endless = 2
    Huge = 3
    SetLen = 4
    Chunks = 3
    Settings <- MCSettings
SPECIFICATION FairSpec
CHECK_DEADLOCK FALSE
INVARIANTS
    CountIsCurrent
    AnswersInRound
    PlainPingsLeaveConn
PROPERTIES
    MeasuredIsReported
    HandlersEnd
