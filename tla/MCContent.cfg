SPECIFICATION Spec
CONSTANTS
    Payloads <- MCPayloads
    BufferSizes = {1, 2, 5}
    MaxBytes = 4
    InspectionDepth = 5
    MaxFindings = 22
    MaxEvidence = 1
    MaxResources = 2
    MaxReportSize = 22
    MaxEvents = 2
    Width = 7
    DayMillis = 8
    Second = 2
    Minute = 4
    Hour = 8
    Milli = 2
    Heads <- MCHeads
    Pieces <- MCPieces
    MaxPieces = 3
    Limits <- MCLimits
    CalendarLines <- MCCalendarLines
    MaxLines = 4
    Numbers <- MCNumbers
    Starts <- MCStarts
    CalendarEvents <- MCCalendarEvents
    MaxHistory = 4
    Tokens <- MCTokens
    MaxTokens = 5
    Requests <- MCRequests
    InitialRows <- MCInitialRows
    MaxMessageActionIDs = 2
    MaxSearchPatternBytes = 3
    MaxWireBytes = 6
INVARIANTS
    Faithful
    LimitExact
    InSync
    PassesAgree
    InspectionBounded
    PartsKept
    
    
    CalendarsRead
    DurationsExact
    HistoryExact
    BodiesSanitized
    AnswersExact
    MessagesRetrieved
CHECK_DEADLOCK FALSE
