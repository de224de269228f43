SPECIFICATION FairSpec
CONSTANTS
    Ticker = {"AAPL", "NVDA"}
    Symbol = {"AAPL", "NVDA", "MSFT"}
    FirstDay = 1
    LastDay = 2
    DATE = 1
    Day <- MCDay
    Pair = {1, 2}
    Chunks = 2
    Query = {"Market Query", "News Query"}
    EXPECTED_COUNTS <- MCCounts
    Fetch = 2
    MaxRows = 3
    Absent = Absent
    Torn = Torn
    Idle = Idle
    Gone = Gone
CHECK_DEADLOCK FALSE
INVARIANTS
    TypeOK
    AcceptedIsPinned
    StoppedIsTrue
PROPERTY Ends
