CONSTANTS
    p1 = p1
    p2 = p2
    f1 = f1
    Proc <- MCProc
    Fact = {}
    SeedRows = {}
    Superseded = {}
    MaxGen = 2
    Keep = 2
    CommitFaults = {"write_pointer"}
    ErrexitCalls = {TRUE, FALSE}
    LegacyFound = {"absent"}
    Modes = {"serve", "test"}
    LegacyContent <- Empty
    NoProc = NoProc
    NoGen = NoGen
    BadPointer = BadPointer
    LegacyDump = LegacyDump
    NoBackup = NoBackup
    Damaged = Damaged
SPECIFICATION FairLifeSpec
PROPERTIES
    CleanupEnds
    LockReleased
ACTION_CONSTRAINT OneRehearses
