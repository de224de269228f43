CONSTANTS
    p1 = p1
    p2 = p2
    f1 = f1
    Proc <- MCOneProc
    Fact <- MCFact
    SeedRows <- MCSeed
    Superseded = {}
    MaxGen = 3
    Keep = 2
    CommitFaults = {}
    ErrexitCalls = {TRUE, FALSE}
    LegacyFound = {"absent"}
    Modes = {"serve", "test"}
    LegacyContent <- MCLegacy
    NoProc = NoProc
    NoGen = NoGen
    BadPointer = BadPointer
    LegacyDump = LegacyDump
    NoBackup = NoBackup
    Damaged = Damaged
SPECIFICATION LifeSpec
PROPERTIES
    FailedRestoreKeepsLastGood
CONSTRAINT PublicEmpty
