CONSTANTS
    p1 = p1
    p2 = p2
    f1 = f1
    Proc <- MCOneProc
    Fact <- MCFact
    SeedRows = {}
    Superseded <- MCSeed
    MaxGen = 3
    Keep = 2
    CommitFaults = {}
    ErrexitCalls = {TRUE, FALSE}
    LegacyFound = {"absent", "complete", "truncated"}
    Modes = {"serve", "test"}
    LegacyContent <- MCLegacy
    NoProc = NoProc
    NoGen = NoGen
    BadPointer = BadPointer
    LegacyDump = LegacyDump
    NoBackup = NoBackup
    Damaged = Damaged
SPECIFICATION LifeSpec
INVARIANTS
    LifeTypeOK
    QuietRestore
PROPERTIES
    FinalIsCut
    ServedKeepsHistory
    CallsAsAssumed
    ImplementsLastGood
CONSTRAINTS PublicEmpty LegacyFirst
