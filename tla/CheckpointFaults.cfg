CONSTANTS
    p1 = p1
    p2 = p2
    f1 = f1
    Proc <- MCProc
    Fact = {}
    SeedRows = {}
    Superseded = {}
    MaxGen = 2
    Keep = 2
    CommitFaults = {"mv_generation", "write_pointer", "mv_pointer"}
    ErrexitCalls = {TRUE, FALSE}
    LegacyFound = {"absent"}
    LegacyContent <- Empty
    NoProc = NoProc
    NoGen = NoGen
    BadPointer = BadPointer
    LegacyDump = LegacyDump
    NoBackup = NoBackup
    Damaged = Damaged
SPECIFICATION Spec
INVARIANTS
    LatestComplete
SYMMETRY Shells
