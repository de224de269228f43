CONSTANTS
    p1 = p1
    p2 = p2
    f1 = f1
    Proc <- MCProc
    Fact <- MCFact
    SeedRows = {}
    Superseded = {}
    MaxGen = 3
    Keep = 2
    CommitFaults = {"mv_generation", "write_pointer", "mv_pointer"}
    ErrexitCalls = {TRUE}
    LegacyFound = {"absent", "dump_only", "truncated"}
    LegacyContent <- MCLegacy
    NoProc = NoProc
    NoGen = NoGen
    BadPointer = BadPointer
    LegacyDump = LegacyDump
    NoBackup = NoBackup
    Damaged = Damaged
SPECIFICATION Spec
INVARIANTS
    TypeOK
    LatestComplete
    RestoreExact
    QuiescedIsCut
PROPERTIES
    PruneRetains
CONSTRAINTS Roles LegacyFirst StartsOver PublicEmpty
ACTION_CONSTRAINT SameAllocation
