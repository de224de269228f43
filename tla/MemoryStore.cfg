CONSTANTS
    c1 = c1
    c2 = c2
    e1 = e1
    e2 = e2
    s1 = s1
    s2 = s2
    Conn <- MCConn
    Id <- MCId
    Scope <- MCScope
    NoId = NoId
    Offered <- MCOffered
    Found = {"none", "old"}
SPECIFICATION Spec
INVARIANTS
    TypeOK
    ReadyIsWhole
    CorrectionSound
    StoredOnce
    RefusalIsDuplicate
PROPERTIES
    ImplementsLog
    OldStoreUntouched
SYMMETRY Objs
