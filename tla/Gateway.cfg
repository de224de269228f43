SPECIFICATION FairSpec
CONSTANTS
    a = a
    b = b
    c = c
    n = n
    Req <- MCReq
    Name <- MCName
    Segment <- MCSegment
    Asked <- MCAsked
    Public = "lumilake-public"
    Results = "materialized"
    MaxRows = 2
    Width = 2
    MaxResult = 1
    MaxBlob = 1
    Threads = 1
    Nobody = Nobody
    NoObject = NoObject
INVARIANTS
    TypeOK
    ObjectsLawful
    ResultsKept
    AcknowledgedIsSeen
    ReadyHonest
PROPERTY AnswersComeBack
