CONSTANTS
    i1 = i1
    i2 = i2
    i3 = i3
    i4 = i4
    q1 = q1
    q2 = q2
    q3 = q3
    Id <- MCFourIds
    Pid <- MCThreePids
    Writers <- MCWriters
    Other = "other"
    Faults = {}
    NoId = NoId
    NoPid = NoPid
    NoRecord = NoRecord
    Torn = Torn
SPECIFICATION Spec
PROPERTIES
    GatewayLast
SYMMETRY Symmetry
