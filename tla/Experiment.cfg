CONSTANTS
    Text <- MCText
    Group <- MCGroup
    Normal <- MCNormal
    Label <- MCLabel
    Families <- MCFamilies
    CellCount <- MCCellCount
    FamilyCount <- MCFamilyCount
    Drafts <- MCDrafts
    Requests <- MCRequests
    Reads <- MCReads
    Words <- MCWords
    Scope = {"ours", "theirs"}
    Limit = 1
    Deployed <- MCDeployed
    Approvals <- MCApprovals
SPECIFICATION Spec
INVARIANTS
    PlanFaithful
    NoLeak
    EvidenceFresh
    VerdictFinal
