SPECIFICATION Spec
CONSTANTS
    a1 = a1
    a2 = a2
    upgrade = upgrade
    snapshot = snapshot
    i1 = i1
    i2 = i2
    Agents <- OneAgent
    Skills <- GatedSet
    Gated <- GatedSet
    Inputs <- InputSet
    NoDigest = NoDigest
    GrantTiers <- TierSet
    ProposalTTL = 0
    TokenTTL = 0
    GrantTTL = 0
    MaxTime = 1
    MaxGrants = 2
    MaxProposals = 2
    MaxCalls = 2
CHECK_DEADLOCK FALSE
SYMMETRY Symmetry
INVARIANTS ApprovalRunsOnce GatedCallsAreDelegated BooksAgree KeptTokensAreCurrent
PROPERTIES VerdictIsFinal
