SPECIFICATION RolloutSpec
CONSTANTS
    Lane = {l1}
    Tool = {cargo}
    Profile = {rust}
    Digest = {d1, d2}
    Nonce = {n1, n2}
    Actor = {alice}
    Note = {why}
    TooLong = TooLong
    None = None
    Unreported = Unreported
    Window = 1
    Token = {}
    Hbt = {h1}
    Enrolled0 = {l1}
    Faults = {}
    MaxVersion = 7
    MaxTime = 1
VIEW WithoutCall
INVARIANTS
    AuditReplays
    EvidenceMatchesState
    DecisionsSpendNonces
PROPERTIES
    
    ApprovedSettles
