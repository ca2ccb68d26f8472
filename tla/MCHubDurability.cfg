SPECIFICATION Spec
CONSTANTS
    Lane = {l1, l2}
    Tool = {cargo}
    Profile = {rust}
    Digest = {d1}
    Nonce = {n1}
    Actor = {alice}
    Note = {why}
    TooLong = TooLong
    None = None
    Unreported = Unreported
    Window = 1
    Token = {t1, t2}
    Hbt = {h1, h2, h3}
    Enrolled0 = {l1}
    Faults = {"save", "answer"}
    MaxVersion = 3
    MaxTime = 0
SYMMETRY Perms
CONSTRAINT Apart
VIEW WithoutCall
INVARIANTS
    AckedIsDurable
    EnrollmentsHold
