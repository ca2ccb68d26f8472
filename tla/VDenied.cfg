SPECIFICATION ReportSpec
CONSTANTS
    Lane = {l1}
    Tool = {cargo}
    Profile = {rust}
    Digest = {d1}
    Nonce = {n1}
    Actor = {alice}
    Note = {why}
    TooLong = TooLong
    None = None
    Unreported = Unreported
    Window = 1
    Token = {}
    Hbt = {h1}
    Enrolled0 = {l1}
    Faults = {}
    MaxVersion = 3
    MaxTime = 2
PROPERTIES
    DeniedReopens
