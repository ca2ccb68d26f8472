SPECIFICATION Spec
CONSTANTS
    Nothing = Nothing
    v1 = v1
    v2 = v2
    Receiver = {v1, v2}
    Sealed <- MCSealed
    Handed <- MCHanded
    IdempotencyKey = {"k1", "k2"}
    Expected <- MCExpected
    Lifetimes = {2}
    MaxLifetime = 2
    MaxAge = 1
    Ttl = 1
    ValidUntil = 2
    MaxClock = 2
    MaxSent = 2
    MaxFaults = 1
SYMMETRY MCSymmetry
INVARIANTS
    AcceptedOnce
    RevocationTakesHold
    AcceptedIsOneRun
CHECK_DEADLOCK FALSE
