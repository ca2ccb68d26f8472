SPECIFICATION Spec
CONSTANTS
    Nothing = Nothing
    Refused = Refused
    r1 = r1
    r2 = r2
    Run = {r1, r2}
    SwapApproved = FALSE
    SignerKeys = "run"
    Reverts = FALSE
    SpecsRace = FALSE
    Versions = {"v1", "v2"}
    MaxEdits = 1
    MaxFaults = 1
    Casefold <- MCCasefold
    Worlds0 <- MCWorlds0
    Trees <- MCTrees
    Packages <- MCPackages
    Bundles <- MCBundles
    Overlays <- MCOverlays
    Baselines <- MCBaselines
    Issues <- MCIssues
    Launches <- MCLaunches
    Registry <- MCRegistry
INVARIANTS
    VerifiedPassIsHonest
    DebtWasIssued
    PolicyIsCurrent
PROPERTIES
    ExitIsBacked
CHECK_DEADLOCK FALSE
