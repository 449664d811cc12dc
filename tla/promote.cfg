\* Two gates, one promoted after the other
SPECIFICATION ScopedSpec
CONSTANTS
    j1 = j1  j2 = j2  j3 = j3
    g1 = g1  g2 = g2
    x1 = x1  x2 = x2
    Scopes = {"all"}
    Gates = {g1, g2}
    Jobs = {j1, j2}
    NumberOf <- OneTwice
    Inputs = {x1, x2}
    Unsound = {}
    FailureKinds <- Passing
    MaxVersionCode = 3
    MaxJump = 1
    FirstSignMax = 2
    MaxSignFailures = 2
    MaxFaults = 2
    MaxPackages = 2
    MaxRestores = 1
SYMMETRY GateAndInputSymmetry
INVARIANTS
    PrimaryKnowsTheReleases
    OneReleasePerCode
PROPERTIES
    DeliveredIsNotSentAgain
CHECK_DEADLOCK FALSE
