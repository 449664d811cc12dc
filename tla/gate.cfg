\* One gate under every kind of trouble; two gates and rising numbers
SPECIFICATION ScopedSpec
CONSTANTS
    j1 = j1  j2 = j2  j3 = j3
    g1 = g1  g2 = g2
    x1 = x1  x2 = x2
    Scopes = {"alone", "rising"}
    Gates = {g1, g2}
    Jobs = {j1, j2, j3}
    NumberOf <- OneTwiceAndTwo
    Inputs = {x1, x2}
    Unsound = {}
    FailureKinds <- Anything
    MaxVersionCode = 3
    MaxJump = 1
    FirstSignMax = 2
    MaxSignFailures = 2
    MaxFaults = 3
    MaxPackages = 3
    MaxRestores = 1
SYMMETRY GateAndInputSymmetry
INVARIANTS
    TypeOK
    OneInputPerCode
    RunAndLogAgree
    ReleaseIsRecorded
PROPERTIES
    ReleasedCodesRise
CHECK_DEADLOCK FALSE
