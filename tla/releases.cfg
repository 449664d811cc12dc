\* Releases and updates that are served, paused, rolled back and purged
SPECIFICATION ScopedSpec
CONSTANTS
    r1 = r1  r2 = r2
    NoBase = NoBase
    Scopes = {"serving", "updates", "alone"}
    LateDiscards = FALSE
    Releases = {r1, r2}
    Otas = {o1, o2, o3}
    Installs = {i1}
    Admins = {a1, a2}
    Build <- MCBuild
    Runtime <- MCRuntime
SYMMETRY Symmetry
INVARIANTS
    ServingIsConsistent
PROPERTIES
    RollbackReachesEveryDevice
    UndisturbedRequestsAreSafe
CHECK_DEADLOCK FALSE
