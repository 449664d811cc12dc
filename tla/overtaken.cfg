\* Two requests that overlap
SPECIFICATION ScopedSpec
CONSTANTS
    r1 = r1  r2 = r2
    NoBase = NoBase
    Scopes = {"serving"}
    LateDiscards = FALSE
    Releases = {r1, r2}
    Otas = {o1}
    Installs = {i1}
    Admins = {a1, a2}
    Build <- MCBuild
    Runtime <- MCRuntime
PROPERTIES
    FollowsTheStateMachine
CHECK_DEADLOCK FALSE
