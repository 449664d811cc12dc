\* Two packages and a manual release; one package, signers and the identity that change; both
\* files of a package; two machines, a package and an OTA payload, the reaper and the administrator
SPECIFICATION ScopedSpec
CONSTANTS
    j1 = j1  j2 = j2  j3 = j3
    m1 = m1  m2 = m2  s1 = s1  s2 = s2
    x1 = x1  x2 = x2  c1 = c1  c2 = c2  r1 = r1  r2 = r2
    Scopes = {"sequence", "registry", "pair", "machines"}
    Jobs = {j1, j2, j3}
    KindOf <- PackagesAndOTA
    BuildNumberOf <- RisingAndSame
    ManualBuilds = {2}
    Builders = {m1, m2}
    Signers = {s1, s2}
    Contents = {x1}
    Certificates = {1, 2}
    BuildFiles = {}
    Calls = {c1, c2}
    Reapers = {r1, r2}
    Administered = {s1, s2}
    MaxBuildAttempts = 2
    MaxSignFailures = 1
    MaxSignAttempts = 2
    MaxUploads = 2
SYMMETRY SequenceSymmetry
INVARIANTS
    NoManualReleaseOvertakesSigning
    AttestedIsDelivered
    OneBuildPerMachine
PROPERTIES
    ReleasesOnlyRise
    ReleasesAreStillWarranted
    FollowsTheStateMachine
CHECK_DEADLOCK FALSE
