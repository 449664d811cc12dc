\* One package, its builder and its signer, every file delivered and re-delivered
SPECIFICATION ScopedSpec
CONSTANTS
    j1 = j1  j2 = j2  j3 = j3
    m1 = m1  m2 = m2  s1 = s1  s2 = s2
    x1 = x1  x2 = x2  c1 = c1  c2 = c2  r1 = r1  r2 = r2
    Scopes = {"all"}
    Jobs = {j1}
    KindOf <- OnePackage
    BuildNumberOf <- NumberOne
    ManualBuilds = {}
    Builders = {m1}
    Signers = {s1}
    Contents = {x1, x2}
    Certificates = {1}
    BuildFiles = {"unsigned"}
    Calls = {c1, c2}
    Reapers = {r1}
    Administered = {}
    MaxBuildAttempts = 2
    MaxSignFailures = 2
    MaxSignAttempts = 2
    MaxUploads = 3
SYMMETRY DeliverySymmetry
INVARIANTS
    TypeOK
    ReferencesAreBacked
    DeliveriesAreOfTheCurrentClaim
    SucceededMeansReleased
PROPERTIES
    ConcludedRowsAreFinal
CHECK_DEADLOCK FALSE
