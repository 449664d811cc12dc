\* Two administrators queue packages at the same time
SPECIFICATION ScopedSpec
CONSTANTS
    j1 = j1  j2 = j2  j3 = j3
    m1 = m1  m2 = m2  s1 = s1  s2 = s2
    x1 = x1  x2 = x2  c1 = c1  c2 = c2  r1 = r1  r2 = r2
    Scopes = {"all"}
    Jobs = {j1, j2}
    KindOf <- TwoPackages
    BuildNumberOf <- Rising
    ManualBuilds = {}
    Builders = {m1}
    Signers = {s1}
    Contents = {x1}
    Certificates = {1}
    BuildFiles = {}
    Calls = {c1, c2}
    Reapers = {}
    Administered = {}
    MaxBuildAttempts = 1
    MaxSignFailures = 1
    MaxSignAttempts = 1
    MaxUploads = 2
SYMMETRY CallSymmetry
PROPERTIES
    QueuedNumbersRise
CHECK_DEADLOCK FALSE
