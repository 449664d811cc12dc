\* Machines and their registry, push messages, iOS deliveries, signing material, trust and enrolment
SPECIFICATION ServicesSpec
CONSTANTS
    mac1 = mac1  gate1 = gate1  f1 = f1  f2 = f2  f3 = f3  p1 = p1  p2 = p2  w1 = w1  w2 = w2
    t0 = t0  t1 = t1  proc1 = proc1  r1 = r1  r2 = r2  sv1 = sv1  g1 = g1  g2 = g2  c1 = c1  c2 = c2
    Machines = {gate1, mac1}
    Gates = {gate1}
    KeysOf <- KeysOfMachines
    Servers = {sv1}
    Calls = {c1, c2}
    WriteRetries = 2
    MaxVersion = 5
SYMMETRY Symmetry
INVARIANTS
    KeysIdentifyMachines
    RevocationIsImmediate
    PushesAreRight
    
    TrustIsRecorded
PROPERTIES
    RecordsKeepTheirOrder
CHECK_DEADLOCK FALSE
