\* Wallets on phones, packages and reports, inviters and their trees, administrators of the consoles
SPECIFICATION AccountsSpec
CONSTANTS
    a = a  b = b  c = c
    n1 = n1  n2 = n2
    p1 = p1  p2 = p2
    k1 = k1  k2 = k2
    q1 = q1  q2 = q2
    None = None
SYMMETRY AccountSymmetry
INVARIANTS
    PhonesAreServedRightly
    ConsolesAreRight

    
CHECK_DEADLOCK FALSE
