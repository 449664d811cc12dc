\* A chain that is scanned, coins that are counted, a configuration and jobs; a schema; texts,
\* tokens, the configuration of an app, settings
SPECIFICATION BackendSpec
CONSTANTS
    w1 = w1  w2 = w2  t1 = t1  t2 = t2  t3 = t3  d1 = d1  d2 = d2  e1 = e1  e2 = e2  s1 = s1  s2 = s2  r1 = r1  r2 = r2
    Workers = {w1, w2}
    Transfers = {t1}
    Confirmations = 1
    Span = 2
    MaxHeight = 5
    MaxBlocks = 7
    MaxDepth = 2
    Races = {}
    Faults = 1
SYMMETRY BackendSymmetry
INVARIANTS
    IndexIsTheChain
    
    SchemaIsRight
    ContentIsRight
PROPERTIES
    JobsAndEditsAreKept
CHECK_DEADLOCK FALSE
