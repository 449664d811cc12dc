\* What must eventually happen, component by component
SPECIFICATION FairSpec
CONSTANTS
    j1 = j1  m1 = m1  s1 = s1  x1 = x1  c1 = c1  r1 = r1  r2 = r2  g1 = g1
    p1 = p1  w1 = w1  w2 = w2  t1 = t1  e1 = e1
    v1 = v1  v2 = v2  none = none  mac1 = mac1  u1 = u1  agent = agent  runner = runner
PROPERTIES
    JobsGoOn
    
    ChainsAreFollowed
    UpgradesComplete
CHECK_DEADLOCK FALSE
