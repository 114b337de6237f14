SPECIFICATION Spec
CONSTANTS
    g1 = g1  g2 = g2  k1 = k1  k2 = k2  r1 = r1  r2 = r2
    Keys = {k1, k2}
    Ips = {i1}
    Rules = {r1, r2}
    Generations = {g1, g2}
    Callers = {c1}
    Reloader = reloader
    None = none
    Matches <- TwoMatchers
    Capacity = 1
    Batch = 1
    MaxTime = 1
    MaxSequence = 2
    MaxEpoch = 0
CONSTRAINTS KernelIsJudged FewBegun
VIEW WithoutHistory
INVARIANTS KernelMatchesCache
CHECK_DEADLOCK FALSE
