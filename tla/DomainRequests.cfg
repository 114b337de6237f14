SPECIFICATION FairSpec
CONSTANTS
    g1 = g1  g2 = g2  k1 = k1  k2 = k2  r1 = r1  r2 = r2
    Keys = {k1}
    Ips = {i1}
    Rules = {r1, r2}
    Generations = {g1}
    Callers = {c1, c2}
    Reloader = reloader
    None = none
    Matches <- OneMatcher
    Capacity = 1
    Batch = 1
    MaxTime = 1
    MaxSequence = 2
    MaxEpoch = 1
INVARIANT NoMissedDeadline
PROPERTIES NewestWins ExpiredIsSwept
CHECK_DEADLOCK FALSE
