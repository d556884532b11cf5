CONSTANTS
    a1 = a1  a2 = a2  a3 = a3  s1 = s1  s2 = s2  k1 = k1  k2 = k2  x = x  y = y
    NoKey = NoKey
    Attempts = {a1, a2}
    Servers = {s1, s2}
    Keys = {k1, k2}
    Subjects = {x, y}
    Asks <- MCAsks
    TTL = 1
    MaxClock = 2
    MaxFailures = 2
    MaxCrashes = 1
SPECIFICATION FairSpec
PROPERTIES EveryAttemptSettles
\* Every attempt is made at most once, so the system runs out of work.
CHECK_DEADLOCK FALSE
