CONSTANTS
    w1 = w1  s1 = s1  r1 = r1  r2 = r2
    salon = salon  haircut = haircut  priya = priya  note = note
    Servers = {s1}
    Seeders = {w1}
    Readers = {r1, r2}
    SeedKeys <- MCSeedKeys
    ClientDocs <- MCClientDocs
    FoundSeeded = {TRUE, FALSE}
    SeedOnStart = {TRUE, FALSE}
    MaxFailures = 1
    MaxCrashes = 1
    Lifetime = 1
    MaxClock = 2
    Queries <- MCQueries
    Performs <- MCPerforms
    Bookable = {haircut}
    WalkIn = {haircut}
SPECIFICATION ReadSpec
SYMMETRY ReadCacheSymmetry
INVARIANTS ReadTypeOK ResetIsSeen
PROPERTIES CompanyIsNeverLost PartialAnswersEnd
\* Every read and every seed happens at most once, so the system runs out of work.
CHECK_DEADLOCK FALSE
