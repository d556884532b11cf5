CONSTANTS
    w1 = w1  w2 = w2  s1 = s1  s2 = s2
    salon = salon  haircut = haircut  appointment = appointment  note = note
    Servers = {s1, s2}
    Seeders = {w1, w2}
    SeedKeys <- MCSeedKeys
    ClientDocs <- MCClientDocs
    FoundSeeded = {FALSE}
    SeedOnStart = {TRUE}
    MaxFailures = 0
    MaxCrashes = 1
SPECIFICATION SeedSpec
SYMMETRY SeedSymmetry
INVARIANTS UpMeansSeeded
\* Every seed happens at most once, so the system runs out of work.
CHECK_DEADLOCK FALSE
