CONSTANTS
    w1 = w1  w2 = w2  s1 = s1  s2 = s2
    salon = salon  haircut = haircut  appointment = appointment  note = note
    Servers = {s1, s2}
    Seeders = {w1, w2}
    SeedKeys <- MCSeedKeys
    ClientDocs <- MCClientDocs
    FoundSeeded = {TRUE, FALSE}
    SeedOnStart = {TRUE, FALSE}
    MaxFailures = 1
    MaxCrashes = 1
SPECIFICATION SeedSpec
SYMMETRY SeedSymmetry
INVARIANTS SeedTypeOK SeedsDoNotMix LoneSeedIsWhole
\* Every seed happens at most once, so the system runs out of work.
CHECK_DEADLOCK FALSE
