CONSTANTS
    r1 = r1  r2 = r2  r3 = r3  s1 = s1  s2 = s2
    cut = cut  color = color  bridal = bridal  consult = consult  noService = noService
    priya = priya  anita = anita  zoya = zoya  noStylist = noStylist
    Everyone = Everyone
    Requests = {r1, r2}
    Hour <- MCHour
    ServiceIds <- MCServiceIds
    StylistIds <- MCStylistIds
    Services <- MCServices
    Stylists <- MCStylists
    ActiveStylists <- MCActive
    Performs <- MCPerforms
    BookableByPhone <- MCBookable
    DurationMinutes <- MCDuration
    CompanyHours <- MCCompanyHours
    HoursOverride <- MCOverride
    SlotStep = 2
    Seeded <- MCSeeded
    SeedDoc <- MCSeedDoc
    SeedBlocks <- MCSeedBlocks
    Window = 34
    CreateCalls <- MoveCreates
    CancelCalls <- None
    RescheduleCalls <- RaceMoves
    BlockCalls <- None
    StartNow = 0
    MaxNow = 0
    MaxFailures = 0
SPECIFICATION Spec
SYMMETRY RequestSymmetry
INVARIANTS NoDoubleBooking
\* Every request is sent at most once, so the system runs out of work.
CHECK_DEADLOCK FALSE
