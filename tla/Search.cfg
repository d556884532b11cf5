CONSTANTS
    r1 = r1  r2 = r2  r3 = r3  s1 = s1  s2 = s2
    cut = cut  color = color  bridal = bridal  consult = consult  noService = noService
    priya = priya  anita = anita  zoya = zoya  noStylist = noStylist
    Everyone = Everyone
    Requests = {r1, r2}
    Hour <- MCHour
    ServiceIds <- MCServiceIds
    StylistIds <- MCStylistIds
    Services <- MCServices
    Stylists <- MCStylists
    ActiveStylists <- MCActive
    Performs <- MCPerforms
    BookableByPhone <- MCBookable
    DurationMinutes <- MCDuration
    CompanyHours <- MCCompanyHours
    HoursOverride <- MCOverride
    SlotStep = 2
    Seeded <- MCSeeded
    SeedDoc <- MCSeedDoc
    SeedBlocks <- MCClosure
    Window = 20
    CreateCalls <- MoveCreates
    CancelCalls <- RaceCancels
    RescheduleCalls <- RaceMoves
    BlockCalls <- RaceBlocks
    StartNow = 136
    MaxNow = 137
    MaxFailures = 0
    Queries <- MCQueries
    AnyStylist = AnyStylist
    AnyTime = AnyTime
    Rank <- MCRank
SPECIFICATION SearchSpec
SYMMETRY RequestSymmetry
INVARIANTS SearchTypeOK OfferCanBeBooked OfferedWasOpen NothingOpenIsMissed CounterOfferIsFirst
\* Every request is sent at most once, so the system runs out of work.
CHECK_DEADLOCK FALSE
