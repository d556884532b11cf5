CONSTANTS
    r1 = r1  r2 = r2  r3 = r3  s1 = s1  s2 = s2
    cut = cut  color = color  bridal = bridal  consult = consult  noService = noService
    priya = priya  anita = anita  zoya = zoya  noStylist = noStylist
    Everyone = Everyone
    Requests = {r1, r2}
    Hour <- MCHour
    ServiceIds <- MCServiceIds
    StylistIds <- MCStylistIds
    Services <- MCServices
    Stylists <- MCStylists
    ActiveStylists <- MCActive
    Performs <- MCPerforms
    BookableByPhone <- MCBookable
    DurationMinutes <- MCDuration
    CompanyHours <- MCCompanyHours
    HoursOverride <- MCOverride
    SlotStep = 8
    Seeded <- MCSeededTwo
    Readers = {f1}  f1 = f1  meera = meera  rohan = rohan  NoFilter = NoFilter
    OwnerOf <- MCOwner
    ReferenceOf <- MCReference
    HasEmail <- MCHasEmail
    FindCalls <- ReaderFinds
    ListCalls <- ReaderLists
    ConfirmCalls <- ReaderConfirms
    SeedDoc <- ReaderSeedDoc
    SeedBlocks <- None
    Window = 34
    CreateCalls <- ReaderCreates
    CancelCalls <- ReaderCancels
    RescheduleCalls <- ReaderMoves
    BlockCalls <- None
    StartNow = 0
    MaxNow = 1
    MaxFailures = 1
SPECIFICATION FairReadersSpec
INVARIANTS ReaderTypeOK TellsTheBook FlagAgreesWithCancel ConfirmationsAreHonest OnlyMalformedStartsBreakReaders
PROPERTIES EveryRequestAnswered EveryReaderAnswered
\* Every request is sent at most once, so the system runs out of work.
CHECK_DEADLOCK FALSE
