----------------------- MODULE AvailabilitySearchProofs -----------------------
(***************************************************************************)
(* The search beside the booking endpoints, for every salon, every query   *)
(* and every interleaving: its types, that what it offers was open, that   *)
(* in a quiet salon what it offers can be booked, and that there nothing   *)
(* that can be booked is left out.                                         *)
(***************************************************************************)
EXTENDS AvailabilitySearch, BookingServiceProofs, FiniteSetTheorems

\* What the history says once a search has begun: what stands still stands.
Watched ==
    phase # "idle" =>
        /\ query \in Queries
        /\ standing \subseteq Confirmed
        /\ stood \subseteq blocks
        /\ begun <= now

\* A search reads only for a service it may offer.
InContext ==
    phase \in {"read", "needBlocks", "needBookings", "compute"} \/ Answered200 =>
        ContextOf(query) = "OK"

\* What was read holds everything that stands, and if nobody wrote it is what
\* the collections hold.
HeardFits ==
    /\ phase \in {"needBlocks", "compute"} =>
          standing \subseteq heard /\ (undisturbed => heard = Confirmed)
    /\ phase \in {"needBookings", "compute"} =>
          stood \subseteq heardBlocks /\ (undisturbed => heardBlocks = blocks)

SearchInv == /\ SearchTypeOK /\ Watched /\ InContext /\ HeardFits
             /\ OfferCanBeBooked /\ OfferedWasOpen

-----------------------------------------------------------------------------
(* Slots                                                                   *)

LEMMA QueryFields ==
  \A q \in Queries : /\ q.svc \in ServiceIds /\ q.sty \in StylistIds \cup {AnyStylist}
                     /\ q.date \in Nat \cup {NoDate} /\ q.from \in Nat \cup {NoDate}
                     /\ q.to \in Nat \cup {NoDate} /\ q.limit \in 1..50
  BY QueriesAssumption

\* The context that was checked once for the search holds of each candidate.
LEMMA CandidatesQualify ==
  ASSUME query \in Queries, ContextOf(query) = "OK", NEW s \in Candidates
  PROVE  /\ s \in Stylists /\ s \in ActiveStylists
         /\ ContextVerdict(query.svc, s) = "OK"
         /\ query.svc \in Services /\ Duration \in Nat /\ Duration > 0
<1>1. ServiceVerdict(query.svc) = "OK"
  BY DEF ContextOf, ContextVerdict
<1>2. s \in ActiveStylists /\ s \in Stylists /\ query.svc \in Performs[s]
  BY CatalogueAssumption DEF Candidates
<1>3. /\ query.svc \in Services /\ DurationMinutes[query.svc] # 0
      /\ DurationMinutes[query.svc] \in Nat
  BY <1>1, CatalogueAssumption DEF ServiceVerdict
<1>4. QED
  BY <1>1, <1>2, <1>3 DEF ContextVerdict, Duration

\* minutesToTime gives a time of day that reads back as the same minutes.
LEMMA ClockReadsBack ==
  ASSUME NEW t \in Nat, t < DayLen
  PROVE  /\ Clock(t) \in ClockTimes
         /\ ParsesAsTime(Clock(t))
         /\ TimeToMinutes(Clock(t)) = t
<1> DEFINE h == t \div Hour
           m == t % Hour
<1>1. Hour \in Nat /\ Hour > 0
  BY HourAssumption
<1>2. h \in Nat /\ m \in Nat /\ m < Hour /\ t = h * Hour + m
  BY <1>1
<1>3. h < 24
  <2> HIDE DEF h, m
  <2>1. SUFFICES ASSUME h >= 24 PROVE FALSE
    BY <1>2
  <2>2. PICK k \in Nat : h = 24 + k
    <3>1. h - 24 \in Nat /\ h = 24 + (h - 24)
      BY <1>2, <2>1
    <3>2. QED
      BY <3>1
  <2>3. h * Hour = 24 * Hour + k * Hour /\ k * Hour >= 0
    BY <1>1, <2>2
  <2>4. QED
    BY <1>1, <1>2, <2>3 DEF DayLen
<1>4. QED
  <2> HIDE DEF h, m
  <2>1. Clock(t) = [h |-> h, m |-> m]
    BY DEF Clock, h, m
  <2>2. QED
    BY <1>1, <1>2, <1>3, <2>1 DEF ClockTimes, ParsesAsTime, TimeToMinutes

\* What is known of an open slot found on a date.
LEMMA OpenSlotFacts ==
  ASSUME SearchTypeOK, TypeOK, query \in Queries, ContextOf(query) = "OK",
         NEW dates \in SUBSET Nat, NEW o \in OpenSlots(dates)
  PROVE  /\ o \in Slot /\ o.sty \in Candidates /\ Instant(o) \in Nat
         /\ o.date \in dates /\ o.start < DayLen
         /\ Instant(o) >= now
         /\ ~Clashes(Instant(o), Instant(o) + Duration, OfStylist(o.sty, heard))
         /\ ~Clashes(Instant(o), Instant(o) + Duration, BlocksOf(o.sty, heardBlocks))
         /\ SlotVerdict(o.sty, Duration, o.date, Clock(o.start),
                        heard, heardBlocks, now) = "OK"
<1> DEFINE SlotsOf(d, s) == SlotsForStylistDate(s, Duration, d, OfStylist(s, heard),
                                                BlocksOf(s, heardBlocks), now)
<1>0. PICK d \in dates, s \in Candidates :
        \E t \in SlotsOf(d, s) : o = [date |-> d, start |-> t, sty |-> s]
  BY DEF OpenSlots
<1>1. PICK t \in SlotsOf(d, s) : o = [date |-> d, start |-> t, sty |-> s]
  BY <1>0
<1>2. /\ s \in Stylists /\ s \in ActiveStylists
      /\ Duration \in Nat /\ Duration > 0
  BY CandidatesQualify
<1>3. now \in Nat /\ d \in Nat
  BY RequestsAssumption DEF TypeOK
<1>4. t \in Grid(s, Duration, d)
  BY DEF SlotsForStylistDate
<1>5. t \in Nat /\ t < DayLen
  <2>1. /\ t \in Nat /\ t + Duration <= EffectiveHours(s, d).closeTime
    BY <1>2, <1>3, <1>4, GridType
  <2>2. /\ EffectiveHours(s, d).closeTime \in Nat
        /\ EffectiveHours(s, d).closeTime <= DayLen
    BY <1>2, <1>3, HoursType DEF DayHours
  <2>3. QED
    BY <1>2, <2>1, <2>2, DayLenType
<1>6. o.date = d /\ o.start = t /\ o.sty = s /\ Instant(o) = At(d, t)
  BY <1>1 DEF Instant
<1>7. Instant(o) \in Nat /\ At(d, t + Duration) = Instant(o) + Duration
  BY <1>2, <1>3, <1>5, <1>6, DayLenType DEF At
<1>8. /\ ~Before(Instant(o), now)
      /\ ~Clashes(Instant(o), Instant(o) + Duration, OfStylist(s, heard))
      /\ ~Clashes(Instant(o), Instant(o) + Duration, BlocksOf(s, heardBlocks))
  BY <1>6, <1>7 DEF SlotsForStylistDate
<1>9. SlotVerdict(s, Duration, d, Clock(t), heard, heardBlocks, now) = "OK"
  BY <1>2, <1>3, <1>5, ClockReadsBack, OfferedIsAccepted
<1>10. Instant(o) >= now
  BY <1>3, <1>7, <1>8 DEF Before, Invalid
<1>11. o \in Slot
  BY <1>1, <1>2, <1>3, <1>5 DEF Slot
<1>12. QED
  BY <1>5, <1>6, <1>7, <1>8, <1>9, <1>10, <1>11

\* The last of the dates asked for is one of them.
LEMMA LastOfDates ==
  ASSUME query \in Queries, now \in Nat, Dates # {}
  PROVE  /\ Dates \subseteq Nat /\ LastOf(Dates) \in Nat
         /\ \A e \in Dates : e <= LastOf(Dates)
<1>1. Today \in Nat
  BY DayLenType DEF Today
<1>2. Dates \subseteq Nat
  BY <1>1, QueryFields DEF Dates, NoDate
<1>3. \E d \in Dates : \A e \in Dates : e <= d
  <2>1. CASE query.date # NoDate
    BY <2>1, <1>2, QueryFields DEF Dates, NoDate
  <2>2. CASE query.date = NoDate /\ query.from # NoDate /\ query.to # NoDate
    <3>1. Dates = query.from .. query.to /\ query.from \in Nat /\ query.to \in Nat
      BY <2>2, QueryFields DEF Dates
    <3>2. query.to \in Dates /\ \A e \in Dates : e <= query.to
      BY <3>1
    <3>3. QED
      BY <3>2
  <2>3. CASE query.date = NoDate /\ query.from # NoDate /\ query.to = NoDate
    BY <2>3, <1>2, QueryFields DEF Dates, NoDate
  <2>4. CASE query.date = NoDate /\ query.from = NoDate /\ query.to # NoDate
    BY <2>4, <1>2, QueryFields DEF Dates, NoDate
  <2>5. CASE query.date = NoDate /\ query.from = NoDate /\ query.to = NoDate
    <3>1. Dates = Today .. (Today + 6)
      BY <2>5 DEF Dates
    <3>2. Today + 6 \in Dates /\ \A e \in Dates : e <= Today + 6
      BY <1>1, <3>1
    <3>3. QED
      BY <3>2
  <2>6. QED
    BY <2>1, <2>2, <2>3, <2>4, <2>5
<1>4. LastOf(Dates) \in Dates /\ \A e \in Dates : e <= LastOf(Dates)
  BY <1>3 DEF LastOf
<1>5. QED
  BY <1>2, <1>4

\* What is found is open, and a counter-offer is an open slot without its
\* stylist.
LEMMA FoundIsOpen == Found \subseteq OpenSlots(Dates)
  BY DEF Found, First, Deduped, InPart

LEMMA CounterOfferIsOpen ==
  ASSUME query \in Queries, now \in Nat, NEW next \in CounterOffers
  PROVE  \E dates \in SUBSET Nat : \E o \in OpenSlots(dates) :
            next = [date |-> o.date, start |-> o.start]
<1>1. Dates # {} /\ next \in NextAvailable(LastOf(Dates))
  BY DEF CounterOffers
<1>2. PICK i \in Scans : \E o \in First(1, OpenSlots(Chunk(LastOf(Dates), i))) :
          next = [date |-> o.date, start |-> o.start]
  BY <1>1 DEF NextAvailable, FirstHit
<1>3. Chunk(LastOf(Dates), i) \subseteq Nat
  BY <1>1, LastOfDates DEF Chunk, Scans
<1>4. QED
  BY <1>2, <1>3 DEF First
-----------------------------------------------------------------------------
(* The steps                                                               *)

LEMMA SearchBegins == SearchInit => SearchInv
<1> SUFFICES ASSUME SearchInit PROVE SearchInv
  OBVIOUS
<1>0. StartNow \in StartNow..MaxNow
  BY RequestsAssumption
<1>1. SearchTypeOK
  <2>1. answer.code = "none" /\ answer.slots = {} /\ answer.next = NoOffer
    BY DEF SearchInit
  <2>2. QED
    BY <1>0, <2>1 DEF SearchInit, SearchTypeOK, SearchCodes
<1>2. QED
  BY <1>1 DEF SearchInit, SearchInv, Watched, InContext, HeardFits,
              OfferCanBeBooked, OfferedWasOpen, Answered200

\* A write, a tick or any other step of the booking endpoints takes from what
\* stands and ends the quiet if it changes anything; blocks are never removed.
LEMMA BlocksOnlyGrow == [Next]_vars => blocks \subseteq blocks'
<1>1. ASSUME NEW r \in Requests, Step(r) PROVE blocks \subseteq blocks'
  BY <1>1 DEF Step, ResolveContext, LoadBookings, LoadBlocks, AssertSlotIsValid,
              RunTransaction, RequireBooking, CheckCancellationWindow,
              UpdateCancelled, ResolveMove, UpdateMoved, AddBlock, database
<1>2. ASSUME NEW r \in Requests, Arrive(r) \/ StoreFails(r) PROVE blocks \subseteq blocks'
  BY <1>2 DEF Arrive, StoreFails, database
<1>3. QED
  BY <1>1, <1>2 DEF Next, Tick, database, vars

LEMMA ClockNeverBack == TypeOK /\ [Next]_vars => now <= now'
<1> SUFFICES ASSUME TypeOK, [Next]_vars PROVE now <= now'
  OBVIOUS
<1>0. now \in Nat
  BY RequestsAssumption DEF TypeOK
<1>1. ASSUME NEW r \in Requests, Step(r) PROVE now' = now
  BY <1>1 DEF Step, ResolveContext, LoadBookings, LoadBlocks, AssertSlotIsValid,
              RunTransaction, RequireBooking, CheckCancellationWindow,
              UpdateCancelled, ResolveMove, UpdateMoved, AddBlock
<1>2. ASSUME NEW r \in Requests, Arrive(r) \/ StoreFails(r) PROVE now' = now
  BY <1>2 DEF Arrive, StoreFails
<1>3. QED
  BY <1>0, <1>1, <1>2 DEF Next, Tick, vars

\* In a quiet step nothing the search is about changes.
LEMMA BookingStep ==
  ASSUME TypeOK, SearchInv, Next, Watch, UNCHANGED searchLocals, TypeOK'
  PROVE  SearchInv'
<1> USE DEF SearchInv, searchLocals
<1>1. SearchTypeOK'
  BY DEF SearchTypeOK, Watch
<1>2. /\ standing' \subseteq standing /\ stood' = stood /\ begun' = begun
      /\ blocks \subseteq blocks' /\ now <= now' /\ now \in Nat /\ now' \in Nat
      /\ begun \in Nat
  BY BlocksOnlyGrow, ClockNeverBack, RequestsAssumption DEF Watch, TypeOK, SearchTypeOK
<1>3. undisturbed' => /\ undisturbed /\ bookings' = bookings /\ blocks' = blocks
                      /\ now' = now /\ Confirmed' = Confirmed
  BY DEF Watch, Confirmed
<1>4. Watched'
  BY <1>2 DEF Watched, Watch
<1>5. InContext'
  BY DEF InContext, Answered200, ContextOf
<1>6. HeardFits'
  BY <1>2, <1>3 DEF HeardFits
<1>7. OfferedWasOpen'
  <2> SUFFICES ASSUME Answered200', NEW o \in answer.slots
               PROVE  /\ Instant(o) >= begun'
                      /\ ~Clashes(Instant(o), Instant(o) + Duration,
                                  {b \in standing' : b.sty = o.sty})
                      /\ ~Clashes(Instant(o), Instant(o) + Duration,
                                  {x \in stood' : x.sty \in {Everyone, o.sty}})
    BY DEF OfferedWasOpen, Duration, Instant
  <2>1. /\ Instant(o) >= begun
        /\ ~Clashes(Instant(o), Instant(o) + Duration, {b \in standing : b.sty = o.sty})
        /\ ~Clashes(Instant(o), Instant(o) + Duration,
                    {x \in stood : x.sty \in {Everyone, o.sty}})
    BY DEF OfferedWasOpen, Answered200
  <2>2. QED
    BY <1>2, <2>1 DEF Clashes
<1>8. OfferCanBeBooked'
  BY <1>3 DEF OfferCanBeBooked, Answered200, CanBeBooked, Candidates, Duration
<1>9. QED
  BY <1>1, <1>4, <1>5, <1>6, <1>7, <1>8

\* A search that ends without a result has promised nothing.
LEMMA EndsWithNothing ==
  ASSUME SearchInv, phase # "idle", NEW code \in SearchCodes \ {"OK"},
         Respond(code, {}, NoOffer), UNCHANGED <<vars, query, searchHistory>>
  PROVE  SearchInv'
<1>1. SearchTypeOK'
  BY DEF SearchInv, SearchTypeOK, Respond, searchHistory
<1>2. phase' = "done" /\ answer'.code # "OK"
  BY DEF Respond
<1>3. Watched'
  BY DEF SearchInv, Watched, searchHistory, vars, Confirmed
<1>4. InContext' /\ HeardFits' /\ OfferCanBeBooked' /\ OfferedWasOpen'
  BY <1>2 DEF InContext, HeardFits, OfferCanBeBooked, OfferedWasOpen, Answered200
<1>5. QED
  BY <1>1, <1>3, <1>4 DEF SearchInv

LEMMA SearchStepKeeps ==
  ASSUME TypeOK, SearchInv, Begin \/ SearchContext \/ SearchBookings \/ SearchBlocks,
         UNCHANGED vars
  PROVE  SearchInv'
<1>0. /\ Confirmed \subseteq Doc /\ blocks \subseteq Block /\ now \in StartNow..MaxNow
      /\ now \in Nat
  BY ConfirmedTyped, RequestsAssumption DEF TypeOK
<1>1. CASE Begin
  <2>1. PICK q \in Queries : query' = q
    BY <1>1 DEF Begin
  <2>2. SearchTypeOK'
    BY <1>0, <1>1, <2>1 DEF Begin, SearchInv, SearchTypeOK
  <2>3. Watched'
    BY <1>0, <1>1, <2>1 DEF Begin, Watched, vars, Confirmed
  <2>4. InContext' /\ HeardFits' /\ OfferCanBeBooked' /\ OfferedWasOpen'
    BY <1>1 DEF Begin, InContext, HeardFits, OfferCanBeBooked, OfferedWasOpen, Answered200
  <2>5. QED
    BY <2>2, <2>3, <2>4 DEF SearchInv
<1>2. CASE SearchContext
  <2>1. CASE ContextOf(query) # "OK" /\ Respond(ContextOf(query), {}, NoOffer)
    <3>1. ContextOf(query) \in SearchCodes \ {"OK"}
      BY <2>1 DEF ContextOf, ServiceVerdict, ContextVerdict, SearchCodes
    <3>2. QED
      BY <1>2, <2>1, <3>1, EndsWithNothing DEF SearchContext
  <2>2. CASE /\ ContextOf(query) = "OK" /\ phase' = "read"
             /\ UNCHANGED <<heard, heardBlocks, answer>>
    <3>1. SearchTypeOK'
      BY <1>2, <2>2 DEF SearchContext, SearchInv, SearchTypeOK, searchHistory
    <3>2. Watched'
      BY <1>2, <2>2 DEF SearchContext, SearchInv, Watched, searchHistory, vars, Confirmed
    <3>3. InContext' /\ HeardFits' /\ OfferCanBeBooked' /\ OfferedWasOpen'
      BY <1>2, <2>2 DEF SearchContext, InContext, HeardFits, OfferCanBeBooked,
                        OfferedWasOpen, Answered200, ContextOf
    <3>4. QED
      BY <3>1, <3>2, <3>3 DEF SearchInv
  <2>3. QED
    BY <1>2, <2>1, <2>2 DEF SearchContext
<1>3. CASE SearchBookings
  <2>1. SearchTypeOK'
    BY <1>0, <1>3 DEF SearchBookings, SearchInv, SearchTypeOK, searchHistory
  <2>2. Watched'
    BY <1>3 DEF SearchBookings, SearchInv, Watched, searchHistory, vars, Confirmed
  <2>3. HeardFits'
    BY <1>3 DEF SearchBookings, SearchInv, Watched, HeardFits, searchHistory, vars, Confirmed
  <2>4. InContext' /\ OfferCanBeBooked' /\ OfferedWasOpen'
    BY <1>3 DEF SearchBookings, SearchInv, InContext, OfferCanBeBooked,
                OfferedWasOpen, Answered200, ContextOf
  <2>5. QED
    BY <2>1, <2>2, <2>3, <2>4 DEF SearchInv
<1>4. CASE SearchBlocks
  <2>1. SearchTypeOK'
    BY <1>0, <1>4 DEF SearchBlocks, SearchInv, SearchTypeOK, searchHistory
  <2>2. Watched'
    BY <1>4 DEF SearchBlocks, SearchInv, Watched, searchHistory, vars, Confirmed
  <2>3. HeardFits'
    BY <1>4 DEF SearchBlocks, SearchInv, Watched, HeardFits, searchHistory, vars, Confirmed
  <2>4. InContext' /\ OfferCanBeBooked' /\ OfferedWasOpen'
    BY <1>4 DEF SearchBlocks, SearchInv, InContext, OfferCanBeBooked,
                OfferedWasOpen, Answered200, ContextOf
  <2>5. QED
    BY <2>1, <2>2, <2>3, <2>4 DEF SearchInv
<1>5. QED
  BY <1>1, <1>2, <1>3, <1>4

\* An answer made of open slots and an open counter-offer keeps the promises.
LEMMA AnswerKeeps ==
  ASSUME TypeOK, SearchInv, phase = "compute", UNCHANGED <<vars, query, searchHistory>>,
         NEW slots \in SUBSET OpenSlots(Dates), NEW next \in {NoOffer} \cup CounterOffers,
         Respond("OK", slots, next)
  PROVE  SearchInv'
<1>1. /\ query \in Queries /\ ContextOf(query) = "OK" /\ now \in Nat /\ SearchTypeOK
      /\ standing \subseteq heard /\ stood \subseteq heardBlocks
      /\ begun \in Nat /\ begun <= now
      /\ undisturbed => heard = Confirmed /\ heardBlocks = blocks
  BY RequestsAssumption DEF SearchInv, Watched, InContext, HeardFits, TypeOK, SearchTypeOK
<1>2. Dates \subseteq Nat
  <2>1. CASE Dates = {}
    BY <2>1
  <2>2. CASE Dates # {}
    BY <1>1, <2>2, LastOfDates
  <2>3. QED
    BY <2>1, <2>2
<1>3. ASSUME NEW o \in slots
      PROVE  /\ o \in Slot /\ o.sty \in Candidates /\ Instant(o) >= begun
             /\ ~Clashes(Instant(o), Instant(o) + Duration, OfStylist(o.sty, heard))
             /\ ~Clashes(Instant(o), Instant(o) + Duration, BlocksOf(o.sty, heardBlocks))
             /\ SlotVerdict(o.sty, Duration, o.date, Clock(o.start),
                            heard, heardBlocks, now) = "OK"
  <2>1. o \in OpenSlots(Dates)
    OBVIOUS
  <2>2. Instant(o) \in Nat /\ Instant(o) >= now
    BY <1>1, <1>2, <2>1, OpenSlotFacts
  <2>3. QED
    BY <1>1, <1>2, <2>1, <2>2, OpenSlotFacts
<1>4. ASSUME next # NoOffer
      PROVE  /\ next \in [date: Nat, start: Nat]
             /\ \E s \in Candidates :
                   SlotVerdict(s, Duration, next.date, Clock(next.start),
                               heard, heardBlocks, now) = "OK"
  <2>1. PICK dates \in SUBSET Nat :
          \E o \in OpenSlots(dates) : next = [date |-> o.date, start |-> o.start]
    BY <1>1, <1>4, CounterOfferIsOpen
  <2>2. PICK o \in OpenSlots(dates) : next = [date |-> o.date, start |-> o.start]
    BY <2>1
  <2>3. /\ o \in Slot /\ o.sty \in Candidates
        /\ SlotVerdict(o.sty, Duration, o.date, Clock(o.start),
                       heard, heardBlocks, now) = "OK"
    BY <1>1, <2>2, OpenSlotFacts
  <2>4. next.date = o.date /\ next.start = o.start
    BY <2>2
  <2>5. QED
    BY <2>2, <2>3, <2>4 DEF Slot
<1>5. /\ phase' = "done" /\ answer' = [code |-> "OK", slots |-> slots, next |-> next]
      /\ heard' = {} /\ heardBlocks' = {}
  BY DEF Respond
<1>6. SearchTypeOK'
  BY <1>1, <1>3, <1>4, <1>5 DEF SearchTypeOK, SearchCodes, searchHistory
<1>7. Watched' /\ InContext' /\ HeardFits'
  BY <1>1, <1>5 DEF SearchInv, Watched, InContext, HeardFits, ContextOf,
                    searchHistory, vars, Confirmed
<1>8. OfferedWasOpen'
  <2> SUFFICES ASSUME NEW o \in slots
               PROVE  /\ Instant(o) >= begun
                      /\ ~Clashes(Instant(o), Instant(o) + Duration,
                                  {b \in standing : b.sty = o.sty})
                      /\ ~Clashes(Instant(o), Instant(o) + Duration,
                                  {x \in stood : x.sty \in {Everyone, o.sty}})
    BY <1>5 DEF OfferedWasOpen, Duration, Instant, searchHistory
  <2>1. QED
    BY <1>1, <1>3 DEF Clashes, OfStylist, BlocksOf
<1>9. OfferCanBeBooked'
  <2> SUFFICES ASSUME undisturbed
               PROVE  /\ \A o \in slots : CanBeBooked(o.sty, o.date, o.start)
                      /\ next # NoOffer =>
                            \E s \in Candidates : CanBeBooked(s, next.date, next.start)
    BY <1>5 DEF OfferCanBeBooked, CanBeBooked, Candidates, Duration, Confirmed,
                searchHistory, vars
  <2>1. QED
    BY <1>1, <1>3, <1>4, CandidatesQualify DEF CanBeBooked
<1>10. QED
  BY <1>6, <1>7, <1>8, <1>9 DEF SearchInv

LEMMA ComputeKeeps ==
  ASSUME TypeOK, SearchInv, ComputeSlots, UNCHANGED vars
  PROVE  SearchInv'
<1>1. CASE Respond("VALIDATION_ERROR", {}, NoOffer)
  BY <1>1, EndsWithNothing DEF ComputeSlots, SearchCodes
<1>2. CASE Respond("OK", Found, NoOffer)
  BY <1>2, FoundIsOpen, AnswerKeeps DEF ComputeSlots
<1>3. CASE Respond("OK", {}, NoOffer)
  BY <1>3, AnswerKeeps DEF ComputeSlots
<1>4. CASE \E next \in CounterOffers : Respond("OK", {}, next)
  BY <1>4, AnswerKeeps DEF ComputeSlots
<1>5. QED
  BY <1>1, <1>2, <1>3, <1>4 DEF ComputeSlots

LEMMA SearchGoesOn ==
  TypeOK /\ TypeOK' /\ SearchInv /\ [SearchNext]_allVars => SearchInv'
<1> SUFFICES ASSUME TypeOK, TypeOK', SearchInv, [SearchNext]_allVars PROVE SearchInv'
  OBVIOUS
<1>1. CASE Next /\ Watch /\ UNCHANGED searchLocals
  BY <1>1, BookingStep
<1>2. CASE SearchFails /\ UNCHANGED vars
  BY <1>2, EndsWithNothing DEF SearchFails, SearchCodes
<1>3. CASE SearchStep /\ ~SearchFails /\ UNCHANGED vars
  BY <1>3, SearchStepKeeps, ComputeKeeps DEF SearchStep
<1>4. CASE UNCHANGED allVars
  <2>1. UNCHANGED <<vars, searchLocals, searchHistory>>
    BY <1>4 DEF allVars
  <2>2. SearchTypeOK' /\ HeardFits' /\ Watched' /\ InContext'
    BY <2>1 DEF SearchInv, SearchTypeOK, Watched, InContext, HeardFits, Answered200,
                ContextOf, Confirmed, vars, searchLocals, searchHistory
  <2>3. OfferCanBeBooked' /\ OfferedWasOpen'
    BY <2>1 DEF SearchInv, OfferCanBeBooked, OfferedWasOpen, Answered200, CanBeBooked,
                Candidates, Duration, Confirmed, Instant, vars, searchLocals, searchHistory
  <2>4. QED
    BY <2>2, <2>3 DEF SearchInv
<1>5. QED
  BY <1>1, <1>2, <1>3, <1>4 DEF SearchNext

\* The booking endpoints do beside a search what they do without one.
LEMMA SearchesChangeNothing == SearchSpec => Spec
<1>1. SearchInit => Init
  BY DEF SearchInit
<1>2. [SearchNext]_allVars => [Next]_vars
  BY DEF SearchNext, allVars
<1>3. QED
  BY <1>1, <1>2, PTL DEF SearchSpec, Spec

LEMMA AlwaysSearchInv == SearchSpec => []SearchInv
<1>1. SearchSpec => []TypeOK
  BY SearchesChangeNothing, TypeCorrect, PTL
<1>2. QED
  BY <1>1, SearchBegins, SearchGoesOn, PTL DEF SearchSpec

\* The locals and the response of a search keep their types while the booking
\* endpoints change what it reads.
THEOREM SearchTyped == SearchSpec => []SearchTypeOK
<1>1. SearchInv => SearchTypeOK
  BY DEF SearchInv
<1>2. QED
  BY <1>1, AlwaysSearchInv, PTL

\* Two pieces of code, the search and the check before a booking is written,
\* agree: in a quiet salon everything a search offers can be booked.
THEOREM OffersHold == SearchSpec => []OfferCanBeBooked
<1>1. SearchInv => OfferCanBeBooked
  BY DEF SearchInv
<1>2. QED
  BY <1>1, AlwaysSearchInv, PTL

\* In a busy salon, where the two reads of a search see different moments, it
\* still offers nothing that was taken when it began and is taken still.
THEOREM OffersWereOpen == SearchSpec => []OfferedWasOpen
<1>1. SearchInv => OfferedWasOpen
  BY DEF SearchInv
<1>2. QED
  BY <1>1, AlwaysSearchInv, PTL

-----------------------------------------------------------------------------
(* The first of the slots                                                  *)

\* Of naturals there is a least: what stands in for an induction.
LEMMA LeastNatural ==
  ASSUME NEW S \in SUBSET Nat, S # {}
  PROVE  \E m \in S : \A k \in S : m <= k
<1>1. PICK m \in S : \A k \in S : <<k, m>> \notin OpToRel(<, Nat)
  BY WFMin, NatLessThanWellFounded
<1>2. \A k \in S : ~(k < m)
  BY <1>1 DEF OpToRel
<1>3. \A k \in S : m <= k
  BY <1>2
<1>4. QED
  BY <1>3

\* Of slots there is an earliest, and of slots before some instant a latest.
LEMMA EarliestSlot ==
  ASSUME NEW S, S # {}, \A x \in S : Instant(x) \in Nat
  PROVE  \E x \in S : \A y \in S : Instant(x) <= Instant(y)
<1> DEFINE T == {Instant(x) : x \in S}
<1>1. T \in SUBSET Nat /\ T # {}
  OBVIOUS
<1> HIDE DEF T
<1>2. PICK m \in T : \A k \in T : m <= k
  BY <1>1, LeastNatural
<1>3. QED
  BY <1>2 DEF T

LEMMA LatestSlot ==
  ASSUME NEW S, S # {}, NEW l \in Nat, \A x \in S : Instant(x) \in Nat /\ Instant(x) < l
  PROVE  \E x \in S : \A y \in S : Instant(y) <= Instant(x)
<1> DEFINE T == {l - Instant(x) : x \in S}
<1>1. T \in SUBSET Nat /\ T # {}
  OBVIOUS
<1> HIDE DEF T
<1>2. PICK m \in T : \A k \in T : m <= k
  BY <1>1, LeastNatural
<1>3. PICK x \in S : m = l - Instant(x)
  BY <1>2 DEF T
<1>4. \A y \in S : l - Instant(x) <= l - Instant(y)
  BY <1>2, <1>3 DEF T
<1>5. ASSUME NEW y \in S PROVE Instant(y) <= Instant(x)
  <2>1. Instant(x) \in Nat /\ Instant(y) \in Nat
    OBVIOUS
  <2>2. QED
    BY <1>4, <2>1
<1>6. QED
  BY <1>5

SlotsBefore(S, x) == {p \in S : Instant(p) < Instant(x)}

\* The first n of slots with different starts: what is left out comes after n
\* others.
LEMMA FirstOfSlots ==
  ASSUME NEW S, IsFiniteSet(S), NEW n \in Nat,
         \A x \in S : Instant(x) \in Nat,
         \A x, y \in S : Instant(x) = Instant(y) => x = y,
         NEW o \in S, o \notin First(n, S)
  PROVE  /\ Cardinality(First(n, S)) = n
         /\ \A q \in First(n, S) : Instant(q) < Instant(o)
<1> DEFINE F == First(n, S)
           Late == S \ F
<1>0. F \subseteq S /\ \A x \in S : x \in F <=> Cardinality(SlotsBefore(S, x)) < n
  BY DEF First, SlotsBefore
<1> HIDE DEF F
<1>1. PICK l \in Late : \A x \in Late : Instant(l) <= Instant(x)
  <2>1. o \in Late
    BY DEF F
  <2>2. QED
    BY <2>1, EarliestSlot
<1>2. \A x \in S : /\ IsFiniteSet(SlotsBefore(S, x))
                   /\ Cardinality(SlotsBefore(S, x)) \in Nat
  BY FS_Subset, FS_CardinalityType DEF SlotsBefore
<1>3. ASSUME NEW q \in F PROVE Instant(q) < Instant(l)
  <2>1. SUFFICES ASSUME Instant(l) <= Instant(q) PROVE FALSE
    BY <1>0
  <2>2. SlotsBefore(S, l) \subseteq SlotsBefore(S, q)
    BY <1>0, <2>1 DEF SlotsBefore
  <2>3. Cardinality(SlotsBefore(S, l)) <= Cardinality(SlotsBefore(S, q))
    BY <1>0, <1>2, <2>2, FS_Subset
  <2>4. QED
    BY <1>0, <1>2, <2>3
<1>4. F = SlotsBefore(S, l)
  BY <1>0, <1>1, <1>3 DEF SlotsBefore
<1>5. Cardinality(F) \in Nat /\ Cardinality(F) >= n
  BY <1>0, <1>2, <1>4
<1>6. Cardinality(F) <= n
  <2>1. CASE F = {}
    BY <2>1, FS_EmptySet
  <2>2. CASE F # {}
    <3>1. \A x \in F : Instant(x) \in Nat /\ Instant(x) < Instant(l)
      BY <1>0, <1>3
    <3>2. PICK q \in F : \A x \in F : Instant(x) <= Instant(q)
      BY <1>1, <2>2, <3>1, LatestSlot
    <3> DEFINE B == SlotsBefore(S, q)
    <3>3. F \subseteq B \cup {q}
      BY <1>0, <3>1, <3>2 DEF SlotsBefore
    <3> HIDE DEF B
    <3>4. IsFiniteSet(B) /\ Cardinality(B) \in Nat /\ Cardinality(B) < n
      BY <1>0, <1>2 DEF B
    <3>5. /\ IsFiniteSet(B \cup {q})
          /\ Cardinality(B \cup {q}) \in {Cardinality(B), Cardinality(B) + 1}
      BY <3>4, FS_AddElement
    <3>6. Cardinality(F) <= Cardinality(B \cup {q})
      BY <3>3, <3>5, FS_Subset
    <3>7. Cardinality(B \cup {q}) \in Nat
      BY <3>5, FS_CardinalityType
    <3>8. QED
      BY <1>5, <3>4, <3>5, <3>6, <3>7
  <2>3. QED
    BY <2>1, <2>2
<1>7. Instant(l) <= Instant(o)
  BY <1>1 DEF F
<1>8. QED
  BY <1>0, <1>1, <1>3, <1>5, <1>6, <1>7 DEF F

-----------------------------------------------------------------------------
(* What a search finds is all there is                                     *)

\* Instants are in the order of their dates, and within a date of their starts.
LEMMA DatesAreOrdered ==
  ASSUME NEW a \in Nat, NEW b \in Nat, NEW t \in Nat, NEW u \in Nat, t < DayLen, a < b
  PROVE  At(a, t) < At(b, u)
<1>1. DayLen \in Nat
  BY DayLenType
<1> DEFINE k == b - a - 1
<1>2. k \in Nat /\ b = a + 1 + k
  OBVIOUS
<1> HIDE DEF k
<1>3. b * DayLen = a * DayLen + DayLen + k * DayLen /\ k * DayLen >= 0 /\ a * DayLen \in Nat
  BY <1>1, <1>2
<1>4. QED
  BY <1>1, <1>3 DEF At

\* Two starts at the same instant are the same start of the same date.
LEMMA InstantTellsSlot ==
  ASSUME NEW a \in Nat, NEW b \in Nat, NEW t \in Nat, NEW u \in Nat, t < DayLen, u < DayLen,
         At(a, t) = At(b, u)
  PROVE  a = b /\ t = u
<1>1. At(a, t) \in Nat
  BY DayLenType DEF At
<1>2. a = b
  <2>1. CASE a < b
    BY <1>1, <2>1, DatesAreOrdered
  <2>2. CASE b < a
    BY <1>1, <2>2, DatesAreOrdered
  <2>3. QED
    BY <2>1, <2>2
<1>3. t = u
  BY <1>2, DayLenType DEF At
<1>4. QED
  BY <1>2, <1>3

\* The search and the check before a booking agree the other way round too: on
\* the stylist's grid what assertSlotIsValid lets through is an open slot.
LEMMA AcceptedIsOffered ==
  ASSUME query \in Queries, ContextOf(query) = "OK", NEW s \in Candidates, NEW d \in Nat,
         NEW t \in Grid(s, Duration, d),
         SlotVerdict(s, Duration, d, Clock(t), heard, heardBlocks, now) = "OK"
  PROVE  /\ t \in SlotsForStylistDate(s, Duration, d, OfStylist(s, heard),
                                      BlocksOf(s, heardBlocks), now)
         /\ t \in Nat /\ t < DayLen
<1>1. s \in Stylists /\ Duration \in Nat /\ Duration > 0
  BY CandidatesQualify
<1>2. t \in Nat /\ t < DayLen
  <2>1. /\ t \in Nat /\ t + Duration <= EffectiveHours(s, d).closeTime
    BY <1>1, GridType
  <2>2. /\ EffectiveHours(s, d).closeTime \in Nat
        /\ EffectiveHours(s, d).closeTime <= DayLen
    BY <1>1, HoursType DEF DayHours
  <2>3. QED
    BY <1>1, <2>1, <2>2, DayLenType
<1>3. StartOf(d, Clock(t)) = At(d, t) /\ EndOf(d, Clock(t), Duration) = At(d, t + Duration)
  BY <1>2, ClockReadsBack DEF StartOf, LocalToUtc, EndOf
<1>4. /\ ~Before(At(d, t), now)
      /\ ~SlotClash(s, At(d, t), At(d, t + Duration), heard, heardBlocks)
  BY <1>3 DEF SlotVerdict
<1>5. QED
  BY <1>2, <1>4 DEF SlotClash, SlotsForStylistDate

\* What every search at its computation may use.
Computing ==
  /\ TypeOK /\ SearchTypeOK /\ query \in Queries /\ ContextOf(query) = "OK"

LEMMA OpenSlotsAreFinite ==
  ASSUME Computing, NEW dates \in SUBSET Nat, IsFiniteSet(dates)
  PROVE  IsFiniteSet(OpenSlots(dates))
<1> DEFINE S == OpenSlots(dates)
           T == dates \X ((0 .. DayLen) \X Stylists)
           f == [o \in S |-> <<o.date, <<o.start, o.sty>>>>]
<1>1. ASSUME NEW o \in S
      PROVE  o \in Slot /\ o.date \in dates /\ o.start \in 0 .. DayLen /\ o.sty \in Stylists
  <2>1. o \in Slot /\ o.date \in dates /\ o.start < DayLen
    BY OpenSlotFacts DEF Computing
  <2>2. QED
    BY <2>1, DayLenType, CatalogueAssumption DEF Slot
<1>2. IsFiniteSet(T)
  <2>1. IsFiniteSet(0 .. DayLen)
    BY DayLenType, FS_Interval
  <2>2. IsFiniteSet((0 .. DayLen) \X Stylists)
    BY <2>1, FS_Product, ListingAssumption
  <2>3. QED
    BY <2>2, FS_Product
<1> HIDE DEF S
<1>3. f \in [S -> T]
  BY <1>1
<1>4. ASSUME NEW o \in S, NEW p \in S, f[o] = f[p] PROVE o = p
  <2>1. o.date = p.date /\ o.start = p.start /\ o.sty = p.sty
    BY <1>4
  <2>2. o \in Slot /\ p \in Slot
    BY <1>1
  <2>3. QED
    BY <2>1, <2>2 DEF Slot
<1> HIDE DEF f, T
<1>5. f \in Injection(S, T)
  BY <1>3, <1>4 DEF Injection, IsInjective
<1>6. IsFiniteSet(S)
  BY <1>2, <1>5, FS_Injection
<1>7. QED
  BY <1>6 DEF S

\* One slot for each start is left of those that are open.
LEMMA DedupedStarts ==
  ASSUME Computing, NEW dates \in SUBSET Nat, NEW S \in SUBSET OpenSlots(dates)
  PROVE  /\ \A x, y \in Deduped(S) : Instant(x) = Instant(y) => x = y
         /\ \A p \in S : \E o \in Deduped(S) : Instant(o) = Instant(p)
<1>1. ASSUME NEW o \in S
      PROVE  o \in Slot /\ o.start < DayLen /\ o.sty \in Stylists /\ Rank[o.sty] \in Nat
  <2>1. o \in Slot /\ o.start < DayLen
    BY OpenSlotFacts DEF Computing
  <2>2. o.sty \in Stylists
    BY <2>1, CatalogueAssumption DEF Slot
  <2>3. QED
    BY <2>1, <2>2, QueriesAssumption
<1>2. ASSUME NEW x \in Deduped(S), NEW y \in Deduped(S), Instant(x) = Instant(y)
      PROVE  x = y
  <2>1. x \in S /\ y \in S /\ Rank[x.sty] <= Rank[y.sty] /\ Rank[y.sty] <= Rank[x.sty]
    BY <1>2 DEF Deduped
  <2>2. x.sty = y.sty
    <3>1. Rank[x.sty] = Rank[y.sty]
      BY <1>1, <2>1
    <3>2. QED
      BY <1>1, <2>1, <3>1, QueriesAssumption
  <2>3. x.date = y.date /\ x.start = y.start
    BY <1>1, <1>2, <2>1, InstantTellsSlot DEF Instant, Slot
  <2>4. QED
    BY <1>1, <2>1, <2>2, <2>3 DEF Slot
<1>3. ASSUME NEW p \in S PROVE \E o \in Deduped(S) : Instant(o) = Instant(p)
  <2> DEFINE Same == {x \in S : Instant(x) = Instant(p)}
             T == {Rank[x.sty] : x \in Same}
  <2>1. T \in SUBSET Nat /\ T # {}
    BY <1>1
  <2> HIDE DEF T
  <2>2. PICK m \in T : \A k \in T : m <= k
    BY <2>1, LeastNatural
  <2>3. PICK o \in Same : m = Rank[o.sty]
    BY <2>2 DEF T
  <2>4. \A x \in Same : Rank[o.sty] <= Rank[x.sty]
    BY <2>2, <2>3 DEF T
  <2>5. QED
    BY <2>4 DEF Deduped
<1>4. QED
  BY <1>2, <1>3

LEMMA IsOpenSlot ==
  ASSUME NEW dates, NEW d \in dates, NEW s \in Candidates,
         NEW t \in SlotsForStylistDate(s, Duration, d, OfStylist(s, heard),
                                       BlocksOf(s, heardBlocks), now)
  PROVE  [date |-> d, start |-> t, sty |-> s] \in OpenSlots(dates)
<1> DEFINE F(e, r) == SlotsForStylistDate(r, Duration, e, OfStylist(r, heard),
                                          BlocksOf(r, heardBlocks), now)
<1>1. t \in F(d, s)
  OBVIOUS
<1>2. OpenSlots(dates) = UNION {{[date |-> e, start |-> u, sty |-> r] : u \in F(e, r)} :
                                e \in dates, r \in Candidates}
  BY DEF OpenSlots
<1> HIDE DEF F
<1> DEFINE A == {[date |-> d, start |-> u, sty |-> s] : u \in F(d, s)}
           U == {{[date |-> e, start |-> u, sty |-> r] : u \in F(e, r)} :
                    e \in dates, r \in Candidates}
<1>3. [date |-> d, start |-> t, sty |-> s] \in A
  BY <1>1
<1>4. A \in U
  OBVIOUS
<1> HIDE DEF A
<1>5. OpenSlots(dates) = UNION U
  BY <1>2
<1> HIDE DEF U
<1>6. QED
  BY <1>3, <1>4, <1>5

LEMMA FoundIsAll ==
  ASSUME Computing, NEW s \in Candidates, NEW d \in Dates,
         NEW t \in SlotsForStylistDate(s, Duration, d, OfStylist(s, heard),
                                       BlocksOf(s, heardBlocks), now),
         query.part \in {AnyTime, PartOfDay(t)}
  PROVE  \/ \E o \in Found : Instant(o) = At(d, t)
         \/ Cardinality(Found) = query.limit /\ \A o \in Found : Instant(o) < At(d, t)
<1> DEFINE p == [date |-> d, start |-> t, sty |-> s]
           S == InPart(OpenSlots(Dates))
           D == Deduped(S)
<1>1. now \in Nat /\ query.limit \in Nat
  BY RequestsAssumption, QueryFields DEF Computing, TypeOK
<1>2. Dates \subseteq Nat /\ IsFiniteSet(Dates)
  BY <1>1, LastOfDates, FS_BoundedSetOfNaturals DEF Computing
<1>3. p \in S
  <2>1. p \in OpenSlots(Dates)
    BY IsOpenSlot
  <2>2. query.part \in {AnyTime, PartOfDay(p.start)}
    OBVIOUS
  <2>3. QED
    BY <2>1, <2>2 DEF InPart
<1>4. S \subseteq OpenSlots(Dates) /\ D \subseteq S
  BY DEF InPart, Deduped
<1>5. IsFiniteSet(D) /\ \A x \in D : Instant(x) \in Nat
  BY <1>2, <1>4, OpenSlotsAreFinite, FS_Subset, OpenSlotFacts DEF Computing
<1>6. Instant(p) = At(d, t)
  BY DEF Instant
<1>7. Found = First(query.limit, D)
  BY DEF Found
<1> HIDE DEF S, D, p
<1>8. /\ \A x, y \in D : Instant(x) = Instant(y) => x = y
      /\ \A x \in S : \E o \in D : Instant(o) = Instant(x)
  BY <1>2, <1>4, DedupedStarts DEF D
<1>9. PICK o \in D : Instant(o) = At(d, t)
  BY <1>3, <1>6, <1>8
<1>10. CASE o \in Found
  BY <1>9, <1>10
<1>11. CASE o \notin Found
  BY <1>1, <1>5, <1>7, <1>8, <1>9, <1>11, FirstOfSlots
<1>12. QED
  BY <1>10, <1>11

LEMMA CounterOffersAreFirst ==
  ASSUME Computing, Dates # {}, NEW s \in Candidates, NEW n \in 1 .. 30,
         NEW t \in SlotsForStylistDate(s, Duration, LastOf(Dates) + n, OfStylist(s, heard),
                                       BlocksOf(s, heardBlocks), now),
         t \in Nat
  PROVE  /\ CounterOffers # {}
         /\ \A next \in CounterOffers :
               next # NoOffer /\ Instant(next) <= At(LastOf(Dates) + n, t)
<1> DEFINE last == LastOf(Dates)
           d == last + n
           p == [date |-> d, start |-> t, sty |-> s]
           hits == {i \in Scans : OpenSlots(Chunk(last, i)) # {}}
<1>1. now \in Nat /\ last \in Nat
  BY RequestsAssumption, LastOfDates DEF Computing, TypeOK
<1> HIDE DEF last
<1>2. Scans \subseteq Nat /\ \A i \in Scans : Chunk(last, i) \subseteq Nat
  BY <1>1 DEF Scans, Chunk
<1>3. PICK i \in Scans : d \in Chunk(last, i)
  <2>1. 0 \in Scans /\ 14 \in Scans /\ 28 \in Scans
    BY DEF Scans
  <2>2. d \in Chunk(last, 0) \/ d \in Chunk(last, 14) \/ d \in Chunk(last, 28)
    BY <1>1 DEF Chunk
  <2>3. QED
    BY <2>1, <2>2
<1>4. p \in OpenSlots(Chunk(last, i))
  BY <1>3, IsOpenSlot DEF last
<1>5. Instant(p) = At(d, t) /\ d \in Nat
  BY <1>1 DEF Instant
<1> HIDE DEF p, d
<1>6. ASSUME NEW j \in Scans
      PROVE  /\ IsFiniteSet(OpenSlots(Chunk(last, j)))
             /\ \A o \in OpenSlots(Chunk(last, j)) :
                   /\ Instant(o) \in Nat /\ o.date \in Nat /\ o.start \in Nat
                   /\ o.date \in Chunk(last, j) /\ o.start < DayLen
  <2>1. IsFiniteSet(Chunk(last, j)) /\ Chunk(last, j) \subseteq Nat
    BY <1>1, <1>2, FS_Interval DEF Chunk, Scans
  <2>2. QED
    BY <2>1, OpenSlotsAreFinite, OpenSlotFacts DEF Computing, Slot
<1>7. ASSUME NEW j \in Scans, OpenSlots(Chunk(last, j)) # {}
      PROVE  /\ First(1, OpenSlots(Chunk(last, j))) # {}
             /\ \A o \in First(1, OpenSlots(Chunk(last, j))) :
                   /\ o \in OpenSlots(Chunk(last, j))
                   /\ \A q \in OpenSlots(Chunk(last, j)) : Instant(o) <= Instant(q)
  <2> DEFINE S == OpenSlots(Chunk(last, j))
  <2>1. S # {} /\ IsFiniteSet(S) /\ \A o \in S : Instant(o) \in Nat
    BY <1>6, <1>7
  <2> HIDE DEF S
  <2>2. PICK x \in S : \A y \in S : Instant(x) <= Instant(y)
    BY <2>1, EarliestSlot
  <2>3. {y \in S : Instant(y) < Instant(x)} = {}
    BY <2>1, <2>2
  <2>4. x \in First(1, S)
    BY <2>3, FS_EmptySet DEF First
  <2>5. ASSUME NEW o \in First(1, S), NEW q \in S PROVE Instant(o) <= Instant(q)
    <3> DEFINE B == {y \in S : Instant(y) < Instant(o)}
    <3>1. o \in S /\ Cardinality(B) < 1
      BY DEF First
    <3>2. IsFiniteSet(B) /\ Cardinality(B) \in Nat
      BY <2>1, FS_Subset, FS_CardinalityType
    <3> HIDE DEF B
    <3>3. B = {}
      BY <3>1, <3>2, FS_EmptySet
    <3>4. QED
      BY <2>1, <3>1, <3>3 DEF B
  <2>6. QED
    BY <2>4, <2>5 DEF First, S
<1>8. i \in hits /\ hits \subseteq Nat
  BY <1>2, <1>4
<1>9. PICK h \in hits : \A j \in hits : h <= j
  BY <1>8, LeastNatural
<1>10. FirstHit(last) = {h}
  <2>1. FirstHit(last) = {j \in hits : \A k \in hits : j <= k}
    BY DEF FirstHit
  <2>2. ASSUME NEW j \in hits, \A k \in hits : j <= k PROVE j = h
    BY <1>8, <1>9, <2>2
  <2>3. QED
    BY <1>9, <2>1, <2>2
<1>11. /\ h \in Scans /\ h \in Nat /\ i \in Nat /\ h <= i
       /\ OpenSlots(Chunk(last, h)) # {}
  BY <1>8, <1>9
<1>12. CounterOffers = {[date |-> o.date, start |-> o.start] :
                           o \in First(1, OpenSlots(Chunk(last, h)))}
  BY <1>10 DEF CounterOffers, NextAvailable, last
<1>13. ASSUME NEW o \in First(1, OpenSlots(Chunk(last, h)))
       PROVE  /\ o.date \in Nat /\ o.start \in Nat
              /\ At(o.date, o.start) <= At(d, t)
  <2>1. o \in OpenSlots(Chunk(last, h)) /\ Instant(o) = At(o.date, o.start)
    BY <1>7, <1>11 DEF Instant
  <2>2. /\ o.date \in Nat /\ o.start \in Nat /\ o.start < DayLen
        /\ o.date \in Chunk(last, h) /\ Instant(o) \in Nat
    BY <1>6, <1>11, <2>1
  <2>3. CASE h = i
    BY <1>4, <1>5, <1>7, <1>11, <2>1, <2>2, <2>3
  <2>4. CASE h # i
    <3>1. h + 14 <= i
      BY <1>11, <1>3, <2>4 DEF Scans
    <3>2. o.date < d
      BY <1>1, <1>3, <1>5, <1>11, <2>2, <3>1 DEF Chunk
    <3>3. At(o.date, o.start) < At(d, t)
      BY <1>5, <2>2, <3>2, DatesAreOrdered
    <3>4. At(d, t) \in Nat
      BY <1>5, DayLenType DEF At
    <3>5. QED
      BY <2>1, <2>2, <3>3, <3>4
  <2>5. QED
    BY <2>2, <2>3, <2>4
<1>14. First(1, OpenSlots(Chunk(last, h))) # {}
  BY <1>7, <1>11
<1>15. \A o \in First(1, OpenSlots(Chunk(last, h))) :
          /\ [date |-> o.date, start |-> o.start] # NoOffer
          /\ Instant([date |-> o.date, start |-> o.start]) <= At(d, t)
  BY <1>13 DEF NoOffer, NoDate, Instant
<1>16. QED
  BY <1>12, <1>14, <1>15 DEF d, last

-----------------------------------------------------------------------------
(* The steps, once more                                                    *)

LEMMA CompleteWhenComputed ==
  ASSUME TypeOK, SearchInv, ComputeSlots, UNCHANGED vars, Answered200', undisturbed'
  PROVE  NothingOpenIsMissed' /\ CounterOfferIsFirst'
<1>1. /\ Computing /\ undisturbed /\ heard = Confirmed /\ heardBlocks = blocks
      /\ UNCHANGED <<query, bookings, blocks, now>>
      /\ Confirmed' = Confirmed /\ now \in Nat
  BY RequestsAssumption DEF ComputeSlots, SearchInv, Watched, InContext, HeardFits, Computing,
     searchHistory, vars, Confirmed, TypeOK
<1>2. Dates \subseteq Nat
  <2>1. CASE Dates = {}
    BY <2>1
  <2>2. CASE Dates # {}
    BY <1>1, <2>2, LastOfDates DEF Computing
  <2>3. QED
    BY <2>1, <2>2
<1>3. /\ Dates' = Dates /\ Candidates' = Candidates /\ Duration' = Duration
      /\ query.limit' = query.limit
  BY <1>1 DEF Dates, Today, Candidates, Duration
<1>4. ASSUME NEW s \in Candidates, NEW d \in Nat, NEW t \in Bookable(s, d)'
      PROVE  /\ t \in SlotsForStylistDate(s, Duration, d, OfStylist(s, heard),
                                          BlocksOf(s, heardBlocks), now)
             /\ t \in Nat
  <2>1. t \in Grid(s, Duration, d)
    BY <1>3 DEF Bookable
  <2>2. SlotVerdict(s, Duration, d, Clock(t), heard, heardBlocks, now) = "OK"
    BY <1>1, <1>3 DEF Bookable, CanBeBooked
  <2>3. QED
    BY <1>1, <2>1, <2>2, AcceptedIsOffered DEF Computing
<1>5. \/ answer'.slots = Found /\ Found # {}
      \/ answer'.slots = {} /\ Found = {} /\ answer'.next \in CounterOffers
      \/ answer'.slots = {} /\ Found = {} /\ CounterOffers = {}
  BY DEF ComputeSlots, Respond, Answered200
<1>6. answer'.slots = Found
  BY <1>5
<1>7. NothingOpenIsMissed'
  <2>1. ASSUME NEW s \in Candidates, NEW d \in Dates, NEW t \in Bookable(s, d)',
               query.part \in {AnyTime, PartOfDay(t)}
        PROVE  \/ \E o \in Found : Instant(o) = At(d, t)
               \/ Cardinality(Found) = query.limit /\ \A o \in Found : Instant(o) < At(d, t)
    <3>1. t \in SlotsForStylistDate(s, Duration, d, OfStylist(s, heard),
                                    BlocksOf(s, heardBlocks), now)
      BY <1>2, <1>4
    <3>2. QED
      BY <1>1, <2>1, <3>1, FoundIsAll
  <2>2. QED
    BY <1>1, <1>3, <1>6, <2>1 DEF NothingOpenIsMissed, Instant
<1>8. CounterOfferIsFirst'
  <2>1. ASSUME answer'.slots = {}, Dates # {}, NEW s \in Candidates, NEW n \in 1 .. 30,
               NEW t \in Bookable(s, LastOf(Dates) + n)'
        PROVE  answer'.next # NoOffer /\ Instant(answer'.next) <= At(LastOf(Dates) + n, t)
    <3>1. LastOf(Dates) + n \in Nat
      BY <1>1, <2>1, LastOfDates DEF Computing
    <3> DEFINE d == LastOf(Dates) + n
    <3> HIDE DEF d
    <3>2. /\ d \in Nat /\ t \in Grid(s, Duration, d)
          /\ SlotVerdict(s, Duration, d, Clock(t), heard, heardBlocks, now) = "OK"
      BY <1>1, <1>3, <2>1, <3>1 DEF d, Bookable, CanBeBooked
    <3>3. /\ t \in SlotsForStylistDate(s, Duration, d, OfStylist(s, heard),
                                       BlocksOf(s, heardBlocks), now)
          /\ t \in Nat
      BY <1>1, <3>2, AcceptedIsOffered DEF Computing
    <3>4. /\ t \in SlotsForStylistDate(s, Duration, LastOf(Dates) + n, OfStylist(s, heard),
                                       BlocksOf(s, heardBlocks), now)
          /\ t \in Nat
      BY <3>3 DEF d
    <3>5. QED
      BY <1>1, <1>5, <1>6, <2>1, <3>4, CounterOffersAreFirst
  <2>2. QED
    BY <1>1, <1>3, <2>1 DEF CounterOfferIsFirst, Instant, LastOf
<1>9. QED
  BY <1>7, <1>8

Complete == NothingOpenIsMissed /\ CounterOfferIsFirst

LEMMA CompleteKeeps ==
  TypeOK /\ SearchInv /\ Complete /\ [SearchNext]_allVars => Complete'
<1> SUFFICES ASSUME TypeOK, SearchInv, Complete, [SearchNext]_allVars,
                    Answered200', undisturbed'
             PROVE  Complete'
  BY DEF Complete, NothingOpenIsMissed, CounterOfferIsFirst
<1>1. CASE (Next /\ Watch /\ UNCHANGED searchLocals) \/ UNCHANGED allVars
  <2>1. /\ undisturbed /\ UNCHANGED <<bookings, blocks, now, phase, query, answer>>
        /\ Confirmed' = Confirmed
    BY <1>1 DEF Watch, searchLocals, allVars, searchHistory, vars, Confirmed
  <2>2. /\ Dates' = Dates /\ Candidates' = Candidates /\ Duration' = Duration
        /\ \A s, d : Bookable(s, d)' = Bookable(s, d)
    BY <2>1 DEF Dates, Today, Candidates, Duration, Bookable, CanBeBooked
  <2>3. QED
    BY <2>1, <2>2 DEF Complete, NothingOpenIsMissed, CounterOfferIsFirst, Answered200, Instant,
       LastOf
<1>2. CASE SearchStep /\ UNCHANGED vars
  <2>1. CASE ComputeSlots
    BY <1>2, <2>1, CompleteWhenComputed DEF Complete
  <2>2. CASE Begin \/ SearchBookings \/ SearchBlocks
    BY <2>2 DEF Begin, SearchBookings, SearchBlocks, Answered200
  <2>3. CASE SearchContext \/ SearchFails
    BY <2>3 DEF SearchContext, SearchFails, Respond, Answered200
  <2>4. QED
    BY <1>2, <2>1, <2>2, <2>3 DEF SearchStep
<1>3. QED
  BY <1>1, <1>2 DEF SearchNext

LEMMA AlwaysComplete == SearchSpec => []Complete
<1>1. SearchSpec => []TypeOK
  BY SearchesChangeNothing, TypeCorrect, PTL
<1>2. SearchInit => Complete
  BY DEF SearchInit, Complete, NothingOpenIsMissed, CounterOfferIsFirst, Answered200
<1>3. QED
  BY <1>1, <1>2, AlwaysSearchInv, CompleteKeeps, PTL DEF SearchSpec

\* In a quiet salon the list of a search has no holes: every start that a create
\* would take is in it, or the list is full of earlier ones.
THEOREM NothingIsMissed == SearchSpec => []NothingOpenIsMissed
<1>1. Complete => NothingOpenIsMissed
  BY DEF Complete
<1>2. QED
  BY <1>1, AlwaysComplete, PTL

\* When nothing is open, the counter-offer is the first start a create would take
\* in the thirty days that follow, and there is one if any of them has any.
THEOREM CounterOffersComeFirst == SearchSpec => []CounterOfferIsFirst
<1>1. Complete => CounterOfferIsFirst
  BY DEF Complete
<1>2. QED
  BY <1>1, AlwaysComplete, PTL
=============================================================================
