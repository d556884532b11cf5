-------------------------- MODULE AvailabilitySearch --------------------------
(***************************************************************************)
(* GET /availability (services/availability.service.ts, getAvailability)   *)
(* beside the booking endpoints of BookingService: one search, in the      *)
(* steps between its awaits, while requests book, move, cancel and block.  *)
(* A search writes nothing, so searches do not meet, and one is enough.    *)
(*                                                                         *)
(* Of a slot the response keeps date, start and stylist; what else it says *)
(* follows from them.  The list is a set: it is sent in the order of the   *)
(* starts, and no two slots of it share one.                               *)
(***************************************************************************)
EXTENDS BookingService

CONSTANTS
    Queries,        \* what may be searched for
    AnyStylist,     \* no stylistId given
    AnyTime,        \* no partOfDay given
    Rank            \* stylist -> its place in the stylists listing

Parts == {"morning", "afternoon", "evening"}
NoDate == -1

ASSUME QueriesAssumption ==
    /\ AnyStylist \notin StylistIds /\ AnyTime \notin Parts
    /\ Queries \subseteq [svc: ServiceIds, sty: StylistIds \cup {AnyStylist},
                          date: Nat \cup {NoDate}, from: Nat \cup {NoDate},
                          to: Nat \cup {NoDate}, part: Parts \cup {AnyTime},
                          limit: 1..50]
    /\ Rank \in [Stylists -> Nat]
    /\ \A r, s \in Stylists : Rank[r] = Rank[s] => r = s

\* The stylists are one collection, read whole.
ASSUME ListingAssumption == IsFiniteSet(Stylists)

Slot == [date: Nat, start: Nat, sty: ActiveStylists]
NoOffer == [date |-> NoDate, start |-> 0]
NoQuery == [svc |-> "none"]

SearchCodes == {"none", "OK", "SERVICE_NOT_FOUND", "SERVICE_NOT_BOOKABLE",
                "STYLIST_NOT_FOUND", "STYLIST_SERVICE_MISMATCH",
                "VALIDATION_ERROR", "INTERNAL_ERROR"}

VARIABLES
    phase,          \* the await the search is at
    query,          \* what it was asked
    heard,          \* the confirmed bookings it read
    heardBlocks,    \* the blocks it read
    answer,         \* its response: code, slots, nextAvailable
    standing,       \* history: the bookings confirmed ever since it began
    stood,          \* history: the blocks in place when it began
    begun,          \* history: the hour it began
    undisturbed     \* history: nobody wrote and no time passed since it began

searchLocals == <<phase, query, heard, heardBlocks, answer>>
searchHistory == <<standing, stood, begun, undisturbed>>
allVars == <<vars, searchLocals, searchHistory>>

SearchTypeOK ==
    /\ phase \in {"idle", "context", "read", "needBlocks", "needBookings", "compute", "done"}
    /\ query \in Queries \cup {NoQuery}
    /\ heard \subseteq Doc
    /\ heardBlocks \subseteq Block
    /\ answer.code \in SearchCodes
    /\ answer.slots \subseteq Slot
    /\ answer.next \in [date: Nat, start: Nat] \cup {NoOffer}
    /\ standing \subseteq Doc
    /\ stood \subseteq Block
    /\ begun \in StartNow..MaxNow
    /\ undisturbed \in BOOLEAN

SearchInit ==
    /\ Init
    /\ phase = "idle" /\ query = NoQuery
    /\ heard = {} /\ heardBlocks = {}
    /\ answer = [code |-> "none", slots |-> {}, next |-> NoOffer]
    /\ standing = {} /\ stood = {} /\ begun = StartNow /\ undisturbed = FALSE

-----------------------------------------------------------------------------
(* computeSlots                                                            *)

\* A faulty Candidates: stylists who have left are searched too.
AllPerformers == {s \in Stylists : query.svc \in Performs[s] /\ query.sty \in {AnyStylist, s}}

\* The stylists resolveContext searches.
Candidates ==
    {s \in ActiveStylists : query.svc \in Performs[s] /\ query.sty \in {AnyStylist, s}}

Duration == DurationMinutes[query.svc]

PartOfDay(start) == IF start < 12 * Hour THEN "morning"
                    ELSE IF start < 17 * Hour THEN "afternoon" ELSE "evening"

\* Every open slot of a candidate on one of the dates, by what was read.
OpenSlots(dates) ==
    UNION {{[date |-> d, start |-> t, sty |-> s] :
                t \in SlotsForStylistDate(s, Duration, d, OfStylist(s, heard),
                                          BlocksOf(s, heardBlocks), now)} :
           d \in dates, s \in Candidates}

InPart(slots) == {o \in slots : query.part \in {AnyTime, PartOfDay(o.start)}}

Instant(o) == At(o.date, o.start)

\* One slot per start: the stylist listed first.
Deduped(slots) ==
    {o \in slots : \A p \in slots :
        Instant(p) = Instant(o) => Rank[o.sty] <= Rank[p.sty]}

First(n, slots) ==
    {o \in slots : Cardinality({p \in slots : Instant(p) < Instant(o)}) < n}

-----------------------------------------------------------------------------
(* getAvailability                                                         *)

Today == now \div DayLen

\* A date, else a range, else the end of one that is given, else a week from
\* today.  A range may be empty.
Dates ==
    IF query.date # NoDate THEN {query.date}
    ELSE IF query.from # NoDate /\ query.to # NoDate THEN query.from .. query.to
    ELSE IF query.from # NoDate THEN {query.from}
    ELSE IF query.to # NoDate THEN {query.to}
    ELSE Today .. (Today + 6)

\* A faulty Found: the list is cut before stylists with the same start are merged.
CutThenMerged == Deduped(First(query.limit, InPart(OpenSlots(Dates))))

Found == First(query.limit, Deduped(InPart(OpenSlots(Dates))))

\* A faulty Chunk: it ends a day early.
ShortChunk(last, i) == (last + 1 + i) .. (last + 13 + i)

\* The counter-offer looks at two weeks at a time, from i days after the day
\* that follows the last one asked for.
Chunk(last, i) == (last + 1 + i) .. (last + 14 + i)

Scans == {i \in 0..29 : i % 14 = 0}

LastOf(dates) == CHOOSE d \in dates : \A e \in dates : e <= d

\* The first two weeks, if any, that have an open slot, at any time of day.
FirstHit(last) ==
    LET hits == {i \in Scans : OpenSlots(Chunk(last, i)) # {}}
    IN {i \in hits : \A j \in hits : i <= j}

\* The first open slot there.  Its stylist is not told, so two stylists free
\* at that start make one offer.
NextAvailable(last) ==
    UNION {{[date |-> o.date, start |-> o.start] :
                o \in First(1, OpenSlots(Chunk(last, i)))} : i \in FirstHit(last)}

Respond(code, slots, next) ==
    /\ phase' = "done"
    /\ answer' = [code |-> code, slots |-> slots, next |-> next]
    /\ heard' = {} /\ heardBlocks' = {}

\* From here on the history follows the search.
Begin ==
    /\ phase = "idle"
    /\ \E q \in Queries : query' = q
    /\ phase' = "context"
    /\ standing' = Confirmed /\ stood' = blocks /\ begun' = now /\ undisturbed' = TRUE
    /\ UNCHANGED <<heard, heardBlocks, answer>>

ContextOf(q) == IF q.sty = AnyStylist THEN ServiceVerdict(q.svc)
                ELSE ContextVerdict(q.svc, q.sty)

SearchContext ==
    /\ phase = "context"
    /\ \/ /\ ContextOf(query) # "OK"
          /\ Respond(ContextOf(query), {}, NoOffer)
       \/ /\ ContextOf(query) = "OK"
          /\ phase' = "read"
          /\ UNCHANGED <<heard, heardBlocks, answer>>
    /\ UNCHANGED <<query, searchHistory>>

\* fetchBookingsAndBlocks: two queries at once, answered in either order.
SearchBookings ==
    /\ phase \in {"read", "needBookings"}
    /\ heard' = Confirmed
    /\ phase' = IF phase = "read" THEN "needBlocks" ELSE "compute"
    /\ UNCHANGED <<query, heardBlocks, answer, searchHistory>>

SearchBlocks ==
    /\ phase \in {"read", "needBlocks"}
    /\ heardBlocks' = blocks
    /\ phase' = IF phase = "read" THEN "needBookings" ELSE "compute"
    /\ UNCHANGED <<query, heard, answer, searchHistory>>

\* A range that ends before it starts has no last date to go on from.
CounterOffers == IF Dates = {} THEN {} ELSE NextAvailable(LastOf(Dates))

ComputeSlots ==
    /\ phase = "compute"
    /\ \/ /\ Cardinality(Dates) > 14
          /\ Respond("VALIDATION_ERROR", {}, NoOffer)
       \/ /\ Cardinality(Dates) <= 14 /\ Found # {}
          /\ Respond("OK", Found, NoOffer)
       \/ /\ Cardinality(Dates) <= 14 /\ Found = {} /\ CounterOffers = {}
          /\ Respond("OK", {}, NoOffer)
       \/ /\ Cardinality(Dates) <= 14 /\ Found = {}
          /\ \E next \in CounterOffers : Respond("OK", {}, next)
    /\ UNCHANGED <<query, searchHistory>>

\* A failed read is answered with a 500.
SearchFails ==
    /\ phase \in {"context", "read", "needBlocks", "needBookings"}
    /\ Respond("INTERNAL_ERROR", {}, NoOffer)
    /\ UNCHANGED <<query, searchHistory>>

\* The history follows what the booking endpoints do.
Watch ==
    /\ standing' = standing \cap Confirmed'
    /\ undisturbed' = (undisturbed /\ UNCHANGED <<bookings, blocks, now>>)
    /\ UNCHANGED <<stood, begun>>

SearchStep == Begin \/ SearchContext \/ SearchBookings \/ SearchBlocks
              \/ ComputeSlots \/ SearchFails

SearchNext == \/ Next /\ Watch /\ UNCHANGED searchLocals
              \/ SearchStep /\ UNCHANGED vars

SearchSpec == SearchInit /\ [][SearchNext]_allVars

-----------------------------------------------------------------------------
(* What a search promises                                                  *)

Answered200 == phase = "done" /\ answer.code = "OK"
Clock(start) == [h |-> start \div Hour, m |-> start % Hour]

\* assertSlotIsValid and resolveContext would take a create of this slot now.
CanBeBooked(sty, date, start) ==
    /\ ContextVerdict(query.svc, sty) = "OK"
    /\ SlotVerdict(sty, Duration, date, Clock(start), Confirmed, blocks, now) = "OK"

\* As long as nobody has written and no time has passed since the search
\* began, every slot it offers can be booked, and the counter-offer with some
\* stylist: the agent never offers what a create would refuse.
OfferCanBeBooked ==
    Answered200 /\ undisturbed =>
        /\ \A o \in answer.slots : CanBeBooked(o.sty, o.date, o.start)
        /\ answer.next # NoOffer =>
              \E s \in Candidates : CanBeBooked(s, answer.next.date, answer.next.start)

\* Whatever goes on during and after the search, an offered slot is never one
\* that was past, blocked or booked when the search began and is booked still.
OfferedWasOpen ==
    Answered200 => \A o \in answer.slots :
        LET Free(busy) == ~Clashes(Instant(o), Instant(o) + Duration, busy) IN
        /\ Instant(o) >= begun
        /\ Free({b \in standing : b.sty = o.sty})
        /\ Free({x \in stood : x.sty \in {Everyone, o.sty}})

\* What could be booked with s on the stylist's grid.
Bookable(s, d) == {t \in Grid(s, Duration, d) : CanBeBooked(s, d, t)}

\* The list has no holes: what a caller could book in the days and the part of
\* day asked for is in the list, with some stylist, or the list is full of
\* earlier starts.
NothingOpenIsMissed ==
    Answered200 /\ undisturbed =>
        \A s \in Candidates, d \in Dates : \A t \in Bookable(s, d) :
            query.part \in {AnyTime, PartOfDay(t)} =>
                \/ \E o \in answer.slots : Instant(o) = At(d, t)
                \/ /\ Cardinality(answer.slots) = query.limit
                   /\ \A o \in answer.slots : Instant(o) < At(d, t)

\* When nothing is open, the counter-offer is the first start that could be
\* booked in the thirty days after the last one asked for, and there is one
\* if any of them has any.
CounterOfferIsFirst ==
    Answered200 /\ undisturbed /\ answer.slots = {} /\ Dates # {} =>
        \A s \in Candidates : \A n \in 1..30 :
            LET d == LastOf(Dates) + n IN
            \A t \in Bookable(s, d) :
                answer.next # NoOffer /\ Instant(answer.next) <= At(d, t)
=============================================================================
