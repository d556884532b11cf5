------------------------------ MODULE SlotEngine ------------------------------
(***************************************************************************)
(* The pure slot arithmetic of the salon: which starts a stylist can offer *)
(* (availability.service.ts, slotsForStylistDate) and which starts a       *)
(* booking is accepted at (booking.service.ts, assertSlotIsValid).         *)
(*                                                                         *)
(* Time.  A date is a day number and an instant a natural number of ticks, *)
(* Hour ticks to the hour, counted in the tenant's own timezone: the       *)
(* salon's zone (Asia/Kolkata) has a fixed offset, so converting local     *)
(* time to UTC shifts every instant by the same amount.  Clock changes of  *)
(* other zones are not modelled.  An ISO string luxon cannot parse becomes *)
(* null, then NaN: the instant Invalid, against which no comparison holds. *)
(***************************************************************************)
EXTENDS Integers, FiniteSets

CONSTANTS
    Hour,               \* ticks in an hour
    ServiceIds,         \* the service ids a request may name
    StylistIds,         \* the stylist ids a request may name
    Services,           \* the service documents that exist
    Stylists,           \* the stylist documents that exist
    ActiveStylists,     \* the stylists whose `active` is true
    Performs,           \* stylist -> the services in its serviceIds
    BookableByPhone,    \* the services a caller may book
    DurationMinutes,    \* service -> its length in ticks, 0 for null
    CompanyHours,       \* weekday -> opening hours of the business
    HoursOverride,      \* stylist -> its own hours, for the weekdays it has any
    SlotStep,           \* slotStepMinutes, in ticks
    Everyone            \* the null stylistId of a block: the whole business

Weekdays == 0..6
DayHours == [isOpen: BOOLEAN, openTime: Nat, closeTime: Nat]
DayLen == 24 * Hour

ASSUME HourAssumption == Hour \in Nat \ {0} /\ SlotStep \in Nat \ {0}
ASSUME CatalogueAssumption ==
    /\ Services \subseteq ServiceIds
    /\ Stylists \subseteq StylistIds
    /\ ActiveStylists \subseteq Stylists
    /\ BookableByPhone \subseteq Services
    /\ Performs \in [Stylists -> SUBSET Services]
    /\ DurationMinutes \in [Services -> Nat]
    /\ Everyone \notin StylistIds
ASSUME HoursAssumption ==
    /\ CompanyHours \in [Weekdays -> DayHours]
    /\ \A s \in Stylists :
          \E D \in SUBSET Weekdays : HoursOverride[s] \in [D -> DayHours]
    /\ \A d \in Weekdays : CompanyHours[d].closeTime <= DayLen
    /\ \A s \in Stylists, d \in Weekdays :
          d \in DOMAIN HoursOverride[s] => HoursOverride[s][d].closeTime <= DayLen

-----------------------------------------------------------------------------
(* Clock arithmetic: lib/time.ts                                           *)

Invalid == -1
Instants == Nat \cup {Invalid}

\* An "HH:mm" the request validator lets through: two digits on either side,
\* whatever they say, so "10:75" is one of them.
ClockTimes == [h: 0..99, m: Nat]

TimeToMinutes(t) == t.h * Hour + t.m

\* What luxon accepts as a time of day.
ParsesAsTime(t) == \/ t.h < 24 /\ t.m < Hour
                   \/ t.h = 24 /\ t.m = 0

WeekdayOf(date) == date % 7

At(date, mins) == date * DayLen + mins

LocalToUtc(date, t) ==
    IF ParsesAsTime(t) THEN At(date, TimeToMinutes(t)) ELSE Invalid

\* x < y on milliseconds, false whenever a side is NaN.
Before(x, y) == x # Invalid /\ y # Invalid /\ x < y

\* Math.round of the hours from now until t: halves round up.
HoursUntil(t, now) == (2 * (t - now) + Hour) \div (2 * Hour)

-----------------------------------------------------------------------------
(* Offering slots: availability.service.ts                                 *)

EffectiveHours(sty, date) ==
    IF WeekdayOf(date) \in DOMAIN HoursOverride[sty]
      THEN HoursOverride[sty][WeekdayOf(date)]
      ELSE CompanyHours[WeekdayOf(date)]

Overlaps(aStart, aEnd, bStart, bEnd) ==
    Before(aStart, bEnd) /\ Before(bStart, aEnd)

OfStylist(sty, bookings) == {b \in bookings : b.sty = sty}

\* A faulty BlocksOf: a closure of the whole business binds no stylist.
OwnBlocksOnly(sty, blocks) == {bl \in blocks : bl.sty = sty}

BlocksOf(sty, blocks) == {bl \in blocks : bl.sty = Everyone \/ bl.sty = sty}

\* Somebody in `busy` (bookings or blocks) already has part of [s, e).
Clashes(s, e, busy) == \E x \in busy : Overlaps(s, e, x.startAt, x.endAt)

\* The starts, in ticks since midnight, on the stylist's grid for one date.
Grid(sty, duration, date) ==
    LET hours == EffectiveHours(sty, date)
    IN {t \in hours.openTime .. (hours.closeTime - duration) :
            hours.isOpen /\ (t - hours.openTime) % SlotStep = 0}

\* A faulty SlotsForStylistDate: it forgets the blocks.
SlotsOverBlocks(sty, duration, date, bookings, blocks, now) ==
    {t \in Grid(sty, duration, date) :
        /\ ~Before(At(date, t), now)
        /\ ~Clashes(At(date, t), At(date, t + duration), bookings)}

SlotsForStylistDate(sty, duration, date, bookings, blocks, now) ==
    {t \in Grid(sty, duration, date) :
        /\ ~Before(At(date, t), now)
        /\ ~Clashes(At(date, t), At(date, t + duration), bookings)
        /\ ~Clashes(At(date, t), At(date, t + duration), blocks)}

-----------------------------------------------------------------------------
(* Accepting a slot: booking.service.ts                                    *)

\* The first two open slots of the stylist in the five days from fromDate on,
\* as instants.  The snapshot the caller passes decides what is "open".
AlternativesFor(sty, duration, fromDate, bookings, blocks, now) ==
    LET open == UNION { {At(d, t) : t \in
                    SlotsForStylistDate(sty, duration, d, OfStylist(sty, bookings),
                                        BlocksOf(sty, blocks), now)} :
                        d \in fromDate .. (fromDate + 4) }
    IN {s \in open : Cardinality({o \in open : o < s}) < 2}

StartOf(date, start) == LocalToUtc(date, start)

\* The end is formatted from the minutes of the start plus the duration, so it
\* is a valid time even when the start is not.
EndOf(date, start, duration) == At(date, TimeToMinutes(start) + duration)

\* A faulty OutsideHours: only the start has to be in opening hours.
StartOutsideHours(sty, date, start, duration) ==
    LET hours == EffectiveHours(sty, date)
    IN \/ TimeToMinutes(start) < hours.openTime
       \/ TimeToMinutes(start) >= hours.closeTime

OutsideHours(sty, date, start, duration) ==
    LET hours == EffectiveHours(sty, date)
    IN \/ TimeToMinutes(start) < hours.openTime
       \/ TimeToMinutes(start) + duration > hours.closeTime

SlotClash(sty, s, e, bookings, blocks) ==
    \/ Clashes(s, e, OfStylist(sty, bookings))
    \/ Clashes(s, e, BlocksOf(sty, blocks))

\* The error code assertSlotIsValid throws, "OK" when it returns.
SlotVerdict(sty, duration, date, start, bookings, blocks, now) ==
    IF ~EffectiveHours(sty, date).isOpen THEN "CLOSED_ON_DAY"
    ELSE IF OutsideHours(sty, date, start, duration) THEN "OUTSIDE_BUSINESS_HOURS"
    ELSE IF Before(StartOf(date, start), now) THEN "SLOT_IN_PAST"
    ELSE IF SlotClash(sty, StartOf(date, start), EndOf(date, start, duration),
                      bookings, blocks) THEN "SLOT_TAKEN"
    ELSE "OK"

\* resolveContext: the error for a service, and for a (service, stylist) pair,
\* "OK" when bookable.
ServiceVerdict(svc) ==
    IF svc \notin Services THEN "SERVICE_NOT_FOUND"
    ELSE IF svc \notin BookableByPhone \/ DurationMinutes[svc] = 0
        THEN "SERVICE_NOT_BOOKABLE"
    ELSE "OK"

ContextVerdict(svc, sty) ==
    IF ServiceVerdict(svc) # "OK" THEN ServiceVerdict(svc)
    ELSE IF sty \notin Stylists THEN "STYLIST_NOT_FOUND"
    ELSE IF sty \notin ActiveStylists \/ svc \notin Performs[sty]
        THEN "STYLIST_SERVICE_MISMATCH"
    ELSE "OK"
=============================================================================
