------------------------- MODULE BookingServiceProofs -------------------------
(***************************************************************************)
(* The booking endpoints for every salon, every set of requests and every  *)
(* interleaving: type correctness, and that creates alone never            *)
(* double-book; before them, the facts about the slot arithmetic.          *)
(***************************************************************************)
EXTENDS BookingProperties, TLAPS

-----------------------------------------------------------------------------
(* The slot arithmetic, for every catalogue and every clock                *)

\* A length of stay and the length of a day are whole numbers of ticks.
LEMMA DayLenType == DayLen \in Nat /\ DayLen > 0
  BY HourAssumption DEF DayLen

LEMMA WeekdayType == \A date \in Nat : WeekdayOf(date) \in Weekdays
  BY DEF WeekdayOf, Weekdays

\* The hours looked up for a stylist on a date are opening hours, whichever of
\* the override and the company's hours they come from (effectiveHours).
LEMMA HoursType ==
  ASSUME NEW sty \in Stylists, NEW date \in Nat
  PROVE  /\ EffectiveHours(sty, date) \in DayHours
         /\ EffectiveHours(sty, date).closeTime <= DayLen
<1> DEFINE d == WeekdayOf(date)
<1>1. d \in Weekdays
  BY WeekdayType
<1>2. CASE d \in DOMAIN HoursOverride[sty]
  <2>1. PICK D \in SUBSET Weekdays : HoursOverride[sty] \in [D -> DayHours]
    BY HoursAssumption
  <2>2. HoursOverride[sty][d] \in DayHours
    BY <1>2, <2>1
  <2>3. HoursOverride[sty][d].closeTime <= DayLen
    BY <1>1, <1>2, HoursAssumption
  <2>4. QED
    BY <1>2, <2>2, <2>3 DEF EffectiveHours
<1>3. CASE d \notin DOMAIN HoursOverride[sty]
  BY <1>1, <1>3, HoursAssumption DEF EffectiveHours
<1>4. QED
  BY <1>2, <1>3

LEMMA InstantOfStart ==
  ASSUME NEW date \in Nat, NEW t \in ClockTimes
  PROVE  StartOf(date, t) \in Instants
BY DayLenType, HourAssumption DEF StartOf, LocalToUtc, At, TimeToMinutes, ClockTimes, Instants

LEMMA InstantOfEnd ==
  ASSUME NEW date \in Nat, NEW t \in ClockTimes, NEW duration \in Nat
  PROVE  EndOf(date, t, duration) \in Nat
BY DayLenType, HourAssumption DEF EndOf, At, TimeToMinutes, ClockTimes

\* Whether two stays overlap does not depend on which one is asked first: the
\* write-time check of either of two bookings sees the other.
LEMMA OverlapsSymmetric ==
  ASSUME NEW a, NEW b, NEW c, NEW d
  PROVE  Overlaps(a, b, c, d) <=> Overlaps(c, d, a, b)
BY DEF Overlaps

\* The grid of a stylist starts inside the day.
LEMMA GridType ==
  ASSUME NEW sty \in Stylists, NEW duration \in Nat, NEW date \in Nat,
         NEW t \in Grid(sty, duration, date)
  PROVE  /\ t \in Nat
         /\ EffectiveHours(sty, date).isOpen
         /\ EffectiveHours(sty, date).openTime <= t
         /\ t + duration <= EffectiveHours(sty, date).closeTime
<1> DEFINE hours == EffectiveHours(sty, date)
<1>1. hours \in DayHours
  BY HoursType
<1>2. hours.openTime \in Nat /\ hours.closeTime \in Nat
  BY <1>1 DEF DayHours
<1>3. t \in hours.openTime .. (hours.closeTime - duration) /\ hours.isOpen
  BY DEF Grid
<1> HIDE DEF hours
<1>4. /\ t \in Nat /\ hours.openTime <= t
      /\ t + duration <= hours.closeTime
  BY <1>2, <1>3
<1>5. QED
  BY <1>3, <1>4 DEF hours

\* Every slot the engine offers is accepted when it is asked for against the
\* same bookings, blocks and clock: availability and assertSlotIsValid, two
\* pieces of code, agree on the slots of the grid.
THEOREM OfferedIsAccepted ==
  ASSUME NEW sty \in Stylists, NEW duration \in Nat, NEW date \in Nat,
         NEW start \in ClockTimes, ParsesAsTime(start),
         NEW booked, NEW blocked, NEW instant \in Nat,
         TimeToMinutes(start) \in
            SlotsForStylistDate(sty, duration, date, OfStylist(sty, booked),
                                BlocksOf(sty, blocked), instant)
  PROVE  SlotVerdict(sty, duration, date, start, booked, blocked, instant) = "OK"
<1> DEFINE t == TimeToMinutes(start)
<1>1. t \in Grid(sty, duration, date)
  BY DEF SlotsForStylistDate
<1>2. ~OutsideHours(sty, date, start, duration) /\ EffectiveHours(sty, date).isOpen
  <2>1. EffectiveHours(sty, date).openTime \in Nat /\ EffectiveHours(sty, date).closeTime \in Nat
    BY HoursType DEF DayHours
  <2>2. QED
    BY <1>1, <2>1, GridType DEF OutsideHours
<1>3. StartOf(date, start) = At(date, t) /\ EndOf(date, start, duration) = At(date, t + duration)
  BY DEF StartOf, LocalToUtc, EndOf
<1>4. ~Before(StartOf(date, start), instant)
  BY <1>3 DEF SlotsForStylistDate
<1>5. ~SlotClash(sty, StartOf(date, start), EndOf(date, start, duration), booked, blocked)
  BY <1>3 DEF SlotsForStylistDate, SlotClash
<1>6. QED
  BY <1>2, <1>4, <1>5 DEF SlotVerdict

\* What the counter-offers are: starts that fall on an open day of the
\* stylist, not in the past, and clear of every booking and block in the
\* snapshot they were computed from.
THEOREM AlternativesAreOpen ==
  ASSUME NEW sty \in Stylists, NEW duration \in Nat, NEW fromDate \in Nat,
         NEW booked, NEW blocked, NEW instant \in Nat,
         NEW s \in AlternativesFor(sty, duration, fromDate, booked, blocked, instant)
  PROVE  /\ s \in Nat
         /\ s >= instant
         /\ ~Clashes(s, s + duration, OfStylist(sty, booked))
         /\ ~Clashes(s, s + duration, BlocksOf(sty, blocked))
<1>1. PICK d \in fromDate .. (fromDate + 4) :
        \E t \in SlotsForStylistDate(sty, duration, d, OfStylist(sty, booked),
                                     BlocksOf(sty, blocked), instant) : s = At(d, t)
  BY DEF AlternativesFor
<1>0. PICK t \in SlotsForStylistDate(sty, duration, d, OfStylist(sty, booked),
                                     BlocksOf(sty, blocked), instant) : s = At(d, t)
  BY <1>1
<1>2. d \in Nat /\ t \in Grid(sty, duration, d)
  BY DEF SlotsForStylistDate
<1>3. t \in Nat
  BY <1>2, GridType
<1>4. s \in Nat /\ At(d, t + duration) = s + duration
  BY <1>0, <1>2, <1>3, DayLenType DEF At
<1>5. /\ ~Before(s, instant)
      /\ ~Clashes(s, s + duration, OfStylist(sty, booked))
      /\ ~Clashes(s, s + duration, BlocksOf(sty, blocked))
  BY <1>0, <1>4 DEF SlotsForStylistDate
<1>6. QED
  BY <1>4, <1>5 DEF Before, Invalid

-----------------------------------------------------------------------------
(* What a handler knows at each of its phases                              *)

\* From the loaded snapshot to the write of a slot.
Placing == {"load", "needBlocks", "needBookings", "validate", "commit"}

\* A handler only reaches code for the kind of call it serves, has a resolved
\* service and stylist once it places, and only works on bookings that exist.
PhaseFits(r) ==
    /\ pc[r] = "resolve" => call[r] \in CreateCalls
    /\ pc[r] \in {"fetch", "window"} => call[r] \in CancelCalls \cup RescheduleCalls
    /\ pc[r] = "resolveMove" => call[r] \in RescheduleCalls
    /\ pc[r] \in Placing \ {"commit"} => call[r] \in CreateCalls \cup RescheduleCalls
    /\ pc[r] = "commit" => call[r] \in Calls

DataFits(r) ==
    /\ pc[r] \in Placing /\ call[r].op = "create" =>
          call[r].svc \in Services /\ call[r].sty \in Stylists
    /\ pc[r] \in Placing /\ call[r].op = "reschedule" =>
          fetched[r] \in Doc /\ call[r].sty \in Stylists
    /\ pc[r] \in {"window", "resolveMove"} => fetched[r] \in Doc
    /\ pc[r] \in Placing \cup {"window", "resolveMove"}
          /\ call[r].op \in {"cancel", "reschedule"} => bookings[call[r].id] \in Doc

HandlersFit == \A r \in Requests : PhaseFits(r) /\ DataFits(r)

Typed == TypeOK /\ HandlersFit

-----------------------------------------------------------------------------
(* Lemmas about calls and answers                                          *)

LEMMA CallFields ==
  /\ \A c \in CreateCalls : /\ c.op = "create" /\ c.svc \in ServiceIds
                            /\ c.sty \in StylistIds /\ c.date \in Nat
                            /\ c.start \in ClockTimes
  /\ \A c \in CancelCalls : c.op = "cancel" /\ c.id \in BookingIds
  /\ \A c \in RescheduleCalls : /\ c.op = "reschedule" /\ c.id \in BookingIds
                                /\ c.sty \in StylistIds /\ c.date \in Nat
                                /\ c.start \in ClockTimes
  /\ \A c \in BlockCalls : /\ c.op = "block" /\ c.sty \in StylistIds \cup {Everyone}
                           /\ c.startAt \in Nat /\ c.endAt \in Nat
  BY CallsAssumption

LEMMA CallKinds ==
  \A c \in Calls : /\ c.op = "create" => c \in CreateCalls
                   /\ c.op = "cancel" => c \in CancelCalls
                   /\ c.op = "reschedule" => c \in RescheduleCalls
                   /\ c.op = "block" => c \in BlockCalls
  BY CallFields DEF Calls

LEMMA NoDocIsNoDoc == NoDoc \notin Doc /\ NoDoc.status = "absent"
  BY DEF NoDoc, Doc, Statuses

\* An answer puts the handler to rest and clears its local variables.
LEMMA AnswerTyped ==
  ASSUME TypeOK, NEW r \in Requests, NEW code \in Codes, NEW alts \in SUBSET Nat,
         Answer(r, code, alts)
  PROVE  /\ pc' \in [Requests -> Phases]
         /\ fetched' \in [Requests -> Doc \cup {NoDoc}]
         /\ snap' \in [Requests -> SUBSET Doc]
         /\ blk' \in [Requests -> SUBSET Block]
         /\ reply' \in [Requests -> Replies \cup {NoReply}]
         /\ pc'[r] = "done"
         /\ \A q \in Requests \ {r} : pc'[q] = pc[q] /\ fetched'[q] = fetched[q]
<1>1. pc' \in [Requests -> Phases] /\ pc'[r] = "done" /\ \A q \in Requests \ {r} : pc'[q] = pc[q]
  BY DEF TypeOK, Answer, Goto, Phases
<1>2. [code |-> code, alternatives |-> alts] \in Replies
  BY DEF Replies
<1>3. reply' \in [Requests -> Replies \cup {NoReply}]
  BY <1>2 DEF TypeOK, Answer
<1>4. /\ fetched' \in [Requests -> Doc \cup {NoDoc}]
      /\ \A q \in Requests \ {r} : fetched'[q] = fetched[q]
  BY DEF TypeOK, Answer
<1>5. snap' \in [Requests -> SUBSET Doc] /\ blk' \in [Requests -> SUBSET Block]
  BY DEF TypeOK, Answer
<1>6. QED
  BY <1>1, <1>3, <1>4, <1>5

\* A handler that answers without writing keeps everything well typed.
LEMMA RefusalTyped ==
  ASSUME Typed, NEW r \in Requests, NEW code \in Codes, NEW alts \in SUBSET Nat,
         Answer(r, code, alts), failures' \in 0..MaxFailures,
         UNCHANGED <<now, call, prior, database>>
  PROVE  Typed'
<1>1. TypeOK'
  BY AnswerTyped DEF Typed, TypeOK, database
<1>2. ASSUME NEW q \in Requests
      PROVE  (PhaseFits(q) /\ DataFits(q))'
  <2>1. CASE q = r
    BY <2>1, AnswerTyped DEF Typed, PhaseFits, DataFits, Placing
  <2>2. CASE q # r
    BY <2>2, AnswerTyped DEF Typed, HandlersFit, PhaseFits, DataFits, database
  <2>3. QED
    BY <2>1, <2>2
<1>3. QED
  BY <1>1, <1>2 DEF Typed, HandlersFit

\* Whoever names a booking names one that may exist.
LEMMA TargetsAreIds ==
  ASSUME TypeOK, NEW r \in Requests, call[r].op \in {"cancel", "reschedule"}
  PROVE  call[r].id \in BookingIds /\ call[r] \in Calls
<1>1. call[r] \in Calls
  BY DEF TypeOK, NoCall
<1>2. QED
  BY <1>1, CallKinds, CallFields

\* A step of one handler that loses no booking leaves the other ones fit.
LEMMA OthersFit ==
  ASSUME Typed, NEW q \in Requests,
         call'[q] = call[q], pc'[q] = pc[q], fetched'[q] = fetched[q],
         \A b \in BookingIds : bookings[b] \in Doc => bookings'[b] \in Doc
  PROVE  (PhaseFits(q) /\ DataFits(q))'
<1>1. PhaseFits(q) /\ DataFits(q)
  BY DEF Typed, HandlersFit
<1>2. PhaseFits(q)'
  BY <1>1 DEF PhaseFits
<1>3. call[q].op \in {"cancel", "reschedule"} => call[q].id \in BookingIds
  BY TargetsAreIds DEF Typed
<1>4. DataFits(q)'
  BY <1>1, <1>3 DEF DataFits
<1>5. QED
  BY <1>2, <1>4

\* The same, for a write followed by its answer.
LEMMA WriteTyped ==
  ASSUME Typed, NEW r \in Requests, AnswerWritten(r), UNCHANGED <<now, call, prior>>,
         bookings' \in [BookingIds -> Doc \cup {NoDoc}], blocks' \subseteq Block,
         placedBy' \in [BookingIds -> BookingIds],
         \A b \in BookingIds : bookings[b] \in Doc => bookings'[b] \in Doc
  PROVE  Typed'
<1>1. PICK code \in {"OK", "INTERNAL_ERROR"} : Answer(r, code, {})
  BY DEF AnswerWritten
<1>2. code \in Codes
  BY DEF Codes
<1>3. failures' \in 0..MaxFailures
  BY RequestsAssumption DEF AnswerWritten, Typed, TypeOK
<1>4. TypeOK'
  BY <1>1, <1>2, <1>3, AnswerTyped DEF Typed, TypeOK
<1>5. ASSUME NEW q \in Requests
      PROVE  (PhaseFits(q) /\ DataFits(q))'
  <2>1. CASE q = r
    BY <1>1, <1>2, <2>1, AnswerTyped DEF Typed, PhaseFits, DataFits, Placing
  <2>2. CASE q # r
    BY <1>1, <1>2, <2>2, AnswerTyped, OthersFit DEF Typed
  <2>3. QED
    BY <2>1, <2>2
<1>6. QED
  BY <1>4, <1>5 DEF Typed, HandlersFit

\* And for a write that is not acknowledged and whose transaction is run again.
LEMMA RerunTyped ==
  ASSUME Typed, NEW r \in Requests, RunAgain(r), UNCHANGED <<now, call, prior, blocks>>,
         bookings' \in [BookingIds -> Doc \cup {NoDoc}],
         placedBy' \in [BookingIds -> BookingIds],
         \A b \in BookingIds : bookings[b] \in Doc => bookings'[b] \in Doc
  PROVE  Typed'
<1>1. failures' \in 0..MaxFailures
  BY RequestsAssumption DEF RunAgain, Typed, TypeOK
<1>2. TypeOK'
  BY <1>1 DEF RunAgain, Typed, TypeOK, locals
<1>3. ASSUME NEW q \in Requests
      PROVE  (PhaseFits(q) /\ DataFits(q))'
  BY OthersFit DEF RunAgain, locals
<1>4. QED
  BY <1>2, <1>3 DEF Typed, HandlersFit

\* And for a step that only moves a handler on to its next phase.
LEMMA GotoTyped ==
  ASSUME Typed, NEW r \in Requests, NEW phase \in Phases, Goto(r, phase),
         fetched' \in [Requests -> Doc \cup {NoDoc}],
         snap' \in [Requests -> SUBSET Doc], blk' \in [Requests -> SUBSET Block],
         \A q \in Requests \ {r} : fetched'[q] = fetched[q],
         UNCHANGED <<now, call, reply, failures, prior, database>>,
         (PhaseFits(r) /\ DataFits(r))'
  PROVE  Typed'
<1>1. TypeOK' /\ \A q \in Requests \ {r} : pc'[q] = pc[q]
  BY DEF Typed, TypeOK, database, Goto
<1>2. ASSUME NEW q \in Requests
      PROVE  (PhaseFits(q) /\ DataFits(q))'
  <2>1. CASE q # r
    BY <1>1, <2>1, OthersFit DEF database
  <2>2. QED
    BY <2>1
<1>3. QED
  BY <1>1, <1>2 DEF Typed, HandlersFit

\* A new slot has a service's stylist and two instants.
LEMMA PlacementTyped ==
  ASSUME Typed, NEW r \in Requests, pc[r] \in Placing,
         call[r].op \in {"create", "reschedule"}
  PROVE  /\ ServiceOf(r) \in Services /\ call[r].sty \in Stylists
         /\ call[r].date \in Nat /\ DurationOf(r) \in Nat
         /\ StartAt(r) \in Instants /\ EndAt(r) \in Nat
         /\ TargetOf(r) \in BookingIds
<1>1. DataFits(r) /\ call[r] \in Calls
  BY DEF Typed, HandlersFit, TypeOK, NoCall
<1>2. call[r].date \in Nat /\ call[r].start \in ClockTimes
  BY <1>1, CallKinds, CallFields
<1>3. ServiceOf(r) \in Services /\ call[r].sty \in Stylists
  BY <1>1 DEF ServiceOf, DataFits, Doc
<1>4. DurationOf(r) \in Nat
  BY <1>3, CatalogueAssumption DEF DurationOf
<1>5. TargetOf(r) \in BookingIds
  BY TargetsAreIds DEF TargetOf, BookingIds, Typed
<1>6. QED
  BY <1>2, <1>3, <1>4, <1>5, InstantOfStart, InstantOfEnd DEF StartAt, EndAt

LEMMA AlternativesTyped ==
  ASSUME Typed, NEW r \in Requests, pc[r] \in Placing,
         call[r].op \in {"create", "reschedule"}
  PROVE  Alternatives(r) \in SUBSET Nat
<1>1. now \in Nat
  BY RequestsAssumption DEF Typed, TypeOK
<1>2. QED
  BY <1>1, PlacementTyped, AlternativesAreOpen DEF Alternatives

LEMMA ConfirmedTyped == TypeOK => Confirmed \subseteq Doc
  BY NoDocIsNoDoc DEF TypeOK, Confirmed

-----------------------------------------------------------------------------
(* Type correctness, one lemma for each group of actions                   *)

LEMMA ResolveTyped ==
  ASSUME Typed, NEW r \in Requests, ResolveContext(r) \/ ResolveMove(r)
  PROVE  Typed'
<1> USE DEF Typed
<1>1. CASE ResolveContext(r)
  <2> DEFINE verdict == ContextVerdict(call[r].svc, call[r].sty)
  <2>1. verdict \in Codes /\ failures' \in 0..MaxFailures
    BY <1>1 DEF ResolveContext, ContextVerdict, ServiceVerdict, Codes, TypeOK
  <2>2. call[r] \in CreateCalls
    BY <1>1 DEF ResolveContext, HandlersFit, PhaseFits
  <2>3. CASE verdict # "OK" /\ Answer(r, verdict, {})
    BY <1>1, <2>1, <2>3, RefusalTyped DEF ResolveContext
  <2>4. CASE verdict = "OK" /\ Goto(r, "load") /\ UNCHANGED <<reply, locals>>
    <3>1. call[r].svc \in Services /\ call[r].sty \in Stylists
      BY <2>4, CatalogueAssumption DEF ContextVerdict, ServiceVerdict
    <3>2. pc'[r] = "load" /\ call' = call
      BY <1>1, <2>4 DEF ResolveContext, Goto, TypeOK
    <3>3. (PhaseFits(r) /\ DataFits(r))'
      BY <2>2, <3>1, <3>2, CallFields DEF PhaseFits, DataFits, Placing
    <3>4. QED
      BY <1>1, <2>4, <3>3, GotoTyped DEF ResolveContext, locals, TypeOK, Phases
  <2>5. QED
    BY <1>1, <2>3, <2>4 DEF ResolveContext
<1>2. CASE ResolveMove(r)
  <2> DEFINE verdict == MoveVerdict(fetched[r].svc, call[r].sty)
  <2>1. verdict \in Codes /\ failures' \in 0..MaxFailures
    BY <1>2 DEF ResolveMove, MoveVerdict, Codes, TypeOK
  <2>2. /\ call[r] \in RescheduleCalls /\ fetched[r] \in Doc
        /\ bookings[call[r].id] \in Doc
    BY <1>2, CallFields DEF ResolveMove, HandlersFit, PhaseFits, DataFits
  <2>3. CASE verdict # "OK" /\ Answer(r, verdict, {})
    BY <1>2, <2>1, <2>3, RefusalTyped DEF ResolveMove
  <2>4. CASE verdict = "OK" /\ Goto(r, "load") /\ UNCHANGED <<reply, locals>>
    <3>1. call[r].sty \in Stylists
      BY <2>4 DEF MoveVerdict
    <3>2. pc'[r] = "load" /\ call' = call /\ fetched' = fetched /\ bookings' = bookings
      BY <1>2, <2>4 DEF ResolveMove, Goto, TypeOK, locals, database
    <3>3. (PhaseFits(r) /\ DataFits(r))'
      BY <2>2, <3>1, <3>2, CallFields DEF PhaseFits, DataFits, Placing
    <3>4. QED
      BY <1>2, <2>4, <3>3, GotoTyped DEF ResolveMove, locals, TypeOK, Phases
  <2>5. QED
    BY <1>2, <2>3, <2>4 DEF ResolveMove
<1>3. QED
  BY <1>1, <1>2

LEMMA LoadTyped ==
  ASSUME Typed, NEW r \in Requests, LoadBookings(r) \/ LoadBlocks(r)
  PROVE  Typed'
<1> USE DEF Typed
<1>1. PhaseFits(r) /\ DataFits(r)
  BY DEF HandlersFit
<1>2. CASE LoadBookings(r)
  <2>1. PICK phase \in {"needBlocks", "validate"} : Goto(r, phase)
    BY <1>2 DEF LoadBookings
  <2>2. pc'[r] = phase /\ pc[r] \in {"load", "needBookings"}
    BY <1>2, <2>1 DEF LoadBookings, Goto, TypeOK
  <2>3. snap' \in [Requests -> SUBSET Doc]
    BY <1>2, ConfirmedTyped DEF LoadBookings, TypeOK
  <2>4. (PhaseFits(r) /\ DataFits(r))'
    BY <1>1, <1>2, <2>2 DEF LoadBookings, PhaseFits, DataFits, Placing, database
  <2>5. QED
    BY <1>2, <2>1, <2>3, <2>4, GotoTyped DEF LoadBookings, TypeOK, Phases
<1>3. CASE LoadBlocks(r)
  <2>1. PICK phase \in {"needBookings", "validate"} : Goto(r, phase)
    BY <1>3 DEF LoadBlocks
  <2>2. pc'[r] = phase /\ pc[r] \in {"load", "needBlocks"}
    BY <1>3, <2>1 DEF LoadBlocks, Goto, TypeOK
  <2>3. blk' \in [Requests -> SUBSET Block]
    BY <1>3 DEF LoadBlocks, TypeOK
  <2>4. (PhaseFits(r) /\ DataFits(r))'
    BY <1>1, <1>3, <2>2 DEF LoadBlocks, PhaseFits, DataFits, Placing, database
  <2>5. QED
    BY <1>3, <2>1, <2>3, <2>4, GotoTyped DEF LoadBlocks, TypeOK, Phases
<1>4. QED
  BY <1>2, <1>3

LEMMA ValidateTyped ==
  ASSUME Typed, NEW r \in Requests, AssertSlotIsValid(r)
  PROVE  Typed'
<1> USE DEF Typed
<1> DEFINE verdict == SlotVerdict(call[r].sty, DurationOf(r), call[r].date,
                                  call[r].start, Others(r), blk[r], now)
<1>1. verdict \in Codes /\ failures' \in 0..MaxFailures
  BY DEF AssertSlotIsValid, SlotVerdict, Codes, TypeOK
<1>2. /\ PhaseFits(r) /\ DataFits(r) /\ pc[r] = "validate"
      /\ call[r] \in CreateCalls \cup RescheduleCalls
  BY DEF AssertSlotIsValid, HandlersFit, PhaseFits, Placing
<1>3. call[r].op \in {"create", "reschedule"}
  BY <1>2, CallFields
<1>4. Alternatives(r) \in SUBSET Nat
  BY <1>2, <1>3, AlternativesTyped DEF Placing
<1>5. CASE verdict = "OK" /\ Goto(r, "commit") /\ UNCHANGED <<reply, locals>>
  <2>1. pc'[r] = "commit"
    BY <1>5 DEF Goto, TypeOK
  <2>2. (PhaseFits(r) /\ DataFits(r))'
    BY <1>2, <1>5, <2>1 DEF AssertSlotIsValid, PhaseFits, DataFits, Placing, locals, database, Calls
  <2>3. QED
    BY <1>5, <2>2, GotoTyped DEF AssertSlotIsValid, locals, TypeOK, Phases
<1>6. CASE verdict = "SLOT_TAKEN" /\ Answer(r, verdict, Alternatives(r))
  BY <1>1, <1>4, <1>6, RefusalTyped DEF AssertSlotIsValid
<1>7. CASE verdict \notin {"OK", "SLOT_TAKEN"} /\ Answer(r, verdict, {})
  BY <1>1, <1>7, RefusalTyped DEF AssertSlotIsValid
<1>8. QED
  BY <1>5, <1>6, <1>7 DEF AssertSlotIsValid

LEMMA FetchTyped ==
  ASSUME Typed, NEW r \in Requests, RequireBooking(r) \/ CheckCancellationWindow(r)
  PROVE  Typed'
<1> USE DEF Typed
<1>1. /\ PhaseFits(r) /\ DataFits(r)
      /\ call[r] \in CancelCalls \cup RescheduleCalls
      /\ failures' \in 0..MaxFailures
  BY DEF HandlersFit, PhaseFits, RequireBooking, CheckCancellationWindow, TypeOK
<1>2. call[r].op \in {"cancel", "reschedule"} /\ call[r].id \in BookingIds /\ call[r] \in Calls
  BY <1>1, CallFields DEF Calls
<1>3. CASE RequireBooking(r)
  <2>1. CASE bookings[call[r].id] = NoDoc /\ Answer(r, "BOOKING_NOT_FOUND", {})
    BY <1>1, <1>3, <2>1, RefusalTyped DEF RequireBooking, Codes
  <2>2. CASE /\ bookings[call[r].id] # NoDoc
             /\ fetched' = [fetched EXCEPT ![r] = bookings[call[r].id]]
             /\ Goto(r, "window") /\ UNCHANGED <<snap, blk, reply>>
    <3>1. bookings[call[r].id] \in Doc
      BY <1>2, <2>2 DEF TypeOK
    <3>2. pc'[r] = "window" /\ fetched'[r] = bookings[call[r].id]
      BY <2>2 DEF Goto, TypeOK
    <3>3. (PhaseFits(r) /\ DataFits(r))'
      BY <1>1, <1>3, <3>1, <3>2 DEF RequireBooking, PhaseFits, DataFits, Placing, database
    <3>4. QED
      BY <1>3, <2>2, <3>1, <3>3, GotoTyped DEF RequireBooking, TypeOK, Phases
  <2>3. QED
    BY <1>3, <2>1, <2>2 DEF RequireBooking
<1>4. CASE CheckCancellationWindow(r)
  <2>1. CASE Answer(r, "WITHIN_CANCELLATION_WINDOW", {})
    BY <1>1, <1>4, <2>1, RefusalTyped DEF CheckCancellationWindow, Codes
  <2>2. CASE /\ Goto(r, IF call[r].op = "cancel" THEN "commit" ELSE "resolveMove")
             /\ UNCHANGED <<reply, locals>>
    <3>1. PICK phase \in {"commit", "resolveMove"} :
            /\ Goto(r, phase)
            /\ phase = "commit" => call[r].op = "cancel"
            /\ phase = "resolveMove" => call[r].op # "cancel"
      BY <2>2
    <3>2. /\ pc'[r] = phase /\ pc[r] = "window" /\ call' = call
          /\ fetched' = fetched /\ bookings' = bookings
      BY <1>4, <2>2, <3>1 DEF CheckCancellationWindow, Goto, TypeOK, locals, database
    <3>3. (PhaseFits(r) /\ DataFits(r))'
      BY <1>1, <1>2, <3>1, <3>2, CallFields DEF PhaseFits, DataFits, Placing
    <3>4. QED
      BY <1>4, <2>2, <3>1, <3>3, GotoTyped DEF CheckCancellationWindow, locals, TypeOK, Phases
  <2>3. QED
    BY <1>4, <2>1, <2>2 DEF CheckCancellationWindow
<1>5. QED
  BY <1>3, <1>4

LEMMA CommitTyped ==
  ASSUME Typed, NEW r \in Requests,
         RunTransaction(r) \/ UpdateCancelled(r) \/ UpdateMoved(r) \/ AddBlock(r)
  PROVE  Typed'
<1> USE DEF Typed
<1>1. PhaseFits(r) /\ DataFits(r) /\ pc[r] = "commit" /\ call[r] \in Calls
  BY DEF HandlersFit, PhaseFits, RunTransaction, UpdateCancelled, UpdateMoved, AddBlock
<1>2. CASE RunTransaction(r)
  <2>1. /\ ServiceOf(r) \in Services /\ call[r].sty \in Stylists
        /\ StartAt(r) \in Instants /\ EndAt(r) \in Instants
        /\ Alternatives(r) \in SUBSET Nat
    BY <1>2, PlacementTyped, AlternativesTyped DEF RunTransaction, Placing, Instants
  <2>2. CASE Answer(r, "SLOT_TAKEN", Alternatives(r)) /\ UNCHANGED <<failures, database>>
    <3>1. "SLOT_TAKEN" \in Codes /\ failures' \in 0..MaxFailures
      BY <2>2 DEF Codes, TypeOK
    <3>2. QED
      BY <1>2, <2>1, <2>2, <3>1, RefusalTyped DEF RunTransaction
  <2>3. CASE /\ bookings' = [bookings EXCEPT ![r] = NewBooking(r)]
             /\ placedBy' = [placedBy EXCEPT ![r] = r]
             /\ AnswerWritten(r) \/ RunAgain(r)
             /\ UNCHANGED blocks
    <3>1. r \in BookingIds
      BY DEF BookingIds
    <3>2. NewBooking(r) \in Doc
      BY <1>2, <2>1, <3>1 DEF RunTransaction, ServiceOf, NewBooking, Doc, Statuses
    <3>3. /\ bookings' \in [BookingIds -> Doc \cup {NoDoc}]
          /\ \A b \in BookingIds : bookings[b] \in Doc => bookings'[b] \in Doc
          /\ placedBy' \in [BookingIds -> BookingIds]
          /\ blocks' \subseteq Block
      BY <2>3, <3>1, <3>2 DEF TypeOK
    <3>4. CASE AnswerWritten(r)
      BY <1>2, <3>3, <3>4, WriteTyped DEF RunTransaction
    <3>5. CASE RunAgain(r)
      BY <1>2, <2>3, <3>3, <3>5, RerunTyped DEF RunTransaction
    <3>6. QED
      BY <2>3, <3>4, <3>5
  <2>4. QED
    BY <1>2, <2>2, <2>3 DEF RunTransaction
<1>3. CASE UpdateCancelled(r)
  <2>1. bookings[call[r].id] \in Doc /\ call[r].id \in BookingIds
    BY <1>1, <1>3, TargetsAreIds DEF UpdateCancelled, Cancelled, DataFits, Placing
  <2>2. [bookings[call[r].id] EXCEPT !.status = "cancelled"] \in Doc
    BY <2>1 DEF Doc, Statuses
  <2>3. /\ bookings' \in [BookingIds -> Doc \cup {NoDoc}]
        /\ \A b \in BookingIds : bookings[b] \in Doc => bookings'[b] \in Doc
    BY <1>3, <2>2 DEF UpdateCancelled, Cancelled, TypeOK
  <2>4. blocks' \subseteq Block /\ placedBy' \in [BookingIds -> BookingIds]
    BY <1>3 DEF UpdateCancelled, Cancelled, TypeOK
  <2>5. QED
    BY <1>3, <2>3, <2>4, WriteTyped DEF UpdateCancelled
<1>4. CASE UpdateMoved(r)
  <2>1. /\ bookings[call[r].id] \in Doc /\ call[r].id \in BookingIds
        /\ r \in BookingIds
    BY <1>1, <1>4, TargetsAreIds DEF UpdateMoved, DataFits, Placing, BookingIds
  <2>2. /\ StartAt(r) \in Instants /\ EndAt(r) \in Instants /\ call[r].sty \in Stylists
    BY <1>1, <1>4, PlacementTyped DEF UpdateMoved, Placing, Instants
  <2>3. Moved(bookings[call[r].id], r) \in Doc
    BY <2>1, <2>2 DEF Moved, Doc
  <2>4. /\ bookings' \in [BookingIds -> Doc \cup {NoDoc}]
        /\ \A b \in BookingIds : bookings[b] \in Doc => bookings'[b] \in Doc
    BY <1>4, <2>3 DEF UpdateMoved, TypeOK
  <2>5. blocks' \subseteq Block /\ placedBy' \in [BookingIds -> BookingIds]
    BY <1>4, <2>1 DEF UpdateMoved, TypeOK
  <2>6. QED
    BY <1>4, <2>4, <2>5, WriteTyped DEF UpdateMoved
<1>5. CASE AddBlock(r)
  <2>1. call[r] \in BlockCalls
    BY <1>1, <1>5, CallKinds DEF AddBlock
  <2>2. blocks' \subseteq Block
    BY <1>5, <2>1, CallFields DEF AddBlock, Block, TypeOK
  <2>3. QED
    BY <1>5, <2>2, WriteTyped DEF AddBlock, TypeOK
<1>6. QED
  BY <1>2, <1>3, <1>4, <1>5

LEMMA ArriveTyped ==
  ASSUME Typed, NEW r \in Requests, Arrive(r)
  PROVE  Typed'
<1> USE DEF Typed
<1>1. PICK c \in Calls : call' = [call EXCEPT ![r] = c] /\ Goto(r, FirstPhase(c))
  BY DEF Arrive
<1>2. /\ c \in CreateCalls => FirstPhase(c) = "resolve"
      /\ c \in BlockCalls => FirstPhase(c) = "commit"
      /\ c \in CancelCalls \cup RescheduleCalls => FirstPhase(c) = "fetch"
  BY CallFields DEF FirstPhase
<1>3. /\ call'[r] = c /\ pc'[r] = FirstPhase(c) /\ FirstPhase(c) \in Phases
      /\ \A q \in Requests \ {r} : call'[q] = call[q] /\ pc'[q] = pc[q]
  BY <1>1, <1>2 DEF TypeOK, Goto, Calls, Phases
<1>4. prior' \in [Requests -> SUBSET BookingIds]
  BY DEF Arrive, TypeOK, Answered, BookingIds
<1>5. TypeOK'
  BY <1>1, <1>3, <1>4 DEF Arrive, TypeOK, Goto, locals, database
<1>6. (PhaseFits(r) /\ DataFits(r))'
  BY <1>2, <1>3, CallFields DEF PhaseFits, DataFits, Placing, Calls
<1>7. ASSUME NEW q \in Requests \ {r}
      PROVE  (PhaseFits(q) /\ DataFits(q))'
  BY <1>3, OthersFit DEF Arrive, locals, database
<1>8. QED
  BY <1>5, <1>6, <1>7 DEF HandlersFit

LEMMA TypedInit == Init => Typed
<1> SUFFICES ASSUME Init PROVE Typed
  OBVIOUS
<1>1. TypeOK
  <2>1. blocks \subseteq Block
    BY SeedAssumption DEF Init, Block
  <2>2. bookings \in [BookingIds -> Doc \cup {NoDoc}]
    BY SeedAssumption DEF Init
  <2>3. now \in StartNow..MaxNow /\ failures \in 0..MaxFailures
    BY RequestsAssumption DEF Init
  <2>4. QED
    BY <2>1, <2>2, <2>3 DEF Init, TypeOK, Phases
<1>2. HandlersFit
  BY DEF Init, HandlersFit, PhaseFits, DataFits, Placing
<1>3. QED
  BY <1>1, <1>2 DEF Typed

LEMMA TypedNext == Typed /\ [Next]_vars => Typed'
<1> SUFFICES ASSUME Typed, [Next]_vars PROVE Typed'
  OBVIOUS
<1>1. ASSUME NEW r \in Requests, Arrive(r) PROVE Typed'
  BY <1>1, ArriveTyped
<1>2. ASSUME NEW r \in Requests, Step(r) PROVE Typed'
  BY <1>2, ResolveTyped, LoadTyped, ValidateTyped, FetchTyped, CommitTyped DEF Step
<1>3. ASSUME NEW r \in Requests, StoreFails(r) PROVE Typed'
  <2>1. failures' \in 0..MaxFailures
    BY <1>3, RequestsAssumption DEF StoreFails, Typed, TypeOK
  <2>2. QED
    BY <1>3, <2>1, RefusalTyped DEF StoreFails, Codes
<1>4. ASSUME Tick PROVE Typed'
  <2>1. now' \in StartNow..MaxNow
    BY <1>4, RequestsAssumption DEF Tick, Typed, TypeOK
  <2>2. QED
    BY <1>4, <2>1 DEF Tick, Typed, TypeOK, HandlersFit, PhaseFits, DataFits, locals, database
<1>5. CASE UNCHANGED vars
  BY <1>5 DEF vars, Typed, TypeOK, HandlersFit, PhaseFits, DataFits
<1>6. QED
  BY <1>1, <1>2, <1>3, <1>4, <1>5 DEF Next

LEMMA AlwaysTyped == Spec => []Typed
  BY TypedInit, TypedNext, PTL DEF Spec

\* In every state every document, snapshot, reply and local variable has the
\* type the source gives it, whatever the handlers of the four endpoints and
\* the failures of the database do.
THEOREM TypeCorrect == Spec => []TypeOK
<1>1. Typed => TypeOK
  BY DEF Typed
<1>2. QED
  BY <1>1, AlwaysTyped, PTL

-----------------------------------------------------------------------------
(* What ties a placement to the requests that were answered before it      *)

HasBookings(r) == pc[r] \in {"needBlocks", "validate", "commit"} /\ IsPlacement(r)
HasBlocks(r) == pc[r] \in {"needBookings", "validate", "commit"} /\ IsPlacement(r)

\* Who was answered before an arrival stays answered.
PriorAnswered == \A r, q \in Requests : q \in prior[r] => pc[q] = "done"

\* A request's own booking exists only once its create has written it, whether
\* it has been answered or runs its transaction again, and is of that service.
OwnBookings ==
    \A r \in Requests : bookings[r] # NoDoc =>
        /\ call[r].op = "create" /\ pc[r] \in {"commit", "done"}
        /\ pc[r] = "commit" => failures > 0
        /\ bookings[r].svc = call[r].svc

IdsMatch == \A b \in BookingIds : bookings[b] # NoDoc => bookings[b].id = b

\* Whatever was placed before r arrived and still stands is in r's snapshot:
\* other requests go on writing, but not those already answered.
SnapshotCurrent ==
    \A r \in Requests, b \in BookingIds :
        HasBookings(r) /\ IsConfirmed(b) /\ placedBy[b] \in prior[r] => bookings[b] \in snap[r]

BlocksCurrent ==
    \A r \in Requests : \A x \in blocks :
        HasBlocks(r) /\ (x.by = "seed" \/ x.by \in prior[r]) => x \in blk[r]

\* A placement about to be written was checked against its snapshot.
Validated ==
    \A r \in Requests : pc[r] = "commit" /\ IsPlacement(r) =>
        ~SlotClash(call[r].sty, StartAt(r), EndAt(r), Others(r), blk[r])

\* The writer of a block, too, has been answered.
BlockersAnswered == \A x \in blocks : x.by \in Requests => pc[x.by] = "done"

Traced ==
    /\ PriorAnswered /\ OwnBookings /\ IdsMatch /\ RefusalLeavesNoTrace
    /\ SnapshotCurrent /\ BlocksCurrent /\ Validated /\ BlockersAnswered

\* A handler's step that leaves the database alone keeps the trace, if what
\* the handler itself holds afterwards still fits the database.
LEMMA LocalStepTraced ==
  ASSUME Typed, Traced, NEW r \in Requests, pc[r] \notin {"idle", "done"},
         UNCHANGED <<call, prior, database>>, failures > 0 => failures' > 0,
         pc[r] = "commit" =>
            pc'[r] = "done" /\ reply'[r].code \in {"SLOT_TAKEN", "INTERNAL_ERROR"},
         \A q \in Requests \ {r} :
            /\ pc'[q] = pc[q] /\ fetched'[q] = fetched[q] /\ reply'[q] = reply[q]
            /\ snap'[q] = snap[q] /\ blk'[q] = blk[q],
         HasBookings(r)' => \A b \in BookingIds :
            IsConfirmed(b) /\ placedBy[b] \in prior[r] => bookings[b] \in snap'[r],
         HasBlocks(r)' => \A x \in blocks :
            x.by = "seed" \/ x.by \in prior[r] => x \in blk'[r],
         (pc[r] = "commit" /\ IsPlacement(r) =>
            ~SlotClash(call[r].sty, StartAt(r), EndAt(r), Others(r), blk[r]))'
  PROVE  Traced'
<1> USE DEF Traced, database
<1>1. (PriorAnswered /\ OwnBookings /\ IdsMatch /\ BlockersAnswered)'
  BY DEF PriorAnswered, OwnBookings, IdsMatch, BlockersAnswered
<1>2. RefusalLeavesNoTrace'
  BY DEF RefusalLeavesNoTrace, Landed, HeldUnheard
<1>3. ASSUME NEW q \in Requests \ {r}
      PROVE  /\ HasBookings(q)' <=> HasBookings(q)
             /\ HasBlocks(q)' <=> HasBlocks(q)
             /\ IsPlacement(q)' <=> IsPlacement(q)
             /\ StartAt(q)' = StartAt(q) /\ EndAt(q)' = EndAt(q) /\ Others(q)' = Others(q)
  BY DEF HasBookings, HasBlocks, IsPlacement, StartAt, EndAt, Others, TargetOf,
         DurationOf, ServiceOf
<1>4. SnapshotCurrent'
  BY <1>3 DEF SnapshotCurrent, IsConfirmed
<1>5. BlocksCurrent'
  BY <1>3 DEF BlocksCurrent
<1>6. Validated'
  <2>1. ASSUME NEW q \in Requests, (pc[q] = "commit" /\ IsPlacement(q))'
        PROVE  ~SlotClash(call[q].sty, StartAt(q), EndAt(q), Others(q), blk[q])'
    <3>1. CASE q = r
      BY <2>1, <3>1
    <3>2. CASE q # r
      <4>1. ~SlotClash(call[q].sty, StartAt(q), EndAt(q), Others(q), blk[q])
        BY <1>3, <2>1, <3>2 DEF Validated
      <4>2. QED
        BY <1>3, <3>2, <4>1 DEF SlotClash
    <3>3. QED
      BY <3>1, <3>2
  <2>2. QED
    BY <2>1 DEF Validated
<1>7. QED
  BY <1>1, <1>2, <1>4, <1>5, <1>6

\* In particular a refusal keeps it.
LEMMA RefusalTraced ==
  ASSUME Typed, Traced, NEW r \in Requests, pc[r] \notin {"idle", "done"},
         NEW code, NEW alts, Answer(r, code, alts), UNCHANGED <<call, prior, database>>,
         pc[r] = "commit" => code \in {"SLOT_TAKEN", "INTERNAL_ERROR"},
         failures > 0 => failures' > 0
  PROVE  Traced'
<1>1. /\ pc'[r] = "done"
      /\ pc[r] = "commit" => reply'[r].code \in {"SLOT_TAKEN", "INTERNAL_ERROR"}
  BY DEF Answer, Goto, Typed, TypeOK
<1>2. \A q \in Requests \ {r} :
            /\ pc'[q] = pc[q] /\ fetched'[q] = fetched[q] /\ reply'[q] = reply[q]
            /\ snap'[q] = snap[q] /\ blk'[q] = blk[q]
  BY DEF Answer, Goto, Typed, TypeOK
<1>3. QED
  BY <1>1, <1>2, LocalStepTraced DEF HasBookings, HasBlocks

\* A write to one booking (or to the blocks), followed by its answer.
LEMMA WriteTraced ==
  ASSUME Typed, Traced, NEW r \in Requests, pc[r] = "commit", AnswerWritten(r),
         UNCHANGED <<call, prior>>, NEW b0 \in BookingIds,
         \A b \in BookingIds \ {b0} : bookings'[b] = bookings[b] /\ placedBy'[b] = placedBy[b],
         \/ bookings'[b0] = bookings[b0] /\ placedBy'[b0] = placedBy[b0]
         \/ /\ bookings'[b0].id = b0 /\ bookings'[b0] # NoDoc
            /\ \/ bookings[b0] # NoDoc /\ bookings'[b0].svc = bookings[b0].svc
               \/ b0 = r /\ call[r].op = "create" /\ bookings'[b0].svc = call[r].svc
            /\ \/ placedBy'[b0] = r
               \/ /\ bookings[b0] # NoDoc /\ placedBy'[b0] = placedBy[b0]
                  /\ bookings'[b0].status # "confirmed",
         \A x \in blocks' : x \in blocks \/ x.by = r
  PROVE  Traced'
<1> USE DEF Traced
<1>0. "seed" # r
  BY RequestsAssumption
<1>1. PICK code \in {"OK", "INTERNAL_ERROR"} : Answer(r, code, {})
  BY DEF AnswerWritten
<1>2. /\ pc'[r] = "done" /\ reply'[r].code \in {"OK", "INTERNAL_ERROR"}
      /\ \A q \in Requests \ {r} :
            /\ pc'[q] = pc[q] /\ fetched'[q] = fetched[q] /\ reply'[q] = reply[q]
            /\ snap'[q] = snap[q] /\ blk'[q] = blk[q]
  <2>1. code \in Codes
    BY DEF Codes
  <2>2. reply'[r] = [code |-> code, alternatives |-> {}]
    BY <1>1 DEF Answer, Typed, TypeOK
  <2>3. QED
    BY <1>1, <2>2 DEF Answer, Goto, Typed, TypeOK
<1>3. (PriorAnswered /\ IdsMatch /\ BlockersAnswered)'
  BY <1>2 DEF PriorAnswered, IdsMatch, BlockersAnswered
<1>31. failures > 0 => failures' > 0
  BY RequestsAssumption DEF AnswerWritten, Typed, TypeOK
<1>4. OwnBookings'
  BY <1>2, <1>31 DEF OwnBookings, BookingIds
<1>5. RefusalLeavesNoTrace'
  BY <1>2, <1>31 DEF RefusalLeavesNoTrace, Landed, HeldUnheard
<1>6. \A q \in Requests : r \notin prior[q]
  BY DEF PriorAnswered
<1>7. SnapshotCurrent'
  BY <1>2, <1>6 DEF SnapshotCurrent, HasBookings, IsPlacement, IsConfirmed
<1>8. BlocksCurrent'
  BY <1>0, <1>2, <1>6 DEF BlocksCurrent, HasBlocks, IsPlacement
<1>9. Validated'
  <2>1. ASSUME NEW q \in Requests, (pc[q] = "commit" /\ IsPlacement(q))'
        PROVE  ~SlotClash(call[q].sty, StartAt(q), EndAt(q), Others(q), blk[q])'
    <3>1. q # r /\ pc[q] = "commit" /\ IsPlacement(q)
      BY <1>2, <2>1 DEF IsPlacement
    <3>2. ~SlotClash(call[q].sty, StartAt(q), EndAt(q), Others(q), blk[q])
      BY <3>1 DEF Validated
    <3>3. /\ StartAt(q)' = StartAt(q) /\ EndAt(q)' = EndAt(q)
          /\ Others(q)' = Others(q) /\ blk'[q] = blk[q]
      BY <1>2, <3>1 DEF StartAt, EndAt, Others, TargetOf, DurationOf, ServiceOf
    <3>4. QED
      BY <3>2, <3>3 DEF SlotClash
  <2>2. QED
    BY <2>1 DEF Validated
<1>10. QED
  BY <1>3, <1>4, <1>5, <1>7, <1>8, <1>9

\* The write of a create that runs its transaction again.
LEMMA RerunTraced ==
  ASSUME Typed, Traced, NEW r \in Requests, pc[r] = "commit", call[r].op = "create",
         RunAgain(r), UNCHANGED <<call, prior, blocks>>,
         bookings'[r].id = r, bookings'[r] # NoDoc, placedBy'[r] = r,
         bookings'[r].svc = call[r].svc,
         \A b \in BookingIds \ {r} : bookings'[b] = bookings[b] /\ placedBy'[b] = placedBy[b]
  PROVE  Traced'
<1> USE DEF Traced
<1>1. UNCHANGED <<pc, reply, fetched, snap, blk>> /\ failures' > 0
  BY RequestsAssumption DEF RunAgain, locals, Typed, TypeOK
<1>2. (PriorAnswered /\ OwnBookings /\ IdsMatch /\ BlockersAnswered)'
  BY <1>1 DEF PriorAnswered, OwnBookings, IdsMatch, BlockersAnswered, BookingIds
<1>3. RefusalLeavesNoTrace'
  BY <1>1 DEF RefusalLeavesNoTrace, Landed, HeldUnheard
<1>4. \A q \in Requests : r \notin prior[q]
  BY DEF PriorAnswered
<1>5. SnapshotCurrent'
  BY <1>1, <1>4 DEF SnapshotCurrent, HasBookings, IsPlacement, IsConfirmed
<1>6. BlocksCurrent'
  BY <1>1 DEF BlocksCurrent, HasBlocks, IsPlacement
<1>7. Validated'
  BY <1>1 DEF Validated, IsPlacement, SlotClash, StartAt, EndAt, Others, TargetOf,
              DurationOf, ServiceOf
<1>8. QED
  BY <1>2, <1>3, <1>5, <1>6, <1>7

\* Moving on to a phase where nothing new has been loaded or checked.
LEMMA GotoTraced ==
  ASSUME Typed, Traced, NEW r \in Requests, pc[r] \notin {"idle", "commit", "done"},
         NEW phase \in {"load", "window", "resolveMove", "commit"}, Goto(r, phase),
         phase = "commit" => call[r].op = "cancel",
         fetched' \in [Requests -> Doc \cup {NoDoc}],
         \A q \in Requests \ {r} : fetched'[q] = fetched[q],
         UNCHANGED <<call, prior, failures, database, snap, blk, reply>>
  PROVE  Traced'
<1>1. pc'[r] = phase /\ \A q \in Requests \ {r} : pc'[q] = pc[q]
  BY DEF Goto, Typed, TypeOK
<1>2. ~HasBookings(r)' /\ ~HasBlocks(r)' /\ ~(pc[r] = "commit" /\ IsPlacement(r))'
  BY <1>1 DEF HasBookings, HasBlocks, IsPlacement
<1>3. QED
  BY <1>1, <1>2, LocalStepTraced

LEMMA ResolveTraced ==
  ASSUME Typed, Traced, NEW r \in Requests, ResolveContext(r) \/ ResolveMove(r)
  PROVE  Traced'
<1>1. CASE ResolveContext(r)
  <2>1. CASE \E code \in Codes : Answer(r, code, {})
    BY <1>1, <2>1, RefusalTraced DEF ResolveContext
  <2>2. CASE Goto(r, "load") /\ UNCHANGED <<reply, locals>>
    BY <1>1, <2>2, GotoTraced DEF ResolveContext, locals, Typed, TypeOK
  <2>3. QED
    BY <1>1, <2>1, <2>2 DEF ResolveContext, ContextVerdict, ServiceVerdict, Codes
<1>2. CASE ResolveMove(r)
  <2>1. CASE \E code \in Codes : Answer(r, code, {})
    BY <1>2, <2>1, RefusalTraced DEF ResolveMove
  <2>2. CASE Goto(r, "load") /\ UNCHANGED <<reply, locals>>
    BY <1>2, <2>2, GotoTraced DEF ResolveMove, locals, Typed, TypeOK
  <2>3. QED
    BY <1>2, <2>1, <2>2 DEF ResolveMove, MoveVerdict, Codes
<1>3. QED
  BY <1>1, <1>2

\* The queries read everything that stands, whoever wrote it.
LEMMA LoadTraced ==
  ASSUME Typed, Traced, NEW r \in Requests, LoadBookings(r) \/ LoadBlocks(r)
  PROVE  Traced'
<1>1. CASE LoadBookings(r)
  <2>1. PICK phase \in {"needBlocks", "validate"} :
          Goto(r, phase) /\ (phase = "validate" => pc[r] = "needBookings")
    BY <1>1 DEF LoadBookings
  <2>2. /\ pc'[r] = phase /\ pc[r] \in {"load", "needBookings"}
        /\ \A q \in Requests \ {r} : pc'[q] = pc[q] /\ snap'[q] = snap[q]
        /\ snap'[r] = Confirmed
    BY <1>1, <2>1 DEF LoadBookings, Goto, Typed, TypeOK
  <2>3. \A b \in BookingIds : IsConfirmed(b) => bookings[b] \in snap'[r]
    BY <2>2 DEF Confirmed, IsConfirmed
  <2>4. HasBlocks(r)' => HasBlocks(r)
    BY <1>1, <2>1, <2>2 DEF LoadBookings, HasBlocks, IsPlacement
  <2>5. HasBlocks(r)' => \A x \in blocks : x.by = "seed" \/ x.by \in prior[r] => x \in blk'[r]
    BY <1>1, <2>4 DEF Traced, BlocksCurrent, LoadBookings
  <2>6. QED
    BY <1>1, <2>2, <2>3, <2>5, LocalStepTraced DEF LoadBookings
<1>2. CASE LoadBlocks(r)
  <2>1. PICK phase \in {"needBookings", "validate"} :
          Goto(r, phase) /\ (phase = "validate" => pc[r] = "needBlocks")
    BY <1>2 DEF LoadBlocks
  <2>2. /\ pc'[r] = phase /\ pc[r] \in {"load", "needBlocks"}
        /\ \A q \in Requests \ {r} : pc'[q] = pc[q] /\ blk'[q] = blk[q]
        /\ blk'[r] = blocks
    BY <1>2, <2>1 DEF LoadBlocks, Goto, Typed, TypeOK
  <2>3. HasBookings(r)' => HasBookings(r)
    BY <1>2, <2>1, <2>2 DEF LoadBlocks, HasBookings, IsPlacement
  <2>4. HasBookings(r)' => \A b \in BookingIds :
            IsConfirmed(b) /\ placedBy[b] \in prior[r] => bookings[b] \in snap'[r]
    BY <1>2, <2>3 DEF Traced, SnapshotCurrent, LoadBlocks
  <2>5. QED
    BY <1>2, <2>2, <2>4, LocalStepTraced DEF LoadBlocks
<1>3. QED
  BY <1>1, <1>2

LEMMA ValidateTraced ==
  ASSUME Typed, Traced, NEW r \in Requests, AssertSlotIsValid(r)
  PROVE  Traced'
<1> DEFINE verdict == SlotVerdict(call[r].sty, DurationOf(r), call[r].date,
                                  call[r].start, Others(r), blk[r], now)
<1>1. pc[r] = "validate" /\ UNCHANGED <<call, prior, failures, database>>
  BY DEF AssertSlotIsValid
<1>2. CASE verdict = "OK" /\ Goto(r, "commit") /\ UNCHANGED <<reply, locals>>
  <2>1. /\ pc'[r] = "commit"
        /\ \A q \in Requests \ {r} : pc'[q] = pc[q]
        /\ fetched' = fetched /\ snap' = snap /\ blk' = blk /\ reply' = reply
    BY <1>2 DEF Goto, Typed, TypeOK, locals
  <2>2. ~SlotClash(call[r].sty, StartAt(r), EndAt(r), Others(r), blk[r])
    BY <1>2 DEF SlotVerdict, StartAt, EndAt
  <2>3. /\ StartAt(r)' = StartAt(r) /\ EndAt(r)' = EndAt(r) /\ Others(r)' = Others(r)
        /\ IsPlacement(r)' <=> IsPlacement(r)
    BY <1>1, <2>1 DEF StartAt, EndAt, Others, TargetOf, DurationOf, ServiceOf, IsPlacement
  <2>4. (~SlotClash(call[r].sty, StartAt(r), EndAt(r), Others(r), blk[r]))'
    BY <1>1, <2>1, <2>2, <2>3 DEF SlotClash
  <2>5. IsPlacement(r)' => HasBookings(r) /\ HasBlocks(r)
    BY <1>1, <2>3 DEF HasBookings, HasBlocks
  <2>6. /\ HasBookings(r)' => \A b \in BookingIds :
              IsConfirmed(b) /\ placedBy[b] \in prior[r] => bookings[b] \in snap'[r]
        /\ HasBlocks(r)' => \A x \in blocks :
              x.by = "seed" \/ x.by \in prior[r] => x \in blk'[r]
    BY <2>1, <2>5 DEF Traced, SnapshotCurrent, BlocksCurrent, HasBookings, HasBlocks
  <2>7. QED
    BY <1>1, <2>1, <2>4, <2>6, LocalStepTraced
<1>3. CASE Answer(r, verdict, Alternatives(r)) \/ Answer(r, verdict, {})
  BY <1>1, <1>3, RefusalTraced
<1>4. QED
  BY <1>2, <1>3 DEF AssertSlotIsValid

LEMMA FetchTraced ==
  ASSUME Typed, Traced, NEW r \in Requests, RequireBooking(r) \/ CheckCancellationWindow(r)
  PROVE  Traced'
<1>1. CASE RequireBooking(r)
  <2>1. CASE Answer(r, "BOOKING_NOT_FOUND", {})
    BY <1>1, <2>1, RefusalTraced DEF RequireBooking
  <2>2. CASE /\ fetched' = [fetched EXCEPT ![r] = bookings[call[r].id]]
             /\ Goto(r, "window") /\ UNCHANGED <<snap, blk, reply>>
    <3>1. call[r].id \in BookingIds
      BY <1>1, CallFields DEF RequireBooking, Typed, HandlersFit, PhaseFits
    <3>2. fetched' \in [Requests -> Doc \cup {NoDoc}]
      BY <2>2, <3>1 DEF Typed, TypeOK
    <3>3. QED
      BY <1>1, <2>2, <3>2, GotoTraced DEF RequireBooking, Typed, TypeOK
  <2>3. QED
    BY <1>1, <2>1, <2>2 DEF RequireBooking
<1>2. CASE CheckCancellationWindow(r)
  <2>1. CASE Answer(r, "WITHIN_CANCELLATION_WINDOW", {})
    BY <1>2, <2>1, RefusalTraced DEF CheckCancellationWindow
  <2>2. CASE /\ Goto(r, IF call[r].op = "cancel" THEN "commit" ELSE "resolveMove")
             /\ UNCHANGED <<reply, locals>>
    <3>1. PICK phase \in {"commit", "resolveMove"} :
            Goto(r, phase) /\ (phase = "commit" => call[r].op = "cancel")
      BY <2>2
    <3>2. QED
      BY <1>2, <2>2, <3>1, GotoTraced DEF CheckCancellationWindow, locals, Typed, TypeOK
  <2>3. QED
    BY <1>2, <2>1, <2>2 DEF CheckCancellationWindow
<1>3. QED
  BY <1>1, <1>2

LEMMA CommitTraced ==
  ASSUME Typed, Traced, NEW r \in Requests,
         RunTransaction(r) \/ UpdateCancelled(r) \/ UpdateMoved(r) \/ AddBlock(r)
  PROVE  Traced'
<1>1. pc[r] = "commit" /\ DataFits(r) /\ r \in BookingIds /\ UNCHANGED <<call, prior>>
  BY DEF Typed, HandlersFit, BookingIds, RunTransaction, UpdateCancelled, UpdateMoved, AddBlock
<1>2. CASE RunTransaction(r)
  <2>1. CASE Answer(r, "SLOT_TAKEN", Alternatives(r)) /\ UNCHANGED <<failures, database>>
    BY <1>1, <2>1, RefusalTraced
  <2>2. CASE /\ bookings' = [bookings EXCEPT ![r] = NewBooking(r)]
             /\ placedBy' = [placedBy EXCEPT ![r] = r]
             /\ AnswerWritten(r) \/ RunAgain(r)
             /\ UNCHANGED blocks
    <3>1. /\ NewBooking(r).id = r /\ NewBooking(r).status = "confirmed"
          /\ NewBooking(r).svc = call[r].svc
      BY DEF NewBooking
    <3>2. NewBooking(r) # NoDoc
      BY <3>1, NoDocIsNoDoc
    <3>3. /\ bookings'[r] = NewBooking(r) /\ placedBy'[r] = r
          /\ \A b \in BookingIds \ {r} : bookings'[b] = bookings[b] /\ placedBy'[b] = placedBy[b]
      BY <1>1, <2>2 DEF Typed, TypeOK
    <3>4. CASE AnswerWritten(r)
      BY <1>1, <1>2, <2>2, <3>1, <3>2, <3>3, <3>4, WriteTraced DEF RunTransaction
    <3>5. CASE RunAgain(r)
      BY <1>1, <1>2, <2>2, <3>1, <3>2, <3>3, <3>5, RerunTraced DEF RunTransaction
    <3>6. QED
      BY <2>2, <3>4, <3>5
  <2>3. QED
    BY <1>2, <2>1, <2>2 DEF RunTransaction
<1>3. CASE UpdateCancelled(r)
  <2> DEFINE b0 == call[r].id
  <2>1. b0 \in BookingIds /\ bookings[b0] \in Doc
    BY <1>1, <1>3, TargetsAreIds DEF UpdateCancelled, Cancelled, DataFits, Placing, Typed
  <2>2. /\ bookings'[b0] = [bookings[b0] EXCEPT !.status = "cancelled"]
        /\ \A b \in BookingIds \ {b0} : bookings'[b] = bookings[b]
        /\ placedBy' = placedBy /\ blocks' = blocks
    BY <1>3, <2>1 DEF UpdateCancelled, Cancelled, Typed, TypeOK
  <2>3. /\ bookings[b0] # NoDoc /\ bookings[b0].id = b0
        /\ bookings'[b0].id = bookings[b0].id /\ bookings'[b0].status = "cancelled"
        /\ bookings'[b0].svc = bookings[b0].svc
    BY <2>1, <2>2, NoDocIsNoDoc DEF Traced, IdsMatch, Doc
  <2>4. QED
    BY <1>1, <1>3, <2>1, <2>2, <2>3, NoDocIsNoDoc, WriteTraced DEF UpdateCancelled
<1>4. CASE UpdateMoved(r)
  <2> DEFINE b0 == call[r].id
  <2>1. b0 \in BookingIds /\ bookings[b0] \in Doc
    BY <1>1, <1>4, TargetsAreIds DEF UpdateMoved, DataFits, Placing, Typed
  <2>2. /\ bookings'[b0] = Moved(bookings[b0], r) /\ placedBy'[b0] = r
        /\ \A b \in BookingIds \ {b0} : bookings'[b] = bookings[b] /\ placedBy'[b] = placedBy[b]
        /\ blocks' = blocks
    BY <1>4, <2>1 DEF UpdateMoved, Typed, TypeOK
  <2>3. /\ bookings[b0] # NoDoc /\ bookings[b0].id = b0
        /\ bookings'[b0].id = bookings[b0].id /\ bookings'[b0].status = bookings[b0].status
        /\ bookings'[b0].svc = bookings[b0].svc
        /\ bookings[b0].status \in Statuses
    BY <2>1, <2>2, NoDocIsNoDoc DEF Traced, IdsMatch, Doc, Moved
  <2>4. bookings'[b0] # NoDoc
    BY <2>3 DEF NoDoc, Statuses
  <2>5. QED
    BY <1>1, <1>4, <2>1, <2>2, <2>3, <2>4, WriteTraced DEF UpdateMoved
<1>5. CASE AddBlock(r)
  <2>1. bookings' = bookings /\ placedBy' = placedBy /\ \A x \in blocks' : x \in blocks \/ x.by = r
    BY <1>5 DEF AddBlock
  <2>2. QED
    BY <1>1, <1>5, <2>1, WriteTraced DEF AddBlock
<1>6. QED
  BY <1>2, <1>3, <1>4, <1>5

LEMMA ArriveTraced ==
  ASSUME Typed, Traced, NEW r \in Requests, Arrive(r)
  PROVE  Traced'
<1>1. PICK c \in Calls : call' = [call EXCEPT ![r] = c] /\ Goto(r, FirstPhase(c))
  BY DEF Arrive
<1>2. /\ pc[r] = "idle" /\ pc'[r] \in {"resolve", "commit", "fetch"}
      /\ pc'[r] = "commit" => call'[r].op = "block"
  <2>1. FirstPhase(c) \in {"resolve", "commit", "fetch"} /\ (FirstPhase(c) = "commit" => c.op = "block")
    BY DEF FirstPhase
  <2>2. QED
    BY <1>1, <2>1 DEF Arrive, Goto, Typed, TypeOK
<1>3. /\ \A q \in Requests \ {r} :
            pc'[q] = pc[q] /\ call'[q] = call[q] /\ prior'[q] = prior[q]
      /\ prior'[r] = Seeded \cup Answered
      /\ UNCHANGED <<reply, fetched, snap, blk, bookings, blocks, placedBy>>
  BY <1>1 DEF Arrive, Goto, Typed, TypeOK, locals, database
<1>4. PriorAnswered'
  BY <1>2, <1>3, RequestsAssumption DEF Traced, PriorAnswered, Answered
<1>5. (OwnBookings /\ IdsMatch /\ BlockersAnswered)'
  BY <1>2, <1>3 DEF Traced, OwnBookings, IdsMatch, BlockersAnswered, Arrive
<1>6. RefusalLeavesNoTrace'
  BY <1>2, <1>3 DEF Traced, RefusalLeavesNoTrace, Landed, HeldUnheard, Arrive
<1>7. /\ ~HasBookings(r)' /\ ~HasBlocks(r)' /\ ~(pc[r] = "commit" /\ IsPlacement(r))'
  BY <1>2 DEF HasBookings, HasBlocks, IsPlacement
<1>8. ASSUME NEW q \in Requests \ {r}
      PROVE  /\ HasBookings(q)' <=> HasBookings(q)
             /\ HasBlocks(q)' <=> HasBlocks(q)
             /\ IsPlacement(q)' <=> IsPlacement(q)
             /\ StartAt(q)' = StartAt(q) /\ EndAt(q)' = EndAt(q) /\ Others(q)' = Others(q)
  BY <1>3 DEF HasBookings, HasBlocks, IsPlacement, StartAt, EndAt, Others, TargetOf,
              DurationOf, ServiceOf
<1>9. (SnapshotCurrent /\ BlocksCurrent)'
  BY <1>3, <1>7, <1>8 DEF Traced, SnapshotCurrent, BlocksCurrent, IsConfirmed
<1>10. Validated'
  <2>1. ASSUME NEW q \in Requests, (pc[q] = "commit" /\ IsPlacement(q))'
        PROVE  ~SlotClash(call[q].sty, StartAt(q), EndAt(q), Others(q), blk[q])'
    <3>1. q # r
      BY <1>7, <2>1
    <3>2. ~SlotClash(call[q].sty, StartAt(q), EndAt(q), Others(q), blk[q])
      BY <1>3, <1>8, <2>1, <3>1 DEF Traced, Validated
    <3>3. QED
      BY <1>3, <1>8, <3>1, <3>2 DEF SlotClash
  <2>2. QED
    BY <2>1 DEF Validated
<1>11. QED
  BY <1>4, <1>5, <1>6, <1>9, <1>10 DEF Traced

LEMMA TracedInit == Init => Traced
<1> SUFFICES ASSUME Init PROVE Traced
  OBVIOUS
<1>1. \A r \in Requests : bookings[r] = NoDoc /\ pc[r] = "idle" /\ prior[r] = {}
  BY RequestsAssumption DEF Init, BookingIds
<1>2. (PriorAnswered /\ OwnBookings) /\ SnapshotCurrent /\ Validated
  BY <1>1 DEF PriorAnswered, OwnBookings, SnapshotCurrent, Validated, HasBookings
<1>3. IdsMatch
  BY SeedAssumption DEF Init, IdsMatch
<1>4. RefusalLeavesNoTrace
  BY <1>1 DEF Init, RefusalLeavesNoTrace
<1>5. BlocksCurrent /\ BlockersAnswered
  BY <1>1, SeedAssumption, RequestsAssumption DEF Init, BlocksCurrent, HasBlocks, BlockersAnswered
<1>6. QED
  BY <1>2, <1>3, <1>4, <1>5 DEF Traced

LEMMA TracedNext == Typed /\ Traced /\ [Next]_vars => Traced'
<1> SUFFICES ASSUME Typed, Traced, [Next]_vars PROVE Traced'
  OBVIOUS
<1>1. ASSUME NEW r \in Requests, Arrive(r) PROVE Traced'
  BY <1>1, ArriveTraced
<1>2. ASSUME NEW r \in Requests, Step(r) PROVE Traced'
  BY <1>2, ResolveTraced, LoadTraced, ValidateTraced, FetchTraced, CommitTraced DEF Step
<1>3. ASSUME NEW r \in Requests, StoreFails(r) PROVE Traced'
  <2>1. failures > 0 => failures' > 0
    BY <1>3, RequestsAssumption DEF StoreFails, Typed, TypeOK
  <2>2. QED
    BY <1>3, <2>1, RefusalTraced DEF StoreFails
<1>4. CASE Tick \/ UNCHANGED vars
  <2>1. UNCHANGED <<bookings, blocks, pc, call, fetched, snap, blk, reply, failures,
                    placedBy, prior>>
    BY <1>4 DEF Tick, vars, locals, database
  <2>2. /\ (PriorAnswered /\ OwnBookings /\ IdsMatch /\ RefusalLeavesNoTrace)'
        /\ BlockersAnswered'
    BY <2>1 DEF Traced, PriorAnswered, OwnBookings, IdsMatch, RefusalLeavesNoTrace, Landed,
                HeldUnheard, BlockersAnswered
  <2>3. (SnapshotCurrent /\ BlocksCurrent)'
    BY <2>1 DEF Traced, SnapshotCurrent, BlocksCurrent, HasBookings, HasBlocks, IsPlacement,
                IsConfirmed
  <2>4. Validated'
    BY <2>1 DEF Traced, Validated, IsPlacement, SlotClash, StartAt, EndAt, Others, TargetOf,
                DurationOf, ServiceOf
  <2>5. QED
    BY <2>2, <2>3, <2>4 DEF Traced
<1>5. QED
  BY <1>1, <1>2, <1>3, <1>4 DEF Next

LEMMA AlwaysTraced == Spec => []Traced
  BY TracedInit, TracedNext, AlwaysTyped, PTL DEF Spec

\* No refused request leaves a booking created or moved behind, however its
\* handler interleaves with the others and whichever database calls fail; only
\* a create whose commit was not acknowledged may be told that the slot is
\* taken which its own booking holds.
THEOREM NoTraceOfRefusals == Spec => []RefusalLeavesNoTrace
<1>1. Traced => RefusalLeavesNoTrace
  BY DEF Traced
<1>2. QED
  BY <1>1, AlwaysTraced, PTL

-----------------------------------------------------------------------------
(* Which steps give a booking a slot                                       *)

\* r's write gives booking b the slot r asked for.
Places(r, b) ==
    /\ pc[r] = "commit" /\ IsPlacement(r) /\ TargetOf(r) = b
    /\ placedBy'[b] = r
    /\ \A c \in BookingIds \ {b} : bookings'[c] = bookings[c] /\ placedBy'[c] = placedBy[c]
    /\ bookings'[b].sty = call[r].sty
    /\ bookings'[b].startAt = StartAt(r) /\ bookings'[b].endAt = EndAt(r)
    /\ call[r].op = "create" => b = r /\ ~TransactionClash(r)
    /\ call[r].op = "reschedule" => b # r
    /\ UNCHANGED <<blocks, prior>>

\* A booking that is confirmed after a step kept its slot in the step, or was
\* given it by a placement.
LEMMA SlotsComeFromPlacements ==
  ASSUME Typed, Traced, [Next]_vars, NEW b \in BookingIds, IsConfirmed(b)'
  PROVE  \/ bookings'[b] = bookings[b] /\ placedBy'[b] = placedBy[b]
         \/ \E r \in Requests : Places(r, b)
<1>1. CASE UNCHANGED <<bookings, placedBy>>
  BY <1>1
<1>2. ASSUME NEW r \in Requests, RunTransaction(r), ~TransactionClash(r),
             bookings' = [bookings EXCEPT ![r] = NewBooking(r)],
             placedBy' = [placedBy EXCEPT ![r] = r], UNCHANGED blocks
      PROVE  \/ bookings'[b] = bookings[b] /\ placedBy'[b] = placedBy[b]
             \/ \E q \in Requests : Places(q, b)
  <2>1. /\ bookings'[r] = NewBooking(r) /\ placedBy'[r] = r
        /\ \A c \in BookingIds \ {r} : bookings'[c] = bookings[c] /\ placedBy'[c] = placedBy[c]
    BY <1>2 DEF Typed, TypeOK, BookingIds
  <2>2. pc[r] = "commit" /\ call[r].op = "create" /\ prior' = prior
    BY <1>2 DEF RunTransaction
  <2>3. Places(r, r)
    BY <1>2, <2>1, <2>2 DEF Places, NewBooking, IsPlacement, TargetOf
  <2>4. QED
    BY <2>1, <2>3
<1>3. ASSUME NEW r \in Requests, UpdateMoved(r)
      PROVE  \/ bookings'[b] = bookings[b] /\ placedBy'[b] = placedBy[b]
             \/ \E q \in Requests : Places(q, b)
  <2> DEFINE b0 == call[r].id
  <2>1. /\ pc[r] = "commit" /\ call[r].op = "reschedule" /\ prior' = prior /\ blocks' = blocks
        /\ bookings[b0] \in Doc /\ b0 \in BookingIds
    BY <1>3, TargetsAreIds DEF UpdateMoved, Typed, HandlersFit, DataFits, Placing
  <2>2. /\ bookings'[b0] = Moved(bookings[b0], r) /\ placedBy'[b0] = r
        /\ \A c \in BookingIds \ {b0} : bookings'[c] = bookings[c] /\ placedBy'[c] = placedBy[c]
    BY <1>3, <2>1 DEF UpdateMoved, Typed, TypeOK
  <2>3. b0 # r
    BY <2>1, NoDocIsNoDoc DEF Traced, OwnBookings
  <2>4. /\ bookings'[b0].sty = call[r].sty /\ bookings'[b0].startAt = StartAt(r)
        /\ bookings'[b0].endAt = EndAt(r)
    BY <2>1, <2>2 DEF Moved, Doc
  <2>5. Places(r, b0)
    BY <2>1, <2>2, <2>3, <2>4 DEF Places, IsPlacement, TargetOf
  <2>6. QED
    BY <2>2, <2>5
<1>4. ASSUME NEW r \in Requests, UpdateCancelled(r)
      PROVE  bookings'[b] = bookings[b] /\ placedBy'[b] = placedBy[b]
  <2>1. bookings[call[r].id] \in Doc /\ call[r].id \in BookingIds
    BY <1>4, TargetsAreIds DEF UpdateCancelled, Cancelled, Typed, HandlersFit, DataFits, Placing
  <2>2. bookings'[call[r].id].status = "cancelled"
    BY <1>4, <2>1 DEF UpdateCancelled, Cancelled, Typed, TypeOK, Doc
  <2>3. b # call[r].id
    BY <2>2 DEF IsConfirmed
  <2>4. QED
    BY <1>4, <2>3 DEF UpdateCancelled, Cancelled, Typed, TypeOK
<1>5. CASE UNCHANGED vars
  BY <1>5 DEF vars
<1>6. ASSUME NEW r \in Requests, Step(r)
      PROVE  \/ bookings'[b] = bookings[b] /\ placedBy'[b] = placedBy[b]
             \/ \E q \in Requests : Places(q, b)
  <2>1. CASE RunTransaction(r)
    BY <1>1, <1>2, <2>1 DEF RunTransaction, database
  <2>2. CASE UpdateCancelled(r) \/ UpdateMoved(r)
    BY <1>3, <1>4, <2>2
  <2>3. CASE \/ ResolveContext(r) \/ LoadBookings(r) \/ LoadBlocks(r) \/ AssertSlotIsValid(r)
             \/ RequireBooking(r) \/ CheckCancellationWindow(r) \/ ResolveMove(r) \/ AddBlock(r)
    BY <1>1, <2>3 DEF ResolveContext, LoadBookings, LoadBlocks, AssertSlotIsValid,
         RequireBooking, CheckCancellationWindow, ResolveMove, AddBlock, database
  <2>4. QED
    BY <1>6, <2>1, <2>2, <2>3 DEF Step
<1>7. ASSUME NEW r \in Requests, Arrive(r) \/ StoreFails(r) \/ Tick
      PROVE  UNCHANGED <<bookings, placedBy>>
  BY <1>7 DEF Arrive, StoreFails, Tick, database
<1>8. CASE Tick
  BY <1>8 DEF Tick, database
<1>9. QED
  BY <1>1, <1>5, <1>6, <1>7, <1>8 DEF Next

\* Two bookings that collide after a step collided before, unchanged, or one
\* of them was placed in the step and the other one was left alone.
LEMMA CollisionsComeFromPlacements ==
  ASSUME Typed, Traced, [Next]_vars, NEW a \in BookingIds, NEW b \in BookingIds, Collide(a, b)'
  PROVE  \/ /\ Collide(a, b)
            /\ placedBy'[a] = placedBy[a] /\ placedBy'[b] = placedBy[b]
         \/ \E r \in Requests : \/ Places(r, a) /\ bookings'[b] = bookings[b] /\ a # b
                                \/ Places(r, b) /\ bookings'[a] = bookings[a] /\ a # b
<1>1. IsConfirmed(a)' /\ IsConfirmed(b)' /\ a # b
  BY DEF Collide
<1>2. CASE /\ bookings'[a] = bookings[a] /\ placedBy'[a] = placedBy[a]
           /\ bookings'[b] = bookings[b] /\ placedBy'[b] = placedBy[b]
  BY <1>2 DEF Collide, IsConfirmed
<1>3. CASE \E r \in Requests : Places(r, a)
  BY <1>1, <1>3 DEF Places
<1>4. CASE \E r \in Requests : Places(r, b)
  BY <1>1, <1>4 DEF Places
<1>5. QED
  BY <1>1, <1>2, <1>3, <1>4, SlotsComeFromPlacements

-----------------------------------------------------------------------------
(* Double bookings                                                         *)

\* Creates never double-book, for any number of requests: whenever two
\* confirmed bookings of a stylist overlap, a reschedule wrote one of them.
\* The transaction of createBooking is what carries the proof.
THEOREM NoOverlapWithoutMove == Spec => []OverlapNeedsMove
<1>1. Init => OverlapNeedsMove
  <2> SUFFICES ASSUME Init, NEW a \in BookingIds, NEW b \in BookingIds, Collide(a, b)
               PROVE  FALSE
    BY DEF OverlapNeedsMove
  <2>1. a \in Seeded /\ b \in Seeded
    BY NoDocIsNoDoc DEF Init, Collide, IsConfirmed
  <2>2. QED
    BY <2>1, SeedAssumption DEF Init, Collide
<1>2. Typed /\ Traced /\ OverlapNeedsMove /\ [Next]_vars => OverlapNeedsMove'
  <2> SUFFICES ASSUME Typed, Traced, OverlapNeedsMove, [Next]_vars,
                      NEW a \in BookingIds, NEW b \in BookingIds, Collide(a, b)'
               PROVE  placedBy'[a] # a \/ placedBy'[b] # b
    BY DEF OverlapNeedsMove
  <2>1. CASE /\ Collide(a, b)
             /\ placedBy'[a] = placedBy[a] /\ placedBy'[b] = placedBy[b]
    BY <2>1 DEF OverlapNeedsMove
  <2>2. ASSUME NEW r \in Requests, NEW x \in BookingIds, NEW y \in BookingIds,
               Places(r, x), bookings'[y] = bookings[y], Collide(x, y)'
        PROVE  placedBy'[x] # x
    <3>1. CASE call[r].op = "reschedule"
      BY <2>2, <3>1 DEF Places
    <3>2. CASE call[r].op = "create"
      <4>1. bookings[y] \in OfStylist(call[r].sty, Confirmed)
        BY <2>2 DEF Places, Collide, IsConfirmed, OfStylist, Confirmed
      <4>2. ~Overlaps(StartAt(r), EndAt(r), bookings[y].startAt, bookings[y].endAt)
        BY <2>2, <3>2, <4>1 DEF Places, TransactionClash, Clashes
      <4>3. QED
        BY <2>2, <4>2 DEF Places, Collide
    <3>3. QED
      BY <2>2, <3>1, <3>2 DEF Places, IsPlacement
  <2>3. Collide(b, a)'
    BY OverlapsSymmetric DEF Collide
  <2>4. QED
    BY <2>1, <2>2, <2>3, CollisionsComeFromPlacements
<1>3. QED
  BY <1>1, <1>2, AlwaysTyped, AlwaysTraced, PTL DEF Spec

\* A salon whose clients only create and cancel is never double-booked.
THEOREM CreatesNeverDoubleBook ==
  ASSUME RescheduleCalls = {}
  PROVE  Spec => []NoDoubleBooking
<1> DEFINE Own == \A b \in BookingIds : placedBy[b] = b
<1>1. Init => Own
  BY DEF Init
<1>2. Typed /\ Own /\ [Next]_vars => Own'
  <2> SUFFICES ASSUME Typed, Own, [Next]_vars PROVE Own'
    OBVIOUS
  <2>1. ASSUME NEW r \in Requests PROVE ~UpdateMoved(r)
    <3>1. call[r] \in Calls => call[r].op # "reschedule"
      BY CallKinds
    <3>2. QED
      BY <3>1 DEF UpdateMoved, Typed, TypeOK, NoCall
  <2>2. ASSUME NEW r \in Requests, Step(r) PROVE Own'
    <3>1. CASE RunTransaction(r)
      BY <3>1 DEF RunTransaction, database, Typed, TypeOK
    <3>2. CASE \/ ResolveContext(r) \/ LoadBookings(r) \/ LoadBlocks(r) \/ AssertSlotIsValid(r)
               \/ RequireBooking(r) \/ CheckCancellationWindow(r) \/ UpdateCancelled(r)
               \/ ResolveMove(r) \/ AddBlock(r)
      BY <3>2 DEF ResolveContext, LoadBookings, LoadBlocks, AssertSlotIsValid,
         RequireBooking, CheckCancellationWindow, UpdateCancelled, ResolveMove, AddBlock, database
    <3>3. QED
      BY <2>1, <2>2, <3>1, <3>2 DEF Step
  <2>3. CASE UNCHANGED vars
    BY <2>3 DEF vars
  <2>4. ASSUME NEW r \in Requests, Arrive(r) \/ StoreFails(r) PROVE Own'
    BY <2>4 DEF Arrive, StoreFails, database
  <2>5. CASE Tick
    BY <2>5 DEF Tick, database
  <2>6. QED
    BY <2>2, <2>3, <2>4, <2>5 DEF Next
<1>3. Own /\ OverlapNeedsMove => NoDoubleBooking
  BY DEF OverlapNeedsMove, NoDoubleBooking
<1>4. QED
  BY <1>1, <1>2, <1>3, AlwaysTyped, NoOverlapWithoutMove, PTL DEF Spec

\* Who was answered before a placer arrived is settled once it has arrived.
LEMMA PriorSettled ==
  ASSUME Typed, [Next]_vars, NEW x \in BookingIds, x \in Requests => pc[x] # "idle"
  PROVE  PriorTo(x)' = PriorTo(x)
<1>1. ASSUME NEW r \in Requests, Arrive(r) PROVE x # r /\ \A q \in Requests \ {r} : prior'[q] = prior[q]
  BY <1>1 DEF Arrive, Typed, TypeOK
<1>2. ASSUME NEW r \in Requests, Step(r) \/ StoreFails(r) PROVE prior' = prior
  BY <1>2 DEF Step, ResolveContext, LoadBookings, LoadBlocks, AssertSlotIsValid, RunTransaction,
     RequireBooking, CheckCancellationWindow, UpdateCancelled, ResolveMove, UpdateMoved, AddBlock,
     StoreFails
<1>3. CASE Tick \/ UNCHANGED vars
  BY <1>3 DEF Tick, vars, PriorTo
<1>4. QED
  BY <1>1, <1>2, <1>3 DEF Next, PriorTo

\* Any collision is the work of two requests that were in flight together: a
\* client that waits for each answer before it sends the next request never
\* meets one, reschedules included.
THEOREM CollisionsTakeARace == Spec => []OverlapOnlyIfConcurrent
<1>1. Init => OverlapOnlyIfConcurrent
  <2> SUFFICES ASSUME Init, NEW a \in BookingIds, NEW b \in BookingIds, Collide(a, b)
               PROVE  FALSE
    BY DEF OverlapOnlyIfConcurrent
  <2>1. a \in Seeded /\ b \in Seeded
    BY NoDocIsNoDoc DEF Init, Collide, IsConfirmed
  <2>2. QED
    BY <2>1, SeedAssumption DEF Init, Collide
<1>2. Typed /\ Traced /\ OverlapOnlyIfConcurrent /\ [Next]_vars => OverlapOnlyIfConcurrent'
  <2> SUFFICES ASSUME Typed, Traced, OverlapOnlyIfConcurrent, [Next]_vars,
                      NEW a \in BookingIds, NEW b \in BookingIds, Collide(a, b)'
               PROVE  (/\ placedBy[a] \notin PriorTo(placedBy[b])
                       /\ placedBy[b] \notin PriorTo(placedBy[a]))'
    BY DEF OverlapOnlyIfConcurrent
  <2>1. ASSUME NEW x \in BookingIds, bookings[x] # NoDoc
        PROVE  placedBy[x] \in BookingIds /\ (placedBy[x] \in Requests => pc[placedBy[x]] # "idle")
    BY <2>1 DEF Typed, TypeOK, Traced, RefusalLeavesNoTrace, Landed, HeldUnheard
  <2>2. CASE /\ Collide(a, b)
             /\ placedBy'[a] = placedBy[a] /\ placedBy'[b] = placedBy[b]
    <3>1. bookings[a] # NoDoc /\ bookings[b] # NoDoc
      BY <2>2, NoDocIsNoDoc DEF Collide, IsConfirmed
    <3>2. /\ PriorTo(placedBy[a])' = PriorTo(placedBy[a])
          /\ PriorTo(placedBy[b])' = PriorTo(placedBy[b])
      <4>1. /\ placedBy[a] \in BookingIds /\ (placedBy[a] \in Requests => pc[placedBy[a]] # "idle")
            /\ placedBy[b] \in BookingIds /\ (placedBy[b] \in Requests => pc[placedBy[b]] # "idle")
        BY <2>1, <3>1
      <4>2. /\ \A p \in BookingIds : (p \in Requests => pc[p] # "idle") => PriorTo(p)' = PriorTo(p)
        BY PriorSettled
      <4>3. QED
        BY <2>2, <4>1, <4>2 DEF PriorTo
    <3>3. QED
      BY <2>2, <3>2 DEF OverlapOnlyIfConcurrent
  <2>3. ASSUME NEW r \in Requests, NEW x \in BookingIds, NEW y \in BookingIds, x # y,
               Places(r, x), bookings'[y] = bookings[y], Collide(x, y)'
        PROVE  (/\ placedBy[x] \notin PriorTo(placedBy[y])
                /\ placedBy[y] \notin PriorTo(placedBy[x]))'
    <3>1. /\ placedBy'[x] = r /\ placedBy'[y] = placedBy[y] /\ prior' = prior
          /\ r \notin Seeded
      BY <2>3, RequestsAssumption DEF Places
    <3>2. bookings[y] # NoDoc /\ IsConfirmed(y)
      BY <2>3, NoDocIsNoDoc DEF Collide, IsConfirmed
    <3>3. r \notin PriorTo(placedBy[y])'
      BY <2>1, <2>3, <3>1, <3>2 DEF PriorTo, Traced, PriorAnswered, Places
    <3>4. ASSUME placedBy[y] \in prior[r]
          PROVE  FALSE
      <4>1. HasBookings(r) /\ TargetOf(r) = x
        BY <2>3 DEF Places, HasBookings
      <4>2. bookings[y] \in snap[r] /\ bookings[y].id = y
        BY <3>2, <3>4, <4>1 DEF Traced, SnapshotCurrent, IdsMatch
      <4>3. bookings[y] \in OfStylist(call[r].sty, Others(r))
        BY <2>3, <4>1, <4>2 DEF Others, OfStylist, Places, Collide
      <4>4. ~Overlaps(StartAt(r), EndAt(r), bookings[y].startAt, bookings[y].endAt)
        BY <2>3, <4>3 DEF Traced, Validated, Places, SlotClash, Clashes
      <4>5. QED
        BY <2>3, <4>4 DEF Places, Collide
    <3>5. QED
      BY <3>1, <3>3, <3>4 DEF PriorTo
  <2>4. Collide(b, a)'
    BY OverlapsSymmetric DEF Collide
  <2>5. QED
    BY <2>2, <2>3, <2>4, CollisionsComeFromPlacements
<1>3. QED
  BY <1>1, <1>2, AlwaysTyped, AlwaysTraced, PTL DEF Spec

\* A new block carries the name of a request that was not answered yet.
LEMMA BlocksComeFromRequests ==
  ASSUME [Next]_vars, NEW x \in blocks'
  PROVE  x \in blocks \/ \E r \in Requests : pc[r] = "commit" /\ x.by = r
<1>1. ASSUME NEW r \in Requests, AddBlock(r)
      PROVE  x \in blocks \/ (x.by = r /\ pc[r] = "commit")
  BY <1>1 DEF AddBlock
<1>2. ASSUME NEW r \in Requests,
             \/ ResolveContext(r) \/ LoadBookings(r) \/ LoadBlocks(r) \/ AssertSlotIsValid(r)
             \/ RequireBooking(r) \/ CheckCancellationWindow(r) \/ ResolveMove(r)
             \/ Arrive(r) \/ StoreFails(r)
      PROVE  blocks' = blocks
  BY <1>2 DEF ResolveContext, LoadBookings, LoadBlocks, AssertSlotIsValid, RequireBooking,
     CheckCancellationWindow, ResolveMove, Arrive, StoreFails, database
<1>3. ASSUME NEW r \in Requests, RunTransaction(r) \/ UpdateCancelled(r) \/ UpdateMoved(r)
      PROVE  blocks' = blocks
  BY <1>3 DEF RunTransaction, UpdateCancelled, UpdateMoved, database
<1>4. CASE Tick \/ UNCHANGED vars
  BY <1>4 DEF Tick, vars, database
<1>5. QED
  BY <1>1, <1>2, <1>3, <1>4 DEF Next, Step

\* No request ever puts a booking over a block that stood when it arrived,
\* although no write checks the blocks again.
THEOREM HolidaysAreKept == Spec => []HolidayRespected
<1>1. Init => HolidayRespected
  BY NoDocIsNoDoc, RequestsAssumption, SeedAssumption DEF Init, HolidayRespected, IsConfirmed
<1>2. Typed /\ Traced /\ HolidayRespected /\ [Next]_vars => HolidayRespected'
  <2> SUFFICES ASSUME Typed, Traced, HolidayRespected, [Next]_vars,
                      NEW b \in BookingIds, NEW x \in blocks',
                      IsConfirmed(b)', placedBy'[b] \in Requests,
                      x.sty \in {Everyone, bookings'[b].sty},
                      x.by = "seed" \/ x.by \in prior'[placedBy'[b]]
               PROVE  ~Overlaps(bookings'[b].startAt, bookings'[b].endAt, x.startAt, x.endAt)
    BY DEF HolidayRespected
  <2>1. CASE bookings'[b] = bookings[b] /\ placedBy'[b] = placedBy[b]
    <3>1. bookings[b] # NoDoc /\ IsConfirmed(b)
      BY <2>1, NoDocIsNoDoc DEF IsConfirmed
    <3>2. pc[placedBy[b]] # "idle"
      BY <2>1, <3>1 DEF Traced, RefusalLeavesNoTrace, Landed, HeldUnheard
    <3>3. prior'[placedBy[b]] = prior[placedBy[b]]
      BY <2>1, <3>2, PriorSettled DEF PriorTo, BookingIds
    <3>4. x \in blocks
      <4>1. x \in blocks \/ \E r \in Requests : pc[r] = "commit" /\ x.by = r
        BY BlocksComeFromRequests
      <4>2. QED
        BY <2>1, <3>3, <4>1, RequestsAssumption DEF Traced, PriorAnswered
    <3>5. QED
      BY <2>1, <3>1, <3>3, <3>4 DEF HolidayRespected
  <2>2. ASSUME NEW r \in Requests, Places(r, b)
        PROVE  ~Overlaps(bookings'[b].startAt, bookings'[b].endAt, x.startAt, x.endAt)
    <3>1. /\ x \in blocks /\ placedBy'[b] = r /\ prior' = prior /\ HasBlocks(r)
          /\ bookings'[b].sty = call[r].sty
      BY <2>2 DEF Places, HasBlocks
    <3>2. x \in BlocksOf(call[r].sty, blk[r])
      BY <3>1 DEF Traced, BlocksCurrent, BlocksOf
    <3>3. ~Overlaps(StartAt(r), EndAt(r), x.startAt, x.endAt)
      BY <2>2, <3>2 DEF Traced, Validated, Places, SlotClash, Clashes
    <3>4. QED
      BY <2>2, <3>3 DEF Places
  <2>3. QED
    BY <2>1, <2>2, SlotsComeFromPlacements
<1>3. QED
  BY <1>1, <1>2, AlwaysTyped, AlwaysTraced, PTL DEF Spec
=============================================================================
