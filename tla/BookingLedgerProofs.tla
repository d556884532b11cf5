-------------------------- MODULE BookingLedgerProofs --------------------------
(***************************************************************************)
(* The booking endpoints implement BookingLedger, for every salon and      *)
(* every set of requests, and what follows from it.                        *)
(***************************************************************************)
EXTENDS BookingServiceProofs

-----------------------------------------------------------------------------
(* What a handler has established by the time it writes                    *)

\* A request that has arrived keeps its call.
Asked == \A r \in Requests : pc[r] = "idle" <=> call[r] = NoCall

\* The booking a handler read is still one of the same service.
SameService(r) ==
    pc[r] \in Placing \cup {"window", "resolveMove"} /\ call[r].op \in {"cancel", "reschedule"}
        => fetched[r].svc = bookings[call[r].id].svc

\* From the load on the stylist is known to perform the service, a created one
\* takes time, and at the write the slot is within the stylist's hours.
Skilled(r) ==
    /\ pc[r] \in Placing /\ IsPlacement(r) => ServiceOf(r) \in Performs[call[r].sty]
    /\ pc[r] \in Placing /\ call[r].op = "create" => DurationMinutes[call[r].svc] # 0

InHours(r) ==
    pc[r] = "commit" /\ IsPlacement(r) =>
        /\ EffectiveHours(call[r].sty, call[r].date).isOpen
        /\ ~OutsideHours(call[r].sty, call[r].date, call[r].start, DurationOf(r))

Prepared == Asked /\ \A r \in Requests : SameService(r) /\ Skilled(r) /\ InHours(r)

LEMMA CallsHaveKinds == NoCall \notin Calls /\ NoCall.op = "none"
  BY CallFields DEF NoCall, Calls

\* A step of one handler that leaves its call alone and loses no service keeps
\* the other handlers prepared.
LEMMA LocalStepPrepared ==
  ASSUME Typed, Prepared, NEW r \in Requests, pc[r] # "idle", pc'[r] # "idle",
         call' = call,
         \A q \in Requests \ {r} : pc'[q] = pc[q] /\ fetched'[q] = fetched[q],
         \A b \in BookingIds : bookings[b] \in Doc => bookings'[b].svc = bookings[b].svc,
         (SameService(r) /\ Skilled(r) /\ InHours(r))'
  PROVE  Prepared'
<1>1. Asked'
  BY DEF Prepared, Asked
<1>2. ASSUME NEW q \in Requests, q # r
      PROVE  (SameService(q) /\ Skilled(q) /\ InHours(q))'
  <2>1. /\ ServiceOf(q)' = ServiceOf(q) /\ DurationOf(q)' = DurationOf(q)
        /\ IsPlacement(q)' <=> IsPlacement(q)
    BY <1>2 DEF ServiceOf, DurationOf, IsPlacement
  <2>2. SameService(q)'
    <3>1. /\ pc[q] \in Placing \cup {"window", "resolveMove"}
          /\ call[q].op \in {"cancel", "reschedule"}
          => bookings[call[q].id] \in Doc /\ call[q].id \in BookingIds
      BY TargetsAreIds DEF Typed, HandlersFit, DataFits
    <3>2. QED
      BY <1>2, <3>1 DEF Prepared, SameService
  <2>3. Skilled(q)' /\ InHours(q)'
    BY <1>2, <2>1 DEF Prepared, Skilled, InHours
  <2>4. QED
    BY <2>2, <2>3
<1>3. QED
  BY <1>1, <1>2 DEF Prepared

\* An answer puts the handler to rest, where nothing is asked of it.
LEMMA AnswerPrepared ==
  ASSUME Typed, Prepared, NEW r \in Requests, pc[r] # "idle", call' = call,
         NEW code \in Codes, NEW alts, Answer(r, code, alts),
         \A b \in BookingIds : bookings[b] \in Doc => bookings'[b].svc = bookings[b].svc
  PROVE  Prepared'
<1>1. /\ pc'[r] = "done"
      /\ \A q \in Requests \ {r} : pc'[q] = pc[q] /\ fetched'[q] = fetched[q]
  BY DEF Answer, Goto, Typed, TypeOK
<1>2. (SameService(r) /\ Skilled(r) /\ InHours(r))'
  BY <1>1 DEF SameService, Skilled, InHours, Placing
<1>3. QED
  BY <1>1, <1>2, LocalStepPrepared

\* And so does a step that moves it on to its next phase.
LEMMA GotoPrepared ==
  ASSUME Typed, Prepared, NEW r \in Requests, NEW phase \in Phases, Goto(r, phase),
         pc[r] # "idle", phase # "idle", UNCHANGED <<call, bookings>>,
         \A q \in Requests \ {r} : fetched'[q] = fetched[q],
         (SameService(r) /\ Skilled(r) /\ InHours(r))'
  PROVE  Prepared'
<1>1. pc'[r] = phase /\ \A q \in Requests \ {r} : pc'[q] = pc[q]
  BY DEF Goto, Typed, TypeOK
<1>2. QED
  BY <1>1, LocalStepPrepared

LEMMA ResolvePrepared ==
  ASSUME Typed, Prepared, NEW r \in Requests, ResolveContext(r) \/ ResolveMove(r)
  PROVE  Prepared'
<1>1. UNCHANGED <<call, bookings>> /\ pc[r] # "idle"
  BY DEF ResolveContext, ResolveMove, database
<1>2. ASSUME NEW code \in Codes, Answer(r, code, {})
      PROVE  Prepared'
  BY <1>1, <1>2, AnswerPrepared
<1>3. ASSUME Goto(r, "load"), UNCHANGED locals, IsPlacement(r),
             ServiceOf(r) \in Performs[call[r].sty],
             call[r].op = "create" => DurationMinutes[call[r].svc] # 0,
             call[r].op = "reschedule" => fetched[r].svc = bookings[call[r].id].svc
      PROVE  Prepared'
  <2>1. pc'[r] = "load" /\ fetched' = fetched
    BY <1>3 DEF Goto, Typed, TypeOK, locals
  <2>2. (SameService(r) /\ Skilled(r) /\ InHours(r))'
    BY <1>1, <1>3, <2>1 DEF SameService, Skilled, InHours, ServiceOf, IsPlacement
  <2>3. QED
    BY <1>1, <1>3, <2>1, <2>2, GotoPrepared DEF Phases
<1>4. CASE ResolveContext(r)
  <2> DEFINE verdict == ContextVerdict(call[r].svc, call[r].sty)
  <2>1. verdict \in Codes
    BY DEF ContextVerdict, ServiceVerdict, Codes
  <2>2. call[r].op = "create"
    BY <1>4, CallFields DEF ResolveContext, Typed, HandlersFit, PhaseFits
  <2>3. verdict = "OK" => /\ ServiceOf(r) \in Performs[call[r].sty]
                          /\ DurationMinutes[call[r].svc] # 0
    BY <2>2 DEF ContextVerdict, ServiceVerdict, ServiceOf
  <2>4. QED
    BY <1>2, <1>3, <1>4, <2>1, <2>2, <2>3 DEF ResolveContext, IsPlacement
<1>5. CASE ResolveMove(r)
  <2> DEFINE verdict == MoveVerdict(fetched[r].svc, call[r].sty)
  <2>1. verdict \in Codes
    BY DEF MoveVerdict, Codes
  <2>2. call[r].op = "reschedule"
    BY <1>5, CallFields DEF ResolveMove, Typed, HandlersFit, PhaseFits
  <2>3. verdict = "OK" => ServiceOf(r) \in Performs[call[r].sty]
    BY <2>2 DEF MoveVerdict, ServiceOf
  <2>4. fetched[r].svc = bookings[call[r].id].svc
    BY <1>5, <2>2 DEF ResolveMove, Prepared, SameService
  <2>5. QED
    BY <1>2, <1>3, <1>5, <2>1, <2>2, <2>3, <2>4 DEF ResolveMove, IsPlacement
<1>6. QED
  BY <1>4, <1>5

LEMMA LoadPrepared ==
  ASSUME Typed, Prepared, NEW r \in Requests, LoadBookings(r) \/ LoadBlocks(r)
  PROVE  Prepared'
<1>1. /\ pc[r] \in Placing \ {"commit"}
      /\ UNCHANGED <<call, bookings, fetched>>
  BY DEF LoadBookings, LoadBlocks, database, Placing
<1>2. PICK phase \in {"needBlocks", "needBookings", "validate"} : Goto(r, phase)
  BY DEF LoadBookings, LoadBlocks
<1>3. pc'[r] = phase
  BY <1>2 DEF Goto, Typed, TypeOK
<1>4. (SameService(r) /\ Skilled(r) /\ InHours(r))'
  BY <1>1, <1>3 DEF Prepared, SameService, Skilled, InHours, ServiceOf, IsPlacement, Placing
<1>5. QED
  BY <1>1, <1>2, <1>4, GotoPrepared DEF Phases, Placing

LEMMA ValidatePrepared ==
  ASSUME Typed, Prepared, NEW r \in Requests, AssertSlotIsValid(r)
  PROVE  Prepared'
<1> DEFINE verdict == SlotVerdict(call[r].sty, DurationOf(r), call[r].date,
                                  call[r].start, Others(r), blk[r], now)
<1>1. pc[r] = "validate" /\ UNCHANGED <<call, bookings>> /\ verdict \in Codes
  BY DEF AssertSlotIsValid, SlotVerdict, database, Codes
<1>2. CASE verdict = "OK" /\ Goto(r, "commit") /\ UNCHANGED <<reply, locals>>
  <2>1. pc'[r] = "commit" /\ fetched' = fetched
    BY <1>2 DEF Goto, Typed, TypeOK, locals
  <2>2. DurationOf(r)' = DurationOf(r) /\ ServiceOf(r)' = ServiceOf(r)
    BY <1>1, <2>1 DEF DurationOf, ServiceOf
  <2>3. InHours(r)'
    BY <1>1, <1>2, <2>2 DEF InHours, SlotVerdict
  <2>4. SameService(r)' /\ Skilled(r)'
    BY <1>1, <2>1, <2>2 DEF Prepared, SameService, Skilled, IsPlacement, Placing
  <2>5. QED
    BY <1>1, <1>2, <2>1, <2>3, <2>4, GotoPrepared DEF Phases
<1>3. CASE Answer(r, verdict, Alternatives(r)) \/ Answer(r, verdict, {})
  BY <1>1, <1>3, AnswerPrepared
<1>4. QED
  BY <1>2, <1>3 DEF AssertSlotIsValid

LEMMA FetchPrepared ==
  ASSUME Typed, Prepared, NEW r \in Requests, RequireBooking(r) \/ CheckCancellationWindow(r)
  PROVE  Prepared'
<1>1. /\ UNCHANGED <<call, bookings>> /\ pc[r] \in {"fetch", "window"}
      /\ call[r].op \in {"cancel", "reschedule"}
  BY CallFields DEF RequireBooking, CheckCancellationWindow, database, Typed, HandlersFit, PhaseFits
<1>2. ASSUME NEW code \in Codes, Answer(r, code, {})
      PROVE  Prepared'
  BY <1>1, <1>2, AnswerPrepared
<1>3. CASE RequireBooking(r)
  <2>1. ASSUME fetched' = [fetched EXCEPT ![r] = bookings[call[r].id]], Goto(r, "window")
        PROVE  Prepared'
    <3>1. /\ pc'[r] = "window" /\ fetched'[r] = bookings[call[r].id]
          /\ \A q \in Requests \ {r} : fetched'[q] = fetched[q]
      BY <2>1 DEF Goto, Typed, TypeOK
    <3>2. (SameService(r) /\ Skilled(r) /\ InHours(r))'
      BY <1>1, <3>1 DEF SameService, Skilled, InHours, Placing
    <3>3. QED
      BY <1>1, <2>1, <3>1, <3>2, GotoPrepared DEF Phases
  <2>2. QED
    BY <1>2, <1>3, <2>1 DEF RequireBooking, Codes
<1>4. CASE CheckCancellationWindow(r)
  <2>1. ASSUME NEW phase \in {"commit", "resolveMove"}, Goto(r, phase), UNCHANGED locals,
               phase = "commit" => call[r].op = "cancel"
        PROVE  Prepared'
    <3>1. pc'[r] = phase /\ fetched' = fetched
      BY <2>1 DEF Goto, Typed, TypeOK, locals
    <3>2. (SameService(r) /\ Skilled(r) /\ InHours(r))'
      BY <1>1, <1>4, <2>1, <3>1 DEF CheckCancellationWindow, Prepared, SameService, Skilled,
         InHours, IsPlacement, Placing
    <3>3. QED
      BY <1>1, <2>1, <3>1, <3>2, GotoPrepared DEF Phases
  <2>2. QED
    BY <1>2, <1>4, <2>1 DEF CheckCancellationWindow, Codes
<1>5. QED
  BY <1>3, <1>4

\* What the four writes do to the book: at most one entry changes, and a
\* booking keeps its service.
LEMMA ServicesStay ==
  ASSUME Typed, Traced, NEW r \in Requests, NEW b \in BookingIds, bookings[b] \in Doc,
         RunTransaction(r) \/ UpdateCancelled(r) \/ UpdateMoved(r) \/ AddBlock(r)
  PROVE  bookings'[b].svc = bookings[b].svc
<1>1. CASE RunTransaction(r)
  <2>1. b = r => NewBooking(r).svc = bookings[b].svc
    BY NoDocIsNoDoc DEF Traced, OwnBookings, NewBooking
  <2>2. QED
    BY <1>1, <2>1 DEF RunTransaction, database, Typed, TypeOK
<1>2. CASE UpdateCancelled(r) \/ UpdateMoved(r)
  <2>1. call[r].id \in BookingIds
    BY <1>2, TargetsAreIds DEF UpdateCancelled, UpdateMoved, Typed
  <2>2. \/ bookings' = [bookings EXCEPT ![call[r].id] = Cancelled(r)]
        \/ bookings' = [bookings EXCEPT ![call[r].id] = Moved(@, r)]
    BY <1>2 DEF UpdateCancelled, UpdateMoved
  <2>3. CASE b # call[r].id
    BY <2>2, <2>3 DEF Typed, TypeOK
  <2>4. CASE b = call[r].id
    <3>1. bookings'[b] = Cancelled(r) \/ bookings'[b] = Moved(bookings[b], r)
      BY <2>2, <2>4 DEF Typed, TypeOK
    <3>2. Cancelled(r).svc = bookings[b].svc /\ Moved(bookings[b], r).svc = bookings[b].svc
      BY <2>4 DEF Cancelled, Moved, Doc
    <3>3. QED
      BY <3>1, <3>2
  <2>5. QED
    BY <2>3, <2>4
<1>3. CASE AddBlock(r)
  BY <1>3 DEF AddBlock
<1>4. QED
  BY <1>1, <1>2, <1>3

LEMMA CommitPrepared ==
  ASSUME Typed, Traced, Prepared, NEW r \in Requests,
         RunTransaction(r) \/ UpdateCancelled(r) \/ UpdateMoved(r) \/ AddBlock(r)
  PROVE  Prepared'
<1>1. pc[r] = "commit" /\ call' = call
  BY DEF RunTransaction, UpdateCancelled, UpdateMoved, AddBlock
<1>2. CASE \E code \in Codes : \E alts : Answer(r, code, alts)
  BY <1>1, <1>2, ServicesStay, AnswerPrepared
<1>3. CASE RunAgain(r)
  <2>1. UNCHANGED <<pc, fetched>>
    BY <1>3 DEF RunAgain, locals
  <2>2. call[r] \in Calls
    BY <1>1 DEF Typed, HandlersFit, PhaseFits
  <2>3. call[r].op \in {"cancel", "reschedule"} =>
           call[r].id \in BookingIds /\ bookings[call[r].id] \in Doc
    BY <1>1, TargetsAreIds DEF Typed, HandlersFit, DataFits, Placing
  <2>4. (SameService(r) /\ Skilled(r) /\ InHours(r))'
    BY <1>1, <2>1, <2>3, ServicesStay DEF Prepared, SameService, Skilled, InHours,
       IsPlacement, ServiceOf, DurationOf
  <2>5. QED
    BY <1>1, <2>1, <2>4, ServicesStay, LocalStepPrepared
<1>4. QED
  <2>1. \/ RunAgain(r)
        \/ \E c \in {"OK", "INTERNAL_ERROR", "SLOT_TAKEN"} : \E a : Answer(r, c, a)
    BY DEF RunTransaction, UpdateCancelled, UpdateMoved, AddBlock, AnswerWritten
  <2>2. QED
    BY <1>2, <1>3, <2>1 DEF Codes

LEMMA ArrivePrepared ==
  ASSUME Typed, Prepared, NEW r \in Requests, Arrive(r)
  PROVE  Prepared'
<1>1. PICK c \in Calls : call' = [call EXCEPT ![r] = c] /\ Goto(r, FirstPhase(c))
  BY DEF Arrive
<1>2. /\ pc'[r] = FirstPhase(c) /\ call'[r] = c /\ bookings' = bookings /\ fetched' = fetched
      /\ \A q \in Requests \ {r} : pc'[q] = pc[q] /\ call'[q] = call[q]
  BY <1>1 DEF Arrive, Goto, Typed, TypeOK, locals, database
<1>3. /\ FirstPhase(c) \in {"resolve", "fetch", "commit"}
      /\ FirstPhase(c) = "commit" => c.op = "block"
  BY DEF FirstPhase
<1>4. c # NoCall
  BY CallsHaveKinds
<1>5. Asked'
  BY <1>2, <1>3, <1>4 DEF Prepared, Asked
<1>6. (SameService(r) /\ Skilled(r) /\ InHours(r))'
  BY <1>2, <1>3 DEF SameService, Skilled, InHours, IsPlacement, Placing
<1>7. ASSUME NEW q \in Requests, q # r
      PROVE  (SameService(q) /\ Skilled(q) /\ InHours(q))'
  BY <1>2, <1>7 DEF Prepared, SameService, Skilled, InHours, IsPlacement, ServiceOf, DurationOf
<1>8. QED
  BY <1>5, <1>6, <1>7 DEF Prepared

LEMMA PreparedInit == Init => Prepared
  BY DEF Init, Prepared, Asked, SameService, Skilled, InHours, Placing

LEMMA PreparedNext == Typed /\ Traced /\ Prepared /\ [Next]_vars => Prepared'
<1> SUFFICES ASSUME Typed, Traced, Prepared, [Next]_vars PROVE Prepared'
  OBVIOUS
<1>1. ASSUME NEW r \in Requests, Step(r) PROVE Prepared'
  BY <1>1, ResolvePrepared, LoadPrepared, ValidatePrepared, FetchPrepared, CommitPrepared DEF Step
<1>2. ASSUME NEW r \in Requests, StoreFails(r) PROVE Prepared'
  <2>1. /\ pc[r] # "idle" /\ UNCHANGED <<call, bookings>> /\ "INTERNAL_ERROR" \in Codes
        /\ Answer(r, "INTERNAL_ERROR", {})
    BY <1>2 DEF StoreFails, database, Codes
  <2>2. QED
    BY <2>1, AnswerPrepared
<1>3. CASE Tick \/ UNCHANGED vars
  <2>1. UNCHANGED <<pc, call, fetched, bookings>>
    BY <1>3 DEF Tick, vars, locals, database
  <2>2. Asked' /\ \A r \in Requests : (SameService(r) /\ Skilled(r) /\ InHours(r))'
    BY <2>1 DEF Prepared, Asked, SameService, Skilled, InHours, IsPlacement, ServiceOf, DurationOf
  <2>3. QED
    BY <2>2 DEF Prepared
<1>4. QED
  BY <1>1, <1>2, <1>3, ArrivePrepared DEF Next

LEMMA AlwaysPrepared == Spec => []Prepared
  BY PreparedInit, PreparedNext, AlwaysTyped, AlwaysTraced, PTL DEF Spec

-----------------------------------------------------------------------------
(* The refinement                                                          *)

\* What an answer looks like in the ledger.
Outcome(code) == CASE code = "OK" -> "done"
                   [] code = "INTERNAL_ERROR" -> "failed"
                   [] OTHER -> "refused"

LEMMA TellsOf ==
  ASSUME Typed, Prepared, NEW r \in Requests, NEW code \in Codes, NEW alts,
         Answer(r, code, alts), pc[r] \notin {"idle", "done"}, UNCHANGED <<call, prior>>,
         NEW answers, Outcome(code) \in answers
  PROVE  Ledger!Tell(r, answers)
<1>1. /\ pc'[r] = "done" /\ reply'[r].code = code
      /\ \A q \in Requests \ {r} : pc'[q] = pc[q] /\ reply'[q] = reply[q]
  BY DEF Answer, Goto, Typed, TypeOK
<1>2. call[r] # Ledger!Silent
  BY DEF Prepared, Asked, NoCall, Ledger!Silent
<1>3. ToldTo(r) = "none" /\ ToldTo(r)' = Outcome(code)
  BY <1>1 DEF ToldTo, Outcome
<1>4. \A q \in Requests \ {r} : ToldTo(q)' = ToldTo(q)
  BY <1>1 DEF ToldTo
<1>5. [q \in Requests |-> ToldTo(q)]' =
        [[q \in Requests |-> ToldTo(q)] EXCEPT ![r] = Outcome(code)]
  BY <1>3, <1>4
<1>6. QED
  BY <1>2, <1>3, <1>5 DEF Ledger!Tell

\* The book and the handlers compute with the same slot engine.
LEMMA SameEngine ==
  /\ \A sty, date : Ledger!EffectiveHours(sty, date) = EffectiveHours(sty, date)
  /\ \A sty, date, start, n :
        Ledger!OutsideHours(sty, date, start, n) <=> OutsideHours(sty, date, start, n)
  /\ \A date, start : Ledger!StartOf(date, start) = StartOf(date, start)
  /\ \A date, start, n : Ledger!EndOf(date, start, n) = EndOf(date, start, n)
  /\ \A a, b, c, d : Ledger!Overlaps(a, b, c, d) <=> Overlaps(a, b, c, d)
<1>1. \A sty, date : Ledger!EffectiveHours(sty, date) = EffectiveHours(sty, date)
  BY DEF Ledger!EffectiveHours, EffectiveHours, Ledger!WeekdayOf, WeekdayOf
<1>2. \A t : Ledger!TimeToMinutes(t) = TimeToMinutes(t)
  BY DEF Ledger!TimeToMinutes, TimeToMinutes
<1>3. \A d, n : Ledger!At(d, n) = At(d, n)
  BY DEF Ledger!At, At, Ledger!DayLen, DayLen
<1>4. \A sty, date, start, n :
        Ledger!OutsideHours(sty, date, start, n) <=> OutsideHours(sty, date, start, n)
  BY <1>1, <1>2 DEF Ledger!OutsideHours, OutsideHours
<1>5. \A date, start : Ledger!StartOf(date, start) = StartOf(date, start)
  BY <1>2, <1>3 DEF Ledger!StartOf, StartOf, Ledger!LocalToUtc, LocalToUtc,
     Ledger!ParsesAsTime, ParsesAsTime, Ledger!Invalid, Invalid
<1>6. \A date, start, n : Ledger!EndOf(date, start, n) = EndOf(date, start, n)
  BY <1>2, <1>3 DEF Ledger!EndOf, EndOf
<1>7. \A a, b, c, d : Ledger!Overlaps(a, b, c, d) <=> Overlaps(a, b, c, d)
  BY DEF Ledger!Overlaps, Overlaps, Ledger!Before, Before, Ledger!Invalid, Invalid
<1>8. QED
  BY <1>1, <1>4, <1>5, <1>6, <1>7


LEMMA InitRefines == Init => Ledger!Init
  BY NoDocIsNoDoc DEF Init, Ledger!Init, ToldTo, BookingIds, NoDoc, Ledger!Absent, NoCall, Ledger!Silent

\* An arrival is a question.
LEMMA ArriveAsks ==
  ASSUME Typed, Prepared, NEW r \in Requests, Arrive(r)
  PROVE  Ledger!Ask(r)
<1>1. PICK c \in Calls : call' = [call EXCEPT ![r] = c] /\ Goto(r, FirstPhase(c))
  BY DEF Arrive
<1>2. FirstPhase(c) # "done"
  BY DEF FirstPhase
<1>3. pc[r] = "idle" /\ \A q \in Requests : pc'[q] = "done" <=> pc[q] = "done"
  BY <1>1, <1>2 DEF Arrive, Goto, Typed, TypeOK
<1>4. call[r] = Ledger!Silent
  BY <1>3 DEF Prepared, Asked, NoCall, Ledger!Silent
<1>5. \A q \in Requests : ToldTo(q)' = ToldTo(q)
  BY <1>3 DEF Arrive, ToldTo
<1>6. Ledger!Told = Answered
  BY DEF Ledger!Told, Answered, ToldTo
<1>7. QED
  BY <1>1, <1>4, <1>5, <1>6 DEF Ledger!Ask, Arrive, database

\* A step inside a handler changes nothing the book can see.
LEMMA GotoStutters ==
  ASSUME Typed, NEW r \in Requests, NEW phase, phase # "done", pc[r] # "done",
         Goto(r, phase), UNCHANGED <<call, prior, database>>, UNCHANGED reply
  PROVE  UNCHANGED Ledger!ledgerVars
<1>1. \A q \in Requests : pc'[q] = "done" <=> pc[q] = "done"
  BY DEF Goto, Typed, TypeOK
<1>2. \A q \in Requests : ToldTo(q)' = ToldTo(q)
  BY <1>1 DEF ToldTo
<1>3. QED
  BY <1>2 DEF Ledger!ledgerVars, database

\* Nor does a refusal, except that it is one.
LEMMA RefusalTurnsDown ==
  ASSUME Typed, Prepared, NEW r \in Requests, NEW code \in Codes \ {"OK"}, NEW alts,
         Answer(r, code, alts), pc[r] \notin {"idle", "done"},
         UNCHANGED <<call, prior, database>>
  PROVE  Ledger!TurnDown(r)
<1>1. Outcome(code) \in {"refused", "failed"}
  BY DEF Outcome
<1>2. Ledger!Tell(r, {"refused", "failed"})
  BY <1>1, TellsOf
<1>3. QED
  BY <1>2 DEF Ledger!TurnDown, database

\* A write acknowledged or not is told as done or as failed.
LEMMA WrittenTells ==
  ASSUME Typed, Prepared, NEW r \in Requests, AnswerWritten(r), pc[r] = "commit",
         UNCHANGED <<call, prior>>
  PROVE  Ledger!Tell(r, {"done", "failed"})
<1>1. PICK code \in {"OK", "INTERNAL_ERROR"} : Answer(r, code, {})
  BY DEF AnswerWritten
<1>2. code \in Codes /\ Outcome(code) \in {"done", "failed"}
  BY DEF Codes, Outcome
<1>3. QED
  BY <1>1, <1>2, TellsOf

\* What a handler about to write a slot has checked is what the book asks for.
LEMMA ServableAtCommit ==
  ASSUME Typed, Prepared, NEW r \in Requests, pc[r] = "commit", IsPlacement(r)
  PROVE  Ledger!Servable(call[r], ServiceOf(r))
<1>1. call[r].sty \in Stylists
  BY PlacementTyped DEF IsPlacement, Placing
<1>2. Skilled(r) /\ InHours(r)
  BY DEF Prepared
<1>3. QED
  BY <1>1, <1>2, SameEngine DEF Ledger!Servable, Skilled, InHours, Placing, DurationOf

\* A transaction run again is told nobody.
LEMMA RerunTellsNobody ==
  ASSUME NEW r \in Requests, RunAgain(r), pc[r] = "commit", UNCHANGED <<call, prior>>
  PROVE  /\ [q \in Requests |-> ToldTo(q)][r] = "none"
         /\ UNCHANGED <<call, [q \in Requests |-> ToldTo(q)], prior>>
<1>1. \A q \in Requests : ToldTo(q)' = ToldTo(q)
  BY DEF RunAgain, ToldTo
<1>2. ToldTo(r) = "none"
  BY DEF ToldTo
<1>3. QED
  BY <1>1, <1>2

LEMMA CreatePlaces ==
  ASSUME Typed, Traced, Prepared, NEW r \in Requests, RunTransaction(r)
  PROVE  Ledger!Place(r) \/ Ledger!PlaceUnheard(r) \/ Ledger!TurnDown(r)
<1>1. pc[r] = "commit" /\ call[r].op = "create" /\ IsPlacement(r) /\ UNCHANGED <<call, prior>>
  BY DEF RunTransaction, IsPlacement
<1>2. CASE Answer(r, "SLOT_TAKEN", Alternatives(r)) /\ UNCHANGED database
  BY <1>1, <1>2, RefusalTurnsDown DEF Codes
<1>3. CASE /\ ~TransactionClash(r)
           /\ bookings' = [bookings EXCEPT ![r] = NewBooking(r)]
           /\ placedBy' = [placedBy EXCEPT ![r] = r]
           /\ AnswerWritten(r) \/ RunAgain(r)
  <2>2. ServiceOf(r) = call[r].svc /\ Ledger!Servable(call[r], call[r].svc)
    BY <1>1, ServableAtCommit DEF ServiceOf
  <2>3. Ledger!IsFree(call[r], call[r].svc, Ledger!Standing)
    <3>1. SUFFICES ASSUME NEW b \in Ledger!Standing, bookings[b].sty = call[r].sty
                   PROVE  ~Overlaps(StartAt(r), EndAt(r), bookings[b].startAt, bookings[b].endAt)
      BY <2>2, SameEngine DEF Ledger!IsFree, StartAt, EndAt, DurationOf
    <3>2. bookings[b] \in Confirmed
      BY DEF Ledger!Standing, Confirmed, BookingIds
    <3>3. QED
      BY <1>3, <3>1, <3>2 DEF TransactionClash, Clashes, OfStylist
  <2>4. NewBooking(r) = [id |-> r, svc |-> call[r].svc, sty |-> call[r].sty,
                         startAt |-> Ledger!StartOf(call[r].date, call[r].start),
                         endAt |-> Ledger!EndOf(call[r].date, call[r].start,
                                                DurationMinutes[call[r].svc]),
                         status |-> "confirmed"]
    BY <2>2, SameEngine DEF NewBooking, StartAt, EndAt, DurationOf
  <2>5. Ledger!Enter(r)
    BY <1>1, <1>3, <2>2, <2>3, <2>4 DEF Ledger!Enter
  <2>6. CASE AnswerWritten(r)
    BY <1>1, <2>5, <2>6, WrittenTells DEF Ledger!Place
  <2>7. CASE RunAgain(r)
    BY <1>1, <2>5, <2>7, RerunTellsNobody DEF Ledger!PlaceUnheard
  <2>8. QED
    BY <1>3, <2>6, <2>7
<1>4. QED
  BY <1>2, <1>3 DEF RunTransaction

LEMMA CancelStrikes ==
  ASSUME Typed, Prepared, NEW r \in Requests, UpdateCancelled(r)
  PROVE  Ledger!Strike(r)
<1>1. pc[r] = "commit" /\ call[r].op = "cancel" /\ UNCHANGED <<call, prior, placedBy>>
  BY DEF UpdateCancelled
<1>2. bookings[call[r].id] \in Doc
  BY <1>1 DEF Typed, HandlersFit, DataFits, Placing
<1>3. bookings[call[r].id] # Ledger!Absent
  BY <1>2, NoDocIsNoDoc DEF NoDoc, Ledger!Absent
<1>4. Ledger!Tell(r, {"done", "failed"})
  BY <1>1, WrittenTells DEF UpdateCancelled
<1>5. QED
  BY <1>1, <1>3, <1>4 DEF Ledger!Strike, UpdateCancelled, Cancelled

LEMMA MoveShifts ==
  ASSUME Typed, Traced, Prepared, NEW r \in Requests, UpdateMoved(r)
  PROVE  Ledger!Shift(r)
<1> DEFINE b0 == call[r].id
<1>1. /\ pc[r] = "commit" /\ call[r].op = "reschedule" /\ IsPlacement(r)
      /\ UNCHANGED <<call, prior>> /\ b0 \in BookingIds
  BY TargetsAreIds DEF UpdateMoved, IsPlacement, Typed
<1>2. bookings[b0] \in Doc
  BY <1>1 DEF Typed, HandlersFit, DataFits, Placing
<1>3. bookings[b0] # Ledger!Absent
  BY <1>2, NoDocIsNoDoc DEF NoDoc, Ledger!Absent
<1>4. ServiceOf(r) = bookings[b0].svc
  BY <1>1 DEF Prepared, SameService, ServiceOf, Placing
<1>5. Ledger!Servable(call[r], bookings[b0].svc)
  BY <1>1, <1>4, ServableAtCommit
<1>6. Ledger!IsFree(call[r], bookings[b0].svc,
                    {b \in Ledger!Standing \ {b0} : placedBy[b] \in prior[r]})
  <2>1. SUFFICES ASSUME NEW b \in Ledger!Standing \ {b0}, placedBy[b] \in prior[r],
                        bookings[b].sty = call[r].sty
                 PROVE  ~Overlaps(StartAt(r), EndAt(r), bookings[b].startAt, bookings[b].endAt)
    BY <1>4, SameEngine DEF Ledger!IsFree, StartAt, EndAt, DurationOf
  <2>2. b \in BookingIds /\ IsConfirmed(b) /\ bookings[b].id = b
    BY NoDocIsNoDoc DEF Ledger!Standing, BookingIds, IsConfirmed, Traced, IdsMatch
  <2>3. bookings[b] \in snap[r]
    BY <1>1, <2>1, <2>2 DEF Traced, SnapshotCurrent, HasBookings
  <2>4. bookings[b] \in OfStylist(call[r].sty, Others(r))
    BY <1>1, <2>1, <2>2, <2>3 DEF OfStylist, Others, TargetOf
  <2>5. QED
    BY <1>1, <2>4 DEF Traced, Validated, SlotClash, Clashes
<1>7. Ledger!Tell(r, {"done", "failed"})
  BY <1>1, WrittenTells DEF UpdateMoved
<1>8. bookings' = [bookings EXCEPT
          ![b0].sty = call[r].sty,
          ![b0].startAt = Ledger!StartOf(call[r].date, call[r].start),
          ![b0].endAt = Ledger!EndOf(call[r].date, call[r].start,
                                     DurationMinutes[bookings[b0].svc])]
  <2>1. /\ StartAt(r) = Ledger!StartOf(call[r].date, call[r].start)
        /\ EndAt(r) = Ledger!EndOf(call[r].date, call[r].start, DurationMinutes[bookings[b0].svc])
    BY <1>4, SameEngine DEF StartAt, EndAt, DurationOf
  <2>2. QED
    BY <1>1, <1>2, <2>1 DEF UpdateMoved, Moved, Typed, TypeOK, Doc
<1>9. QED
  BY <1>1, <1>3, <1>5, <1>6, <1>7, <1>8 DEF Ledger!Shift, UpdateMoved

LEMMA BlockCloses ==
  ASSUME Typed, Prepared, NEW r \in Requests, AddBlock(r)
  PROVE  Ledger!Close(r)
<1>1. Ledger!Tell(r, {"done", "failed"})
  BY WrittenTells DEF AddBlock
<1>2. QED
  BY <1>1 DEF Ledger!Close, AddBlock

\* Up to the write a handler either moves on or refuses.
LEMMA ReadsStutter ==
  ASSUME Typed, Prepared, NEW r \in Requests,
         \/ ResolveContext(r) \/ ResolveMove(r) \/ LoadBookings(r) \/ LoadBlocks(r)
         \/ AssertSlotIsValid(r) \/ RequireBooking(r) \/ CheckCancellationWindow(r)
  PROVE  Ledger!TurnDown(r) \/ UNCHANGED Ledger!ledgerVars
<1>1. pc[r] \notin {"idle", "done", "commit"} /\ UNCHANGED <<call, prior, database>>
  BY DEF ResolveContext, ResolveMove, LoadBookings, LoadBlocks, AssertSlotIsValid,
     RequireBooking, CheckCancellationWindow
<1>2. \/ \E phase \in Phases \ {"done"} : Goto(r, phase) /\ UNCHANGED reply
      \/ \E code \in Codes \ {"OK"}, alts \in {{}, Alternatives(r)} : Answer(r, code, alts)
  <2>1. CASE ResolveContext(r)
    BY <2>1 DEF ResolveContext, ContextVerdict, ServiceVerdict, Codes, Phases
  <2>2. CASE ResolveMove(r)
    BY <2>2 DEF ResolveMove, MoveVerdict, Codes, Phases
  <2>3. CASE LoadBookings(r) \/ LoadBlocks(r)
    BY <2>3 DEF LoadBookings, LoadBlocks, Phases
  <2>4. CASE AssertSlotIsValid(r)
    <3> DEFINE verdict == SlotVerdict(call[r].sty, DurationOf(r), call[r].date,
                                      call[r].start, Others(r), blk[r], now)
    <3>1. verdict \in Codes
      BY DEF SlotVerdict, Codes
    <3>2. \/ Goto(r, "commit") /\ UNCHANGED reply
          \/ verdict # "OK" /\ \E alts \in {{}, Alternatives(r)} : Answer(r, verdict, alts)
      BY <2>4 DEF AssertSlotIsValid
    <3>3. QED
      BY <3>1, <3>2 DEF Phases
  <2>5. CASE RequireBooking(r)
    BY <2>5 DEF RequireBooking, Codes, Phases
  <2>6. CASE CheckCancellationWindow(r)
    BY <2>6 DEF CheckCancellationWindow, Codes, Phases
  <2>7. QED
    BY <2>1, <2>2, <2>3, <2>4, <2>5, <2>6
<1>3. QED
  BY <1>1, <1>2, GotoStutters, RefusalTurnsDown

LEMMA NextRefines ==
  Typed /\ Traced /\ Prepared /\ [Next]_vars => [Ledger!Next]_(Ledger!ledgerVars)
<1> SUFFICES ASSUME Typed, Traced, Prepared, [Next]_vars
             PROVE  Ledger!Next \/ UNCHANGED Ledger!ledgerVars
  OBVIOUS
<1>1. ASSUME NEW r \in Requests, Step(r)
      PROVE  Ledger!Next \/ UNCHANGED Ledger!ledgerVars
  BY <1>1, ReadsStutter, CreatePlaces, CancelStrikes, MoveShifts, BlockCloses DEF Step, Ledger!Next
<1>2. ASSUME NEW r \in Requests, StoreFails(r)
      PROVE  Ledger!Next
  <2>1. /\ pc[r] \notin {"idle", "done"} /\ UNCHANGED <<call, prior, database>>
        /\ "INTERNAL_ERROR" \in Codes \ {"OK"} /\ Answer(r, "INTERNAL_ERROR", {})
    BY <1>2 DEF StoreFails, Codes
  <2>2. QED
    BY <2>1, RefusalTurnsDown DEF Ledger!Next
<1>3. CASE Tick \/ UNCHANGED vars
  <2>1. UNCHANGED <<pc, reply, call, prior, bookings, placedBy>>
    BY <1>3 DEF Tick, vars, database
  <2>2. QED
    BY <2>1 DEF Ledger!ledgerVars, ToldTo
<1>4. QED
  BY <1>1, <1>2, <1>3, ArriveAsks DEF Next, Ledger!Next

\* The four endpoints, with all their reads, snapshots, checks and failures,
\* are the book in which every request acts at once, except that a create may
\* act unheard, and again, before it is answered: any history a client or a
\* reader of the collection can see is one of BookingLedger.
THEOREM ServiceImplementsLedger == Spec => ImplementsLedger
<1>1. Spec => Ledger!Init /\ [][Ledger!Next]_(Ledger!ledgerVars)
  BY InitRefines, NextRefines, AlwaysTyped, AlwaysTraced, AlwaysPrepared, PTL DEF Spec
<1>2. QED
  BY <1>1 DEF ImplementsLedger, Ledger!Spec


-----------------------------------------------------------------------------
(* What may happen to one booking                                          *)

\* A create writes its booking, or writes it again.
Creates(r, b) ==
    /\ RunTransaction(r) /\ b = r /\ (AnswerWritten(r) \/ RunAgain(r))
    /\ bookings[b] # NoDoc => bookings[b].svc = call[r].svc
    /\ bookings'[b] = NewBooking(r) /\ placedBy'[b] = r
Cancels(r, b) ==
    /\ UpdateCancelled(r) /\ b = call[r].id
    /\ bookings[b] \in Doc /\ bookings'[b] = [bookings[b] EXCEPT !.status = "cancelled"]
    /\ placedBy'[b] = placedBy[b]
Moves(r, b) ==
    /\ UpdateMoved(r) /\ b = call[r].id
    /\ bookings[b] \in Doc /\ bookings'[b] = Moved(bookings[b], r) /\ placedBy'[b] = r

LEMMA BookingChanges ==
  ASSUME Typed, Traced, [Next]_vars, NEW b \in BookingIds
  PROVE  \/ bookings'[b] = bookings[b] /\ placedBy'[b] = placedBy[b]
         \/ \E r \in Requests : Creates(r, b) \/ Cancels(r, b) \/ Moves(r, b)
<1>1. CASE UNCHANGED <<bookings, placedBy>>
  BY <1>1
<1>2. ASSUME NEW r \in Requests, RunTransaction(r), ~TransactionClash(r)
      PROVE  (bookings'[b] = bookings[b] /\ placedBy'[b] = placedBy[b]) \/ Creates(r, b)
  <2>1. /\ bookings' = [bookings EXCEPT ![r] = NewBooking(r)]
        /\ placedBy' = [placedBy EXCEPT ![r] = r]
        /\ AnswerWritten(r) \/ RunAgain(r)
    BY <1>2 DEF RunTransaction
  <2>2. bookings[r] # NoDoc => bookings[r].svc = call[r].svc
    BY DEF Traced, OwnBookings
  <2>3. QED
    BY <1>2, <2>1, <2>2 DEF Creates, Typed, TypeOK
<1>3. ASSUME NEW r \in Requests, UpdateCancelled(r)
      PROVE  (bookings'[b] = bookings[b] /\ placedBy'[b] = placedBy[b]) \/ Cancels(r, b)
  <2>1. bookings[call[r].id] \in Doc
    BY <1>3 DEF UpdateCancelled, Typed, HandlersFit, DataFits, Placing
  <2>2. QED
    BY <1>3, <2>1 DEF Cancels, UpdateCancelled, Cancelled, Typed, TypeOK
<1>4. ASSUME NEW r \in Requests, UpdateMoved(r)
      PROVE  (bookings'[b] = bookings[b] /\ placedBy'[b] = placedBy[b]) \/ Moves(r, b)
  <2>1. bookings[call[r].id] \in Doc
    BY <1>4 DEF UpdateMoved, Typed, HandlersFit, DataFits, Placing
  <2>2. QED
    BY <1>4, <2>1 DEF Moves, UpdateMoved, Typed, TypeOK
<1>5. ASSUME NEW r \in Requests, RunTransaction(r), TransactionClash(r)
      PROVE  UNCHANGED <<bookings, placedBy>>
  BY <1>5 DEF RunTransaction, database
<1>6. ASSUME NEW r \in Requests,
             \/ Arrive(r) \/ StoreFails(r) \/ ResolveContext(r) \/ LoadBookings(r) \/ LoadBlocks(r)
             \/ AssertSlotIsValid(r) \/ RequireBooking(r) \/ CheckCancellationWindow(r)
             \/ ResolveMove(r) \/ AddBlock(r)
      PROVE  UNCHANGED <<bookings, placedBy>>
  BY <1>6 DEF Arrive, StoreFails, ResolveContext, LoadBookings, LoadBlocks, AssertSlotIsValid,
     RequireBooking, CheckCancellationWindow, ResolveMove, AddBlock, database
<1>7. CASE Tick \/ UNCHANGED vars
  BY <1>7 DEF Tick, vars, database
<1>8. QED
  BY <1>1, <1>2, <1>3, <1>4, <1>5, <1>6, <1>7 DEF Next, Step

LEMMA CancelledStays ==
  ASSUME Typed, Traced, [Next]_vars, NEW b \in BookingIds, bookings[b].status = "cancelled",
         b \in Requests => pc[b] = "done"
  PROVE  bookings'[b].status = "cancelled"
<1>1. ASSUME NEW r \in Requests, Cancels(r, b) \/ Moves(r, b)
      PROVE  bookings'[b].status = "cancelled"
  BY <1>1 DEF Cancels, Moves, Moved, Doc
<1>2. ASSUME NEW r \in Requests PROVE ~Creates(r, b)
  BY DEF Creates, RunTransaction
<1>3. QED
  BY <1>1, <1>2, BookingChanges

\* Once its create was answered a cancelled booking stays cancelled, whatever
\* reschedule was under way when it was cancelled.
THEOREM CancelledStaysCancelled == Spec => CancelledIsFinal
<1>1. Typed /\ Traced /\ [Next]_vars =>
        \A b \in BookingIds :
          bookings[b].status = "cancelled" /\ (b \in Requests => pc[b] = "done")
          => bookings'[b].status = "cancelled"
  BY CancelledStays
<1>2. QED
  BY <1>1, AlwaysTyped, AlwaysTraced, PTL DEF Spec, CancelledIsFinal

\* Nobody but the reschedule of a booking, or its own create run again, ever
\* changes its slot, and nobody at all its service or its being there.
THEOREM SlotsAreStable == Spec => SlotChangesOnlyByMove
<1> DEFINE Same(b) == /\ bookings'[b].sty = bookings[b].sty
                      /\ bookings'[b].startAt = bookings[b].startAt
                      /\ bookings'[b].endAt = bookings[b].endAt
           ByMove(b) == \E r \in Requests : /\ call[r].op = "reschedule" /\ call[r].id = b
                                            /\ pc[r] = "commit" /\ pc'[r] = "done"
           Again(b) == /\ b \in Requests /\ call[b].op = "create" /\ pc[b] = "commit"
                       /\ bookings'[b] = NewBooking(b)
           Stays(b) == /\ bookings'[b] # NoDoc /\ bookings'[b].svc = bookings[b].svc
                       /\ Same(b) \/ ByMove(b) \/ Again(b)
<1>1. ASSUME Typed, Traced, [Next]_vars, NEW b \in BookingIds, bookings[b] # NoDoc
      PROVE  Stays(b)
  <2>1. ASSUME NEW r \in Requests, Cancels(r, b)
        PROVE  bookings'[b].status = "cancelled" /\ bookings'[b].svc = bookings[b].svc /\ Same(b)
    BY <2>1 DEF Cancels, Doc
  <2>2. ASSUME NEW r \in Requests, Moves(r, b)
        PROVE  bookings'[b] # NoDoc /\ bookings'[b].svc = bookings[b].svc /\ ByMove(b)
    <3>1. /\ bookings'[b].svc = bookings[b].svc
          /\ bookings'[b].status = bookings[b].status /\ bookings[b].status \in Statuses
      BY <2>2 DEF Moves, Moved, Doc
    <3>2. bookings'[b] # NoDoc
      BY <3>1, NoDocIsNoDoc DEF Statuses
    <3>3. pc'[r] = "done"
      BY <1>1, <2>2 DEF Moves, UpdateMoved, AnswerWritten, Answer, Goto, Typed, TypeOK
    <3>4. QED
      BY <2>2, <3>1, <3>2, <3>3 DEF Moves, UpdateMoved
  <2>3. ASSUME NEW r \in Requests, Creates(r, b)
        PROVE  bookings'[b] # NoDoc /\ bookings'[b].svc = bookings[b].svc /\ Again(b)
    BY <1>1, <2>3, NoDocIsNoDoc DEF Creates, RunTransaction, NewBooking
  <2>4. QED
    BY <1>1, <2>1, <2>2, <2>3, NoDocIsNoDoc, BookingChanges
<1>2. Typed /\ Traced /\ [Next]_vars =>
        \A b \in BookingIds : bookings[b] # NoDoc =>
          /\ bookings'[b] # NoDoc /\ bookings'[b].svc = bookings[b].svc
          /\ \/ /\ bookings'[b].sty = bookings[b].sty
                /\ bookings'[b].startAt = bookings[b].startAt
                /\ bookings'[b].endAt = bookings[b].endAt
             \/ \E r \in Requests : /\ call[r].op = "reschedule" /\ call[r].id = b
                                    /\ pc[r] = "commit" /\ pc'[r] = "done"
             \/ /\ b \in Requests /\ call[b].op = "create" /\ pc[b] = "commit"
                /\ bookings'[b] = NewBooking(b)
  BY <1>1
<1>3. QED
  BY <1>2, AlwaysTyped, AlwaysTraced, PTL DEF Spec, SlotChangesOnlyByMove

-----------------------------------------------------------------------------
(* What an answered request may rely on                                    *)

\* A request's own steps answer it, and an answer is final.
LEMMA OwnStepsOnly ==
  ASSUME Typed, [Next]_vars, NEW r \in Requests
  PROVE  /\ pc[r] # "idle" => call'[r] = call[r] /\ prior'[r] = prior[r]
         /\ pc[r] = "done" => pc'[r] = "done" /\ reply'[r] = reply[r]
         /\ pc[r] # "done" /\ pc'[r] = "done" => Step(r) \/ StoreFails(r)
<1>1. ASSUME NEW q \in Requests, Step(q) \/ StoreFails(q)
      PROVE  /\ UNCHANGED <<call, prior>> /\ pc[q] \notin {"idle", "done"}
             /\ q # r => pc'[r] = pc[r] /\ reply'[r] = reply[r]
  BY <1>1 DEF Step, StoreFails, ResolveContext, LoadBookings, LoadBlocks, AssertSlotIsValid,
     RunTransaction, RequireBooking, CheckCancellationWindow, UpdateCancelled, ResolveMove,
     UpdateMoved, AddBlock, AnswerWritten, RunAgain, Answer, Goto, Typed, TypeOK
<1>2. ASSUME NEW q \in Requests, Arrive(q)
      PROVE  /\ pc[q] = "idle" /\ pc'[q] # "done" /\ reply' = reply
             /\ q # r => pc'[r] = pc[r] /\ call'[r] = call[r] /\ prior'[r] = prior[r]
  BY <1>2 DEF Arrive, FirstPhase, Goto, Typed, TypeOK
<1>3. CASE Tick \/ UNCHANGED vars
  BY <1>3 DEF Tick, vars
<1>4. QED
  BY <1>1, <1>2, <1>3 DEF Next

LEMMA BookingsStay ==
  ASSUME Typed, Traced, [Next]_vars, NEW b \in BookingIds, bookings[b] \in Doc
  PROVE  bookings'[b] \in Doc /\ bookings'[b].svc = bookings[b].svc
<1>1. ASSUME NEW r \in Requests, Cancels(r, b) \/ Moves(r, b)
      PROVE  bookings'[b].svc = bookings[b].svc /\ bookings'[b].status \in Statuses
  BY <1>1 DEF Cancels, Moves, Moved, Doc, Statuses
<1>2. ASSUME NEW r \in Requests, Creates(r, b)
      PROVE  bookings'[b].svc = bookings[b].svc /\ bookings'[b].status \in Statuses
  BY <1>2, NoDocIsNoDoc DEF Creates, NewBooking, Statuses
<1>3. bookings'[b] \in Doc \cup {NoDoc}
  BY TypedNext DEF Typed, TypeOK
<1>4. QED
  BY <1>1, <1>2, <1>3, NoDocIsNoDoc, BookingChanges DEF Statuses

\* Only a write is answered "OK".
LEMMA OkIsAWrite ==
  ASSUME Typed, [Next]_vars, NEW r \in Requests,
         pc[r] # "done", pc'[r] = "done", reply'[r].code = "OK"
  PROVE  RunTransaction(r) \/ UpdateCancelled(r) \/ UpdateMoved(r) \/ AddBlock(r)
<1>1. ASSUME NEW code \in Codes, NEW alts, Answer(r, code, alts)
      PROVE  code = "OK"
  BY <1>1 DEF Answer, Typed, TypeOK
<1>2. Step(r) \/ StoreFails(r)
  BY OwnStepsOnly
<1>3. ~StoreFails(r)
  BY <1>1 DEF StoreFails, Codes
<1>4. ~LoadBookings(r) /\ ~LoadBlocks(r)
  BY DEF LoadBookings, LoadBlocks, Goto, Typed, TypeOK
<1>5. ~ResolveContext(r) /\ ~ResolveMove(r)
  <2>1. ContextVerdict(call[r].svc, call[r].sty) \in Codes
    BY DEF ContextVerdict, ServiceVerdict, Codes
  <2>2. MoveVerdict(fetched[r].svc, call[r].sty) \in Codes
    BY DEF MoveVerdict, Codes
  <2>3. QED
    BY <1>1, <2>1, <2>2 DEF ResolveContext, ResolveMove, Goto, Typed, TypeOK
<1>6. ~AssertSlotIsValid(r)
  <2> DEFINE verdict == SlotVerdict(call[r].sty, DurationOf(r), call[r].date,
                                    call[r].start, Others(r), blk[r], now)
  <2>1. verdict \in Codes
    BY DEF SlotVerdict, Codes
  <2>2. ~Goto(r, "commit")
    BY DEF Goto, Typed, TypeOK
  <2>3. AssertSlotIsValid(r) => verdict # "OK" /\ \E alts : Answer(r, verdict, alts)
    BY <2>2 DEF AssertSlotIsValid
  <2> HIDE DEF verdict
  <2>4. QED
    BY <1>1, <2>1, <2>3
<1>7. ~RequireBooking(r) /\ ~CheckCancellationWindow(r)
  <2>1. ~Goto(r, "window") /\ ~Goto(r, "commit") /\ ~Goto(r, "resolveMove")
    BY DEF Goto, Typed, TypeOK
  <2>2. QED
    BY <1>1, <2>1 DEF RequireBooking, CheckCancellationWindow, Codes
<1>8. QED
  BY <1>2, <1>3, <1>4, <1>5, <1>6, <1>7 DEF Step

LEMMA OkIsWritten ==
  ASSUME Typed, Traced, [Next]_vars, NEW r \in Requests, IsPlacement(r),
         pc[r] # "done", pc'[r] = "done", reply'[r].code = "OK"
  PROVE  Creates(r, TargetOf(r)) \/ Moves(r, TargetOf(r))
<1>1. CASE RunTransaction(r)
  <2>1. ~Answer(r, "SLOT_TAKEN", Alternatives(r))
    BY DEF Answer, Typed, TypeOK
  <2>2. (bookings[r] # NoDoc => bookings[r].svc = call[r].svc) /\ r \in BookingIds
    BY DEF Traced, OwnBookings, BookingIds
  <2>3. QED
    BY <1>1, <2>1, <2>2 DEF RunTransaction, Creates, TargetOf, Typed, TypeOK
<1>2. CASE UpdateMoved(r)
  <2>1. bookings[call[r].id] \in Doc /\ call[r].id \in BookingIds
    BY <1>2, TargetsAreIds DEF UpdateMoved, Typed, HandlersFit, DataFits, Placing
  <2>2. QED
    BY <1>2, <2>1 DEF Moves, UpdateMoved, TargetOf, Typed, TypeOK
<1>3. ~UpdateCancelled(r) /\ ~AddBlock(r)
  BY DEF UpdateCancelled, AddBlock, IsPlacement
<1>4. QED
  BY <1>1, <1>2, <1>3, OkIsAWrite

\* Whatever is cancelled was cancelled by a caller, and whoever was told his
\* booking stands finds it there.
CancelsAreAsked ==
    \A b \in BookingIds : bookings[b].status = "cancelled" =>
        \E q \in Requests : call[q].op = "cancel" /\ call[q].id = b /\ Landed(q)
BookedIsThere ==
    \A r \in Requests : pc[r] = "done" /\ IsPlacement(r) /\ reply[r].code = "OK" =>
        TargetOf(r) \in BookingIds /\ bookings[TargetOf(r)] \in Doc
Kept == CancelsAreAsked /\ BookedIsThere

LEMMA KeptNext == Typed /\ Traced /\ Kept /\ [Next]_vars => Kept'
<1> SUFFICES ASSUME Typed, Traced, Kept, [Next]_vars PROVE Kept'
  OBVIOUS
<1>1. CancelsAreAsked'
  <2>1. SUFFICES ASSUME NEW b \in BookingIds, bookings'[b].status = "cancelled"
                 PROVE  \E q \in Requests :
                           (call[q].op = "cancel" /\ call[q].id = b /\ Landed(q))'
    BY DEF CancelsAreAsked
  <2>2. CASE bookings[b].status = "cancelled"
    <3>1. PICK q \in Requests : call[q].op = "cancel" /\ call[q].id = b /\ Landed(q)
      BY <2>2 DEF Kept, CancelsAreAsked
    <3>2. pc'[q] = "done" /\ call'[q] = call[q] /\ reply'[q] = reply[q]
      BY <3>1, OwnStepsOnly DEF Landed
    <3>3. QED
      BY <3>1, <3>2 DEF Landed
  <2>3. CASE bookings[b].status # "cancelled"
    <3>1. PICK q \in Requests : Cancels(q, b)
      <4>1. ASSUME NEW q \in Requests, Creates(q, b) PROVE FALSE
        BY <2>1, <4>1 DEF Creates, NewBooking
      <4>2. ASSUME NEW q \in Requests, Moves(q, b) PROVE FALSE
        BY <2>1, <2>3, <4>2 DEF Moves, Moved, Doc
      <4>3. QED
        BY <2>1, <2>3, <4>1, <4>2, BookingChanges
    <3>2. call'[q] = call[q] /\ Landed(q)'
      BY <3>1 DEF Cancels, UpdateCancelled, AnswerWritten, Answer, Goto, Landed, Typed, TypeOK
    <3>3. QED
      BY <3>1, <3>2 DEF Cancels, UpdateCancelled
  <2>4. QED
    BY <2>2, <2>3
<1>2. BookedIsThere'
  <2>1. SUFFICES ASSUME NEW r \in Requests,
                        pc'[r] = "done", IsPlacement(r)', reply'[r].code = "OK"
                 PROVE  (TargetOf(r) \in BookingIds /\ bookings[TargetOf(r)] \in Doc)'
    BY DEF BookedIsThere
  <2>2. call'[r] = call[r]
    <3>1. pc[r] # "done" => pc[r] # "idle"
      BY <2>1, OwnStepsOnly DEF Step, StoreFails, ResolveContext, LoadBookings, LoadBlocks,
         AssertSlotIsValid, RunTransaction, RequireBooking, CheckCancellationWindow,
         UpdateCancelled, ResolveMove, UpdateMoved, AddBlock
    <3>2. QED
      BY <3>1, OwnStepsOnly
  <2>3. IsPlacement(r) /\ TargetOf(r)' = TargetOf(r)
    BY <2>1, <2>2 DEF IsPlacement, TargetOf
  <2>4. CASE pc[r] = "done"
    <3>1. reply[r].code = "OK"
      BY <2>1, <2>4, OwnStepsOnly
    <3>2. QED
      BY <2>3, <2>4, <3>1, BookingsStay DEF Kept, BookedIsThere
  <2>5. CASE pc[r] # "done"
    <3>1. Creates(r, TargetOf(r)) \/ Moves(r, TargetOf(r))
      BY <2>1, <2>3, <2>5, OkIsWritten
    <3>2. TargetOf(r) \in BookingIds
      BY <2>3, TargetsAreIds DEF TargetOf, IsPlacement, BookingIds, Typed
    <3>3. bookings'[TargetOf(r)].status \in Statuses
      <4>1. CASE Creates(r, TargetOf(r))
        BY <4>1 DEF Creates, NewBooking, Statuses
      <4>2. CASE Moves(r, TargetOf(r))
        BY <4>2 DEF Moves, Moved, Doc
      <4>3. QED
        BY <3>1, <4>1, <4>2
    <3>4. (bookings[TargetOf(r)])' \in Doc \cup {NoDoc}
      BY <2>3, <3>2, TypedNext DEF Typed, TypeOK
    <3>5. QED
      BY <2>3, <3>2, <3>3, <3>4, NoDocIsNoDoc DEF Statuses
  <2>6. QED
    BY <2>4, <2>5
<1>3. QED
  BY <1>1, <1>2 DEF Kept

\* "You are booked" and "it is moved" hold until somebody cancels, through
\* every later move, race and failure.
THEOREM BookedUntilCancelled == Spec => []ConfirmedToCallerStaysBooked
<1>1. Init => Kept
  BY SeedAssumption, NoDocIsNoDoc DEF Init, Kept, CancelsAreAsked, BookedIsThere
<1>2. Typed /\ Kept => ConfirmedToCallerStaysBooked
  <2>1. ASSUME NEW r \in Requests, NEW b \in BookingIds, Kept, bookings[b] \in Doc
        PROVE  \/ IsConfirmed(b)
               \/ \E q \in Requests : call[q].op = "cancel" /\ call[q].id = b /\ Landed(q)
    BY <2>1 DEF Kept, CancelsAreAsked, IsConfirmed, Doc, Statuses
  <2>2. QED
    BY <2>1 DEF ConfirmedToCallerStaysBooked, Kept, BookedIsThere
<1>3. QED
  BY <1>1, <1>2, KeptNext, AlwaysTyped, AlwaysTraced, PTL DEF Spec


-----------------------------------------------------------------------------
(* Counter-offers                                                          *)

\* The stay [s, e) keeps clear of the bookings and blocks r could know of.
OpenTo(r, s, e) ==
    /\ \A b \in BookingIds :
          /\ b # TargetOf(r) /\ IsConfirmed(b)
          /\ bookings[b].sty = call[r].sty
          /\ placedBy[b] \in prior[r]
          => ~Overlaps(s, e, bookings[b].startAt, bookings[b].endAt)
    /\ \A x \in blocks :
          /\ x.sty \in {Everyone, call[r].sty}
          /\ x.by = "seed" \/ x.by \in prior[r]
          => ~Overlaps(s, e, x.startAt, x.endAt)

\* Only an answered placement has counter-offers; its length stays what it was.
Offers ==
    \A r \in Requests : reply[r].alternatives # {} =>
        /\ pc[r] = "done" /\ IsPlacement(r)
        /\ call[r].op = "reschedule" => bookings[call[r].id] \in Doc
        /\ \A s \in reply[r].alternatives : OpenTo(r, s, s + DurationAsked(r))

\* What a handler computes from its snapshot is open for the requests that
\* were answered before it arrived.
LEMMA SnapshotOffersAreOpen ==
  ASSUME Typed, Traced, Prepared, NEW r \in Requests, pc[r] \in {"validate", "commit"},
         IsPlacement(r), NEW s \in Alternatives(r)
  PROVE  OpenTo(r, s, s + DurationAsked(r))
<1>1. call[r].sty \in Stylists /\ call[r].date \in Nat /\ DurationOf(r) \in Nat /\ now \in Nat
  BY PlacementTyped, RequestsAssumption DEF Placing, IsPlacement, Typed, TypeOK
<1>2. DurationAsked(r) = DurationOf(r)
  BY DEF DurationAsked, DurationOf, ServiceOf, Prepared, SameService, Placing, IsPlacement
<1>3. /\ ~Clashes(s, s + DurationOf(r), OfStylist(call[r].sty, Others(r)))
      /\ ~Clashes(s, s + DurationOf(r), BlocksOf(call[r].sty, blk[r]))
  BY <1>1, AlternativesAreOpen DEF Alternatives
<1>4. HasBookings(r) /\ HasBlocks(r)
  BY DEF HasBookings, HasBlocks
<1>5. ASSUME NEW b \in BookingIds, b # TargetOf(r), IsConfirmed(b),
             bookings[b].sty = call[r].sty, placedBy[b] \in prior[r]
      PROVE  bookings[b] \in OfStylist(call[r].sty, Others(r))
  <2>1. bookings[b] \in snap[r]
    BY <1>4, <1>5 DEF Traced, SnapshotCurrent
  <2>2. bookings[b].id = b
    BY <1>5, NoDocIsNoDoc DEF Traced, IdsMatch, IsConfirmed
  <2>3. QED
    BY <1>5, <2>1, <2>2 DEF OfStylist, Others
<1>6. ASSUME NEW x \in blocks, x.sty \in {Everyone, call[r].sty}, x.by = "seed" \/ x.by \in prior[r]
      PROVE  x \in BlocksOf(call[r].sty, blk[r])
  BY <1>4, <1>6 DEF Traced, BlocksCurrent, BlocksOf
<1>7. QED
  BY <1>2, <1>3, <1>5, <1>6 DEF OpenTo, Clashes

\* And it stays open for them: whatever is written later is somebody else's.
LEMMA OffersStayOpen ==
  ASSUME Typed, Traced, [Next]_vars, NEW r \in Requests, pc[r] # "idle",
         NEW s, NEW e, OpenTo(r, s, e)
  PROVE  OpenTo(r, s, e)'
<1>1. call'[r] = call[r] /\ prior'[r] = prior[r] /\ TargetOf(r)' = TargetOf(r)
  BY OwnStepsOnly DEF TargetOf
<1>2. ASSUME NEW b \in BookingIds, b # TargetOf(r), IsConfirmed(b)',
             bookings'[b].sty = call[r].sty, placedBy'[b] \in prior[r]
      PROVE  ~Overlaps(s, e, bookings'[b].startAt, bookings'[b].endAt)
  <2>1. ASSUME NEW q \in Requests PROVE ~Creates(q, b) /\ ~Cancels(q, b) /\ ~Moves(q, b)
    <3>1. pc[q] = "commit" => q \notin prior[r]
      BY DEF Traced, PriorAnswered
    <3>2. ~Cancels(q, b)
      BY <1>2 DEF Cancels, IsConfirmed, Doc
    <3>3. QED
      BY <1>2, <3>1, <3>2 DEF Creates, Moves, RunTransaction, UpdateMoved
  <2>2. bookings'[b] = bookings[b] /\ placedBy'[b] = placedBy[b]
    BY <2>1, BookingChanges
  <2>3. QED
    BY <1>2, <2>2 DEF OpenTo, IsConfirmed
<1>3. ASSUME NEW x \in blocks', x.sty \in {Everyone, call[r].sty},
             x.by = "seed" \/ x.by \in prior[r]
      PROVE  ~Overlaps(s, e, x.startAt, x.endAt)
  <2>1. x \in blocks
    BY <1>3, BlocksComeFromRequests, RequestsAssumption DEF Traced, PriorAnswered
  <2>2. QED
    BY <1>3, <2>1 DEF OpenTo
<1>4. QED
  BY <1>1, <1>2, <1>3 DEF OpenTo

\* Counter-offers are made by the two places that refuse a slot as taken.
LEMMA OffersComeFromRefusals ==
  ASSUME Typed, [Next]_vars, NEW r \in Requests, reply'[r].alternatives # {}
  PROVE  \/ reply'[r] = reply[r]
         \/ /\ pc[r] \in {"validate", "commit"} /\ IsPlacement(r)
            /\ Answer(r, "SLOT_TAKEN", Alternatives(r)) /\ UNCHANGED <<call, prior, database>>
<1>1. ASSUME NEW q \in Requests, q # r, Step(q) \/ StoreFails(q) PROVE reply'[r] = reply[r]
  BY <1>1 DEF Step, StoreFails, ResolveContext, LoadBookings, LoadBlocks, AssertSlotIsValid,
     RunTransaction, RequireBooking, CheckCancellationWindow, UpdateCancelled, ResolveMove,
     UpdateMoved, AddBlock, AnswerWritten, RunAgain, Answer, Typed, TypeOK
<1>2. ASSUME NEW q \in Requests, Arrive(q) PROVE reply' = reply
  BY <1>2 DEF Arrive
<1>3. CASE Tick \/ UNCHANGED vars
  BY <1>3 DEF Tick, vars
<1>4. ASSUME NEW code, Answer(r, code, {}) PROVE FALSE
  BY <1>4 DEF Answer, Typed, TypeOK
<1>5. CASE StoreFails(r) \/ UpdateCancelled(r) \/ UpdateMoved(r) \/ AddBlock(r)
  BY <1>4, <1>5 DEF StoreFails, UpdateCancelled, UpdateMoved, AddBlock, AnswerWritten
<1>6. CASE \/ ResolveContext(r) \/ ResolveMove(r) \/ RequireBooking(r)
           \/ CheckCancellationWindow(r) \/ LoadBookings(r) \/ LoadBlocks(r)
  BY <1>4, <1>6 DEF ResolveContext, ResolveMove, RequireBooking, CheckCancellationWindow,
     LoadBookings, LoadBlocks
<1>7. CASE AssertSlotIsValid(r)
  <2>1. IsPlacement(r)
    BY <1>7, CallFields DEF AssertSlotIsValid, Typed, HandlersFit, PhaseFits, Placing, IsPlacement
  <2> DEFINE verdict == SlotVerdict(call[r].sty, DurationOf(r), call[r].date,
                                    call[r].start, Others(r), blk[r], now)
  <2>2. \/ UNCHANGED reply
        \/ verdict = "SLOT_TAKEN" /\ Answer(r, verdict, Alternatives(r))
        \/ Answer(r, verdict, {})
    BY <1>7 DEF AssertSlotIsValid
  <2>3. QED
    BY <1>4, <1>7, <2>1, <2>2 DEF AssertSlotIsValid
<1>8. CASE RunTransaction(r)
  BY <1>4, <1>8 DEF RunTransaction, AnswerWritten, RunAgain, IsPlacement
<1>9. QED
  BY <1>1, <1>2, <1>3, <1>5, <1>6, <1>7, <1>8 DEF Next, Step

LEMMA OffersNext == Typed /\ Traced /\ Prepared /\ Offers /\ [Next]_vars => Offers'
<1> SUFFICES ASSUME Typed, Traced, Prepared, Offers, [Next]_vars,
                    NEW r \in Requests, reply'[r].alternatives # {}
             PROVE  /\ pc'[r] = "done" /\ IsPlacement(r)'
                    /\ (call[r].op = "reschedule" => bookings[call[r].id] \in Doc)'
                    /\ \A s \in reply'[r].alternatives : OpenTo(r, s, s + DurationAsked(r))'
  BY DEF Offers
<1>1. CASE reply'[r] = reply[r]
  <2>1. /\ pc[r] = "done" /\ IsPlacement(r)
        /\ call[r].op = "reschedule" => bookings[call[r].id] \in Doc
        /\ \A s \in reply[r].alternatives : OpenTo(r, s, s + DurationAsked(r))
    BY <1>1 DEF Offers
  <2>2. pc'[r] = "done" /\ call'[r] = call[r] /\ IsPlacement(r)'
    BY <2>1, OwnStepsOnly DEF IsPlacement
  <2>3. call[r].op = "reschedule" =>
          /\ bookings'[call[r].id] \in Doc
          /\ bookings'[call[r].id].svc = bookings[call[r].id].svc
    BY <2>1, TargetsAreIds, BookingsStay DEF Typed
  <2>4. DurationAsked(r)' = DurationAsked(r)
    BY <2>1, <2>2, <2>3 DEF DurationAsked, IsPlacement
  <2>5. QED
    BY <1>1, <2>1, <2>2, <2>3, <2>4, OffersStayOpen
<1>2. CASE /\ pc[r] \in {"validate", "commit"} /\ IsPlacement(r)
           /\ Answer(r, "SLOT_TAKEN", Alternatives(r)) /\ UNCHANGED <<call, prior, database>>
  <2>1. pc'[r] = "done" /\ reply'[r].alternatives = Alternatives(r)
    BY <1>2 DEF Answer, Goto, Typed, TypeOK
  <2>2. DurationAsked(r)' = DurationAsked(r) /\ IsPlacement(r)'
    BY <1>2 DEF DurationAsked, IsPlacement, database
  <2>3. ASSUME NEW s \in Alternatives(r) PROVE OpenTo(r, s, s + DurationAsked(r))'
    <3>1. OpenTo(r, s, s + DurationAsked(r))
      BY <1>2, SnapshotOffersAreOpen
    <3>2. QED
      BY <1>2, <2>2, <3>1, OffersStayOpen
  <2>4. call[r].op = "reschedule" => bookings[call[r].id] \in Doc
    BY <1>2 DEF Typed, HandlersFit, DataFits, Placing
  <2>5. QED
    BY <1>2, <2>1, <2>2, <2>3, <2>4 DEF database
<1>3. QED
  BY <1>1, <1>2, OffersComeFromRefusals

\* No refusal offers a slot that collides with the work of a request that had
\* been answered before the refused one arrived, nor with a block of that age,
\* although the second kind of refusal computes it from an old snapshot.
THEOREM OffersWereOpen == Spec => []AlternativesWereOpen
<1>1. Init => Offers
  BY DEF Init, Offers, NoReply
<1>2. Offers => AlternativesWereOpen
  BY DEF Offers, OpenTo, AlternativesWereOpen
<1>3. QED
  BY <1>1, <1>2, OffersNext, AlwaysTyped, AlwaysTraced, AlwaysPrepared, PTL DEF Spec


-----------------------------------------------------------------------------
(* Appointments that can be served                                         *)

\* The last tick of a stay of up to a day falls on the day it is counted from.
LEMMA DayOfInstant ==
  ASSUME NEW L \in Nat \ {0}, NEW d \in Nat, NEW c \in 1..L
  PROVE  (d * L + c - 1) \div L = d
<1> DEFINE x == d * L + c - 1
           q == x \div L
<1>1. x \in Int /\ q \in Int
  OBVIOUS
<1>2. L * q <= x /\ x < L * (q + 1)
  OBVIOUS
<1>3. d * L <= x /\ x < (d + 1) * L
  OBVIOUS
<1> HIDE DEF q, x
<1>4. q <= d
  <2>1. SUFFICES ASSUME q >= d + 1 PROVE FALSE
    BY <1>1
  <2>2. L * q >= L * (d + 1)
    BY <2>1, <1>1
  <2>3. QED
    BY <2>2, <1>1, <1>2, <1>3
<1>5. q >= d
  <2>1. SUFFICES ASSUME q + 1 <= d PROVE FALSE
    BY <1>1
  <2>2. L * (q + 1) <= L * d
    BY <2>1, <1>1
  <2>3. QED
    BY <2>2, <1>1, <1>2, <1>3
<1>6. QED
  BY <1>1, <1>4, <1>5 DEF q, x

\* An appointment the salon can serve.
Fits(d) ==
    LET day == (d.endAt - 1) \div DayLen
        hours == EffectiveHours(d.sty, day)
    IN /\ d.svc \in Performs[d.sty]
       /\ hours.isOpen
       /\ d.endAt <= At(day, hours.closeTime)
       /\ d.endAt - DurationMinutes[d.svc] >= At(day, hours.openTime)
       /\ d.startAt # Invalid => d.startAt + DurationMinutes[d.svc] = d.endAt

\* What a handler is about to write fits, if its service takes any time.
LEMMA PlacementFits ==
  ASSUME Typed, Prepared, NEW r \in Requests, pc[r] = "commit", IsPlacement(r),
         DurationOf(r) # 0,
         NEW d, d.svc = ServiceOf(r), d.sty = call[r].sty,
         d.startAt = StartAt(r), d.endAt = EndAt(r)
  PROVE  Fits(d)
<1> DEFINE date == call[r].date
           mins == TimeToMinutes(call[r].start)
           hours == EffectiveHours(call[r].sty, date)
<1>1. /\ call[r].sty \in Stylists /\ date \in Nat /\ DurationOf(r) \in Nat
      /\ call[r].start \in ClockTimes
  BY PlacementTyped, CallKinds, CallFields DEF Placing, IsPlacement, Typed, TypeOK, NoCall
<1>2. mins \in Nat
  BY <1>1, HourAssumption DEF TimeToMinutes, ClockTimes
<1>3. hours.openTime \in Nat /\ hours.closeTime \in Nat /\ hours.closeTime <= DayLen
  BY <1>1, HoursType DEF DayHours
<1>4. /\ ServiceOf(r) \in Performs[call[r].sty] /\ hours.isOpen
      /\ mins >= hours.openTime /\ mins + DurationOf(r) <= hours.closeTime
  BY <1>1, <1>2, <1>3 DEF Prepared, Skilled, InHours, Placing, OutsideHours
<1>5. d.endAt = date * DayLen + (mins + DurationOf(r))
  BY DEF EndAt, EndOf, At
<1>6. (d.endAt - 1) \div DayLen = date
  <2>1. mins + DurationOf(r) \in 1..DayLen
    BY <1>1, <1>2, <1>3, <1>4, DayLenType
  <2>2. QED
    BY <1>1, <1>5, <2>1, DayLenType, DayOfInstant
<1>7. d.startAt # Invalid => d.startAt = date * DayLen + mins
  BY DEF StartAt, StartOf, LocalToUtc, At
<1>8. date * DayLen \in Nat
  BY <1>1, DayLenType
<1> HIDE DEF date, mins, hours
<1>9. /\ d.endAt <= date * DayLen + hours.closeTime
      /\ d.endAt - DurationOf(r) >= date * DayLen + hours.openTime
      /\ d.startAt # Invalid => d.startAt + DurationOf(r) = d.endAt
  BY <1>1, <1>2, <1>3, <1>4, <1>5, <1>7, <1>8
<1>10. QED
  BY <1>4, <1>6, <1>9 DEF Fits, At, DurationOf, hours, date

\* Services on the books take time, and what requests put there fits.
Served ==
    /\ \A b \in BookingIds : bookings[b] \in Doc => DurationMinutes[bookings[b].svc] # 0
    /\ \A b \in BookingIds : IsConfirmed(b) /\ placedBy[b] \in Requests => Fits(bookings[b])

LEMMA ServedNext == Typed /\ Traced /\ Prepared /\ Served /\ [Next]_vars => Served'
<1> SUFFICES ASSUME Typed, Traced, Prepared, Served, [Next]_vars, NEW b \in BookingIds
             PROVE  /\ bookings'[b] \in Doc => DurationMinutes[bookings'[b].svc] # 0
                    /\ IsConfirmed(b)' /\ placedBy'[b] \in Requests => Fits(bookings'[b])
  BY DEF Served
<1>1. CASE bookings'[b] = bookings[b] /\ placedBy'[b] = placedBy[b]
  BY <1>1 DEF Served, IsConfirmed
<1>2. ASSUME NEW r \in Requests, Creates(r, b)
      PROVE  DurationMinutes[bookings'[b].svc] # 0 /\ Fits(bookings'[b])
  <2>1. pc[r] = "commit" /\ call[r].op = "create" /\ IsPlacement(r)
    BY <1>2 DEF Creates, RunTransaction, IsPlacement
  <2>2. DurationOf(r) # 0 /\ ServiceOf(r) = call[r].svc
    BY <2>1 DEF Prepared, Skilled, DurationOf, ServiceOf, Placing
  <2>3. /\ bookings'[b].svc = ServiceOf(r) /\ bookings'[b].sty = call[r].sty
        /\ bookings'[b].startAt = StartAt(r) /\ bookings'[b].endAt = EndAt(r)
    BY <1>2, <2>2 DEF Creates, NewBooking
  <2>4. QED
    BY <2>1, <2>2, <2>3, PlacementFits DEF DurationOf
<1>3. ASSUME NEW r \in Requests, Moves(r, b)
      PROVE  DurationMinutes[bookings'[b].svc] # 0 /\ Fits(bookings'[b])
  <2>1. pc[r] = "commit" /\ call[r].op = "reschedule" /\ IsPlacement(r) /\ bookings[b] \in Doc
    BY <1>3 DEF Moves, UpdateMoved, IsPlacement
  <2>2. ServiceOf(r) = bookings[b].svc /\ DurationOf(r) # 0
    BY <1>3, <2>1 DEF Served, Prepared, SameService, DurationOf, ServiceOf, Placing, Moves
  <2>3. /\ bookings'[b].svc = ServiceOf(r) /\ bookings'[b].sty = call[r].sty
        /\ bookings'[b].startAt = StartAt(r) /\ bookings'[b].endAt = EndAt(r)
    BY <1>3, <2>1, <2>2 DEF Moves, Moved, Doc
  <2>4. QED
    BY <2>1, <2>2, <2>3, PlacementFits DEF DurationOf
<1>4. ASSUME NEW r \in Requests, Cancels(r, b)
      PROVE  DurationMinutes[bookings'[b].svc] # 0 /\ ~IsConfirmed(b)'
  BY <1>4 DEF Cancels, Served, IsConfirmed, Doc
<1>5. QED
  BY <1>1, <1>2, <1>3, <1>4, BookingChanges

\* If the seeded bookings take time, as the seed script's do, then at every
\* moment every slot a request was given is one its stylist can serve, within
\* the hours of that weekday and for as long as the service takes.
THEOREM BookedIsServable ==
  ASSUME \A b \in Seeded : DurationMinutes[SeedDoc[b].svc] # 0
  PROVE  Spec => []AppointmentsAreServable
<1>1. Init => Served
  BY RequestsAssumption, NoDocIsNoDoc DEF Init, Served, IsConfirmed, BookingIds
<1>2. Served => AppointmentsAreServable
  BY DEF Served, Fits, AppointmentsAreServable
<1>3. QED
  BY <1>1, <1>2, ServedNext, AlwaysTyped, AlwaysTraced, AlwaysPrepared, PTL DEF Spec

=============================================================================
