---------------------------- MODULE BookingService ----------------------------
(***************************************************************************)
(* The booking endpoints (services/booking.service.ts) and the admin block *)
(* (services/admin.service.ts) over one Firestore database.                *)
(*                                                                         *)
(* Every HTTP request is a process.  Its steps are the stretches of code   *)
(* between two awaits, so steps of different requests interleave freely,   *)
(* as they do on one Node event loop and between server instances.  What a *)
(* handler keeps in local variables across an await is a variable indexed  *)
(* by the request; the database, the bookings and blocks collections, is   *)
(* shared.  Companies, services and stylists are constants: no endpoint    *)
(* modelled here writes them.                                              *)
(***************************************************************************)
EXTENDS SlotEngine

CONSTANTS
    Requests,           \* every request the clients ever send
    Seeded,             \* ids of the bookings db/seed.ts leaves behind
    SeedDoc,            \* seeded id -> its document
    SeedBlocks,         \* the blocks db/seed.ts leaves behind
    Window,             \* cancellationWindowHours
    CreateCalls, CancelCalls, RescheduleCalls, BlockCalls,  \* what may be asked
    StartNow,           \* the clock when the first request may arrive
    MaxNow,             \* bound: the clock stops here
    MaxFailures         \* bound: how many database calls may fail; it also
                        \* bounds how often a transaction is run again

\* A booking is created with a fresh id; the request stands for it.
BookingIds == Requests \cup Seeded

Statuses == {"confirmed", "cancelled"}
Doc == [id: BookingIds, svc: Services, sty: Stylists,
        startAt: Instants, endAt: Instants, status: Statuses]
NoDoc == [status |-> "absent"]

\* `by` is not a field of the program's block: it names the writer.
Block == [by: Requests \cup {"seed"}, sty: StylistIds \cup {Everyone},
          startAt: Nat, endAt: Nat]

ASSUME RequestsAssumption ==
    /\ Requests \cap Seeded = {}
    /\ "seed" \notin Requests
    /\ Window \in Nat /\ MaxFailures \in Nat
    /\ StartNow \in Nat /\ MaxNow \in Nat /\ StartNow <= MaxNow

\* The seeded bookings are confirmed and pairwise disjoint per stylist.
ASSUME SeedAssumption ==
    /\ SeedDoc \in [Seeded -> Doc]
    /\ \A b \in Seeded : SeedDoc[b].id = b /\ SeedDoc[b].status = "confirmed"
    /\ \A a, b \in Seeded : a # b /\ SeedDoc[a].sty = SeedDoc[b].sty =>
          ~Overlaps(SeedDoc[a].startAt, SeedDoc[a].endAt,
                    SeedDoc[b].startAt, SeedDoc[b].endAt)
    /\ SeedBlocks \subseteq [by: {"seed"}, sty: StylistIds \cup {Everyone},
                             startAt: Nat, endAt: Nat]

ASSUME CallsAssumption ==
    /\ CreateCalls \subseteq [op: {"create"}, svc: ServiceIds, sty: StylistIds,
                              date: Nat, start: ClockTimes]
    /\ CancelCalls \subseteq [op: {"cancel"}, id: BookingIds]
    /\ RescheduleCalls \subseteq [op: {"reschedule"}, id: BookingIds, sty: StylistIds,
                                  date: Nat, start: ClockTimes]
    /\ BlockCalls \subseteq [op: {"block"}, sty: StylistIds \cup {Everyone},
                             startAt: Nat, endAt: Nat]

Calls == CreateCalls \cup CancelCalls \cup RescheduleCalls \cup BlockCalls
NoCall == [op |-> "none"]

\* Where a handler stands: the await it is at, or the code after it.
Phases == {"idle", "resolve", "load", "needBlocks", "needBookings", "validate",
           "commit", "fetch", "window", "resolveMove", "done"}

Codes == {"OK", "SERVICE_NOT_FOUND", "SERVICE_NOT_BOOKABLE", "STYLIST_NOT_FOUND",
          "STYLIST_SERVICE_MISMATCH", "CLOSED_ON_DAY", "OUTSIDE_BUSINESS_HOURS",
          "SLOT_IN_PAST", "SLOT_TAKEN", "BOOKING_NOT_FOUND",
          "WITHIN_CANCELLATION_WINDOW", "INTERNAL_ERROR"}
NoReply == [code |-> "none", alternatives |-> {}]
Replies == [code: Codes, alternatives: SUBSET Nat]

VARIABLES
    now,        \* the clock
    bookings,   \* booking id -> document: the bookings collection
    blocks,     \* the blocks collection
    pc,         \* request -> phase
    call,       \* request -> what it asked for
    fetched,    \* request -> the booking requireBooking read
    snap,       \* request -> the confirmed bookings loadConfirmed read
    blk,        \* request -> the blocks loadConfirmed read
    reply,      \* request -> its response
    failures,   \* how many database calls failed so far
    placedBy,   \* history: booking id -> who last gave it its slot
    prior       \* history: request -> who had been answered when it arrived

database == <<bookings, blocks, placedBy>>
locals == <<fetched, snap, blk>>
vars == <<now, bookings, blocks, pc, call, fetched, snap, blk, reply,
          failures, placedBy, prior>>

TypeOK ==
    /\ now \in StartNow..MaxNow
    /\ bookings \in [BookingIds -> Doc \cup {NoDoc}]
    /\ blocks \subseteq Block
    /\ pc \in [Requests -> Phases]
    /\ call \in [Requests -> Calls \cup {NoCall}]
    /\ fetched \in [Requests -> Doc \cup {NoDoc}]
    /\ snap \in [Requests -> SUBSET Doc]
    /\ blk \in [Requests -> SUBSET Block]
    /\ reply \in [Requests -> Replies \cup {NoReply}]
    /\ failures \in 0..MaxFailures
    /\ placedBy \in [BookingIds -> BookingIds]
    /\ prior \in [Requests -> SUBSET BookingIds]

Init ==
    /\ now = StartNow
    /\ bookings = [b \in BookingIds |-> IF b \in Seeded THEN SeedDoc[b] ELSE NoDoc]
    /\ blocks = SeedBlocks
    /\ pc = [r \in Requests |-> "idle"]
    /\ call = [r \in Requests |-> NoCall]
    /\ fetched = [r \in Requests |-> NoDoc]
    /\ snap = [r \in Requests |-> {}]
    /\ blk = [r \in Requests |-> {}]
    /\ reply = [r \in Requests |-> NoReply]
    /\ failures = 0
    /\ placedBy = [b \in BookingIds |-> b]
    /\ prior = [r \in Requests |-> {}]

-----------------------------------------------------------------------------
(* What a request asks for                                                 *)

\* The booking a create or a reschedule gives a slot to.
TargetOf(r) == IF call[r].op = "create" THEN r ELSE call[r].id
ServiceOf(r) == IF call[r].op = "create" THEN call[r].svc ELSE fetched[r].svc
DurationOf(r) == DurationMinutes[ServiceOf(r)]
StartAt(r) == StartOf(call[r].date, call[r].start)
EndAt(r) == EndOf(call[r].date, call[r].start, DurationOf(r))

-----------------------------------------------------------------------------
(* Answering, and the ways the database can let a handler down             *)

Goto(r, phase) == pc' = [pc EXCEPT ![r] = phase]

\* The response is sent and the handler's local variables are gone.
Answer(r, code, alternatives) ==
    /\ Goto(r, "done")
    /\ reply' = [reply EXCEPT ![r] = [code |-> code, alternatives |-> alternatives]]
    /\ fetched' = [fetched EXCEPT ![r] = NoDoc]
    /\ snap' = [snap EXCEPT ![r] = {}]
    /\ blk' = [blk EXCEPT ![r] = {}]

\* A write is durable, but its acknowledgement may still be lost: the handler
\* sees a rejected promise and the client a 500.
AnswerWritten(r) ==
    \/ Answer(r, "OK", {}) /\ UNCHANGED failures
    \/ /\ failures < MaxFailures
       /\ failures' = failures + 1
       /\ Answer(r, "INTERNAL_ERROR", {})

\* A database call the handler awaits fails without effect: asyncHandler passes
\* the rejection to the error handler, which answers 500.
StoreFails(r) ==
    /\ pc[r] \in {"resolve", "load", "needBlocks", "needBookings", "commit",
                  "fetch", "resolveMove"}
    /\ failures < MaxFailures
    /\ failures' = failures + 1
    /\ Answer(r, "INTERNAL_ERROR", {})
    /\ UNCHANGED <<now, call, prior, database>>

-----------------------------------------------------------------------------
(* Arrival and the clock                                                   *)

FirstPhase(c) == CASE c.op = "create" -> "resolve"
                   [] c.op = "block" -> "commit"
                   [] OTHER -> "fetch"

Answered == {r \in Requests : pc[r] = "done"}

Arrive(r) ==
    /\ pc[r] = "idle"
    /\ \E c \in Calls :
        /\ call' = [call EXCEPT ![r] = c]
        /\ Goto(r, FirstPhase(c))
    /\ prior' = [prior EXCEPT ![r] = Seeded \cup Answered]
    /\ UNCHANGED <<now, reply, failures, locals, database>>

Tick ==
    /\ now < MaxNow
    /\ now' = now + 1
    /\ UNCHANGED <<pc, call, reply, failures, prior, locals, database>>

-----------------------------------------------------------------------------
(* createBooking                                                           *)

ResolveContext(r) ==
    /\ pc[r] = "resolve"
    /\ LET verdict == ContextVerdict(call[r].svc, call[r].sty) IN
        \/ /\ verdict # "OK"
           /\ Answer(r, verdict, {})
        \/ /\ verdict = "OK"
           /\ Goto(r, "load")
           /\ UNCHANGED <<reply, locals>>
    /\ UNCHANGED <<now, call, failures, prior, database>>

\* loadConfirmed issues two queries at once; each answers with the state of
\* its collection at a moment of its own.
Confirmed == {bookings[b] : b \in {i \in BookingIds : bookings[i].status = "confirmed"}}

LoadBookings(r) ==
    /\ pc[r] \in {"load", "needBookings"}
    /\ snap' = [snap EXCEPT ![r] = Confirmed]
    /\ Goto(r, IF pc[r] = "load" THEN "needBlocks" ELSE "validate")
    /\ UNCHANGED <<now, call, fetched, blk, reply, failures, prior, database>>

LoadBlocks(r) ==
    /\ pc[r] \in {"load", "needBlocks"}
    /\ blk' = [blk EXCEPT ![r] = blocks]
    /\ Goto(r, IF pc[r] = "load" THEN "needBookings" ELSE "validate")
    /\ UNCHANGED <<now, call, fetched, snap, reply, failures, prior, database>>

\* A faulty Others: it leaves out every booking of the same service.
OthersByService(r) == {d \in snap[r] : d.svc # ServiceOf(r)}

\* What the handler compares the new slot with: for a reschedule every loaded
\* booking but the one being moved.
Others(r) == {d \in snap[r] : d.id # TargetOf(r)}

Alternatives(r) == AlternativesFor(call[r].sty, DurationOf(r), call[r].date,
                                   Others(r), blk[r], now)

\* Shared by createBooking and rescheduleBooking.
AssertSlotIsValid(r) ==
    /\ pc[r] = "validate"
    /\ LET verdict == SlotVerdict(call[r].sty, DurationOf(r), call[r].date,
                                  call[r].start, Others(r), blk[r], now) IN
        \/ /\ verdict = "OK"
           /\ Goto(r, "commit")
           /\ UNCHANGED <<reply, locals>>
        \/ /\ verdict = "SLOT_TAKEN"
           /\ Answer(r, verdict, Alternatives(r))
        \/ /\ verdict \notin {"OK", "SLOT_TAKEN"}
           /\ Answer(r, verdict, {})
    /\ UNCHANGED <<now, call, failures, prior, database>>

\* A faulty TransactionClash: it looks at the snapshot instead of reading again.
SnapshotClash(r) ==
    Clashes(StartAt(r), EndAt(r), OfStylist(call[r].sty, snap[r]))

\* The transaction reads the stylist's confirmed bookings again; blocks are
\* not read again.
TransactionClash(r) ==
    Clashes(StartAt(r), EndAt(r), OfStylist(call[r].sty, Confirmed))

\* A faulty NewBooking: a status no other code knows.
PendingBooking(r) == [id |-> r, svc |-> call[r].svc, sty |-> call[r].sty,
                      startAt |-> StartAt(r), endAt |-> EndAt(r), status |-> "pending"]

NewBooking(r) == [id |-> r, svc |-> call[r].svc, sty |-> call[r].sty,
                  startAt |-> StartAt(r), endAt |-> EndAt(r), status |-> "confirmed"]

\* A faulty RunTransaction: it writes first and refuses afterwards.
WriteThenCheck(r) ==
    /\ pc[r] = "commit" /\ call[r].op = "create"
    /\ bookings' = [bookings EXCEPT ![r] = NewBooking(r)]
    /\ placedBy' = [placedBy EXCEPT ![r] = r]
    /\ \/ TransactionClash(r) /\ Answer(r, "SLOT_TAKEN", {}) /\ UNCHANGED failures
       \/ ~TransactionClash(r) /\ AnswerWritten(r)
    /\ UNCHANGED <<now, blocks, call, prior>>

\* The acknowledgement of the commit is lost with a code the client library
\* retries, and the callback is run again with the handler's locals as they
\* were.  The library stops after five attempts; the bound here is MaxFailures.
\* (An attempt that fails without effect and is run again changes nothing.)
RunAgain(r) ==
    /\ failures < MaxFailures
    /\ failures' = failures + 1
    /\ UNCHANGED <<pc, reply, locals>>

\* One attempt of the transaction.  A clash offers alternatives computed from
\* the snapshot loaded before it.  The query leaves no booking out, so an
\* attempt after a lost acknowledgement meets the booking the lost one wrote;
\* if that was cancelled or moved meanwhile, it is written over.
RunTransaction(r) ==
    /\ pc[r] = "commit" /\ call[r].op = "create"
    /\ \/ /\ TransactionClash(r)
          /\ Answer(r, "SLOT_TAKEN", Alternatives(r))
          /\ UNCHANGED <<failures, database>>
       \/ /\ ~TransactionClash(r)
          /\ bookings' = [bookings EXCEPT ![r] = NewBooking(r)]
          /\ placedBy' = [placedBy EXCEPT ![r] = r]
          /\ AnswerWritten(r) \/ RunAgain(r)
          /\ UNCHANGED blocks
    /\ UNCHANGED <<now, call, prior>>

-----------------------------------------------------------------------------
(* cancelBooking and the first half of rescheduleBooking                   *)

\* A faulty RequireBooking: an unknown booking gets no answer.
RequireKnownBooking(r) ==
    /\ pc[r] = "fetch"
    /\ bookings[call[r].id] # NoDoc
    /\ fetched' = [fetched EXCEPT ![r] = bookings[call[r].id]]
    /\ Goto(r, "window")
    /\ UNCHANGED <<now, call, snap, blk, reply, failures, prior, database>>

RequireBooking(r) ==
    /\ pc[r] = "fetch"
    /\ LET b == bookings[call[r].id] IN
        \/ /\ b = NoDoc
           /\ Answer(r, "BOOKING_NOT_FOUND", {})
        \/ /\ b # NoDoc
           /\ fetched' = [fetched EXCEPT ![r] = b]
           /\ Goto(r, "window")
           /\ UNCHANGED <<snap, blk, reply>>
    /\ UNCHANGED <<now, call, failures, prior, database>>

WithinWindow(t) == t # Invalid /\ HoursUntil(t, now) <= Window

CheckCancellationWindow(r) ==
    /\ pc[r] = "window"
    /\ \/ /\ WithinWindow(fetched[r].startAt)
          /\ Answer(r, "WITHIN_CANCELLATION_WINDOW", {})
       \/ /\ ~WithinWindow(fetched[r].startAt)
          /\ Goto(r, IF call[r].op = "cancel" THEN "commit" ELSE "resolveMove")
          /\ UNCHANGED <<reply, locals>>
    /\ UNCHANGED <<now, call, failures, prior, database>>

\* A faulty Cancelled: it writes back the document read before the check.
CancelledAsRead(r) == [fetched[r] EXCEPT !.status = "cancelled"]

\* A plain update of one field, whatever the document says by now.
Cancelled(r) == [bookings[call[r].id] EXCEPT !.status = "cancelled"]

UpdateCancelled(r) ==
    /\ pc[r] = "commit" /\ call[r].op = "cancel"
    /\ bookings' = [bookings EXCEPT ![call[r].id] = Cancelled(r)]
    /\ AnswerWritten(r)
    /\ UNCHANGED <<now, blocks, call, placedBy, prior>>

-----------------------------------------------------------------------------
(* The second half of rescheduleBooking                                    *)

\* requireService, requireStylist and the skill check; neither `active` nor
\* bookableByPhone is looked at.
MoveVerdict(svc, sty) ==
    IF svc \notin Services THEN "SERVICE_NOT_FOUND"
    ELSE IF sty \notin Stylists THEN "STYLIST_NOT_FOUND"
    ELSE IF svc \notin Performs[sty] THEN "STYLIST_SERVICE_MISMATCH"
    ELSE "OK"

ResolveMove(r) ==
    /\ pc[r] = "resolveMove"
    /\ LET verdict == MoveVerdict(fetched[r].svc, call[r].sty) IN
        \/ /\ verdict # "OK"
           /\ Answer(r, verdict, {})
        \/ /\ verdict = "OK"
           /\ Goto(r, "load")
           /\ UNCHANGED <<reply, locals>>
    /\ UNCHANGED <<now, call, failures, prior, database>>

\* Faulty forms of Moved: a move that revives the booking, one that gives the
\* old booking up, and one that forgets the end.
Revived(d, r) == [d EXCEPT !.startAt = StartAt(r), !.endAt = EndAt(r),
                           !.sty = call[r].sty, !.status = "confirmed"]
GivenUp(d, r) == [d EXCEPT !.startAt = StartAt(r), !.endAt = EndAt(r),
                           !.sty = call[r].sty, !.status = "cancelled"]
StartMoved(d, r) == [d EXCEPT !.startAt = StartAt(r), !.sty = call[r].sty]

Moved(d, r) == [d EXCEPT !.startAt = StartAt(r), !.endAt = EndAt(r), !.sty = call[r].sty]

\* A plain update: nothing is read again, the status is left as it is, and the
\* response says "confirmed".
UpdateMoved(r) ==
    /\ pc[r] = "commit" /\ call[r].op = "reschedule"
    /\ bookings' = [bookings EXCEPT ![call[r].id] = Moved(@, r)]
    /\ placedBy' = [placedBy EXCEPT ![call[r].id] = r]
    /\ AnswerWritten(r)
    /\ UNCHANGED <<now, blocks, call, prior>>

-----------------------------------------------------------------------------
(* addBlock                                                                *)

AddBlock(r) ==
    /\ pc[r] = "commit" /\ call[r].op = "block"
    /\ blocks' = blocks \cup {[by |-> r, sty |-> call[r].sty,
                               startAt |-> call[r].startAt, endAt |-> call[r].endAt]}
    /\ AnswerWritten(r)
    /\ UNCHANGED <<now, bookings, call, placedBy, prior>>

-----------------------------------------------------------------------------
(* The system                                                              *)

Step(r) ==
    \/ ResolveContext(r) \/ LoadBookings(r) \/ LoadBlocks(r)
    \/ AssertSlotIsValid(r) \/ RunTransaction(r)
    \/ RequireBooking(r) \/ CheckCancellationWindow(r) \/ UpdateCancelled(r)
    \/ ResolveMove(r) \/ UpdateMoved(r)
    \/ AddBlock(r)

Next ==
    \/ \E r \in Requests : Arrive(r) \/ Step(r) \/ StoreFails(r)
    \/ Tick

Spec == Init /\ [][Next]_vars

\* Every await settles, so a handler that has begun goes on; nothing makes a
\* client send a request.
Fairness == \A r \in Requests : WF_vars(Step(r))

FairSpec == Spec /\ Fairness
=============================================================================
