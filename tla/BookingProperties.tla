-------------------------- MODULE BookingProperties --------------------------
(***************************************************************************)
(* What the booking endpoints promise, and what their documentation says   *)
(* of them, as formulas over the state of BookingService.                  *)
(***************************************************************************)
EXTENDS BookingService

IsConfirmed(b) == bookings[b].status = "confirmed"

\* Two confirmed bookings that need the same stylist at the same time.
Collide(a, b) ==
    /\ a # b
    /\ IsConfirmed(a) /\ IsConfirmed(b)
    /\ bookings[a].sty = bookings[b].sty
    /\ Overlaps(bookings[a].startAt, bookings[a].endAt,
                bookings[b].startAt, bookings[b].endAt)

\* Everybody whose work was finished before x began; the seed script runs
\* before any request and writes no two bookings that collide.
PriorTo(x) == IF x \in Requests THEN prior[x] ELSE Seeded

\* The service length a request asks a slot for.
DurationAsked(r) ==
    DurationMinutes[IF call[r].op = "create" THEN call[r].svc
                    ELSE bookings[call[r].id].svc]

IsPlacement(r) == call[r].op \in {"create", "reschedule"}

\* r's update is in the database, acknowledged or not.
Landed(r) == pc[r] = "done" /\ reply[r].code \in {"OK", "INTERNAL_ERROR"}

-----------------------------------------------------------------------------
(* Safety the code provides                                                *)

\* Two creates never double-book a stylist, however their reads, checks and
\* writes interleave: if two confirmed bookings collide, one of them owes its
\* slot to a reschedule, the endpoint that writes without a transaction.
OverlapNeedsMove ==
    \A a, b \in BookingIds : Collide(a, b) => placedBy[a] # a \/ placedBy[b] # b

\* Even through reschedule a collision takes a race: whoever placed either of
\* two colliding bookings had not been answered when the placer of the other
\* arrived.  Requests sent one after the other never double-book.
OverlapOnlyIfConcurrent ==
    \A a, b \in BookingIds : Collide(a, b) =>
        /\ placedBy[a] \notin PriorTo(placedBy[b])
        /\ placedBy[b] \notin PriorTo(placedBy[a])

\* Bookings are checked against blocks only before the write, never inside
\* it.  Still, a request never puts a booking over a block that was in place
\* when it arrived, whichever stylist it moves the booking to.
HolidayRespected ==
    \A b \in BookingIds, x \in blocks :
        /\ IsConfirmed(b) /\ placedBy[b] \in Requests
        /\ x.sty \in {Everyone, bookings[b].sty}
        /\ x.by = "seed" \/ x.by \in prior[placedBy[b]]
        => ~Overlaps(bookings[b].startAt, bookings[b].endAt, x.startAt, x.endAt)

\* What is on the books can be served: after any number of creates and moves
\* a booking's stylist performs its service, the stay fits the stylist's hours
\* of that weekday, and it lasts exactly as long as the service takes.
AppointmentsAreServable ==
    \A b \in BookingIds : IsConfirmed(b) /\ placedBy[b] \in Requests =>
        LET d == bookings[b]
            \* the start may be missing, the end never is
            day == (d.endAt - 1) \div DayLen
            hours == EffectiveHours(d.sty, day)
        IN /\ d.svc \in Performs[d.sty]
           /\ hours.isOpen
           /\ d.endAt <= At(day, hours.closeTime)
           /\ d.endAt - DurationMinutes[d.svc] >= At(day, hours.openTime)
           /\ d.startAt # Invalid => d.startAt + DurationMinutes[d.svc] = d.endAt

\* b's create wrote its booking and did not hear of it: its transaction is run
\* again, or was, and then refused the slot that it holds itself.
HeldUnheard(b) ==
    /\ b \in Requests /\ placedBy[b] = b /\ failures > 0
    /\ \/ pc[b] = "commit"
       \/ pc[b] = "done" /\ reply[b].code = "SLOT_TAKEN"

\* A slot in the database means a request that was told so, or was told that
\* the server failed: no refusal leaves a booking created or moved behind.
\* The one exception is a create whose commit was not acknowledged: it may
\* hear that its slot is taken, of its own booking and with no other code.
RefusalLeavesNoTrace ==
    \A b \in BookingIds :
        bookings[b] # NoDoc /\ placedBy[b] \in Requests =>
            Landed(placedBy[b]) \/ HeldUnheard(b)

\* A caller who heard "booked" or "moved" has a confirmed booking for as long
\* as nobody's cancel of that booking reaches the database: no later move, no
\* failed move and no race loses it.
ConfirmedToCallerStaysBooked ==
    \A r \in Requests :
        pc[r] = "done" /\ IsPlacement(r) /\ reply[r].code = "OK" =>
            \/ IsConfirmed(TargetOf(r))
            \/ \E q \in Requests :
                  call[q].op = "cancel" /\ call[q].id = TargetOf(r) /\ Landed(q)

\* The counter-offers in a refusal never collide with a booking or a block
\* whose writer had been answered before the refused request arrived.
AlternativesWereOpen ==
    \A r \in Requests : \A s \in reply[r].alternatives :
        LET e == s + DurationAsked(r) IN
        /\ \A b \in BookingIds :
              /\ b # TargetOf(r) /\ IsConfirmed(b)
              /\ bookings[b].sty = call[r].sty
              /\ placedBy[b] \in prior[r]
              => ~Overlaps(s, e, bookings[b].startAt, bookings[b].endAt)
        /\ \A x \in blocks :
              /\ x.sty \in {Everyone, call[r].sty}
              /\ x.by = "seed" \/ x.by \in prior[r]
              => ~Overlaps(s, e, x.startAt, x.endAt)

\* A reschedule that read the booking before a cancel and writes after it does
\* not bring the booking back.  Once its create was answered nothing un-cancels
\* a booking; until then the create's transaction may be run again over it.
CancelledIsFinal ==
    [][\A b \in BookingIds :
          bookings[b].status = "cancelled" /\ (b \in Requests => pc[b] = "done")
          => bookings'[b].status = "cancelled"]_vars

\* A booking keeps its service for good, and a cancel or a create by somebody
\* else never changes its slot: only the reschedule of that booking does, and
\* its own create, run again over a move it has not heard of, back to the slot
\* it was asked for.
SlotChangesOnlyByMove ==
    [][\A b \in BookingIds : bookings[b] # NoDoc =>
          /\ bookings'[b] # NoDoc /\ bookings'[b].svc = bookings[b].svc
          /\ \/ /\ bookings'[b].sty = bookings[b].sty
                /\ bookings'[b].startAt = bookings[b].startAt
                /\ bookings'[b].endAt = bookings[b].endAt
             \/ \E r \in Requests : /\ call[r].op = "reschedule" /\ call[r].id = b
                                    /\ pc[r] = "commit" /\ pc'[r] = "done"
             \/ /\ b \in Requests /\ call[b].op = "create" /\ pc[b] = "commit"
                /\ bookings'[b] = NewBooking(b)]_vars

\* The book as BookingLedger sees it: what a request was told is its answer
\* without the code and the counter-offers.
ToldTo(r) ==
    CASE pc[r] # "done" -> "none"
      [] pc[r] = "done" /\ reply[r].code = "OK" -> "done"
      [] pc[r] = "done" /\ reply[r].code = "INTERNAL_ERROR" -> "failed"
      [] OTHER -> "refused"

Ledger == INSTANCE BookingLedger WITH
    ledger <- bookings, holder <- placedBy, demand <- call, before <- prior,
    answer <- [r \in Requests |-> ToldTo(r)]

\* For whoever looks only at the book and at the answers, each request acts at
\* once, when it is answered: creates see each other, moves see what was there
\* when they arrived, nothing is put where it cannot be served, and a refusal
\* is nothing at all.  Only a create may act unheard before it is answered, and
\* again or in vain afterwards.  The endpoints of booking.service.ts implement
\* the book.
ImplementsLedger == Ledger!Spec

\* Every request the server took in is answered, if only with a 500: the day
\* comes when nobody waits any more.
EveryRequestAnswered == <>[](\A r \in Requests : pc[r] \in {"idle", "done"})

-----------------------------------------------------------------------------
(* What the documents say, and the code does not do                        *)

\* No two confirmed bookings of a stylist overlap: the write-time check is
\* said to prevent double-booking, and a reschedule to be atomic.
NoDoubleBooking == \A a, b \in BookingIds : ~Collide(a, b)

\* A reschedule that answers "confirmed" leaves a confirmed booking.
MoveReplyTruthful ==
    [][\A r \in Requests :
          /\ pc[r] # "done" /\ pc'[r] = "done"
          /\ call[r].op = "reschedule" /\ reply'[r].code = "OK"
          => bookings'[call[r].id].status = "confirmed"]_vars

\* A booking is never cancelled while it is inside the cancellation window.
NeverCancelledInsideWindow ==
    [][\A b \in BookingIds :
          IsConfirmed(b) /\ bookings'[b].status = "cancelled"
          => ~WithinWindow(bookings[b].startAt)]_vars

\* The alternatives to a slot that was taken do not contain that slot.
RefusedSlotNotReoffered ==
    \A r \in Requests : reply[r].code = "SLOT_TAKEN" =>
        StartAt(r) \notin reply[r].alternatives

\* A create that was refused has no booking: "that time was just taken", says
\* the refusal, by somebody else.
RefusedHoldsNothing ==
    \A r \in Requests :
        reply[r].code = "SLOT_TAKEN" /\ call[r].op = "create" => bookings[r] = NoDoc

\* Every confirmed booking has a start.
ConfirmedHasStart ==
    \A b \in BookingIds : IsConfirmed(b) => bookings[b].startAt # Invalid

\* Every accepted start is one the engine would offer: on the stylist's grid.
AcceptedIsOnGrid ==
    \A b \in BookingIds :
        /\ IsConfirmed(b) /\ placedBy[b] \in Requests
        /\ bookings[b].startAt # Invalid
        => LET d == bookings[b]
               day == d.startAt \div DayLen
           IN (d.startAt % DayLen) \in Grid(d.sty, DurationMinutes[d.svc], day)

\* A caller told the appointment is within the window's hours hears the truth.
RefusalSpokenTruthful ==
    [][\A r \in Requests :
          /\ pc[r] # "done" /\ reply'[r].code = "WITHIN_CANCELLATION_WINDOW"
          => fetched[r].startAt - now <= Window * Hour]_vars
=============================================================================
