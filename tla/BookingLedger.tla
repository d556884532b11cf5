---------------------------- MODULE BookingLedger ----------------------------
(***************************************************************************)
(* What the booking endpoints promise, without how they do it: a book of   *)
(* appointments in which every request acts at one moment, the moment it   *)
(* is answered.  A create alone may also act before it is answered, if     *)
(* nobody acknowledges what it did; it then tries again, and may be        *)
(* refused for the entry it made itself.  There are no phases, snapshots,  *)
(* clocks or blocks here; BookingService, whose handlers read, check and   *)
(* write at moments of their own, is shown to implement this               *)
(* (ImplementsLedger).                                                     *)
(***************************************************************************)
EXTENDS SlotEngine

CONSTANTS Requests, Seeded, SeedDoc, Calls

VARIABLES
    ledger,     \* booking id -> its entry
    holder,     \* booking id -> who last gave it its slot
    demand,     \* request -> what it asked for
    answer,     \* request -> what it was told
    before      \* request -> who had been answered when it asked

ledgerVars == <<ledger, holder, demand, answer, before>>

Absent == [status |-> "absent"]
Silent == [op |-> "none"]
Told == {r \in Requests : answer[r] # "none"}

\* The entries that need their stylist.
Standing == {b \in Requests \cup Seeded : ledger[b].status = "confirmed"}

Init ==
    /\ ledger = [b \in Requests \cup Seeded |-> IF b \in Seeded THEN SeedDoc[b] ELSE Absent]
    /\ holder = [b \in Requests \cup Seeded |-> b]
    /\ demand = [r \in Requests |-> Silent]
    /\ answer = [r \in Requests |-> "none"]
    /\ before = [r \in Requests |-> {}]

Ask(r) ==
    /\ demand[r] = Silent
    /\ \E c \in Calls : demand' = [demand EXCEPT ![r] = c]
    /\ before' = [before EXCEPT ![r] = Seeded \cup Told]
    /\ UNCHANGED <<ledger, holder, answer>>

\* r, which has asked and was not answered yet, is answered.
Tell(r, answers) ==
    /\ demand[r] # Silent /\ answer[r] = "none"
    /\ \E a \in answers : answer' = [answer EXCEPT ![r] = a]
    /\ UNCHANGED <<demand, before>>

\* The stylist can serve the service at the time a call asks for.
Servable(c, svc) ==
    /\ c.sty \in Stylists /\ svc \in Performs[c.sty]
    /\ EffectiveHours(c.sty, c.date).isOpen
    /\ ~OutsideHours(c.sty, c.date, c.start, DurationMinutes[svc])

\* None of the entries B needs the stylist during the slot a call asks for.
IsFree(c, svc, B) ==
    \A b \in B : ledger[b].sty = c.sty =>
        ~Overlaps(StartOf(c.date, c.start), EndOf(c.date, c.start, DurationMinutes[svc]),
                  ledger[b].startAt, ledger[b].endAt)

\* A create acts on the book as it is: nobody holds the slot, not even the
\* create itself from an attempt that was not acknowledged.
Enter(r) ==
    LET c == demand[r] IN
    /\ c.op = "create"
    /\ Servable(c, c.svc)
    /\ IsFree(c, c.svc, Standing)
    /\ ledger' = [ledger EXCEPT ![r] =
          [id |-> r, svc |-> c.svc, sty |-> c.sty, startAt |-> StartOf(c.date, c.start),
           endAt |-> EndOf(c.date, c.start, DurationMinutes[c.svc]), status |-> "confirmed"]]
    /\ holder' = [holder EXCEPT ![r] = r]

Place(r) == Enter(r) /\ Tell(r, {"done", "failed"})

\* The entry is made, but whoever makes it does not hear so and tries again.
PlaceUnheard(r) ==
    /\ Enter(r)
    /\ answer[r] = "none"
    /\ UNCHANGED <<demand, answer, before>>

Strike(r) ==
    LET c == demand[r] IN
    /\ c.op = "cancel" /\ ledger[c.id] # Absent
    /\ ledger' = [ledger EXCEPT ![c.id].status = "cancelled"]
    /\ Tell(r, {"done", "failed"})
    /\ UNCHANGED holder

\* A move promises less: nobody holds the slot who was in it before r asked.
\* It leaves the service and the status of the entry alone.
Shift(r) ==
    LET c == demand[r] IN
    /\ c.op = "reschedule" /\ ledger[c.id] # Absent
    /\ Servable(c, ledger[c.id].svc)
    /\ IsFree(c, ledger[c.id].svc, {b \in Standing \ {c.id} : holder[b] \in before[r]})
    /\ ledger' = [ledger EXCEPT
          ![c.id].sty = c.sty,
          ![c.id].startAt = StartOf(c.date, c.start),
          ![c.id].endAt = EndOf(c.date, c.start, DurationMinutes[ledger[c.id].svc])]
    /\ holder' = [holder EXCEPT ![c.id] = r]
    /\ Tell(r, {"done", "failed"})

\* A block is no entry of the book.
Close(r) ==
    /\ demand[r].op = "block"
    /\ Tell(r, {"done", "failed"})
    /\ UNCHANGED <<ledger, holder>>

\* To be refused changes nothing; only a create may have acted, unheard, before.
TurnDown(r) ==
    /\ Tell(r, {"refused", "failed"})
    /\ UNCHANGED <<ledger, holder>>

Next ==
    \E r \in Requests : \/ Ask(r) \/ Place(r) \/ PlaceUnheard(r)
                        \/ Strike(r) \/ Shift(r) \/ Close(r) \/ TurnDown(r)

Spec == Init /\ [][Next]_ledgerVars
=============================================================================
