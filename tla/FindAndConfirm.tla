---------------------------- MODULE FindAndConfirm ----------------------------
(***************************************************************************)
(* Those who read the bookings that BookingService writes: a caller who    *)
(* asks for her appointments (findBookings), one who wants a confirmation  *)
(* mailed (sendConfirmation), and the salon's own list                     *)
(* (listBookingsAdmin).  Their reads, the clock, the mail provider and the *)
(* booking endpoints' steps interleave freely.                             *)
(***************************************************************************)
EXTENDS BookingProperties, Sequences

CONSTANTS
    Readers,            \* every request of these endpoints
    NoFilter,           \* a filter that was not given
    OwnerOf,            \* booking id -> customerPhone
    ReferenceOf,        \* booking id -> reference; random, so two may be equal
    HasEmail,           \* the bookings with a customerEmail
    FindCalls, ListCalls, ConfirmCalls  \* what may be asked

ASSUME ReaderAssumption ==
    /\ HasEmail \subseteq BookingIds
    /\ \A c \in FindCalls : c.op = "find"
    /\ \A c \in ListCalls : c.op = "list"
    /\ \A c \in ConfirmCalls :
          c.op = "confirm" /\ c.id \in BookingIds /\ c.channels \in Nat \ {0}

Asks == FindCalls \cup ListCalls \cup ConfirmCalls
NoAsk == [op |-> "none"]

ReaderPlaces == {"idle", "query", "filter", "names", "sort", "lookup", "render", "send", "save", "done"}
Unanswered == [code |-> "none", entries |-> {}]

VARIABLES
    at,         \* reader -> the await it is at, or the code after it
    ask,        \* reader -> what it asked for
    rows,       \* reader -> the bookings it holds
    results,    \* reader -> whether each channel so far reported success
    answer,     \* reader -> its response
    readFailures, \* how many of the readers' database calls failed so far
    mails,      \* history: what the provider took, and for whom
    since,      \* history: reader -> who had been answered when it arrived
    heard       \* history: request -> the readers answered when it arrived

readerVars == <<at, ask, rows, results, answer, readFailures, mails, since>>
allVars == <<vars, readerVars, heard>>

ReaderTypeOK ==
    /\ at \in [Readers -> ReaderPlaces]
    /\ ask \in [Readers -> Asks \cup {NoAsk}]
    /\ rows \in [Readers -> SUBSET Doc]
    /\ \A f \in Readers : \A i \in DOMAIN results[f] : results[f][i] \in BOOLEAN
    /\ \A f \in Readers : answer[f].code \in Codes \cup {"none"}
    /\ readFailures \in 0..MaxFailures
    /\ \A m \in mails : m.by \in Readers /\ m.doc \in Doc
    /\ since \in [Readers -> SUBSET BookingIds]
    /\ heard \in [Requests -> SUBSET Readers]

ReadersInit ==
    /\ Init
    /\ at = [f \in Readers |-> "idle"]
    /\ ask = [f \in Readers |-> NoAsk]
    /\ rows = [f \in Readers |-> {}]
    /\ results = [f \in Readers |-> <<>>]
    /\ answer = [f \in Readers |-> Unanswered]
    /\ readFailures = 0
    /\ mails = {}
    /\ since = [f \in Readers |-> {}]
    /\ heard = [r \in Requests |-> {}]

-----------------------------------------------------------------------------
(* Coming and going                                                        *)

GoTo(f, place) == at' = [at EXCEPT ![f] = place]

Finish(f, code, entries) ==
    /\ GoTo(f, "done")
    /\ answer' = [answer EXCEPT ![f] = [code |-> code, entries |-> entries]]
    /\ rows' = [rows EXCEPT ![f] = {}]

FirstPlace(c) == IF c.op = "confirm" THEN "lookup" ELSE "query"

Come(f) ==
    /\ at[f] = "idle"
    /\ \E c \in Asks : ask' = [ask EXCEPT ![f] = c] /\ GoTo(f, FirstPlace(c))
    /\ since' = [since EXCEPT ![f] = Seeded \cup Answered]
    /\ UNCHANGED <<vars, rows, results, answer, readFailures, mails, heard>>

\* A database call fails: 500, whatever was mailed by then.
ReadFails(f) ==
    /\ at[f] \in {"query", "names", "lookup", "render", "save"}
    /\ readFailures < MaxFailures
    /\ readFailures' = readFailures + 1
    /\ Finish(f, "INTERNAL_ERROR", {})
    /\ UNCHANGED <<vars, ask, results, mails, since, heard>>

-----------------------------------------------------------------------------
(* findBookings                                                            *)

Wanted(c, d) == /\ c.phone \in {NoFilter, OwnerOf[d.id]}
                /\ d.status = "confirmed"

\* The query names phone and status; a listing fetches every booking.
Query(f) ==
    /\ at[f] = "query"
    /\ LET all == {bookings[b] : b \in BookingIds} \ {NoDoc} IN
        \/ /\ ask[f].op = "find"
           /\ rows' = [rows EXCEPT ![f] = {d \in all : Wanted(ask[f], d)}]
           /\ GoTo(f, "filter")
        \/ /\ ask[f].op = "list"
           /\ rows' = [rows EXCEPT ![f] = all]
           /\ GoTo(f, "sort")
    /\ UNCHANGED <<vars, ask, results, answer, readFailures, mails, since, heard>>

\* A faulty Upcoming: it takes the clock for exclusive.
StrictlyUpcoming(d) == Before(now, d.startAt)

\* A missing start is not at or after any moment.
Upcoming(d) == d.startAt # Invalid /\ d.startAt >= now

FilterRows(f) ==
    /\ at[f] = "filter"
    /\ rows' = [rows EXCEPT ![f] =
          {d \in @ : ask[f].reference \in {NoFilter, ReferenceOf[d.id]} /\ Upcoming(d)}]
    /\ GoTo(f, "names")
    /\ UNCHANGED <<vars, ask, results, answer, readFailures, mails, since, heard>>

\* A faulty Flagged: the window ends an hour early.
FlaggedLate(d) == HoursUntil(d.startAt, now) < Window

Flagged(d) == HoursUntil(d.startAt, now) <= Window

\* The names are read, and the hours left are counted, after another await.
Present(f) ==
    /\ at[f] = "names"
    /\ Finish(f, "OK", {[id |-> d.id, sty |-> d.sty, startAt |-> d.startAt,
                         status |-> d.status, within |-> Flagged(d)] : d \in rows[f]})
    /\ UNCHANGED <<vars, ask, results, readFailures, mails, since, heard>>

-----------------------------------------------------------------------------
(* listBookingsAdmin                                                       *)

\* A start that is missing is in no range.
InList(c, d) ==
    /\ c.status \in {NoFilter, d.status}
    /\ c.from # NoFilter => d.startAt # Invalid /\ d.startAt >= c.from
    /\ c.to # NoFilter => d.startAt # Invalid /\ d.startAt <= c.to

\* The sort compares each row but the first that was fetched with an earlier
\* one, by a method of its start: a missing start further on throws.
SortList(f) ==
    /\ at[f] = "sort"
    /\ LET listed == {d \in rows[f] : InList(ask[f], d)}
           broken == {d \in listed : d.startAt = Invalid}
       IN \/ /\ \E first \in listed : broken \ {first} # {}
             /\ Finish(f, "INTERNAL_ERROR", {})
          \/ /\ listed = {} \/ \E first \in listed : broken \ {first} = {}
             /\ Finish(f, "OK", {[id |-> d.id, sty |-> d.sty, startAt |-> d.startAt,
                                  status |-> d.status] : d \in listed})
    /\ UNCHANGED <<vars, ask, results, readFailures, mails, since, heard>>

-----------------------------------------------------------------------------
(* sendConfirmation                                                        *)

\* A faulty Lookup: it takes whatever the id leads to.
LookupUnchecked(f) ==
    /\ at[f] = "lookup"
    /\ rows' = [rows EXCEPT ![f] = {bookings[ask[f].id]}]
    /\ GoTo(f, "render")
    /\ UNCHANGED <<vars, ask, results, answer, readFailures, mails, since, heard>>

\* The status of the booking is not looked at.
Lookup(f) ==
    /\ at[f] = "lookup"
    /\ LET d == bookings[ask[f].id] IN
        \/ /\ d = NoDoc
           /\ Finish(f, "BOOKING_NOT_FOUND", {})
        \/ /\ d # NoDoc
           /\ rows' = [rows EXCEPT ![f] = {d}]
           /\ GoTo(f, "render")
           /\ UNCHANGED answer
    /\ UNCHANGED <<vars, ask, results, readFailures, mails, since, heard>>

\* A faulty Render: what it throws is answered by nobody.
RenderDated(f) ==
    /\ at[f] = "render"
    /\ \E d \in rows[f] : d.startAt # Invalid
    /\ GoTo(f, "send")
    /\ UNCHANGED <<vars, ask, rows, results, answer, readFailures, mails, since, heard>>

\* Once service and stylist are read the text is put together; the words for
\* a date that is none recurse until the stack is full.
Render(f) ==
    /\ at[f] = "render"
    /\ \E d \in rows[f] :
        \/ d.startAt = Invalid /\ Finish(f, "INTERNAL_ERROR", {})
        \/ d.startAt # Invalid /\ GoTo(f, "send") /\ UNCHANGED <<rows, answer>>
    /\ UNCHANGED <<vars, ask, results, readFailures, mails, since, heard>>

\* A faulty Send: whoever has an address was sent a mail.
SendAndHope(f) ==
    /\ at[f] = "send"
    /\ \E d \in rows[f], taken \in BOOLEAN :
        LET ok == d.id \in HasEmail
        IN /\ results' = [results EXCEPT ![f] = Append(@, ok)]
           /\ mails' = IF taken /\ ok THEN mails \cup {[by |-> f, nth |-> Len(results'[f]), doc |-> d]}
                       ELSE mails
    /\ GoTo(f, IF Len(results'[f]) = ask[f].channels THEN "save" ELSE "send")
    /\ UNCHANGED <<vars, ask, rows, answer, readFailures, since, heard>>

\* A faulty Send: a provider that refuses fails the request.
SendUncaught(f) ==
    /\ at[f] = "send"
    /\ \/ Finish(f, "INTERNAL_ERROR", {}) /\ UNCHANGED results
       \/ /\ results' = [results EXCEPT ![f] = Append(@, FALSE)]
          /\ GoTo(f, IF Len(results'[f]) = ask[f].channels THEN "save" ELSE "send")
          /\ UNCHANGED <<rows, answer>>
    /\ UNCHANGED <<vars, ask, readFailures, mails, since, heard>>

\* One turn of the loop over the channels.  Without an address nothing is
\* sent; otherwise the provider takes the mail and says so, takes it and its
\* answer is lost, or does not take it.  Whatever is thrown becomes a result.
Send(f) ==
    /\ at[f] = "send"
    /\ \E d \in rows[f], taken, ok \in BOOLEAN :
        /\ d.id \notin HasEmail => ~taken
        /\ ok => taken
        /\ results' = [results EXCEPT ![f] = Append(@, ok)]
        /\ mails' = IF taken THEN mails \cup {[by |-> f, nth |-> Len(results'[f]), doc |-> d]}
                    ELSE mails
    /\ GoTo(f, IF Len(results'[f]) = ask[f].channels THEN "save" ELSE "send")
    /\ UNCHANGED <<vars, ask, rows, answer, readFailures, since, heard>>

\* The idempotency record is written, and the 202 goes out.
SaveResult(f) ==
    /\ at[f] = "save"
    /\ Finish(f, "OK", {})
    /\ UNCHANGED <<vars, ask, results, readFailures, mails, since, heard>>

-----------------------------------------------------------------------------
(* The system                                                              *)

ReaderStep(f) ==
    \/ Query(f) \/ FilterRows(f) \/ Present(f) \/ SortList(f)
    \/ Lookup(f) \/ Render(f) \/ Send(f) \/ SaveResult(f)

ReadersDone == {f \in Readers : at[f] = "done"}

\* What the booking endpoints do meanwhile.
ServiceNext ==
    \/ \E r \in Requests :
          /\ Arrive(r)
          /\ heard' = [heard EXCEPT ![r] = ReadersDone]
          /\ UNCHANGED readerVars
    \/ /\ Tick \/ \E r \in Requests : Step(r) \/ StoreFails(r)
       /\ UNCHANGED <<readerVars, heard>>

ReadersNext ==
    \/ ServiceNext
    \/ \E f \in Readers : Come(f) \/ ReaderStep(f) \/ ReadFails(f)

ReadersSpec == ReadersInit /\ [][ReadersNext]_allVars

\* Every await settles, the provider's too.
ReadersFair ==
    /\ \A r \in Requests : WF_allVars(Step(r) /\ UNCHANGED <<readerVars, heard>>)
    /\ \A f \in Readers : WF_allVars(ReaderStep(f))

FairReadersSpec == ReadersSpec /\ ReadersFair

-----------------------------------------------------------------------------
(* What the readers may rely on                                            *)

\* Whether f's answer ought to name a booking as it is now.
Due(f, d) ==
    \/ /\ ask[f].op = "find" /\ Wanted(ask[f], d)
       /\ ask[f].reference \in {NoFilter, ReferenceOf[d.id]}
       /\ d.startAt >= now      \* which a missing start is not
    \/ ask[f].op = "list" /\ InList(ask[f], d) /\ d.status = "confirmed"

\* Who booked or moved an appointment and was answered, and asks afterwards,
\* finds it where it was put, as long as nobody touches it; and an appointment
\* whose cancel was answered is not among the confirmed ones, if its create had
\* been answered when the cancel arrived.  This takes more than a fresh read: no
\* race of other requests brings a booking back or changes it on the way
\* (findBookings, listBookingsAdmin).
TellsTheBook ==
    \A f \in Readers : ask[f].op \in {"find", "list"} /\ answer[f].code = "OK" =>
        /\ \A b \in BookingIds :
              /\ bookings[b] # NoDoc /\ placedBy[b] \in since[f]
              /\ Due(f, bookings[b])
              => \E e \in answer[f].entries : /\ e.id = b
                                              /\ e.sty = bookings[b].sty
                                              /\ e.startAt = bookings[b].startAt
        /\ \A e \in answer[f].entries, q \in Requests :
              /\ q \in since[f] /\ call[q].op = "cancel" /\ call[q].id = e.id
              /\ reply[q].code = "OK" /\ e.id \in prior[q]
              => e.status = "cancelled"

\* A booking was moved by somebody not in S, or moved back by its own create,
\* whose transaction was run again.
MovedOutside(b, S) ==
    \/ \E m \in Requests \ S : call[m].op = "reschedule" /\ call[m].id = b /\ Landed(m)
    \/ b \in Requests \ S /\ failures > 0

\* The flag a caller is read out and the refusal of cancel and reschedule are
\* two computations at two moments.  They agree as far as they can: told that
\* it is too late, nobody can cancel the appointment any more; and refused for
\* that reason, the caller hears so when she asks (lines 187 and 215).
FlagAgreesWithCancel ==
    \A f \in Readers, q \in Requests :
        \A e \in IF ask[f].op = "find" THEN answer[f].entries ELSE {} :
            call[q].op \in {"cancel", "reschedule"} /\ call[q].id = e.id =>
            /\ f \in heard[q] /\ e.within /\ ~MovedOutside(e.id, since[f] \cup {q})
               => reply[q].code # "OK"
            /\ q \in since[f] /\ reply[q].code = "WITHIN_CANCELLATION_WINDOW"
                  /\ ~MovedOutside(e.id, prior[q])
               => e.within

\* A mail names the slot the booking has, if that was settled when the
\* confirmation was asked for, and a channel reports success only if the
\* provider took a mail for it; a mail may go out and be reported as failed.
ConfirmationsAreHonest ==
    /\ \A m \in mails : placedBy[m.doc.id] \in since[m.by] =>
          /\ m.doc.startAt = bookings[m.doc.id].startAt
          /\ m.doc.sty = bookings[m.doc.id].sty
    /\ \A f \in Readers : \A i \in DOMAIN results[f] : results[f][i] =>
          \E m \in mails : m.by = f /\ m.nth = i /\ m.doc.id = ask[f].id

\* While the database works a reader meets an error only if somebody booked a
\* time that is none ("10:75"): a provider that fails never fails the request.
OnlyMalformedStartsBreakReaders ==
    \A f \in Readers :
        answer[f].code = "INTERNAL_ERROR" /\ readFailures = 0 =>
            \E r \in Requests : /\ IsPlacement(r) /\ ~ParsesAsTime(call[r].start)
                               /\ (Landed(r) \/ bookings[r] # NoDoc)

\* Every reader is answered, whatever the provider does.
EveryReaderAnswered == <>[](\A f \in Readers : at[f] \in {"idle", "done"})
=============================================================================
