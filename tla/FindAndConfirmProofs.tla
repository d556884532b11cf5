------------------------- MODULE FindAndConfirmProofs -------------------------
(***************************************************************************)
(* The readers of FindAndConfirm beside the booking endpoints, for every   *)
(* number of readers and requests: they change nothing of the service, and *)
(* what was settled before a reader came is what it tells.                 *)
(***************************************************************************)
EXTENDS FindAndConfirm, BookingLedgerProofs

-----------------------------------------------------------------------------
(* Readers only read                                                       *)

LEMMA ReadersWriteNothing ==
  ASSUME NEW f \in Readers, Come(f) \/ ReaderStep(f) \/ ReadFails(f)
  PROVE  UNCHANGED vars /\ heard' = heard
BY DEF Come, ReadFails, ReaderStep, Query, FilterRows, Present, SortList, Lookup, Render, Send,
   SaveResult

LEMMA ServiceGoesOn ==
  ASSUME ServiceNext
  PROVE  Next /\ UNCHANGED readerVars
BY DEF ServiceNext, Next

\* Whatever the readers do, the booking endpoints behave as without them: every
\* theorem about them holds beside any number of readers.
THEOREM ReadersLeaveTheService == ReadersSpec => Spec
<1>1. ReadersInit => Init
  BY DEF ReadersInit
<1>2. [ReadersNext]_allVars => [Next]_vars
  BY ServiceGoesOn, ReadersWriteNothing DEF ReadersNext, allVars
<1>3. QED
  BY <1>1, <1>2, PTL DEF ReadersSpec, Spec

-----------------------------------------------------------------------------
(* Type correctness                                                        *)

\* What a reader holds at each of its places.
HoldsWhatItNeeds(f) ==
    /\ at[f] \in {"query", "sort"} => ask[f].op \in {"find", "list"}
    /\ at[f] \in {"filter", "names"} => ask[f].op = "find"
    /\ at[f] = "sort" => ask[f].op = "list"
    /\ at[f] \in {"lookup", "render", "send", "save"} => ask[f] \in ConfirmCalls
    /\ at[f] \in {"render", "send", "save"} => \E d \in Doc : rows[f] = {d} /\ d.id = ask[f].id
    /\ at[f] # "done" => answer[f] = Unanswered
    /\ since[f] \subseteq Seeded \cup Answered

ReadersTyped ==
    /\ ReaderTypeOK
    /\ results \in [Readers -> Seq(BOOLEAN)]
    /\ answer = [f \in Readers |-> answer[f]]
    /\ \A f \in Readers : HoldsWhatItNeeds(f)

LEMMA AskKinds ==
  /\ NoAsk.op = "none"
  /\ \A c \in Asks : /\ c.op = "find" => c \in FindCalls
                     /\ c.op = "list" => c \in ListCalls
                     /\ c.op = "confirm" => c \in ConfirmCalls
                     /\ c.op \in {"find", "list", "confirm"}
  BY ReaderAssumption DEF Asks, NoAsk

LEMMA BookedAreDocs ==
  ASSUME Typed, Traced
  PROVE  \A b \in BookingIds : bookings[b] # NoDoc => bookings[b] \in Doc /\ bookings[b].id = b
  BY DEF Typed, TypeOK, Traced, IdsMatch

\* A reader's step leaves the others what they hold.
LEMMA OtherReadersTyped ==
  ASSUME ReadersTyped, NEW f \in Readers, UNCHANGED vars,
         NEW g \in Readers \ {f},
         at'[g] = at[g], ask'[g] = ask[g], rows'[g] = rows[g], answer'[g] = answer[g],
         since'[g] = since[g]
  PROVE  HoldsWhatItNeeds(g)'
  BY DEF ReadersTyped, HoldsWhatItNeeds, Answered, vars

LEMMA FinishTyped ==
  ASSUME ReadersTyped, NEW f \in Readers, UNCHANGED vars, NEW code \in Codes, NEW entries,
         Finish(f, code, entries), UNCHANGED <<ask, since, mails, heard>>,
         results' \in [Readers -> Seq(BOOLEAN)], readFailures' \in 0..MaxFailures
  PROVE  ReadersTyped'
<1>1. /\ at' \in [Readers -> ReaderPlaces] /\ at'[f] = "done"
      /\ rows' \in [Readers -> SUBSET Doc] /\ rows'[f] = {}
      /\ \A g \in Readers \ {f} : at'[g] = at[g] /\ rows'[g] = rows[g]
  BY DEF ReadersTyped, ReaderTypeOK, Finish, GoTo, ReaderPlaces
<1>2. /\ answer' = [g \in Readers |-> answer'[g]]
      /\ answer'[f] = [code |-> code, entries |-> entries]
      /\ \A g \in Readers \ {f} : answer'[g] = answer[g]
  BY DEF ReadersTyped, Finish
<1>3. \A g \in Readers : answer'[g].code \in Codes \cup {"none"}
  <2>1. \A g \in Readers : answer[g].code \in Codes \cup {"none"}
    BY DEF ReadersTyped, ReaderTypeOK
  <2>2. answer'[f].code = code
    BY <1>2
  <2>3. QED
    BY <1>2, <2>1, <2>2
<1>4. ReaderTypeOK'
  BY <1>1, <1>3 DEF ReadersTyped, ReaderTypeOK, vars
<1>5. HoldsWhatItNeeds(f)'
  BY <1>1 DEF ReadersTyped, HoldsWhatItNeeds, Answered, vars
<1>6. \A g \in Readers : HoldsWhatItNeeds(g)'
  BY <1>1, <1>2, <1>5, OtherReadersTyped
<1>7. QED
  BY <1>2, <1>4, <1>6 DEF ReadersTyped

\* A step that leads on to another place.
LEMMA GoOnTyped ==
  ASSUME ReadersTyped, NEW f \in Readers, UNCHANGED vars, NEW place \in ReaderPlaces \ {"done"},
         GoTo(f, place), UNCHANGED <<ask, since, answer, heard, readFailures>>,
         at[f] # "done",
         rows' \in [Readers -> SUBSET Doc], \A g \in Readers \ {f} : rows'[g] = rows[g],
         results' \in [Readers -> Seq(BOOLEAN)],
         \A m \in mails' : m.by \in Readers /\ m.doc \in Doc,
         HoldsWhatItNeeds(f)'
  PROVE  ReadersTyped'
<1>1. at' \in [Readers -> ReaderPlaces] /\ \A g \in Readers \ {f} : at'[g] = at[g]
  BY DEF ReadersTyped, ReaderTypeOK, GoTo
<1>2. \A g \in Readers : HoldsWhatItNeeds(g)'
  BY <1>1, OtherReadersTyped
<1>3. ReaderTypeOK'
  BY <1>1 DEF ReadersTyped, ReaderTypeOK, vars
<1>4. QED
  BY <1>2, <1>3 DEF ReadersTyped

LEMMA ReadFailsTyped ==
  ASSUME ReadersTyped, NEW f \in Readers, ReadFails(f)
  PROVE  ReadersTyped'
<1>1. "INTERNAL_ERROR" \in Codes
  BY DEF Codes
<1>2. readFailures' \in 0..MaxFailures
  BY RequestsAssumption DEF ReadFails, ReadersTyped, ReaderTypeOK
<1>3. QED
  BY <1>1, <1>2, ReadersWriteNothing, FinishTyped DEF ReadFails, ReadersTyped

LEMMA ComeTyped ==
  ASSUME ReadersTyped, NEW f \in Readers, Come(f)
  PROVE  ReadersTyped'
<1>1. PICK c \in Asks : ask' = [ask EXCEPT ![f] = c] /\ GoTo(f, FirstPlace(c))
  BY DEF Come
<1>2. /\ ask' \in [Readers -> Asks \cup {NoAsk}] /\ ask'[f] = c
      /\ at' \in [Readers -> ReaderPlaces] /\ at'[f] = FirstPlace(c)
      /\ \A g \in Readers \ {f} : ask'[g] = ask[g] /\ at'[g] = at[g]
  BY <1>1 DEF ReadersTyped, ReaderTypeOK, GoTo, FirstPlace, ReaderPlaces
<1>3. /\ since' \in [Readers -> SUBSET BookingIds] /\ since'[f] = Seeded \cup Answered
      /\ \A g \in Readers \ {f} : since'[g] = since[g]
  BY DEF Come, ReadersTyped, ReaderTypeOK, Answered, BookingIds
<1>4. ReaderTypeOK'
  BY <1>2, <1>3 DEF Come, ReadersTyped, ReaderTypeOK, vars
<1>5. HoldsWhatItNeeds(f)'
  <2>1. answer'[f] = Unanswered
    BY DEF Come, ReadersTyped, HoldsWhatItNeeds
  <2>2. Answered' = Answered
    BY DEF Come, vars, Answered
  <2>3. QED
    BY <1>2, <1>3, <2>1, <2>2, AskKinds DEF HoldsWhatItNeeds, FirstPlace
<1>6. \A g \in Readers : HoldsWhatItNeeds(g)'
  BY <1>2, <1>3, <1>5, ReadersWriteNothing, OtherReadersTyped DEF Come
<1>7. QED
  BY <1>4, <1>6 DEF Come, ReadersTyped

LEMMA QueryTyped ==
  ASSUME Typed, Traced, ReadersTyped, NEW f \in Readers, Query(f)
  PROVE  ReadersTyped'
<1>1. PICK place \in {"filter", "sort"} :
        GoTo(f, place) /\ ask[f].op = (IF place = "filter" THEN "find" ELSE "list")
  BY DEF Query
<1>2. rows' \in [Readers -> SUBSET Doc] /\ \A g \in Readers \ {f} : rows'[g] = rows[g]
  <2>1. PICK R \in SUBSET Doc : rows' = [rows EXCEPT ![f] = R]
    BY BookedAreDocs DEF Query
  <2>2. QED
    BY <2>1 DEF ReadersTyped, ReaderTypeOK
<1>3. at'[f] = place
  BY <1>1 DEF ReadersTyped, ReaderTypeOK, GoTo
<1>4. HoldsWhatItNeeds(f)'
  BY <1>1, <1>3 DEF Query, ReadersTyped, HoldsWhatItNeeds, Answered, vars
<1>5. QED
  BY <1>1, <1>2, <1>4, GoOnTyped DEF Query, ReaderPlaces, ReadersTyped, ReaderTypeOK

LEMMA FilterRowsTyped ==
  ASSUME ReadersTyped, NEW f \in Readers, FilterRows(f)
  PROVE  ReadersTyped'
<1>1. rows' \in [Readers -> SUBSET Doc] /\ \A g \in Readers \ {f} : rows'[g] = rows[g]
  <2>1. PICK R \in SUBSET Doc : rows' = [rows EXCEPT ![f] = R]
    BY DEF FilterRows, ReadersTyped, ReaderTypeOK
  <2>2. QED
    BY <2>1 DEF ReadersTyped, ReaderTypeOK
<1>2. at'[f] = "names"
  BY DEF FilterRows, ReadersTyped, ReaderTypeOK, GoTo
<1>3. HoldsWhatItNeeds(f)'
  BY <1>2 DEF FilterRows, ReadersTyped, HoldsWhatItNeeds, Answered, vars
<1>4. QED
  BY <1>1, <1>3, GoOnTyped DEF FilterRows, ReaderPlaces, ReadersTyped, ReaderTypeOK

LEMMA AnsweringTyped ==
  ASSUME ReadersTyped, NEW f \in Readers, Present(f) \/ SortList(f) \/ SaveResult(f)
  PROVE  ReadersTyped'
<1>1. PICK code \in {"OK", "INTERNAL_ERROR"} : \E entries : Finish(f, code, entries)
  BY DEF Present, SortList, SaveResult
<1>2. code \in Codes
  BY DEF Codes
<1>3. QED
  BY <1>1, <1>2, FinishTyped DEF Present, SortList, SaveResult, ReadersTyped, ReaderTypeOK

LEMMA LookupTyped ==
  ASSUME Typed, Traced, ReadersTyped, NEW f \in Readers, Lookup(f)
  PROVE  ReadersTyped'
<1> DEFINE d == bookings[ask[f].id]
<1>1. ask[f] \in ConfirmCalls /\ ask[f].id \in BookingIds
  BY ReaderAssumption DEF Lookup, ReadersTyped, HoldsWhatItNeeds
<1>2. CASE Finish(f, "BOOKING_NOT_FOUND", {})
  BY <1>2, FinishTyped DEF Lookup, ReadersTyped, ReaderTypeOK, Codes
<1>3. CASE d # NoDoc /\ rows' = [rows EXCEPT ![f] = {d}] /\ GoTo(f, "render") /\ UNCHANGED answer
  <2>1. d \in Doc /\ d.id = ask[f].id
    BY <1>1, <1>3, BookedAreDocs
  <2>2. /\ rows' \in [Readers -> SUBSET Doc] /\ rows'[f] = {d} /\ at'[f] = "render"
        /\ \A g \in Readers \ {f} : rows'[g] = rows[g]
    BY <1>3, <2>1 DEF ReadersTyped, ReaderTypeOK, GoTo
  <2>3. HoldsWhatItNeeds(f)'
    <3>1. \E e \in Doc : rows'[f] = {e} /\ e.id = ask'[f].id
      BY <2>1, <2>2 DEF Lookup
    <3>2. /\ answer'[f] = Unanswered /\ since'[f] \subseteq Seeded \cup Answered
          /\ Answered' = Answered /\ ask'[f] \in ConfirmCalls
      BY <1>1, <1>3 DEF Lookup, ReadersTyped, HoldsWhatItNeeds, Answered, vars
    <3>3. QED
      BY <2>2, <3>1, <3>2 DEF HoldsWhatItNeeds
  <2>4. QED
    BY <1>3, <2>2, <2>3, GoOnTyped DEF Lookup, ReaderPlaces, ReadersTyped, ReaderTypeOK
<1>4. QED
  BY <1>2, <1>3 DEF Lookup

LEMMA RenderTyped ==
  ASSUME ReadersTyped, NEW f \in Readers, Render(f)
  PROVE  ReadersTyped'
<1>1. CASE Finish(f, "INTERNAL_ERROR", {})
  BY <1>1, FinishTyped DEF Render, ReadersTyped, ReaderTypeOK, Codes
<1>2. CASE GoTo(f, "send") /\ UNCHANGED <<rows, answer>>
  <2>1. at'[f] = "send"
    BY <1>2 DEF ReadersTyped, ReaderTypeOK, GoTo
  <2>2. HoldsWhatItNeeds(f)'
    BY <1>2, <2>1 DEF Render, ReadersTyped, HoldsWhatItNeeds, Answered, vars
  <2>3. QED
    BY <1>2, <2>2, GoOnTyped DEF Render, ReaderPlaces, ReadersTyped, ReaderTypeOK
<1>3. QED
  BY <1>1, <1>2 DEF Render

LEMMA SendTyped ==
  ASSUME ReadersTyped, NEW f \in Readers, Send(f)
  PROVE  ReadersTyped'
<1>1. PICK d \in rows[f], taken \in BOOLEAN, ok \in BOOLEAN :
        /\ results' = [results EXCEPT ![f] = Append(@, ok)]
        /\ mails' = IF taken THEN mails \cup {[by |-> f, nth |-> Len(results'[f]), doc |-> d]}
                    ELSE mails
  BY DEF Send
<1>2. PICK place \in {"save", "send"} : GoTo(f, place)
  BY DEF Send
<1>3. results' \in [Readers -> Seq(BOOLEAN)]
  <2>1. results[f] \in Seq(BOOLEAN)
    BY DEF ReadersTyped
  <2>2. Append(results[f], ok) \in Seq(BOOLEAN)
    BY <2>1
  <2>3. QED
    BY <1>1, <2>2 DEF ReadersTyped
<1>4. \A m \in mails' : m.by \in Readers /\ m.doc \in Doc
  BY <1>1 DEF ReadersTyped, ReaderTypeOK
<1>5. at'[f] = place
  BY <1>2 DEF ReadersTyped, ReaderTypeOK, GoTo
<1>6. HoldsWhatItNeeds(f)'
  BY <1>5 DEF Send, ReadersTyped, HoldsWhatItNeeds, Answered, vars
<1>7. QED
  BY <1>2, <1>3, <1>4, <1>6, GoOnTyped DEF Send, ReaderPlaces, ReadersTyped, ReaderTypeOK

LEMMA AnsweredStays ==
  ASSUME Typed, [Next]_vars
  PROVE  Answered \subseteq Answered'
  BY OwnStepsOnly DEF Answered

LEMMA ServiceTyped ==
  ASSUME Typed, ReadersTyped, ServiceNext
  PROVE  ReadersTyped'
<1>1. UNCHANGED readerVars /\ Answered \subseteq Answered'
  BY ServiceGoesOn, AnsweredStays
<1>2. heard' \in [Requests -> SUBSET Readers]
  BY DEF ServiceNext, ReadersTyped, ReaderTypeOK, ReadersDone
<1>3. ReaderTypeOK'
  BY <1>1, <1>2 DEF ReadersTyped, ReaderTypeOK, readerVars
<1>4. \A f \in Readers : HoldsWhatItNeeds(f)'
  BY <1>1 DEF ReadersTyped, HoldsWhatItNeeds, readerVars
<1>5. QED
  BY <1>1, <1>3, <1>4 DEF ReadersTyped, readerVars

LEMMA ReadersTypedNext == Typed /\ Traced /\ ReadersTyped /\ [ReadersNext]_allVars => ReadersTyped'
<1> SUFFICES ASSUME Typed, Traced, ReadersTyped, [ReadersNext]_allVars PROVE ReadersTyped'
  OBVIOUS
<1>1. ASSUME NEW f \in Readers, Come(f) \/ ReaderStep(f) \/ ReadFails(f) PROVE ReadersTyped'
  BY <1>1, ComeTyped, ReadFailsTyped, QueryTyped, FilterRowsTyped, AnsweringTyped, LookupTyped,
     RenderTyped, SendTyped DEF ReaderStep
<1>2. CASE UNCHANGED allVars
  BY <1>2 DEF allVars, vars, readerVars, ReadersTyped, ReaderTypeOK, HoldsWhatItNeeds, Answered
<1>3. QED
  BY <1>1, <1>2, ServiceTyped DEF ReadersNext

LEMMA ReadersTypedInit == ReadersInit => ReadersTyped
<1> SUFFICES ASSUME ReadersInit PROVE ReadersTyped
  OBVIOUS
<1>1. ReaderTypeOK
  BY RequestsAssumption DEF ReadersInit, ReaderTypeOK, ReaderPlaces, Unanswered
<1>2. \A f \in Readers : HoldsWhatItNeeds(f)
  BY DEF ReadersInit, HoldsWhatItNeeds
<1>3. QED
  BY <1>1, <1>2 DEF ReadersInit, ReadersTyped

\* Beside the service every reader has the type it is declared with, and at
\* each await what the code after it needs.
THEOREM ReadersAreTyped == ReadersSpec => [](ReadersTyped /\ ReaderTypeOK)
<1>1. ReadersTyped => ReaderTypeOK
  BY DEF ReadersTyped
<1>2. QED
  BY <1>1, ReadersTypedInit, ReadersTypedNext, ReadersLeaveTheService, AlwaysTyped, AlwaysTraced,
     PTL DEF ReadersSpec

-----------------------------------------------------------------------------
(* What was settled when a reader came                                     *)

Settled(f, b) == bookings[b] \in Doc /\ placedBy[b] \in since[f]

Named(f, b) == \E e \in answer[f].entries : /\ e.id = b /\ e.sty = bookings[b].sty
                                            /\ e.startAt = bookings[b].startAt

\* Nothing settled is lost between the query and the answer, although bookings
\* are cancelled and the clock moves on meanwhile.
SeesBook(f) ==
    \A b \in BookingIds : Settled(f, b) =>
        /\ at[f] = "filter" /\ Wanted(ask[f], bookings[b]) => bookings[b] \in rows[f]
        /\ at[f] = "names" /\ Due(f, bookings[b]) => bookings[b] \in rows[f]
        /\ at[f] = "sort" /\ bookings[b].status = "confirmed" => bookings[b] \in rows[f]
        /\ at[f] = "done" /\ answer[f].code = "OK" /\ ask[f].op \in {"find", "list"}
              /\ Due(f, bookings[b]) => Named(f, b)

\* q was told that its booking is cancelled, and whoever created the booking
\* had been answered when q came: nobody writes over q's cancellation.
CancelTold(q) ==
    /\ pc[q] = "done" /\ call[q].op = "cancel" /\ reply[q].code = "OK"
    /\ call[q].id \in prior[q]

CancelsHold ==
    \A q \in Requests : CancelTold(q) =>
        bookings[call[q].id] \in Doc /\ bookings[call[q].id].status = "cancelled"

SeesCancels(f) ==
    \A q \in since[f] \cap Requests : CancelTold(q) =>
        /\ at[f] \in {"filter", "names", "sort"} =>
              \A d \in rows[f] : d.id = call[q].id => d.status = "cancelled"
        /\ \A e \in answer[f].entries :
              ask[f].op \in {"find", "list"} /\ e.id = call[q].id => e.status = "cancelled"

\* The slot a confirmation is written for.
SeesSlot(f) ==
    at[f] \in {"render", "send", "save"} =>
        \A d \in rows[f] : placedBy[d.id] \in since[f] =>
            /\ bookings[d.id] \in Doc
            /\ d.startAt = bookings[d.id].startAt /\ d.sty = bookings[d.id].sty

Sees(f) == SeesBook(f) /\ SeesCancels(f) /\ SeesSlot(f)

MailsTellTheSlot ==
    \A m \in mails :
        /\ at[m.by] # "idle"
        /\ placedBy[m.doc.id] \in since[m.by] =>
              /\ bookings[m.doc.id] \in Doc
              /\ m.doc.startAt = bookings[m.doc.id].startAt /\ m.doc.sty = bookings[m.doc.id].sty

ReportsAreCovered ==
    \A f \in Readers :
        /\ at[f] = "idle" => results[f] = <<>>
        /\ \A i \in DOMAIN results[f] : results[f][i] =>
              \E m \in mails : m.by = f /\ m.nth = i /\ m.doc.id = ask[f].id

Informed == CancelsHold /\ (\A f \in Readers : Sees(f)) /\ MailsTellTheSlot /\ ReportsAreCovered

\* Only a cancel changes a booking whose placer has been answered.
LEMMA SettledChanges ==
  ASSUME Typed, Traced, [Next]_vars, NEW b \in BookingIds, NEW S \in SUBSET (Seeded \cup Answered),
         placedBy'[b] \in S
  PROVE  /\ placedBy[b] \in S
         /\ \/ bookings'[b] = bookings[b]
            \/ /\ bookings[b] \in Doc
               /\ bookings'[b] = [bookings[b] EXCEPT !.status = "cancelled"]
<1>1. ASSUME NEW r \in Requests PROVE ~Creates(r, b) /\ ~Moves(r, b)
  <2>1. placedBy'[b] = r => pc[r] = "done"
    BY RequestsAssumption DEF Answered
  <2>2. QED
    BY <2>1 DEF Creates, Moves, RunTransaction, UpdateMoved
<1>2. \/ bookings'[b] = bookings[b] /\ placedBy'[b] = placedBy[b]
      \/ \E r \in Requests : Cancels(r, b)
  BY <1>1, BookingChanges
<1>3. QED
  BY <1>2 DEF Cancels

\* Who was told that a booking is cancelled was told so by its cancellation.
LEMMA CancelsHoldNext == Typed /\ Traced /\ CancelsHold /\ [Next]_vars => CancelsHold'
<1> SUFFICES ASSUME Typed, Traced, CancelsHold, [Next]_vars, NEW q \in Requests, CancelTold(q)'
             PROVE  bookings'[call'[q].id] \in Doc /\ bookings'[call'[q].id].status = "cancelled"
  BY DEF CancelsHold
<1>1. pc[q] # "idle" /\ call'[q] = call[q] /\ prior'[q] = prior[q]
  <2>1. pc[q] # "idle"
    <3>1. CASE pc[q] = "idle" /\ Arrive(q)
      BY <3>1 DEF Arrive, Goto, FirstPhase, CancelTold, Typed, TypeOK
    <3>2. CASE pc[q] = "idle" /\ ~Arrive(q)
      <4>1. ~(Step(q) \/ StoreFails(q))
        BY <3>2 DEF Step, StoreFails, ResolveContext, LoadBookings, LoadBlocks, AssertSlotIsValid,
           RunTransaction, RequireBooking, CheckCancellationWindow, UpdateCancelled, ResolveMove,
           UpdateMoved, AddBlock
      <4>2. QED
        BY <3>2, <4>1, OwnStepsOnly DEF CancelTold
    <3>3. QED
      BY <3>1, <3>2
  <2>2. QED
    BY <2>1, OwnStepsOnly
<1>2. call[q].id \in BookingIds
  BY <1>1, TargetsAreIds DEF CancelTold, Typed
<1>3. CASE pc[q] = "done"
  <2>1. CancelTold(q)
    BY <1>1, <1>3, OwnStepsOnly DEF CancelTold
  <2>2. bookings[call[q].id] \in Doc /\ bookings[call[q].id].status = "cancelled"
    BY <2>1 DEF CancelsHold
  <2>3. call[q].id \in Requests => pc[call[q].id] = "done"
    BY <2>1 DEF CancelTold, Traced, PriorAnswered
  <2>4. bookings'[call[q].id].status = "cancelled"
    BY <1>2, <2>2, <2>3, CancelledStays
  <2>5. QED
    BY <1>1, <1>2, <2>2, <2>4, BookingsStay
<1>4. CASE pc[q] # "done"
  <2>1. UpdateCancelled(q)
    BY <1>1, <1>4, OkIsAWrite DEF CancelTold, RunTransaction, UpdateMoved, AddBlock
  <2>2. bookings[call[q].id] \in Doc /\ bookings'[call[q].id].status = "cancelled"
    BY <1>2, <2>1 DEF UpdateCancelled, Cancelled, Typed, TypeOK, HandlersFit, DataFits, Placing, Doc
  <2>3. QED
    BY <1>1, <1>2, <2>2, BookingsStay
<1>5. QED
  BY <1>3, <1>4

LEMMA SlotStays ==
  ASSUME Typed, Traced, [Next]_vars, NEW b \in BookingIds, NEW S \in SUBSET (Seeded \cup Answered),
         placedBy'[b] \in S
  PROVE  /\ placedBy[b] \in S
         /\ bookings[b] \in Doc => /\ bookings'[b] \in Doc
                                   /\ bookings'[b].startAt = bookings[b].startAt
                                   /\ bookings'[b].sty = bookings[b].sty
BY SettledChanges, BookingsStay DEF Doc

LEMMA ClockGoesOn ==
  ASSUME Typed, [Next]_vars
  PROVE  now \in Nat /\ now' \in Nat /\ now <= now'
<1>1. now \in Nat
  BY RequestsAssumption DEF Typed, TypeOK
<1>2. ASSUME NEW r \in Requests, Arrive(r) \/ Step(r) \/ StoreFails(r) PROVE now' = now
  BY <1>2 DEF Arrive, StoreFails, Step, ResolveContext, LoadBookings, LoadBlocks,
     AssertSlotIsValid, RunTransaction, RequireBooking, CheckCancellationWindow,
     UpdateCancelled, ResolveMove, UpdateMoved, AddBlock
<1>3. QED
  BY <1>1, <1>2 DEF Next, Tick, vars

LEMMA ClockIsNat == Typed => now \in Nat
  BY RequestsAssumption DEF Typed, TypeOK

\* A step of the service leaves an answered request's words alone.
LEMMA ToldBefore ==
  ASSUME Typed, [Next]_vars, NEW q \in Requests \cap Answered
  PROVE  CancelTold(q)' => CancelTold(q) /\ call'[q] = call[q]
BY OwnStepsOnly DEF Answered, CancelTold

LEMMA ServiceSees ==
  ASSUME Typed, Traced, [Next]_vars, UNCHANGED readerVars, ReadersTyped, NEW f \in Readers, Sees(f)
  PROVE  Sees(f)'
<1>1. /\ at'[f] = at[f] /\ ask'[f] = ask[f] /\ rows'[f] = rows[f]
      /\ answer'[f] = answer[f] /\ since'[f] = since[f]
  BY DEF readerVars
<1>2. since[f] \in SUBSET (Seeded \cup Answered)
  BY DEF ReadersTyped, HoldsWhatItNeeds
<1>3. SeesBook(f)'
  <2> SUFFICES ASSUME NEW b \in BookingIds, Settled(f, b)'
               PROVE  (/\ at[f] = "filter" /\ Wanted(ask[f], bookings[b]) => bookings[b] \in rows[f]
                       /\ at[f] = "names" /\ Due(f, bookings[b]) => bookings[b] \in rows[f]
                       /\ at[f] = "sort" /\ bookings[b].status = "confirmed"
                            => bookings[b] \in rows[f]
                       /\ at[f] = "done" /\ answer[f].code = "OK" /\ ask[f].op \in {"find", "list"}
                            /\ Due(f, bookings[b]) => Named(f, b))'
    BY DEF SeesBook
  <2>1. Settled(f, b) /\ \/ bookings'[b] = bookings[b]
                         \/ bookings'[b] = [bookings[b] EXCEPT !.status = "cancelled"]
    BY <1>1, <1>2, SettledChanges DEF Settled
  <2>2. CASE bookings'[b] = [bookings[b] EXCEPT !.status = "cancelled"]
    <3>1. bookings'[b].status = "cancelled"
      BY <2>1, <2>2 DEF Settled, Doc
    <3>2. QED
      BY <3>1 DEF Wanted, Due
  <2>3. CASE bookings'[b] = bookings[b]
    <3>1. Due(f, bookings[b])' => Due(f, bookings[b])
      <4>1. bookings[b].startAt \in Int
        BY <2>1 DEF Settled, Doc, Instants, Invalid
      <4>2. QED
        BY <1>1, <2>3, <4>1, ClockGoesOn DEF Due, Wanted, InList
    <3>2. QED
      BY <1>1, <2>1, <2>3, <3>1 DEF Sees, SeesBook, Named, Wanted
  <2>4. QED
    BY <2>1, <2>2, <2>3
<1>4. SeesCancels(f)'
  <2> SUFFICES ASSUME NEW q \in since[f] \cap Requests, CancelTold(q)'
               PROVE  /\ at[f] \in {"filter", "names", "sort"} =>
                            \A d \in rows[f] : d.id = call'[q].id => d.status = "cancelled"
                      /\ \A e \in answer[f].entries :
                            ask[f].op \in {"find", "list"} /\ e.id = call'[q].id
                                => e.status = "cancelled"
    BY <1>1 DEF SeesCancels
  <2>1. CancelTold(q) /\ call'[q] = call[q]
    BY <1>2, RequestsAssumption, ToldBefore
  <2>2. QED
    BY <2>1 DEF Sees, SeesCancels
<1>5. SeesSlot(f)'
  <2> SUFFICES ASSUME at[f] \in {"render", "send", "save"}, NEW d \in rows[f],
                      placedBy'[d.id] \in since[f]
               PROVE  /\ bookings'[d.id] \in Doc
                      /\ d.startAt = bookings'[d.id].startAt /\ d.sty = bookings'[d.id].sty
    BY <1>1 DEF SeesSlot
  <2>1. d.id \in BookingIds
    BY DEF ReadersTyped, ReaderTypeOK, Doc
  <2>2. QED
    BY <1>1, <1>2, <2>1, SlotStays DEF Sees, SeesSlot
<1>6. QED
  BY <1>3, <1>4, <1>5 DEF Sees

\* A reader's step leaves the others what they know.
LEMMA OthersSee ==
  ASSUME UNCHANGED vars, NEW g \in Readers, Sees(g),
         at'[g] = at[g], ask'[g] = ask[g], rows'[g] = rows[g], answer'[g] = answer[g],
         since'[g] = since[g]
  PROVE  Sees(g)'
<1>1. SeesBook(g)'
  BY DEF Sees, SeesBook, Settled, Named, Due, Wanted, vars
<1>2. SeesCancels(g)'
  BY DEF Sees, SeesCancels, CancelTold, vars
<1>3. SeesSlot(g)'
  BY DEF Sees, SeesSlot, vars
<1>4. QED
  BY <1>1, <1>2, <1>3 DEF Sees

LEMMA StepOfOne ==
  ASSUME ReadersTyped, NEW f \in Readers, Come(f) \/ ReaderStep(f) \/ ReadFails(f),
         \A g \in Readers : Sees(g), Sees(f)'
  PROVE  \A g \in Readers : Sees(g)'
<1> SUFFICES ASSUME NEW g \in Readers \ {f} PROVE Sees(g)'
  OBVIOUS
<1>1. /\ at'[g] = at[g] /\ ask'[g] = ask[g] /\ rows'[g] = rows[g] /\ answer'[g] = answer[g]
      /\ since'[g] = since[g]
  BY DEF Come, ReadFails, ReaderStep, Query, FilterRows, Present, SortList, Lookup, Render, Send,
     SaveResult, Finish, GoTo, ReadersTyped, ReaderTypeOK
<1>2. QED
  BY <1>1, ReadersWriteNothing, OthersSee

\* Who is told nothing of the book is told nothing wrong.
LEMMA NothingToSee ==
  ASSUME NEW f \in Readers, at'[f] \in {"query", "lookup", "done"}, answer'[f].entries = {},
         answer'[f].code # "OK" \/ ask'[f].op \notin {"find", "list"}
  PROVE  Sees(f)'
BY DEF Sees, SeesBook, SeesCancels, SeesSlot

LEMMA Finished ==
  ASSUME ReadersTyped, NEW f \in Readers, NEW code, NEW entries, Finish(f, code, entries)
  PROVE  /\ at'[f] = "done" /\ rows'[f] = {}
         /\ answer'[f] = [code |-> code, entries |-> entries]
BY DEF ReadersTyped, ReaderTypeOK, Finish, GoTo

LEMMA FinishedWith ==
  ASSUME ReadersTyped, NEW f \in Readers, NEW code, NEW entries, Finish(f, code, entries)
  PROVE  answer'[f].code = code
<1>1. answer'[f] = [code |-> code, entries |-> entries]
  BY Finished
<1>2. QED
  BY <1>1

LEMMA ComeSees ==
  ASSUME ReadersTyped, NEW f \in Readers, Come(f)
  PROVE  Sees(f)'
<1>1. at'[f] \in {"query", "lookup"}
  BY DEF Come, ReadersTyped, ReaderTypeOK, GoTo, FirstPlace
<1>2. answer'[f] = Unanswered
  BY DEF Come, ReadersTyped, HoldsWhatItNeeds
<1>3. QED
  BY <1>1, <1>2, NothingToSee DEF Unanswered

LEMMA QuerySees ==
  ASSUME Typed, Traced, ReadersTyped, CancelsHold, NEW f \in Readers, Query(f)
  PROVE  Sees(f)'
<1> DEFINE all == {bookings[b] : b \in BookingIds} \ {NoDoc}
<1>1. UNCHANGED <<vars, ask, since>> /\ answer'[f] = Unanswered
  BY DEF Query, ReadersTyped, HoldsWhatItNeeds
<1>2. \/ /\ ask[f].op = "find" /\ at'[f] = "filter"
         /\ rows'[f] = {d \in all : Wanted(ask[f], d)}
      \/ ask[f].op = "list" /\ at'[f] = "sort" /\ rows'[f] = all
  BY DEF Query, ReadersTyped, ReaderTypeOK, GoTo
<1>3. SeesBook(f)'
  <2>1. \A b \in BookingIds : bookings[b] \in Doc => bookings[b] \in all
    BY NoDocIsNoDoc
  <2>2. QED
    BY <1>1, <1>2, <2>1 DEF SeesBook, Settled, Wanted, vars
<1>4. SeesCancels(f)'
  <2>1. ASSUME NEW q \in Requests, CancelTold(q), NEW d \in rows'[f], d.id = call[q].id
        PROVE  d.status = "cancelled"
    <3>1. d \in all
      BY <1>2, <2>1
    <3>2. d = bookings[d.id]
      BY <3>1, BookedAreDocs
    <3>3. QED
      BY <2>1, <3>2 DEF CancelsHold
  <2>2. QED
    BY <1>1, <2>1 DEF SeesCancels, CancelTold, Unanswered, vars
<1>5. SeesSlot(f)'
  BY <1>2 DEF SeesSlot
<1>6. QED
  BY <1>3, <1>4, <1>5 DEF Sees

LEMMA FilterSees ==
  ASSUME Typed, Traced, ReadersTyped, NEW f \in Readers, Sees(f), FilterRows(f)
  PROVE  Sees(f)'
<1>1. UNCHANGED <<vars, ask, since>> /\ answer'[f] = answer[f] /\ at'[f] = "names"
  BY DEF FilterRows, ReadersTyped, ReaderTypeOK, GoTo
<1>2. rows'[f] = {d \in rows[f] : ask[f].reference \in {NoFilter, ReferenceOf[d.id]}
                                  /\ Upcoming(d)}
  BY DEF FilterRows, ReadersTyped, ReaderTypeOK
<1>3. SeesBook(f)'
  <2>1. ask[f].op = "find" /\ at[f] = "filter"
    BY DEF FilterRows, ReadersTyped, HoldsWhatItNeeds
  <2>2. ASSUME NEW b \in BookingIds, Settled(f, b), Due(f, bookings[b])
        PROVE  bookings[b] \in rows'[f]
    <3>1. bookings[b] \in rows[f]
      BY <2>1, <2>2 DEF Sees, SeesBook, Due
    <3>2. bookings[b].startAt # Invalid
      BY <2>1, <2>2, ClockIsNat DEF Due, Invalid
    <3>3. QED
      BY <1>2, <2>1, <2>2, <3>1, <3>2 DEF Due, Upcoming
  <2>3. QED
    BY <1>1, <2>2 DEF SeesBook, Settled, Due, Wanted, vars
<1>4. SeesCancels(f)'
  BY <1>1, <1>2 DEF FilterRows, Sees, SeesCancels, CancelTold, vars
<1>5. SeesSlot(f)'
  BY <1>1 DEF SeesSlot
<1>6. QED
  BY <1>3, <1>4, <1>5 DEF Sees

LEMMA PresentSees ==
  ASSUME Typed, Traced, ReadersTyped, NEW f \in Readers, Sees(f), Present(f)
  PROVE  Sees(f)'
<1> DEFINE entry(d) == [id |-> d.id, sty |-> d.sty, startAt |-> d.startAt,
                        status |-> d.status, within |-> Flagged(d)]
<1>1. /\ at'[f] = "done" /\ answer'[f] = [code |-> "OK", entries |-> {entry(d) : d \in rows[f]}]
      /\ at[f] = "names" /\ UNCHANGED <<vars, ask, since>>
  BY Finished DEF Present
<1>2. SeesBook(f)'
  <2>1. ASSUME NEW b \in BookingIds, Settled(f, b), Due(f, bookings[b])
        PROVE  Named(f, b)'
    <3>1. entry(bookings[b]) \in answer'[f].entries
      <4>1. bookings[b] \in rows[f]
        BY <1>1, <2>1 DEF Sees, SeesBook
      <4> HIDE DEF entry
      <4>2. QED
        BY <1>1, <4>1
    <3>2. bookings[b].id = b
      BY <2>1, BookedAreDocs, NoDocIsNoDoc DEF Settled
    <3>3. /\ entry(bookings[b]).id = b /\ entry(bookings[b]).sty = bookings'[b].sty
          /\ entry(bookings[b]).startAt = bookings'[b].startAt
      BY <1>1, <3>2 DEF vars
    <3>4. QED
      BY <3>1, <3>3 DEF Named
  <2>2. QED
    BY <1>1, <2>1 DEF SeesBook, Settled, Due, Wanted, vars
<1>3. SeesCancels(f)'
  <2>1. ASSUME NEW q \in since[f] \cap Requests, CancelTold(q), NEW e \in answer'[f].entries,
               e.id = call[q].id
        PROVE  e.status = "cancelled"
    <3>1. PICK d \in rows[f] : e = entry(d)
      BY <1>1, <2>1
    <3>2. QED
      BY <1>1, <2>1, <3>1 DEF Sees, SeesCancels
  <2>2. QED
    BY <1>1, <2>1 DEF SeesCancels, CancelTold, vars
<1>4. SeesSlot(f)'
  BY <1>1 DEF SeesSlot
<1>5. QED
  BY <1>2, <1>3, <1>4 DEF Sees

LEMMA SortSees ==
  ASSUME Typed, Traced, ReadersTyped, NEW f \in Readers, Sees(f), SortList(f)
  PROVE  Sees(f)'
<1> DEFINE entry(d) == [id |-> d.id, sty |-> d.sty, startAt |-> d.startAt, status |-> d.status]
           listed == {d \in rows[f] : InList(ask[f], d)}
<1>1. at[f] = "sort" /\ ask[f].op = "list" /\ UNCHANGED <<vars, ask, since>>
  BY DEF SortList, ReadersTyped, HoldsWhatItNeeds
<1>2. CASE Finish(f, "INTERNAL_ERROR", {})
  <2>1. at'[f] = "done" /\ answer'[f] = [code |-> "INTERNAL_ERROR", entries |-> {}]
    BY <1>2, Finished
  <2>2. QED
    BY <2>1, NothingToSee
<1>3. CASE Finish(f, "OK", {entry(d) : d \in listed})
  <2>1. at'[f] = "done" /\ answer'[f] = [code |-> "OK", entries |-> {entry(d) : d \in listed}]
    BY <1>3, Finished
  <2>2. SeesBook(f)'
    <3>1. ASSUME NEW b \in BookingIds, Settled(f, b), Due(f, bookings[b])
          PROVE  Named(f, b)'
      <4>1. bookings[b] \in listed
        BY <1>1, <3>1 DEF Sees, SeesBook, Due
      <4>2. bookings[b].id = b
        BY <3>1, BookedAreDocs, NoDocIsNoDoc DEF Settled
      <4>3. /\ entry(bookings[b]).id = b /\ entry(bookings[b]).sty = bookings'[b].sty
            /\ entry(bookings[b]).startAt = bookings'[b].startAt
        BY <1>1, <4>2 DEF vars
      <4> HIDE DEF entry, listed
      <4>4. entry(bookings[b]) \in answer'[f].entries
        BY <2>1, <4>1
      <4>5. QED
        BY <4>3, <4>4 DEF Named
    <3>2. QED
      BY <1>1, <2>1, <3>1 DEF SeesBook, Settled, Due, Wanted, vars
  <2>3. SeesCancels(f)'
    <3>1. ASSUME NEW q \in since[f] \cap Requests, CancelTold(q), NEW e \in answer'[f].entries,
                 e.id = call[q].id
          PROVE  e.status = "cancelled"
      <4>1. PICK d \in rows[f] : e = entry(d)
        BY <2>1, <3>1
      <4>2. QED
        BY <1>1, <3>1, <4>1 DEF Sees, SeesCancels
    <3>2. QED
      BY <1>1, <2>1, <3>1 DEF SeesCancels, CancelTold, vars
  <2>4. QED
    BY <2>1, <2>2, <2>3 DEF Sees, SeesSlot
<1>4. QED
  BY <1>2, <1>3 DEF SortList

LEMMA FailureSees ==
  ASSUME ReadersTyped, NEW f \in Readers, ReadFails(f)
  PROVE  Sees(f)'
<1>1. at'[f] = "done" /\ answer'[f] = [code |-> "INTERNAL_ERROR", entries |-> {}]
  BY Finished DEF ReadFails
<1>2. QED
  BY <1>1, NothingToSee

\* A confirmation keeps the document it read while it works on it.
LEMMA ConfirmSees ==
  ASSUME Typed, Traced, ReadersTyped, NEW f \in Readers, Sees(f),
         Lookup(f) \/ Render(f) \/ Send(f) \/ SaveResult(f)
  PROVE  Sees(f)'
<1>1. /\ ask'[f] = ask[f] /\ ask[f] \in ConfirmCalls /\ ask[f].op = "confirm"
      /\ ask[f].id \in BookingIds /\ answer[f] = Unanswered /\ UNCHANGED <<vars, since>>
  BY ReaderAssumption DEF Lookup, Render, Send, SaveResult, ReadersTyped, HoldsWhatItNeeds
<1>2. ASSUME NEW code, Finish(f, code, {}) PROVE Sees(f)'
  <2>1. at'[f] = "done" /\ answer'[f] = [code |-> code, entries |-> {}]
    BY <1>2, Finished
  <2>2. QED
    BY <1>1, <2>1, NothingToSee
<1>3. ASSUME answer' = answer, at'[f] \in {"render", "send", "save"},
             \A d \in rows'[f] : placedBy[d.id] \in since[f] =>
                  /\ bookings[d.id] \in Doc
                  /\ d.startAt = bookings[d.id].startAt /\ d.sty = bookings[d.id].sty
      PROVE  Sees(f)'
  BY <1>1, <1>3 DEF Sees, SeesBook, SeesCancels, SeesSlot, Unanswered, vars
<1>4. CASE Lookup(f)
  <2> DEFINE d == bookings[ask[f].id]
  <2>1. CASE Finish(f, "BOOKING_NOT_FOUND", {})
    BY <1>2, <2>1
  <2>2. CASE d # NoDoc /\ rows' = [rows EXCEPT ![f] = {d}] /\ GoTo(f, "render") /\ UNCHANGED answer
    <3>1. d \in Doc /\ d.id = ask[f].id
      BY <1>1, <2>2, BookedAreDocs
    <3>2. rows'[f] = {d} /\ at'[f] = "render"
      BY <2>2 DEF ReadersTyped, ReaderTypeOK, GoTo
    <3>3. QED
      BY <1>3, <2>2, <3>1, <3>2
  <2>3. QED
    BY <1>4, <2>1, <2>2 DEF Lookup
<1>5. CASE Render(f) \/ Send(f)
  <2>1. CASE Finish(f, "INTERNAL_ERROR", {})
    BY <1>2, <2>1
  <2>2. CASE /\ UNCHANGED <<rows, answer>> /\ at[f] \in {"render", "send"}
             /\ \E place \in {"send", "save"} : GoTo(f, place)
    <3>1. at'[f] \in {"send", "save"} /\ rows'[f] = rows[f]
      BY <2>2 DEF ReadersTyped, ReaderTypeOK, GoTo
    <3>2. QED
      BY <1>3, <2>2, <3>1 DEF Sees, SeesSlot
  <2>3. QED
    BY <1>5, <2>1, <2>2 DEF Render, Send
<1>6. CASE SaveResult(f)
  BY <1>2, <1>6 DEF SaveResult
<1>7. QED
  BY <1>4, <1>5, <1>6

LEMMA SeesNext ==
  ASSUME Typed, Traced, ReadersTyped, CancelsHold, \A f \in Readers : Sees(f),
         [ReadersNext]_allVars
  PROVE  \A f \in Readers : Sees(f)'
<1>1. ASSUME NEW f \in Readers, Come(f) \/ ReaderStep(f) \/ ReadFails(f)
      PROVE  \A g \in Readers : Sees(g)'
  <2>1. Sees(f)'
    BY <1>1, ComeSees, QuerySees, FilterSees, PresentSees, SortSees, FailureSees, ConfirmSees
       DEF ReaderStep
  <2>2. QED
    BY <1>1, <2>1, StepOfOne
<1>2. CASE ServiceNext
  BY <1>2, ServiceGoesOn, ServiceSees
<1>3. CASE UNCHANGED allVars
  BY <1>3, OthersSee DEF allVars, readerVars
<1>4. QED
  BY <1>1, <1>2, <1>3 DEF ReadersNext

-----------------------------------------------------------------------------
(* Mails                                                                   *)

\* A step of a reader that mails nothing.
QuietStep(f) ==
    \/ Query(f) \/ FilterRows(f) \/ Present(f) \/ SortList(f) \/ Lookup(f) \/ Render(f)
    \/ SaveResult(f) \/ ReadFails(f)

LEMMA QuietSteps ==
  ASSUME ReadersTyped, NEW f \in Readers, QuietStep(f)
  PROVE  /\ UNCHANGED <<vars, ask, since, mails, results>>
         /\ \A g \in Readers : at[g] # "idle" <=> at'[g] # "idle"
BY DEF QuietStep, Query, FilterRows, Present, SortList, Lookup, Render, SaveResult, ReadFails,
   Finish, GoTo, ReadersTyped, ReaderTypeOK

LEMMA SendMails ==
  ASSUME ReadersTyped, NEW f \in Readers, Send(f)
  PROVE  \E d \in rows[f], taken, ok \in BOOLEAN :
            /\ ok => taken
            /\ d.id = ask[f].id /\ d \in Doc
            /\ results' = [results EXCEPT ![f] = Append(results[f], ok)]
            /\ mails' = IF taken
                        THEN mails \cup {[by |-> f, nth |-> Len(results[f]) + 1, doc |-> d]}
                        ELSE mails
<1>1. PICK d \in rows[f], taken \in BOOLEAN, ok \in BOOLEAN :
        /\ ok => taken
        /\ results' = [results EXCEPT ![f] = Append(@, ok)]
        /\ mails' = IF taken THEN mails \cup {[by |-> f, nth |-> Len(results'[f]), doc |-> d]}
                    ELSE mails
  BY DEF Send
<1>2. Len(results'[f]) = Len(results[f]) + 1
  <2>1. results[f] \in Seq(BOOLEAN) /\ results'[f] = Append(results[f], ok)
    BY <1>1 DEF ReadersTyped
  <2>2. QED
    BY <2>1
<1>3. d.id = ask[f].id /\ d \in Doc
  BY DEF Send, ReadersTyped, HoldsWhatItNeeds
<1>4. QED
  BY <1>1, <1>2, <1>3

LEMMA SendFrame ==
  ASSUME ReadersTyped, NEW f \in Readers, Send(f)
  PROVE  /\ UNCHANGED <<vars, ask, since>>
         /\ at[f] = "send" /\ \A g \in Readers : at[g] # "idle" <=> at'[g] # "idle"
BY DEF Send, GoTo, ReadersTyped, ReaderTypeOK

LEMMA MailsNext ==
  ASSUME Typed, Traced, ReadersTyped, Informed, [ReadersNext]_allVars
  PROVE  MailsTellTheSlot'
<1> USE DEF Informed
<1>1. CASE ServiceNext
  <2> SUFFICES ASSUME NEW m \in mails, placedBy'[m.doc.id] \in since[m.by]
               PROVE  /\ bookings'[m.doc.id] \in Doc
                      /\ m.doc.startAt = bookings'[m.doc.id].startAt
                      /\ m.doc.sty = bookings'[m.doc.id].sty
    BY <1>1, ServiceGoesOn DEF MailsTellTheSlot, readerVars
  <2>1. m.by \in Readers /\ m.doc.id \in BookingIds
    BY DEF ReadersTyped, ReaderTypeOK, Doc
  <2>2. since[m.by] \in SUBSET (Seeded \cup Answered)
    BY <2>1 DEF ReadersTyped, HoldsWhatItNeeds
  <2>3. QED
    BY <1>1, <2>1, <2>2, ServiceGoesOn, SlotStays DEF MailsTellTheSlot
<1>2. ASSUME NEW f \in Readers, Come(f) PROVE MailsTellTheSlot'
  <2>1. /\ mails' = mails /\ UNCHANGED vars
        /\ \A g \in Readers : at[g] # "idle" => since'[g] = since[g] /\ at'[g] # "idle"
    BY <1>2 DEF Come, GoTo, ReadersTyped, ReaderTypeOK
  <2>2. QED
    BY <2>1 DEF MailsTellTheSlot, ReadersTyped, ReaderTypeOK, vars
<1>3. ASSUME NEW f \in Readers, QuietStep(f) PROVE MailsTellTheSlot'
  BY <1>3, QuietSteps DEF MailsTellTheSlot, ReadersTyped, ReaderTypeOK, vars
<1>4. ASSUME NEW f \in Readers, Send(f) PROVE MailsTellTheSlot'
  <2>1. PICK d \in rows[f] : /\ d \in Doc
                             /\ \A m \in mails' \ mails : m.by = f /\ m.doc = d
    BY <1>4, SendMails
  <2>2. placedBy[d.id] \in since[f] => /\ bookings[d.id] \in Doc
                                       /\ d.startAt = bookings[d.id].startAt
                                       /\ d.sty = bookings[d.id].sty
    BY <1>4, SendFrame DEF Sees, SeesSlot
  <2>3. QED
    BY <1>4, <2>1, <2>2, SendFrame DEF MailsTellTheSlot, ReadersTyped, ReaderTypeOK, vars
<1>5. CASE UNCHANGED allVars
  BY <1>5 DEF MailsTellTheSlot, allVars, readerVars, vars
<1>6. QED
  BY <1>1, <1>2, <1>3, <1>4, <1>5 DEF ReadersNext, ReaderStep, QuietStep

LEMMA ReportsNext ==
  ASSUME ReadersTyped, Informed, [ReadersNext]_allVars
  PROVE  ReportsAreCovered'
<1> USE DEF Informed
<1>1. ASSUME UNCHANGED <<ask, mails, results>>,
             \A g \in Readers : at[g] # "idle" <=> at'[g] # "idle"
      PROVE  ReportsAreCovered'
  BY <1>1 DEF ReportsAreCovered
<1>2. CASE ServiceNext \/ UNCHANGED allVars
  BY <1>1, <1>2, ServiceGoesOn DEF readerVars, allVars
<1>3. ASSUME NEW f \in Readers, Come(f) PROVE ReportsAreCovered'
  <2>1. /\ UNCHANGED <<mails, results>> /\ results[f] = <<>> /\ at'[f] # "idle"
        /\ \A g \in Readers \ {f} : ask'[g] = ask[g] /\ at'[g] = at[g]
    BY <1>3 DEF Come, GoTo, FirstPlace, ReadersTyped, ReaderTypeOK, ReportsAreCovered
  <2>2. QED
    BY <2>1 DEF ReportsAreCovered
<1>4. ASSUME NEW f \in Readers, QuietStep(f) PROVE ReportsAreCovered'
  BY <1>1, <1>4, QuietSteps
<1>5. ASSUME NEW f \in Readers, Send(f) PROVE ReportsAreCovered'
  <2>1. PICK d \in rows[f], taken \in BOOLEAN, ok \in BOOLEAN :
            /\ ok => taken
            /\ d.id = ask[f].id
            /\ results' = [results EXCEPT ![f] = Append(results[f], ok)]
            /\ mails' = IF taken
                        THEN mails \cup {[by |-> f, nth |-> Len(results[f]) + 1, doc |-> d]}
                        ELSE mails
    BY <1>5, SendMails
  <2>2. results[f] \in Seq(BOOLEAN)
    BY DEF ReadersTyped
  <2>3. ASSUME NEW i \in DOMAIN Append(results[f], ok), Append(results[f], ok)[i]
        PROVE  \E m \in mails' : m.by = f /\ m.nth = i /\ m.doc.id = ask[f].id
    <3>1. \/ i \in DOMAIN results[f] /\ results[f][i]
          \/ i = Len(results[f]) + 1 /\ ok
      BY <2>2, <2>3
    <3>2. CASE i \in DOMAIN results[f] /\ results[f][i]
      BY <2>1, <3>2 DEF ReportsAreCovered
    <3>3. CASE i = Len(results[f]) + 1 /\ ok
      <4> DEFINE m == [by |-> f, nth |-> Len(results[f]) + 1, doc |-> d]
      <4>1. m \in mails'
        BY <2>1, <3>3
      <4>2. m.by = f /\ m.nth = i /\ m.doc.id = ask[f].id
        BY <2>1, <3>3
      <4>3. QED
        BY <4>1, <4>2
    <3>4. QED
      BY <3>1, <3>2, <3>3
  <2>4. results'[f] = Append(results[f], ok) /\ \A g \in Readers \ {f} : results'[g] = results[g]
    BY <2>1 DEF ReadersTyped
  <2>5. mails \subseteq mails'
    BY <2>1
  <2>6. QED
    BY <1>5, <2>3, <2>4, <2>5, SendFrame DEF ReportsAreCovered
<1>6. QED
  BY <1>2, <1>3, <1>4, <1>5 DEF ReadersNext, ReaderStep, QuietStep

LEMMA InformedNext ==
  Typed /\ Traced /\ ReadersTyped /\ Informed /\ [ReadersNext]_allVars => Informed'
<1> SUFFICES ASSUME Typed, Traced, ReadersTyped, Informed, [ReadersNext]_allVars PROVE Informed'
  OBVIOUS
<1>1. [Next]_vars
  BY ServiceGoesOn, ReadersWriteNothing DEF ReadersNext, allVars
<1>2. QED
  BY <1>1, CancelsHoldNext, SeesNext, MailsNext, ReportsNext DEF Informed

LEMMA AlwaysInformed == ReadersSpec => []Informed
<1>1. ReadersInit => Informed
  <2>1. ReadersInit => CancelsHold /\ MailsTellTheSlot /\ ReportsAreCovered
    BY DEF ReadersInit, Init, CancelsHold, CancelTold, MailsTellTheSlot, ReportsAreCovered
  <2>2. ReadersInit => \A f \in Readers : Sees(f)
    BY DEF ReadersInit, Sees, SeesBook, SeesCancels, SeesSlot, Unanswered
  <2>3. QED
    BY <2>1, <2>2 DEF Informed
<1>2. QED
  BY <1>1, InformedNext, ReadersAreTyped, ReadersLeaveTheService, AlwaysTyped, AlwaysTraced,
     PTL DEF ReadersSpec

\* What was settled when a caller or the salon asked is in the answer as it is,
\* and nothing is told as booked whose cancel had been answered.
THEOREM TheBookIsTold == ReadersSpec => []TellsTheBook
<1>1. Typed /\ Traced /\ ReadersTyped /\ Informed => TellsTheBook
  <2> SUFFICES ASSUME Typed, Traced, ReadersTyped, Informed, NEW f \in Readers,
                      ask[f].op \in {"find", "list"}, answer[f].code = "OK"
               PROVE  /\ \A b \in BookingIds :
                            /\ bookings[b] # NoDoc /\ placedBy[b] \in since[f]
                            /\ Due(f, bookings[b])
                            => Named(f, b)
                      /\ \A e \in answer[f].entries, q \in Requests :
                            /\ q \in since[f] /\ call[q].op = "cancel" /\ call[q].id = e.id
                            /\ reply[q].code = "OK" /\ e.id \in prior[q]
                            => e.status = "cancelled"
    BY DEF TellsTheBook, Named
  <2>1. at[f] = "done"
    BY DEF ReadersTyped, HoldsWhatItNeeds, Unanswered
  <2>2. \A b \in BookingIds : bookings[b] # NoDoc /\ placedBy[b] \in since[f] => Settled(f, b)
    BY BookedAreDocs DEF Settled
  <2>3. \A q \in Requests : q \in since[f] => pc[q] = "done"
    BY RequestsAssumption DEF ReadersTyped, HoldsWhatItNeeds, Answered
  <2>4. QED
    BY <2>1, <2>2, <2>3 DEF Informed, Sees, SeesBook, SeesCancels, CancelTold
<1>2. QED
  BY <1>1, AlwaysInformed, ReadersAreTyped, ReadersLeaveTheService, AlwaysTyped, AlwaysTraced, PTL

\* A mail names the slot that was settled when it was asked for, and every
\* success that is reported is a mail the provider took.
THEOREM MailsAreHonest == ReadersSpec => []ConfirmationsAreHonest
<1>1. Informed => ConfirmationsAreHonest
  BY DEF Informed, MailsTellTheSlot, ReportsAreCovered, ConfirmationsAreHonest
<1>2. QED
  BY <1>1, AlwaysInformed, PTL

-----------------------------------------------------------------------------
(* Bookings without a start                                                *)

Malformed(r) ==
    /\ IsPlacement(r) /\ (Landed(r) \/ bookings[r] # NoDoc)
    /\ ~ParsesAsTime(call[r].start)
SomeMalformed == \E r \in Requests : Malformed(r)

StartsAreAsked ==
    /\ \A b \in BookingIds : bookings[b] \in Doc /\ bookings[b].startAt = Invalid => SomeMalformed
    /\ \A f \in Readers : \A d \in rows[f] : d.startAt = Invalid => SomeMalformed
    /\ \A f \in Readers : answer[f].code = "INTERNAL_ERROR" /\ readFailures = 0 => SomeMalformed

LEMMA MalformedStays == Typed /\ Traced /\ [Next]_vars /\ SomeMalformed => SomeMalformed'
<1> SUFFICES ASSUME Typed, Traced, [Next]_vars, NEW r \in Requests, Malformed(r)
             PROVE  Malformed(r)'
  BY DEF SomeMalformed
<1>1. CASE Landed(r)
  BY <1>1, OwnStepsOnly DEF Malformed, IsPlacement, Landed
<1>2. CASE bookings[r] # NoDoc
  <2>1. pc[r] # "idle"
    BY <1>2 DEF Traced, OwnBookings
  <2>2. bookings[r] \in Doc /\ r \in BookingIds
    BY <1>2, BookedAreDocs DEF BookingIds
  <2>3. bookings'[r] # NoDoc
    BY <2>2, BookingsStay, NoDocIsNoDoc
  <2>4. QED
    BY <2>1, <2>3, OwnStepsOnly DEF Malformed, IsPlacement
<1>3. QED
  BY <1>1, <1>2 DEF Malformed

LEMMA BrokenStartIsAsked ==
  ASSUME Typed, Traced, [Next]_vars, NEW b \in BookingIds, bookings'[b] \in Doc,
         bookings'[b].startAt = Invalid
  PROVE  (bookings[b] \in Doc /\ bookings[b].startAt = Invalid) \/ SomeMalformed'
<1>1. ASSUME NEW r \in Requests, Creates(r, b) \/ Moves(r, b) PROVE Malformed(r)'
  <2>1. /\ pc[r] = "commit" /\ IsPlacement(r) /\ call' = call
        /\ bookings'[b].startAt = StartAt(r)
        /\ AnswerWritten(r) \/ bookings'[r] # NoDoc
    <3>1. CASE Creates(r, b)
      BY <3>1, NoDocIsNoDoc DEF Creates, RunTransaction, IsPlacement, NewBooking
    <3>2. CASE Moves(r, b)
      BY <3>2 DEF Moves, UpdateMoved, IsPlacement, Moved, Doc
    <3>3. QED
      BY <1>1, <3>1, <3>2
  <2>2. \/ pc'[r] = "done" /\ reply'[r].code \in {"OK", "INTERNAL_ERROR"}
        \/ bookings'[r] # NoDoc
    BY <2>1 DEF AnswerWritten, Answer, Goto, Typed, TypeOK
  <2>3. call[r].date \in Nat /\ call[r].start \in ClockTimes
    BY <2>1, CallKinds, CallFields DEF Typed, HandlersFit, PhaseFits, IsPlacement
  <2>4. ~ParsesAsTime(call[r].start)
    BY <2>1, <2>3, DayLenType, HourAssumption DEF StartAt, StartOf, LocalToUtc, At, TimeToMinutes,
       ClockTimes, Invalid
  <2>5. QED
    BY <2>1, <2>2, <2>4 DEF Malformed, IsPlacement, Landed
<1>2. ASSUME NEW r \in Requests, Cancels(r, b)
      PROVE  bookings[b] \in Doc /\ bookings[b].startAt = Invalid
  BY <1>2 DEF Cancels, Doc
<1>3. QED
  BY <1>1, <1>2, BookingChanges DEF SomeMalformed

\* A reader either hears nothing of an error, or works on a broken start, or
\* its database call failed.
LEMMA ErrorsHaveReasons ==
  ASSUME ReadersTyped, NEW f \in Readers, ReaderStep(f) \/ ReadFails(f),
         answer'[f].code = "INTERNAL_ERROR"
  PROVE  readFailures' # 0 \/ \E d \in rows[f] : d.startAt = Invalid
<1>1. CASE ReadFails(f)
  BY <1>1, RequestsAssumption DEF ReadFails, ReadersTyped, ReaderTypeOK
<1>2. CASE Query(f) \/ FilterRows(f) \/ Send(f)
  <2>1. answer'[f] = Unanswered
    BY <1>2 DEF Query, FilterRows, Send, ReadersTyped, HoldsWhatItNeeds
  <2>2. QED
    BY <2>1 DEF Unanswered
<1>3. CASE Present(f) \/ SaveResult(f)
  <2>1. answer'[f].code = "OK"
    BY <1>3, FinishedWith DEF Present, SaveResult
  <2>2. QED
    BY <2>1
<1>4. CASE SortList(f)
  <2>1. ASSUME NEW entries PROVE ~Finish(f, "OK", entries)
    BY FinishedWith
  <2>2. QED
    BY <1>4, <2>1 DEF SortList
<1>5. CASE Lookup(f)
  <2>1. answer'[f].code \in {"BOOKING_NOT_FOUND", "none"}
    <3>1. answer[f].code = "none"
      BY <1>5 DEF Lookup, ReadersTyped, HoldsWhatItNeeds, Unanswered
    <3>2. Finish(f, "BOOKING_NOT_FOUND", {}) \/ answer' = answer
      BY <1>5 DEF Lookup
    <3>3. QED
      BY <3>1, <3>2, FinishedWith
  <2>2. QED
    BY <2>1
<1>6. CASE Render(f)
  <2>1. answer[f] = Unanswered
    BY <1>6 DEF Render, ReadersTyped, HoldsWhatItNeeds
  <2>2. QED
    BY <1>6, <2>1 DEF Render, Unanswered
<1>7. QED
  BY <1>1, <1>2, <1>3, <1>4, <1>5, <1>6 DEF ReaderStep

\* What a reader holds after a step it held before, or has just read.
LEMMA RowsComeFromTheBook ==
  ASSUME Typed, Traced, ReadersTyped, NEW f \in Readers,
         Come(f) \/ ReaderStep(f) \/ ReadFails(f), NEW d \in rows'[f]
  PROVE  d \in rows[f] \/ \E b \in BookingIds : d = bookings[b] /\ bookings[b] \in Doc
<1>1. d \in Doc
  BY ReadersTypedNext DEF ReadersNext, ReadersTyped, ReaderTypeOK
<1>2. CASE Query(f)
  <2>1. PICK R \in SUBSET ({bookings[b] : b \in BookingIds} \ {NoDoc}) :
            rows' = [rows EXCEPT ![f] = R]
    BY <1>2 DEF Query
  <2>2. d \in R
    BY <2>1 DEF ReadersTyped, ReaderTypeOK
  <2>3. QED
    BY <1>1, <2>2
<1>3. CASE Lookup(f)
  <2>1. ask[f].id \in BookingIds
    BY <1>3, ReaderAssumption DEF Lookup, ReadersTyped, HoldsWhatItNeeds
  <2>2. rows'[f] \subseteq {bookings[ask[f].id]}
    BY <1>3 DEF Lookup, Finish, ReadersTyped, ReaderTypeOK
  <2>3. QED
    BY <1>1, <2>1, <2>2
<1>4. CASE \/ Come(f) \/ FilterRows(f) \/ Present(f) \/ SortList(f) \/ Render(f) \/ Send(f)
           \/ SaveResult(f) \/ ReadFails(f)
  BY <1>4 DEF Come, FilterRows, Present, SortList, Render, Send, SaveResult, ReadFails, Finish,
     ReadersTyped, ReaderTypeOK
<1>5. QED
  BY <1>2, <1>3, <1>4 DEF ReaderStep

LEMMA StartsAreAskedNext ==
  Typed /\ Traced /\ ReadersTyped /\ StartsAreAsked /\ [ReadersNext]_allVars => StartsAreAsked'
<1> SUFFICES ASSUME Typed, Traced, ReadersTyped, StartsAreAsked, [ReadersNext]_allVars
             PROVE  StartsAreAsked'
  OBVIOUS
<1>1. [Next]_vars
  BY ServiceGoesOn, ReadersWriteNothing DEF ReadersNext, allVars
<1>2. SomeMalformed => SomeMalformed'
  BY <1>1, MalformedStays
<1>3. \A b \in BookingIds : bookings'[b] \in Doc /\ bookings'[b].startAt = Invalid => SomeMalformed'
  BY <1>1, <1>2, BrokenStartIsAsked DEF StartsAreAsked
<1>4. CASE UNCHANGED readerVars
  BY <1>2, <1>3, <1>4 DEF StartsAreAsked, readerVars
<1>5. ASSUME NEW f \in Readers, Come(f) \/ ReaderStep(f) \/ ReadFails(f)
      PROVE  StartsAreAsked'
  <2>1. ASSUME NEW d \in rows'[f], d.startAt = Invalid PROVE SomeMalformed'
    BY <1>2, <1>5, <2>1, RowsComeFromTheBook DEF StartsAreAsked
  <2>2. ASSUME answer'[f].code = "INTERNAL_ERROR", readFailures' = 0 PROVE SomeMalformed'
    <3>1. CASE Come(f)
      <4>1. answer'[f] = Unanswered
        BY <3>1 DEF Come, ReadersTyped, HoldsWhatItNeeds
      <4>2. QED
        BY <2>2, <4>1 DEF Unanswered
    <3>2. CASE ReaderStep(f) \/ ReadFails(f)
      BY <1>2, <2>2, <3>2, ErrorsHaveReasons DEF StartsAreAsked
    <3>3. QED
      BY <1>5, <3>1, <3>2
  <2>3. /\ \A g \in Readers \ {f} : rows'[g] = rows[g] /\ answer'[g] = answer[g]
        /\ readFailures' = 0 => readFailures = 0
    BY <1>5, RequestsAssumption DEF Come, ReadFails, ReaderStep, Query, FilterRows, Present,
       SortList, Lookup, Render, Send, SaveResult, Finish, ReadersTyped, ReaderTypeOK
  <2>4. QED
    BY <1>2, <1>3, <2>1, <2>2, <2>3 DEF StartsAreAsked
<1>6. QED
  BY <1>4, <1>5, ServiceGoesOn DEF ReadersNext, allVars

\* While the reads succeed, nothing but a booked time that is none can make
\* finding, listing or confirming fail; the seeded bookings have their starts.
THEOREM ErrorsNeedMalformedStarts ==
  ASSUME \A b \in Seeded : SeedDoc[b].startAt # Invalid
  PROVE  ReadersSpec => []OnlyMalformedStartsBreakReaders
<1>1. ReadersInit => StartsAreAsked
  BY NoDocIsNoDoc DEF ReadersInit, Init, StartsAreAsked, Unanswered, BookingIds
<1>2. StartsAreAsked => OnlyMalformedStartsBreakReaders
  BY DEF StartsAreAsked, OnlyMalformedStartsBreakReaders, SomeMalformed, Malformed
<1>3. QED
  BY <1>1, <1>2, StartsAreAskedNext, ReadersAreTyped, ReadersLeaveTheService, AlwaysTyped,
     AlwaysTraced, PTL DEF ReadersSpec

-----------------------------------------------------------------------------
(* The flag and the refusal                                                *)

LEMMA QuotientFrame ==
  ASSUME NEW a \in Int, NEW d \in Nat \ {0}
  PROVE  a \div d \in Int /\ d * (a \div d) <= a /\ a < d * (a \div d) + d
OBVIOUS

LEMMA ProductGrows ==
  ASSUME NEW d \in Nat \ {0}, NEW x \in Int, NEW y \in Int, x < y
  PROVE  d * x + d <= d * y
<1>1. PICK k \in Nat : y = x + 1 + k
  <2>1. y - x - 1 \in Nat /\ y = x + 1 + (y - x - 1)
    OBVIOUS
  <2>2. QED
    BY <2>1
<1>2. d * (x + 1 + k) = d * x + d + d * k /\ d * k >= 0
  OBVIOUS
<1>3. QED
  BY <1>1, <1>2

LEMMA QuotientGrows ==
  ASSUME NEW a \in Int, NEW b \in Int, NEW d \in Nat \ {0}, a <= b
  PROVE  a \div d <= b \div d
<1>1. SUFFICES ASSUME b \div d < a \div d PROVE FALSE
  BY QuotientFrame
<1>2. d * (b \div d) + d <= d * (a \div d)
  BY <1>1, QuotientFrame, ProductGrows
<1>3. d * (a \div d) \in Int /\ d * (b \div d) \in Int
  BY QuotientFrame
<1>4. QED
  BY <1>2, <1>3, QuotientFrame

LEMMA HoursAreInt ==
  ASSUME NEW t \in Nat, NEW x \in Nat, Hour \in Nat \ {0}
  PROVE  HoursUntil(t, x) \in Int
<1>1. 2 * (t - x) + Hour \in Int /\ 2 * Hour \in Nat \ {0}
  OBVIOUS
<1>2. QED
  BY <1>1, QuotientFrame DEF HoursUntil

LEMMA HoursShrink ==
  ASSUME NEW t \in Nat, NEW x \in Nat, NEW y \in Nat, x <= y, Hour \in Nat \ {0}
  PROVE  HoursUntil(t, y) <= HoursUntil(t, x)
<1>1. /\ 2 * (t - x) + Hour \in Int /\ 2 * (t - y) + Hour \in Int
      /\ 2 * (t - y) + Hour <= 2 * (t - x) + Hour /\ 2 * Hour \in Nat \ {0}
  OBVIOUS
<1>2. QED
  BY <1>1, QuotientGrows DEF HoursUntil

\* What is near stays near: the clock only goes on.
LEMMA NearStays ==
  ASSUME Typed, [Next]_vars, NEW t \in Instants, WithinWindow(t)
  PROVE  WithinWindow(t)'
<1>1. t \in Nat /\ now \in Nat /\ now' \in Nat /\ now <= now' /\ Hour \in Nat \ {0}
  BY ClockGoesOn, HourAssumption DEF WithinWindow, Instants, Invalid
<1>2. HoursUntil(t, now) <= Window /\ t # Invalid
  BY DEF WithinWindow
<1>3. HoursUntil(t, now') <= HoursUntil(t, now)
  BY <1>1, HoursShrink
<1>4. HoursUntil(t, now) \in Int /\ HoursUntil(t, now') \in Int /\ Window \in Int
  BY <1>1, HoursAreInt, RequestsAssumption
<1>5. QED
  BY <1>2, <1>3, <1>4 DEF WithinWindow

LEMMA FailuresStay ==
  ASSUME Typed, [Next]_vars, failures > 0
  PROVE  failures' > 0
<1>1. ASSUME NEW r \in Requests, Arrive(r) \/ Step(r) \/ StoreFails(r)
      PROVE  failures' = failures \/ failures' = failures + 1
  BY <1>1 DEF Arrive, StoreFails, Step, ResolveContext, LoadBookings, LoadBlocks,
     AssertSlotIsValid, RunTransaction, RequireBooking, CheckCancellationWindow,
     UpdateCancelled, ResolveMove, UpdateMoved, AddBlock, AnswerWritten, RunAgain
<1>2. failures \in Nat
  BY RequestsAssumption DEF Typed, TypeOK
<1>3. QED
  BY <1>1, <1>2 DEF Next, Tick, vars

\* Unless the booking was moved by somebody not in S, t is when it starts.
KnowsStart(b, S, t) ==
    bookings[b] \in Doc /\ (~MovedOutside(b, S) => bookings[b].startAt = t)

LEMMA MovesStay ==
  ASSUME Typed, [Next]_vars, NEW b, NEW S, MovedOutside(b, S)
  PROVE  MovedOutside(b, S)'
BY OwnStepsOnly, FailuresStay DEF MovedOutside, Landed

LEMMA FewerMoved ==
  ASSUME NEW b, NEW S, NEW T, S \subseteq T, MovedOutside(b, T)
  PROVE  MovedOutside(b, S)
BY DEF MovedOutside

LEMMA KnowledgeStays ==
  ASSUME Typed, Traced, [Next]_vars, NEW b \in BookingIds,
         NEW S \in SUBSET (Seeded \cup Answered), NEW t, KnowsStart(b, S, t)
  PROVE  KnowsStart(b, S, t)'
<1>1. bookings'[b] \in Doc
  BY BookingsStay DEF KnowsStart
<1>2. SUFFICES ASSUME ~MovedOutside(b, S)' PROVE bookings'[b].startAt = t
  BY <1>1 DEF KnowsStart
<1>3. bookings[b] \in Doc /\ bookings[b].startAt = t
  BY <1>2, MovesStay DEF KnowsStart
<1>4. ASSUME NEW r \in Requests PROVE ~Creates(r, b) /\ ~Moves(r, b)
  <2>1. ASSUME Creates(r, b) PROVE FALSE
    <3>1. r \in Requests \ S /\ b = r /\ pc[r] = "commit"
      BY <2>1, RequestsAssumption DEF Creates, RunTransaction, Answered
    <3>2. failures > 0
      BY <1>3, <3>1, NoDocIsNoDoc DEF Traced, OwnBookings
    <3>3. QED
      BY <1>2, <3>1, <3>2, FailuresStay DEF MovedOutside
  <2>2. ASSUME Moves(r, b) PROVE FALSE
    <3>1. /\ pc[r] = "commit" /\ call[r].op = "reschedule" /\ call[r].id = b
          /\ call' = call /\ AnswerWritten(r)
      BY <2>2 DEF Moves, UpdateMoved
    <3>2. pc'[r] = "done" /\ reply'[r].code \in {"OK", "INTERNAL_ERROR"}
      BY <3>1 DEF AnswerWritten, Answer, Goto, Typed, TypeOK
    <3>3. r \notin S
      BY <3>1, RequestsAssumption DEF Answered
    <3>4. QED
      BY <1>2, <3>1, <3>2, <3>3 DEF MovedOutside, Landed
  <2>3. QED
    BY <2>1, <2>2
<1>5. ASSUME NEW r \in Requests, Cancels(r, b) PROVE bookings'[b].startAt = t
  BY <1>3, <1>5 DEF Cancels, Doc
<1>6. QED
  BY <1>3, <1>4, <1>5, BookingChanges

\* q was told that it is too late.
TurnedDown(q) == pc[q] = "done" /\ reply[q].code = "WITHIN_CANCELLATION_WINDOW"

Touches(q, b) == call[q].op \in {"cancel", "reschedule"} /\ call[q].id = b

\* What a caller holds or is told is what the book said when she came or later.
RowsAreRead(f) ==
    /\ at[f] \in {"filter", "names"} =>
          \A d \in rows[f] : KnowsStart(d.id, since[f], d.startAt)
    /\ at[f] = "names" => \A d \in rows[f] : d.startAt # Invalid

EntryFits(f, e) ==
    /\ e.id \in BookingIds /\ e.startAt \in Instants
    /\ KnowsStart(e.id, since[f], e.startAt)
    /\ e.within => WithinWindow(e.startAt)
    /\ \A q \in since[f] \cap Requests :
          TurnedDown(q) /\ Touches(q, e.id) /\ ~MovedOutside(e.id, prior[q]) => e.within

Tells(f) ==
    /\ RowsAreRead(f)
    /\ ask[f].op = "find" => \A e \in answer[f].entries : EntryFits(f, e)
    /\ \A q \in since[f] \cap Requests : prior[q] \subseteq since[f]

\* The document a handler decides by, and what its refusal goes on meaning.
Decides(q) ==
    /\ pc[q] # "done" => reply[q].code = "none"
    /\ pc[q] = "window" => KnowsStart(call[q].id, prior[q], fetched[q].startAt)
    /\ \A b \in BookingIds : TurnedDown(q) /\ Touches(q, b) =>
          \E t \in Instants : WithinWindow(t) /\ KnowsStart(b, prior[q], t)
    /\ \A f \in heard[q] : at[f] = "done" /\ since[f] \subseteq prior[q]

\* Whoever was told that it is too late has been refused or will be.
TooLate(f, q, e) == e.within /\ Touches(q, e.id) /\ ~MovedOutside(e.id, since[f] \cup {q})
WillRefuse(q) == pc[q] \in {"fetch", "window"} \/ (pc[q] = "done" /\ reply[q].code # "OK")

IsTold(f, q) ==
    f \in heard[q] /\ ask[f].op = "find" =>
        \A e \in answer[f].entries : TooLate(f, q, e) => WillRefuse(q)

Agreeing ==
    /\ \A f \in Readers : Tells(f)
    /\ \A q \in Requests : Decides(q)
    /\ \A f \in Readers, q \in Requests : IsTold(f, q)

LEMMA TurnedDownStays ==
  ASSUME Typed, [Next]_vars, NEW q \in Requests
  PROVE  /\ pc[q] = "done" => /\ call'[q] = call[q] /\ prior'[q] = prior[q]
                              /\ TurnedDown(q)' => TurnedDown(q)
         /\ TurnedDown(q) => TurnedDown(q)'
BY OwnStepsOnly DEF TurnedDown

-----------------------------------------------------------------------------
(* The service's steps                                                     *)

LEMMA ServiceTells ==
  ASSUME Typed, Traced, ReadersTyped, [Next]_vars, UNCHANGED readerVars,
         NEW f \in Readers, Tells(f)
  PROVE  Tells(f)'
<1>1. /\ at'[f] = at[f] /\ ask'[f] = ask[f] /\ rows'[f] = rows[f]
      /\ answer'[f] = answer[f] /\ since'[f] = since[f]
  BY DEF readerVars
<1>2. since[f] \in SUBSET (Seeded \cup Answered)
  BY DEF ReadersTyped, HoldsWhatItNeeds
<1>3. RowsAreRead(f)'
  <2>1. \A d \in rows[f] : d.id \in BookingIds
    BY DEF ReadersTyped, ReaderTypeOK, Doc
  <2>2. ASSUME at[f] \in {"filter", "names"}, NEW d \in rows[f]
        PROVE  KnowsStart(d.id, since[f], d.startAt)'
    <3>1. KnowsStart(d.id, since[f], d.startAt)
      BY <2>2 DEF Tells, RowsAreRead
    <3>2. QED
      BY <1>1, <1>2, <2>1, <3>1, KnowledgeStays
  <2>3. QED
    BY <1>1, <2>2 DEF Tells, RowsAreRead
<1>4. \A q \in since[f] \cap Requests : pc[q] = "done"
  BY <1>2, RequestsAssumption DEF Answered
<1>5. ASSUME ask[f].op = "find", NEW e \in answer[f].entries PROVE EntryFits(f, e)'
  <2>1. EntryFits(f, e)
    BY <1>5 DEF Tells
  <2>2. KnowsStart(e.id, since[f], e.startAt)'
    BY <1>1, <1>2, <2>1, KnowledgeStays DEF EntryFits
  <2>3. e.within => WithinWindow(e.startAt)'
    BY <2>1, NearStays DEF EntryFits
  <2>4. ASSUME NEW q \in since[f] \cap Requests, TurnedDown(q)', Touches(q, e.id)',
               ~MovedOutside(e.id, prior[q])'
        PROVE  e.within
    <3>1. TurnedDown(q) /\ call'[q] = call[q] /\ prior'[q] = prior[q]
      BY <1>4, <2>4, TurnedDownStays
    <3>2. Touches(q, e.id) /\ ~MovedOutside(e.id, prior[q])
      BY <2>4, <3>1, MovesStay DEF Touches
    <3>3. QED
      BY <2>1, <3>1, <3>2 DEF EntryFits
  <2>5. QED
    BY <1>1, <2>1, <2>2, <2>3, <2>4 DEF EntryFits
<1>6. \A q \in since[f] \cap Requests : prior'[q] \subseteq since[f]
  BY <1>4, OwnStepsOnly DEF Tells
<1>7. QED
  BY <1>1, <1>3, <1>5, <1>6 DEF Tells

\* The steps a cancel or a reschedule takes until the window is checked.
LEMMA NobodyElsesStep ==
  ASSUME Typed, [Next]_vars, NEW q \in Requests, ~Arrive(q), ~Step(q), ~StoreFails(q)
  PROVE  pc'[q] = pc[q] /\ fetched'[q] = fetched[q] /\ reply'[q] = reply[q]
<1>1. ASSUME NEW r \in Requests \ {q}, Step(r) \/ StoreFails(r)
      PROVE  pc'[q] = pc[q] /\ fetched'[q] = fetched[q] /\ reply'[q] = reply[q]
  BY <1>1 DEF Step, StoreFails, ResolveContext, LoadBookings, LoadBlocks, AssertSlotIsValid,
     RunTransaction, RequireBooking, CheckCancellationWindow, UpdateCancelled, ResolveMove,
     UpdateMoved, AddBlock, AnswerWritten, RunAgain, Answer, Goto, Typed, TypeOK, locals
<1>2. ASSUME NEW r \in Requests \ {q}, Arrive(r)
      PROVE  pc'[q] = pc[q] /\ fetched'[q] = fetched[q] /\ reply'[q] = reply[q]
  BY <1>2 DEF Arrive, Goto, Typed, TypeOK, locals
<1>3. CASE Tick \/ UNCHANGED vars
  BY <1>3 DEF Tick, vars, locals
<1>4. QED
  BY <1>1, <1>2, <1>3 DEF Next

LEMMA FetchGoesOn ==
  ASSUME Typed, [Next]_vars, NEW q \in Requests, pc[q] = "fetch"
  PROVE  /\ pc'[q] \in {"fetch", "window"} \/ (pc'[q] = "done" /\ reply'[q].code # "OK")
         /\ ~TurnedDown(q)'
         /\ pc'[q] = "window" => /\ fetched'[q] = bookings[call[q].id]
                                 /\ bookings[call[q].id] # NoDoc /\ bookings' = bookings
<1>1. CASE Step(q) \/ StoreFails(q)
  <2>1. RequireBooking(q) \/ StoreFails(q)
    BY <1>1 DEF Step, ResolveContext, LoadBookings, LoadBlocks, AssertSlotIsValid,
       RunTransaction, CheckCancellationWindow, UpdateCancelled, ResolveMove, UpdateMoved, AddBlock
  <2>2. CASE \E code \in {"BOOKING_NOT_FOUND", "INTERNAL_ERROR"} : Answer(q, code, {})
    BY <2>2 DEF Answer, Goto, Typed, TypeOK, TurnedDown
  <2>3. CASE /\ bookings[call[q].id] # NoDoc /\ bookings' = bookings /\ Goto(q, "window")
             /\ fetched' = [fetched EXCEPT ![q] = bookings[call[q].id]]
    BY <2>3 DEF Goto, Typed, TypeOK, TurnedDown
  <2>4. QED
    BY <2>1, <2>2, <2>3 DEF RequireBooking, StoreFails, database
<1>2. CASE ~Step(q) /\ ~StoreFails(q)
  <2>1. ~Arrive(q)
    BY DEF Arrive
  <2>2. QED
    BY <1>2, <2>1, NobodyElsesStep DEF TurnedDown
<1>3. QED
  BY <1>1, <1>2

LEMMA WindowGoesOn ==
  ASSUME Typed, [Next]_vars, NEW q \in Requests, pc[q] = "window"
  PROVE  /\ pc'[q] = "window" => fetched'[q] = fetched[q]
         /\ WithinWindow(fetched[q].startAt) => pc'[q] = "window" \/ TurnedDown(q)'
         /\ TurnedDown(q)' => WithinWindow(fetched[q].startAt)
<1>1. CASE Step(q) \/ StoreFails(q)
  <2>1. CheckCancellationWindow(q)
    BY <1>1 DEF Step, StoreFails, ResolveContext, LoadBookings, LoadBlocks, AssertSlotIsValid,
       RunTransaction, RequireBooking, UpdateCancelled, ResolveMove, UpdateMoved, AddBlock
  <2>2. CASE WithinWindow(fetched[q].startAt) /\ Answer(q, "WITHIN_CANCELLATION_WINDOW", {})
    BY <2>2 DEF Answer, Goto, Typed, TypeOK, TurnedDown
  <2>3. CASE /\ ~WithinWindow(fetched[q].startAt)
             /\ Goto(q, "commit") \/ Goto(q, "resolveMove")
    BY <2>3 DEF Goto, Typed, TypeOK, TurnedDown
  <2>4. QED
    BY <2>1, <2>2, <2>3 DEF CheckCancellationWindow
<1>2. CASE ~Step(q) /\ ~StoreFails(q)
  <2>1. ~Arrive(q)
    BY DEF Arrive
  <2>2. QED
    BY <1>2, <2>1, NobodyElsesStep DEF TurnedDown
<1>3. QED
  BY <1>1, <1>2

\* Nobody is turned down elsewhere.
LEMMA TurnedDownAtTheWindow ==
  ASSUME Typed, [Next]_vars, NEW q \in Requests, pc[q] \notin {"window", "done"}
  PROVE  ~TurnedDown(q)' /\ (pc[q] # "fetch" => pc'[q] # "window")
<1>1. ASSUME NEW code \in Codes, NEW alts, Answer(q, code, alts)
      PROVE  pc'[q] = "done" /\ reply'[q].code = code
  BY <1>1 DEF Answer, Goto, Typed, TypeOK
<1>2. ASSUME NEW place \in Phases \ {"done", "window"}, Goto(q, place)
      PROVE  ~TurnedDown(q)' /\ pc'[q] # "window"
  BY <1>2 DEF Goto, Typed, TypeOK, TurnedDown
<1>3. ASSUME NEW code \in Codes \ {"WITHIN_CANCELLATION_WINDOW"}, NEW alts, Answer(q, code, alts)
      PROVE  ~TurnedDown(q)' /\ pc'[q] # "window"
  BY <1>1, <1>3 DEF TurnedDown
<1>4. CASE \/ StoreFails(q) \/ (RunTransaction(q) /\ ~RunAgain(q)) \/ UpdateCancelled(q)
           \/ UpdateMoved(q) \/ AddBlock(q)
  <2>1. \E code \in {"OK", "INTERNAL_ERROR", "SLOT_TAKEN"} : \E alts : Answer(q, code, alts)
    BY <1>4 DEF StoreFails, RunTransaction, UpdateCancelled, UpdateMoved, AddBlock, AnswerWritten
  <2>2. {"OK", "INTERNAL_ERROR", "SLOT_TAKEN"} \subseteq Codes \ {"WITHIN_CANCELLATION_WINDOW"}
    BY DEF Codes
  <2>3. QED
    BY <1>3, <2>1, <2>2
<1>41. CASE RunTransaction(q) /\ RunAgain(q)
  BY <1>41 DEF RunTransaction, RunAgain, TurnedDown
<1>5. CASE Arrive(q) \/ LoadBookings(q) \/ LoadBlocks(q)
  <2>1. \E place \in Phases \ {"done", "window"} : Goto(q, place)
    BY <1>5 DEF Arrive, FirstPhase, LoadBookings, LoadBlocks, Phases
  <2>2. QED
    BY <1>2, <2>1
<1>6. CASE ResolveContext(q) \/ ResolveMove(q)
  <2>1. /\ ContextVerdict(call[q].svc, call[q].sty) \in Codes \ {"WITHIN_CANCELLATION_WINDOW"}
        /\ MoveVerdict(fetched[q].svc, call[q].sty) \in Codes \ {"WITHIN_CANCELLATION_WINDOW"}
        /\ "load" \in Phases \ {"done", "window"}
    BY DEF ContextVerdict, ServiceVerdict, MoveVerdict, Codes, Phases
  <2>2. QED
    BY <1>2, <1>3, <1>6, <2>1 DEF ResolveContext, ResolveMove
<1>7. CASE AssertSlotIsValid(q)
  <2> DEFINE verdict == SlotVerdict(call[q].sty, DurationOf(q), call[q].date,
                                    call[q].start, Others(q), blk[q], now)
  <2>1. verdict \in Codes \ {"WITHIN_CANCELLATION_WINDOW"} /\ "commit" \in Phases \ {"done", "window"}
    BY DEF SlotVerdict, Codes, Phases
  <2>2. Goto(q, "commit") \/ \E alts : Answer(q, verdict, alts)
    BY <1>7 DEF AssertSlotIsValid
  <2> HIDE DEF verdict
  <2>3. QED
    BY <1>2, <1>3, <2>1, <2>2
<1>8. CASE ~Arrive(q) /\ ~Step(q) /\ ~StoreFails(q)
  BY <1>8, NobodyElsesStep DEF TurnedDown
<1>9. ~CheckCancellationWindow(q)
  BY DEF CheckCancellationWindow
<1>10. CASE RequireBooking(q)
  BY <1>10, FetchGoesOn DEF RequireBooking
<1>11. QED
  BY <1>4, <1>5, <1>6, <1>7, <1>8, <1>9, <1>10, <1>41 DEF Step

\* Who has not come yet keeps what it knows of those before it: nothing.
LEMMA PriorStays ==
  ASSUME Typed, [Next]_vars, NEW q \in Requests, ~Arrive(q)
  PROVE  prior'[q] = prior[q] /\ call'[q] = call[q]
<1>1. ASSUME NEW r \in Requests \ {q}, Arrive(r) PROVE prior'[q] = prior[q] /\ call'[q] = call[q]
  BY <1>1 DEF Arrive, Typed, TypeOK
<1>2. ASSUME NEW r \in Requests, Step(r) \/ StoreFails(r) PROVE UNCHANGED <<call, prior>>
  BY <1>2 DEF Step, StoreFails, ResolveContext, LoadBookings, LoadBlocks, AssertSlotIsValid,
     RunTransaction, RequireBooking, CheckCancellationWindow, UpdateCancelled, ResolveMove,
     UpdateMoved, AddBlock
<1>3. CASE Tick \/ UNCHANGED vars
  BY <1>3 DEF Tick, vars
<1>4. QED
  BY <1>1, <1>2, <1>3 DEF Next

LEMMA AnswersAreLast ==
  ASSUME Typed, [Next]_vars, NEW q \in Requests, pc'[q] # "done"
  PROVE  pc[q] # "done" /\ reply'[q] = reply[q]
<1>1. ASSUME NEW code, NEW alts PROVE ~Answer(q, code, alts)
  BY DEF Answer, Goto, Typed, TypeOK
<1>2. CASE Arrive(q) \/ LoadBookings(q) \/ LoadBlocks(q)
  BY <1>2 DEF Arrive, LoadBookings, LoadBlocks
<1>3. CASE StoreFails(q) \/ RunTransaction(q) \/ UpdateCancelled(q) \/ UpdateMoved(q) \/ AddBlock(q)
  BY <1>1, <1>3 DEF StoreFails, RunTransaction, UpdateCancelled, UpdateMoved, AddBlock,
     AnswerWritten, RunAgain
<1>4. CASE ResolveContext(q) \/ ResolveMove(q) \/ AssertSlotIsValid(q)
  BY <1>1, <1>4 DEF ResolveContext, ResolveMove, AssertSlotIsValid
<1>5. CASE RequireBooking(q) \/ CheckCancellationWindow(q)
  BY <1>1, <1>5 DEF RequireBooking, CheckCancellationWindow
<1>6. CASE ~Arrive(q) /\ ~Step(q) /\ ~StoreFails(q)
  BY <1>6, NobodyElsesStep
<1>7. pc[q] # "done"
  BY OwnStepsOnly
<1>8. QED
  BY <1>2, <1>3, <1>4, <1>5, <1>6, <1>7 DEF Step

LEMMA ArrivalKnows ==
  ASSUME Typed, ReadersTyped, NEW q \in Requests, Arrive(q), NEW f \in Readers
  PROVE  since[f] \subseteq prior'[q]
<1>1. prior'[q] = Seeded \cup Answered
  BY DEF Arrive, Typed, TypeOK
<1>2. QED
  BY <1>1 DEF ReadersTyped, HoldsWhatItNeeds

LEMMA ServiceDecides ==
  ASSUME Typed, Traced, ReadersTyped, ServiceNext, NEW q \in Requests, Decides(q)
  PROVE  Decides(q)'
<1>1. [Next]_vars /\ UNCHANGED readerVars
  BY ServiceGoesOn
<1>2. prior[q] \in SUBSET (Seeded \cup Answered)
  BY RequestsAssumption DEF Typed, TypeOK, Traced, PriorAnswered, Answered, BookingIds
<1>3. pc'[q] = "window" => KnowsStart(call[q].id, prior[q], fetched[q].startAt)'
  <2> SUFFICES ASSUME pc'[q] = "window"
               PROVE  KnowsStart(call[q].id, prior[q], fetched[q].startAt)'
    OBVIOUS
  <2>1. CASE pc[q] = "fetch"
    <3>1. /\ fetched'[q] = bookings[call[q].id] /\ bookings[call[q].id] # NoDoc
          /\ bookings' = bookings /\ call'[q] = call[q]
      BY <1>1, <2>1, FetchGoesOn, OwnStepsOnly
    <3>2. call[q].id \in BookingIds
      BY <2>1, CallFields DEF Typed, HandlersFit, PhaseFits
    <3>3. QED
      BY <3>1, <3>2, BookedAreDocs DEF KnowsStart
  <2>2. CASE pc[q] = "window"
    <3>1. fetched'[q] = fetched[q] /\ call'[q] = call[q] /\ prior'[q] = prior[q]
      BY <1>1, <2>2, WindowGoesOn, OwnStepsOnly
    <3>2. call[q].id \in BookingIds
      BY <2>2, CallFields DEF Typed, HandlersFit, PhaseFits
    <3>3. QED
      BY <1>1, <1>2, <2>2, <3>1, <3>2, KnowledgeStays DEF Decides
  <2>3. CASE pc[q] = "done"
    BY <1>1, <2>3, OwnStepsOnly
  <2>4. QED
    BY <1>1, <2>1, <2>2, <2>3, TurnedDownAtTheWindow
<1>4. ASSUME NEW b \in BookingIds, TurnedDown(q)', Touches(q, b)'
      PROVE  \E t \in Instants : WithinWindow(t)' /\ KnowsStart(b, prior[q], t)'
  <2>1. pc[q] \in {"window", "done"}
    BY <1>1, <1>4, TurnedDownAtTheWindow
  <2>2. call'[q] = call[q] /\ prior'[q] = prior[q] /\ Touches(q, b)
    BY <1>1, <1>4, <2>1, OwnStepsOnly DEF Touches
  <2>3. \E t \in Instants : WithinWindow(t) /\ KnowsStart(b, prior[q], t)
    <3>1. CASE pc[q] = "done"
      BY <1>1, <1>4, <2>2, <3>1, TurnedDownStays DEF Decides
    <3>2. CASE pc[q] = "window"
      <4>1. WithinWindow(fetched[q].startAt)
        BY <1>1, <1>4, <3>2, WindowGoesOn
      <4>2. fetched[q].startAt \in Instants
        BY <3>2 DEF Typed, HandlersFit, DataFits, Doc
      <4>3. KnowsStart(b, prior[q], fetched[q].startAt)
        BY <2>2, <3>2 DEF Decides, Touches
      <4>4. QED
        BY <4>1, <4>2, <4>3
    <3>3. QED
      BY <2>1, <3>1, <3>2
  <2>4. PICK t \in Instants : WithinWindow(t) /\ KnowsStart(b, prior[q], t)
    BY <2>3
  <2>5. WithinWindow(t)' /\ KnowsStart(b, prior[q], t)'
    BY <1>1, <1>2, <2>2, <2>4, NearStays, KnowledgeStays
  <2>6. QED
    BY <2>5
<1>5. ASSUME NEW f \in heard'[q] PROVE at'[f] = "done" /\ since'[f] \subseteq prior'[q]
  <2>1. at' = at /\ since' = since
    BY <1>1 DEF readerVars
  <2>2. CASE f \in heard[q]
    <3>1. f \in Readers
      BY <2>2 DEF ReadersTyped, ReaderTypeOK
    <3>2. since[f] \subseteq prior'[q]
      BY <1>1, <2>2, <3>1, ArrivalKnows, PriorStays DEF Decides
    <3>3. QED
      BY <2>1, <2>2, <3>2 DEF Decides
  <2>3. CASE f \notin heard[q]
    <3>1. Arrive(q) /\ f \in ReadersDone
      BY <1>5, <2>3 DEF ServiceNext, ReadersTyped, ReaderTypeOK
    <3>2. QED
      BY <2>1, <3>1, ArrivalKnows DEF ReadersDone
  <2>4. QED
    BY <2>2, <2>3
<1>6. pc'[q] # "done" => reply'[q].code = "none"
  BY <1>1, AnswersAreLast DEF Decides
<1>7. QED
  BY <1>3, <1>4, <1>5, <1>6 DEF Decides

LEMMA ServiceIsTold ==
  ASSUME Typed, Traced, ReadersTyped, Agreeing, ServiceNext,
         NEW f \in Readers, NEW q \in Requests
  PROVE  IsTold(f, q)'
<1>1. [Next]_vars /\ UNCHANGED readerVars
  BY ServiceGoesOn
<1>2. ask'[f] = ask[f] /\ answer'[f] = answer[f] /\ since'[f] = since[f]
  BY <1>1 DEF readerVars
<1> SUFFICES ASSUME f \in heard'[q], ask[f].op = "find", NEW e \in answer[f].entries,
                    TooLate(f, q, e)'
             PROVE  WillRefuse(q)'
  BY <1>2 DEF IsTold
<1>3. e.within /\ Touches(q, e.id)' /\ ~MovedOutside(e.id, since[f] \cup {q})'
  BY <1>2 DEF TooLate
<1>4. CASE Arrive(q)
  <2>1. pc'[q] = "fetch"
    BY <1>3, <1>4 DEF Touches, Arrive, Goto, FirstPhase, Typed, TypeOK
  <2>2. QED
    BY <2>1 DEF WillRefuse
<1>5. CASE ~Arrive(q)
  <2>1. f \in heard[q] /\ call'[q] = call[q]
    BY <1>1, <1>5, PriorStays DEF ServiceNext, ReadersTyped, ReaderTypeOK
  <2>2. Touches(q, e.id) /\ ~MovedOutside(e.id, since[f] \cup {q})
    BY <1>1, <1>2, <1>3, <2>1, MovesStay DEF Touches
  <2>3. WillRefuse(q)
    BY <1>3, <2>1, <2>2 DEF Agreeing, IsTold, TooLate
  <2>4. CASE pc[q] = "fetch"
    BY <1>1, <2>4, FetchGoesOn DEF WillRefuse
  <2>5. CASE pc[q] = "done"
    BY <1>1, <2>3, <2>5, OwnStepsOnly DEF WillRefuse
  <2>6. CASE pc[q] = "window"
    <3>1. EntryFits(f, e)
      BY DEF Agreeing, Tells
    <3>2. ~MovedOutside(e.id, since[f])
      <4>1. bookings[e.id] # NoDoc
        BY <3>1, NoDocIsNoDoc DEF EntryFits, KnowsStart
      <4>2. e.id # q
        BY <2>2, <4>1 DEF Traced, OwnBookings, Touches
      <4>3. QED
        BY <2>2, <2>6, <4>2 DEF MovedOutside, Landed
    <3>3. ~MovedOutside(e.id, prior[q])
      BY <2>1, <3>2, FewerMoved DEF Agreeing, Decides
    <3>4. fetched[q].startAt = e.startAt
      BY <2>2, <2>6, <3>1, <3>2, <3>3 DEF Agreeing, Decides, EntryFits, KnowsStart, Touches
    <3>5. WithinWindow(fetched[q].startAt)
      BY <1>3, <3>1, <3>4 DEF EntryFits
    <3>6. QED
      BY <1>1, <2>6, <3>5, WindowGoesOn DEF WillRefuse, TurnedDown
  <2>7. QED
    BY <2>3, <2>4, <2>5, <2>6 DEF WillRefuse
<1>6. QED
  BY <1>4, <1>5

-----------------------------------------------------------------------------
(* The readers' steps                                                      *)

\* What stays as it is when nothing but reader f moves.
LEMMA OthersTell ==
  ASSUME UNCHANGED vars, NEW g \in Readers, Tells(g),
         at'[g] = at[g], ask'[g] = ask[g], rows'[g] = rows[g], answer'[g] = answer[g],
         since'[g] = since[g]
  PROVE  Tells(g)'
<1>1. RowsAreRead(g)'
  BY DEF Tells, RowsAreRead, KnowsStart, MovedOutside, Landed, vars
<1>2. \A e : EntryFits(g, e) => EntryFits(g, e)'
  BY DEF EntryFits, KnowsStart, MovedOutside, Landed, WithinWindow, TurnedDown, Touches, vars
<1>3. QED
  BY <1>1, <1>2 DEF Tells, vars

LEMMA ReaderLeavesTold ==
  ASSUME ReadersTyped, Agreeing, NEW f \in Readers, Come(f) \/ ReaderStep(f) \/ ReadFails(f),
         NEW q \in Requests
  PROVE  Decides(q)' /\ \A g \in Readers : IsTold(g, q)'
<1>1. UNCHANGED vars /\ heard' = heard
  BY ReadersWriteNothing
<1>2. at[f] # "done"
  BY DEF Come, ReadFails, ReaderStep, Query, FilterRows, Present, SortList, Lookup, Render, Send,
     SaveResult
<1>3. \A g \in Readers \ {f} : /\ at'[g] = at[g] /\ ask'[g] = ask[g]
                               /\ answer'[g] = answer[g] /\ since'[g] = since[g]
  BY DEF Come, ReadFails, ReaderStep, Query, FilterRows, Present, SortList, Lookup, Render, Send,
     SaveResult, Finish, GoTo, ReadersTyped, ReaderTypeOK
<1>4. f \notin heard[q] /\ heard[q] \subseteq Readers
  BY <1>2 DEF Agreeing, Decides, ReadersTyped, ReaderTypeOK
<1>5. Decides(q)'
  BY <1>1, <1>3, <1>4 DEF Agreeing, Decides, TurnedDown, Touches, WithinWindow, KnowsStart,
     MovedOutside, Landed, vars
<1>6. ASSUME NEW g \in Readers PROVE IsTold(g, q)'
  <2>1. CASE g = f
    BY <1>1, <1>4, <2>1 DEF IsTold
  <2>2. CASE g # f
    BY <1>1, <1>3, <2>2 DEF Agreeing, IsTold, TooLate, WillRefuse, Touches, MovedOutside, Landed,
       vars
  <2>3. QED
    BY <2>1, <2>2
<1>7. QED
  BY <1>5, <1>6

\* A reader that holds no rows it has found and has no entries tells nothing.
LEMMA NothingTold ==
  ASSUME Typed, NEW f \in Readers, at'[f] \notin {"filter", "names"},
         ask'[f].op = "find" => answer'[f].entries = {},
         \A q \in since'[f] \cap Requests : prior'[q] \subseteq since'[f]
  PROVE  Tells(f)'
BY DEF Tells, RowsAreRead

LEMMA ComeTells ==
  ASSUME Typed, Traced, ReadersTyped, NEW f \in Readers, Come(f)
  PROVE  Tells(f)'
<1>1. at'[f] \in {"query", "lookup"} /\ since'[f] = Seeded \cup Answered
  BY DEF Come, ReadersTyped, ReaderTypeOK, GoTo, FirstPlace
<1>2. answer'[f] = Unanswered
  BY DEF Come, ReadersTyped, HoldsWhatItNeeds
<1>3. ASSUME NEW q \in Requests PROVE prior'[q] \subseteq since'[f]
  <2>1. prior'[q] = prior[q] /\ prior[q] \subseteq BookingIds
    BY DEF Come, vars, Typed, TypeOK
  <2>2. ASSUME NEW x \in prior[q] PROVE x \in Seeded \cup Answered
    BY <2>1 DEF Traced, PriorAnswered, Answered, BookingIds
  <2>3. QED
    BY <1>1, <2>1, <2>2
<1>4. QED
  BY <1>1, <1>2, <1>3, NothingTold DEF Unanswered

LEMMA QueryTells ==
  ASSUME Typed, Traced, ReadersTyped, NEW f \in Readers, Query(f), Tells(f)
  PROVE  Tells(f)'
<1>1. UNCHANGED <<vars, ask, since>> /\ answer'[f] = Unanswered
  BY DEF Query, ReadersTyped, HoldsWhatItNeeds
<1>2. at'[f] \in {"filter", "sort"}
  BY DEF Query, ReadersTyped, ReaderTypeOK, GoTo
<1>3. \A d \in rows'[f] : bookings[d.id] = d /\ d \in Doc
  <2>1. PICK R \in SUBSET ({bookings[b] : b \in BookingIds} \ {NoDoc}) :
            rows' = [rows EXCEPT ![f] = R]
    BY DEF Query
  <2>2. rows'[f] = R
    BY <2>1 DEF ReadersTyped, ReaderTypeOK
  <2>3. ASSUME NEW d \in R PROVE bookings[d.id] = d /\ d \in Doc
    <3>1. PICK b \in BookingIds : d = bookings[b] /\ bookings[b] # NoDoc
      OBVIOUS
    <3>2. QED
      BY <3>1, BookedAreDocs
  <2>4. QED
    BY <2>2, <2>3
<1>4. QED
  BY <1>1, <1>2, <1>3 DEF Tells, RowsAreRead, KnowsStart, Unanswered, vars

LEMMA FilterTells ==
  ASSUME Typed, Traced, ReadersTyped, NEW f \in Readers, FilterRows(f), Tells(f)
  PROVE  Tells(f)'
<1>1. /\ UNCHANGED <<vars, ask, since>> /\ answer'[f] = Unanswered
      /\ at[f] = "filter" /\ at'[f] = "names"
  BY DEF FilterRows, ReadersTyped, HoldsWhatItNeeds, ReaderTypeOK, GoTo
<1>2. \A d \in rows'[f] : d \in rows[f] /\ d.startAt # Invalid
  BY DEF FilterRows, Upcoming, ReadersTyped, ReaderTypeOK
<1>3. QED
  BY <1>1, <1>2 DEF Tells, RowsAreRead, KnowsStart, MovedOutside, Landed, Unanswered, vars

LEMMA PresentTells ==
  ASSUME Typed, Traced, ReadersTyped, Agreeing, NEW f \in Readers, Present(f)
  PROVE  Tells(f)'
<1> DEFINE entry(d) == [id |-> d.id, sty |-> d.sty, startAt |-> d.startAt,
                        status |-> d.status, within |-> Flagged(d)]
<1>1. /\ at'[f] = "done" /\ answer'[f] = [code |-> "OK", entries |-> {entry(d) : d \in rows[f]}]
      /\ at[f] = "names" /\ UNCHANGED <<vars, ask, since>>
  BY Finished DEF Present
<1>2. Tells(f)
  BY DEF Agreeing
<1>3. ASSUME NEW d \in rows[f] PROVE EntryFits(f, entry(d))
  <2>1. d.id \in BookingIds /\ d.startAt \in Instants /\ d.startAt # Invalid
    BY <1>1, <1>2 DEF ReadersTyped, ReaderTypeOK, Doc, Tells, RowsAreRead
  <2>2. KnowsStart(d.id, since[f], d.startAt)
    BY <1>1, <1>2 DEF Tells, RowsAreRead
  <2>3. Flagged(d) <=> WithinWindow(d.startAt)
    BY <2>1 DEF Flagged, WithinWindow
  <2>4. ASSUME NEW q \in since[f] \cap Requests, TurnedDown(q), Touches(q, d.id),
               ~MovedOutside(d.id, prior[q])
        PROVE  Flagged(d)
    <3>1. PICK t \in Instants : WithinWindow(t) /\ KnowsStart(d.id, prior[q], t)
      BY <2>1, <2>4 DEF Agreeing, Decides
    <3>2. ~MovedOutside(d.id, since[f])
      BY <1>2, <2>4, FewerMoved DEF Tells
    <3>3. t = d.startAt
      BY <2>2, <2>4, <3>1, <3>2 DEF KnowsStart
    <3>4. QED
      BY <2>3, <3>1, <3>3
  <2>5. /\ entry(d).id = d.id /\ entry(d).startAt = d.startAt
        /\ entry(d).within <=> Flagged(d)
    OBVIOUS
  <2> HIDE DEF entry
  <2>6. QED
    BY <2>1, <2>2, <2>3, <2>4, <2>5 DEF EntryFits
<1>4. \A e \in answer'[f].entries : EntryFits(f, e)
  BY <1>1, <1>3
<1>5. \A e : EntryFits(f, e) => EntryFits(f, e)'
  BY <1>1 DEF EntryFits, KnowsStart, MovedOutside, Landed, WithinWindow, TurnedDown, Touches, vars
<1>6. QED
  BY <1>1, <1>2, <1>4, <1>5 DEF Tells, RowsAreRead, vars

LEMMA OtherStepsTell ==
  ASSUME Typed, Traced, ReadersTyped, NEW f \in Readers, Tells(f),
         \/ SortList(f) \/ Lookup(f) \/ Render(f) \/ Send(f) \/ SaveResult(f) \/ ReadFails(f)
  PROVE  Tells(f)'
<1>1. UNCHANGED <<vars, ask, since>>
  BY DEF SortList, Lookup, Render, Send, SaveResult, ReadFails
<1>2. CASE ReadFails(f)
  <2>1. at'[f] = "done" /\ answer'[f] = [code |-> "INTERNAL_ERROR", entries |-> {}]
    BY <1>2, Finished DEF ReadFails
  <2>2. answer'[f].entries = {}
    BY <2>1
  <2>3. QED
    BY <1>1, <2>1, <2>2, NothingTold DEF Tells, vars
<1>3. CASE ~ReadFails(f)
  <2>1. ask[f].op # "find"
    BY <1>3, ReaderAssumption DEF SortList, Lookup, Render, Send, SaveResult, ReadersTyped,
       HoldsWhatItNeeds
  <2>2. at'[f] \in {"done", "render", "send", "save"}
    BY <1>3 DEF SortList, Lookup, Render, Send, SaveResult, Finish, GoTo, ReadersTyped, ReaderTypeOK
  <2>3. QED
    BY <1>1, <2>1, <2>2, NothingTold DEF Tells, vars
<1>4. QED
  BY <1>2, <1>3

LEMMA AgreeingNext ==
  ASSUME Typed, Traced, ReadersTyped, Agreeing, [ReadersNext]_allVars
  PROVE  Agreeing'
<1>1. CASE ServiceNext
  BY <1>1, ServiceGoesOn, ServiceTells, ServiceDecides, ServiceIsTold DEF Agreeing
<1>2. ASSUME NEW f \in Readers, Come(f) \/ ReaderStep(f) \/ ReadFails(f) PROVE Agreeing'
  <2>1. Tells(f)'
    BY <1>2, ComeTells, QueryTells, FilterTells, PresentTells, OtherStepsTell
    DEF ReaderStep, Agreeing
  <2>2. ASSUME NEW g \in Readers \ {f} PROVE Tells(g)'
    <3>1. /\ at'[g] = at[g] /\ ask'[g] = ask[g] /\ rows'[g] = rows[g]
          /\ answer'[g] = answer[g] /\ since'[g] = since[g]
      BY <1>2 DEF Come, ReadFails, ReaderStep, Query, FilterRows, Present, SortList, Lookup, Render,
         Send, SaveResult, Finish, GoTo, ReadersTyped, ReaderTypeOK
    <3>2. QED
      BY <1>2, <3>1, ReadersWriteNothing, OthersTell DEF Agreeing
  <2>3. QED
    BY <1>2, <2>1, <2>2, ReaderLeavesTold DEF Agreeing
<1>3. CASE UNCHANGED allVars
  <2>1. \A f \in Readers : Tells(f)'
    BY <1>3, OthersTell DEF allVars, readerVars, Agreeing
  <2>2. \A q \in Requests : Decides(q)'
    BY <1>3 DEF allVars, readerVars, vars, Agreeing, Decides, TurnedDown, Touches, WithinWindow,
       KnowsStart, MovedOutside, Landed
  <2>3. \A f \in Readers, q \in Requests : IsTold(f, q)'
    BY <1>3 DEF allVars, readerVars, vars, Agreeing, IsTold, TooLate, WillRefuse, Touches,
       MovedOutside, Landed
  <2>4. QED
    BY <2>1, <2>2, <2>3 DEF Agreeing
<1>4. QED
  BY <1>1, <1>2, <1>3 DEF ReadersNext

LEMMA AgreeingInit == ReadersInit => Agreeing
<1> SUFFICES ASSUME ReadersInit PROVE Agreeing
  OBVIOUS
<1>1. \A f \in Readers : Tells(f)
  BY DEF ReadersInit, Tells, RowsAreRead, Unanswered
<1>2. \A q \in Requests : Decides(q)
  BY DEF ReadersInit, Init, Decides, TurnedDown, NoReply
<1>3. \A f \in Readers, q \in Requests : IsTold(f, q)
  BY DEF ReadersInit, IsTold
<1>4. QED
  BY <1>1, <1>2, <1>3 DEF Agreeing

\* Whoever was told that an appointment can no longer be cancelled is refused
\* when she tries, and whoever was refused hears that it is too late when she
\* asks, unless another request has moved the appointment meanwhile.
THEOREM FlagAndRefusalAgree == ReadersSpec => []FlagAgreesWithCancel
<1>1. Typed /\ ReadersTyped /\ Agreeing => FlagAgreesWithCancel
  <2> SUFFICES ASSUME Typed, ReadersTyped, Agreeing, NEW f \in Readers, NEW q \in Requests,
                      ask[f].op = "find", NEW e \in answer[f].entries, Touches(q, e.id)
               PROVE  /\ f \in heard[q] /\ e.within /\ ~MovedOutside(e.id, since[f] \cup {q})
                         => reply[q].code # "OK"
                      /\ q \in since[f] /\ reply[q].code = "WITHIN_CANCELLATION_WINDOW"
                            /\ ~MovedOutside(e.id, prior[q])
                         => e.within
    BY DEF FlagAgreesWithCancel, Touches
  <2>1. ASSUME f \in heard[q], e.within, ~MovedOutside(e.id, since[f] \cup {q})
        PROVE  reply[q].code # "OK"
    <3>1. WillRefuse(q)
      BY <2>1 DEF Agreeing, IsTold, TooLate
    <3>2. QED
      BY <3>1 DEF WillRefuse, Agreeing, Decides
  <2>2. ASSUME q \in since[f], reply[q].code = "WITHIN_CANCELLATION_WINDOW",
               ~MovedOutside(e.id, prior[q])
        PROVE  e.within
    <3>1. TurnedDown(q)
      BY <2>2, RequestsAssumption DEF TurnedDown, ReadersTyped, HoldsWhatItNeeds, Answered
    <3>2. QED
      BY <2>2, <3>1 DEF Agreeing, Tells, EntryFits
  <2>3. QED
    BY <2>1, <2>2
<1>2. Typed /\ Traced /\ ReadersTyped /\ Agreeing /\ [ReadersNext]_allVars => Agreeing'
  BY AgreeingNext
<1>3. QED
  BY <1>1, <1>2, AgreeingInit, ReadersAreTyped, ReadersLeaveTheService, AlwaysTyped,
     AlwaysTraced, PTL DEF ReadersSpec
=============================================================================
