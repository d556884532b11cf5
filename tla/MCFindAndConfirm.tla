--------------------------- MODULE MCFindAndConfirm ---------------------------
(***************************************************************************)
(* Two requests and one reader over two seeded bookings of one customer:   *)
(* one begins as the clock starts, the other enters the cancellation       *)
(* window while the clock runs.                                            *)
(***************************************************************************)
EXTENDS FindAndConfirm, MCBookingService

CONSTANTS f1, meera, rohan

MCOwner == [b \in BookingIds |-> IF b = r2 THEN rohan ELSE meera]
MCReference == [b \in BookingIds |-> IF b = r2 THEN 729 ELSE 541]
MCHasEmail == BookingIds \ {r1}

Soon == [id |-> s1, svc |-> cut, sty |-> priya, startAt |-> 0, endAt |-> 4, status |-> "confirmed"]
Edge == [id |-> s2, svc |-> cut, sty |-> anita, startAt |-> At(1, 42), endAt |-> At(1, 46),
         status |-> "confirmed"]
ReaderSeedDoc == s1 :> Soon @@ s2 :> Edge

\* Ten o'clock, and "10:75".
ReaderCreates == {CreateAt(cut, priya, 2, t) : t \in {Time(10, 0), Time(10, 5)}}
ReaderMoves == {MoveTo(s2, priya, 2, Time(11, 0))}
ReaderCancels == {[op |-> "cancel", id |-> b] : b \in {s2, r1}}

Find(phone, reference) == [op |-> "find", phone |-> phone, reference |-> reference]
List(status, from, to) == [op |-> "list", status |-> status, from |-> from, to |-> to]
ReaderFinds == {Find(meera, 541), Find(rohan, 541)}
ReaderLists == {List(NoFilter, NoFilter, NoFilter), List("confirmed", 0, At(2, 95))}
ReaderConfirms == {[op |-> "confirm", id |-> b, channels |-> 2] : b \in {s2, r1}}
=============================================================================
