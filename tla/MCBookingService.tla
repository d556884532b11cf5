--------------------------- MODULE MCBookingService ---------------------------
(***************************************************************************)
(* Small salons for TLC: two active stylists and one who has left, four    *)
(* services, quarter hours for ticks.  Day 0 is a Monday, the closed day.  *)
(***************************************************************************)
EXTENDS BookingProperties, TLC

CONSTANTS r1, r2, r3, s1, s2,
          cut, color, bridal, consult, noService,
          priya, anita, zoya, noStylist

MCHour == 4
MCServiceIds == {cut, color, bridal, consult, noService}
MCServices == {cut, color, bridal, consult}
MCStylistIds == {priya, anita, zoya, noStylist}
MCStylists == {priya, anita, zoya}
MCActive == {priya, anita}
MCPerforms == priya :> {cut, color} @@ anita :> {cut, bridal} @@ zoya :> {cut}
MCBookable == {cut, color, consult}
MCDuration == cut :> 4 @@ color :> 8 @@ bridal :> 8 @@ consult :> 0

Open(from, to) == [isOpen |-> TRUE, openTime |-> from, closeTime |-> to]
Shut == [isOpen |-> FALSE, openTime |-> 0, closeTime |-> 0]

\* 10:00 to 12:30, closed on Mondays; anita works 10:00 to 11:30 on weekday 3
\* and comes in on Mondays, priya does not work on weekday 3.
MCCompanyHours == [d \in Weekdays |-> IF d = 0 THEN Shut ELSE Open(40, 50)]
MCOverride == priya :> (3 :> Shut)
              @@ anita :> (0 :> Open(40, 44) @@ 3 :> Open(40, 46))
              @@ zoya :> <<>>

Time(h, m) == [h |-> h, m |-> m]
CreateAt(svc, sty, date, start) ==
    [op |-> "create", svc |-> svc, sty |-> sty, date |-> date, start |-> start]
MoveTo(b, sty, date, start) ==
    [op |-> "reschedule", id |-> b, sty |-> sty, date |-> date, start |-> start]
BlockOf(sty, s, e) == [op |-> "block", sty |-> sty, startAt |-> s, endAt |-> e]

\* One confirmed booking on the books: priya, day 2, 10:00 to 11:00.
MCSeeded == {s1}
Seat(b, svc, sty, date, m) ==
    [id |-> b, svc |-> svc, sty |-> sty, startAt |-> At(date, m),
     endAt |-> At(date, m) + MCDuration[svc], status |-> "confirmed"]
MCSeedDoc == s1 :> Seat(s1, cut, priya, 2, 40)

\* And a second one, of anita, 34 hours after the clock starts.
MCSeededTwo == {s1, s2}
MCSeedDocTwo == s1 :> Seat(s1, cut, priya, 2, 40) @@ s2 :> Seat(s2, cut, anita, 1, 40)

\* Anita is away on day 2 from 11:00.
MCSeedBlocks == {[by |-> "seed", sty |-> anita, startAt |-> At(2, 44), endAt |-> At(2, 95)]}

-----------------------------------------------------------------------------
(* What the clients ask for                                                *)

None == {}

\* Starts that collide with each other and with the seeded booking.
RaceCreates == {CreateAt(cut, priya, 2, Time(11, 0)), CreateAt(color, priya, 2, Time(10, 2)),
                CreateAt(cut, anita, 2, Time(10, 0))}
RaceCancels == {[op |-> "cancel", id |-> b] : b \in BookingIds}
RaceBlocks == {BlockOf(priya, At(2, 46), At(2, 48)), BlockOf(Everyone, At(2, 40), At(2, 42))}

\* Moves of any booking onto the slots the creates compete for.
RaceMoves == {MoveTo(b, sty, 2, Time(11, 0)) : b \in BookingIds, sty \in {priya, anita}}
MoveCreates == {CreateAt(cut, priya, 2, Time(11, 0)), CreateAt(cut, anita, 2, Time(10, 0))}

\* Every combination of service, stylist, day and start worth telling apart.
AllCreates == {CreateAt(svc, sty, d, t) :
                  svc \in {cut, color, bridal, consult, noService},
                  sty \in {priya, anita, zoya, noStylist},
                  d \in {0, 1, 3},
                  t \in {Time(9, 3), Time(10, 0), Time(10, 5), Time(11, 1), Time(12, 0)}}
AllMoves == {MoveTo(b, sty, d, t) :
                  b \in {s1, s2}, sty \in {priya, anita, zoya, noStylist},
                  d \in {0, 1, 3},
                  t \in {Time(9, 3), Time(10, 0), Time(10, 5), Time(11, 1), Time(12, 0)}}
AllCancels == {[op |-> "cancel", id |-> b] : b \in {s1, s2}}

\* A move of the seeded booking to a slot 34 hours away.
SoonerMoves == {MoveTo(s1, priya, 1, Time(10, 0))}

\* A start a quarter of an hour off the grid, and then a cancel of it.
OffGridCreates == {CreateAt(cut, anita, 1, Time(10, 1)), CreateAt(cut, anita, 1, Time(10, 5))}

RequestSymmetry == Permutations(Requests)
=============================================================================
