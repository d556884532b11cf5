------------------------- MODULE MCAvailabilitySearch -------------------------
(***************************************************************************)
(* The salon of MCBookingService, closed for a fortnight from day 4 on,    *)
(* and searches in it.                                                     *)
(***************************************************************************)
EXTENDS AvailabilitySearch, MCBookingService

MCRank == priya :> 1 @@ anita :> 2 @@ zoya :> 0

Asked(svc, sty, date, from, to, part, limit) ==
    [svc |-> svc, sty |-> sty, date |-> date, from |-> from, to |-> to,
     part |-> part, limit |-> limit]
On(svc, sty, date, part, limit) == Asked(svc, sty, date, NoDate, NoDate, part, limit)
Between(svc, from, to, limit) == Asked(svc, AnyStylist, NoDate, from, to, AnyTime, limit)

\* One day, with and without a stylist; ranges that are open, too long, empty
\* or begin only; no date; nothing open at that time of day, or for a while.
MCQueries ==
    {On(cut, AnyStylist, 2, AnyTime, 2), On(cut, priya, 2, AnyTime, 6),
     On(cut, AnyStylist, 2, "morning", 3), On(color, AnyStylist, 2, "evening", 1),
     On(cut, zoya, 2, AnyTime, 1), On(bridal, anita, 2, AnyTime, 1),
     On(cut, noStylist, 2, AnyTime, 1),
     Between(cut, 1, 2, 5), Between(cut, 0, 14, 5), Between(cut, 2, 1, 5),
     Between(cut, NoDate, NoDate, 4), Between(color, 5, NoDate, 1),
     Between(cut, NoDate, 4, 1)}

\* Closed from day 4 to the end of day 18.
MCClosure == MCSeedBlocks \cup
    {[by |-> "seed", sty |-> Everyone, startAt |-> At(4, 0), endAt |-> At(19, 0)]}
=============================================================================
