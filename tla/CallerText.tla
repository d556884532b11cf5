------------------------------ MODULE CallerText ------------------------------
(***************************************************************************)
(* What the server makes of the dates and times callers write or speak:    *)
(* services/dateResolve.service.ts, which turns a phrase into a date, and  *)
(* lib/dateparse.ts, which coerces texts before the schemas check them.    *)
(*                                                                         *)
(* A phrase to resolve is relative to today, a number of days since a      *)
(* Monday.  A text to coerce is the sequence of its items, each a clock    *)
(* time, a date written out ("September 11, 2026"), a yyyy-mm-dd date or   *)
(* an ISO datetime; the dates are days of one month of the year Century    *)
(* begins.  Seconds are read and dropped, and are left out.                *)
(***************************************************************************)
EXTENDS Integers, Sequences, FiniteSets

CONSTANTS
    LastDay,        \* 31 December 9999, the last day luxon writes and reads
    ServerOffset    \* the server's zone, in minutes east of UTC

ASSUME CallerTextAssumption == LastDay \in Nat /\ ServerOffset \in -720..840

Century == 20
Undefined == -1     \* what cannot be coerced; a part that was not written
SameZone == 9999    \* an ISO datetime without an offset

-----------------------------------------------------------------------------
(* resolveDate                                                             *)

WeekdayOf(day) == (day % 7) + 1

Clarify == [code |-> "clarify"]

\* ok: dateToWords recurses for ever on a date luxon does not read back, and
\* the request ends with an INTERNAL_ERROR.
ok(day) == IF day <= LastDay THEN [code |-> "confident", day |-> day]
           ELSE [code |-> "error"]

\* A faulty DaysAhead: today's weekday means today.
DaysAheadOrToday(today, phrase) ==
    LET delta == (phrase.target - WeekdayOf(today) + 7) % 7
    IN IF phrase.modifier = "next" THEN delta + 7 ELSE delta

\* "next" skips a week unless that leads a fortnight ahead.
DaysAhead(today, phrase) ==
    LET delta == (phrase.target - WeekdayOf(today) + 7) % 7
        ahead == IF delta = 0 THEN 7 ELSE delta
    IN IF phrase.modifier = "next" /\ ahead < 7 THEN ahead + 7 ELSE ahead

resolveDate(today, phrase) ==
    CASE phrase.kind = "relative" -> ok(today + phrase.days)
      [] phrase.kind = "iso" /\ phrase.day # Undefined -> ok(phrase.day)
      [] phrase.kind = "weekday" -> ok(today + DaysAhead(today, phrase))
      [] OTHER -> Clarify

-----------------------------------------------------------------------------
(* coerceDate and coerceTime                                               *)

Items(text, kind) == {i \in DOMAIN text : text[i].kind = kind}

\* "19:07" and nothing else; the hour and the minutes may be any two digits.
BareTime(text) == Len(text) = 1 /\ text[1].kind = "clock" /\ text[1].padded

\* The yyyy-mm-dd part of anything, whatever zone its time is in; or the date
\* written out, wherever it stands; a time alone fromISO reads as that time
\* today (24:00 is left out).  An hour alone before a date written out goes to
\* the runtime's Date, to which "7 September 11, 2026" is a 7th: no doc names
\* such a text, and Texts has none.
coerceDate(text, today) ==
    LET dates == Items(text, "ymd") \cup Items(text, "iso")
        names == Items(text, "named")
    IN IF dates # {} THEN text[CHOOSE i \in dates : \A j \in dates : i <= j].day
       ELSE IF names # {} THEN text[CHOOSE i \in names : \A j \in names : i <= j].day
       ELSE IF BareTime(text) /\ text[1].h <= 23 /\ text[1].m <= 59 THEN today
       ELSE Undefined

\* A faulty HourOf: twelve is not special.
HourPlusTwelve(h, half) == IF half = "pm" THEN h + 12 ELSE h

HourOf(h, half) ==
    CASE half = "pm" /\ h < 12 -> h + 12
      [] half = "am" /\ h = 12 -> 0
      [] OTHER -> h

\* The first digits of the text are taken for its hour, whatever they are of.
FirstNumber(item) ==
    CASE item.kind = "clock" -> [h |-> item.h, m |-> item.m, half |-> item.half]
      [] item.kind = "named" -> [h |-> item.day, m |-> Undefined, half |-> "none"]
      [] OTHER -> [h |-> Century, m |-> Undefined, half |-> "none"]

\* HH:mm is passed on unread; an ISO datetime is converted to the server's
\* zone; anything else gives the first number in it.
coerceTime(text) ==
    IF BareTime(text) THEN [h |-> text[1].h, m |-> text[1].m]
    ELSE IF Len(text) = 1 /\ text[1].kind = "iso"
    THEN LET shift == IF text[1].offset = SameZone THEN 0 ELSE ServerOffset - text[1].offset
             local == (text[1].at + shift) % 1440
         IN [h |-> local \div 60, m |-> local % 60]
    ELSE LET n == FirstNumber(text[1])
             h == HourOf(n.h, n.half)
         IN IF h \in 0..23 THEN [h |-> h, m |-> IF n.m = Undefined THEN 0 ELSE n.m]
            ELSE [h |-> Undefined, m |-> Undefined]
=============================================================================
