------------------------------ MODULE SpokenText ------------------------------
(***************************************************************************)
(* The phrases the voice agent reads out (lib/spoken.ts, and the opening   *)
(* hours of services/company.service.ts), as the words they are made of,   *)
(* and what somebody who hears them understands.                           *)
(*                                                                         *)
(* A number word is the number it names: 0..19, 20, 30, ..., 90, and the   *)
(* multipliers 100, 1000 and 100000 (lakh); Minus stands for "minus".      *)
(* A time of day is its minutes since midnight.                            *)
(***************************************************************************)
EXTENDS Integers, Sequences, FiniteSetsExt

Minus == -1
InMinutes == -1         \* a time told as an hour and minutes
Closed == -1            \* no opening or no closing time
Weekdays == 1..7        \* DAY_ORDER: Monday first

-----------------------------------------------------------------------------
(* Numbers                                                                 *)

Unit(n) == IF n < 100 THEN 10 ELSE IF n < 1000 THEN 100
           ELSE IF n < 100000 THEN 1000 ELSE 100000

\* A faulty Rest: every branch leaves what the one for tens does.
LastDigit(n) == n % 10

Rest(n) == n % Unit(n)

numberToWords[n \in Int] ==
    IF n < 0 THEN <<Minus>> \o numberToWords[-n]
    ELSE IF n < 20 THEN <<n>>
    ELSE (IF n < 100 THEN <<n - Rest(n)>>
          ELSE numberToWords[n \div Unit(n)] \o <<Unit(n)>>)
         \o (IF Rest(n) = 0 THEN <<>> ELSE numberToWords[Rest(n)])

\* A listener adds what follows; a hundred or a thousand multiplies what is not
\* yet multiplied, and lakh all that was said.
HearWord(sofar, w) ==
    LET Lift(whole) == [sign |-> sofar.sign, whole |-> whole, part |-> 0]
    IN CASE w = Minus -> [sofar EXCEPT !.sign = -1]
         [] w >= 0 /\ w < 100 -> [sofar EXCEPT !.part = @ + w]
         [] w = 100 -> [sofar EXCEPT !.part = @ * 100]
         [] w = 1000 -> Lift(sofar.whole + sofar.part * 1000)
         [] OTHER -> Lift((sofar.whole + sofar.part) * 100000)

HearFrom(sofar, words) ==
    LET after[i \in 0..Len(words)] ==
            IF i = 0 THEN sofar ELSE HearWord(after[i - 1], words[i])
    IN after[Len(words)]

HearNumber(words) ==
    LET all == HearFrom([sign |-> 1, whole |-> 0, part |-> 0], words)
    IN all.sign * (all.whole + all.part)

-----------------------------------------------------------------------------
(* Durations and times                                                     *)

durationToWords(minutes) ==
    LET hours == IF minutes < 60 THEN <<>> ELSE numberToWords[minutes \div 60]
        rem == minutes % 60
        half == hours # <<>> /\ rem = 30
    IN [hours |-> hours, half |-> half,
        minutes |-> IF half \/ (rem = 0 /\ hours # <<>>) THEN <<>> ELSE numberToWords[rem]]

HearDuration(phrase) ==
    60 * HearNumber(phrase.hours) + HearNumber(phrase.minutes) + (IF phrase.half THEN 30 ELSE 0)

Period(h) == IF h < 12 THEN "in the morning"
             ELSE IF h < 17 THEN "in the afternoon" ELSE "in the evening"

Twelve(h) == IF h % 12 = 0 THEN 12 ELSE h % 12

\* A faulty timeToWords: "quarter to" names the hour that is not over.
QuarterToThisHour(t) ==
    LET twelve == numberToWords[Twelve(t \div 60)]
    IN [core |-> IF t % 60 \in {0, 15, 30, 45} THEN t % 60 ELSE InMinutes,
        hour |-> twelve, minutes |-> numberToWords[t % 60], period |-> Period(t \div 60)]

\* core: on the hour (0), quarter past (15), half past (30), quarter to (45), or
\* the hour and then the minutes.
timeToWords(t) ==
    LET h == t \div 60
        m == t % 60
        named == IF m # 45 THEN Twelve(h) ELSE IF Twelve(h) = 12 THEN 1 ELSE Twelve(h) + 1
    IN [core |-> IF m \in {0, 15, 30, 45} THEN m ELSE InMinutes,
        hour |-> numberToWords[named], minutes |-> numberToWords[m], period |-> Period(h)]

\* What the words of the day's periods mean.
Noon == 720
Evening == 1020
Midnight == 1440

Span == [p \in {"in the morning", "in the afternoon", "in the evening"} |->
            CASE p = "in the morning" -> 0..(Noon - 1)
              [] p = "in the afternoon" -> Noon..(Evening - 1)
              [] OTHER -> Evening..(Midnight - 1)]

TimesOfDay == 0..(Midnight - 1)

\* The times of day the phrase may mean: a clock shows each twice a day.
HearTime(phrase) ==
    LET hour == 60 * HearNumber(phrase.hour)
        shown == CASE phrase.core = InMinutes -> hour + HearNumber(phrase.minutes)
                   [] phrase.core = 45 -> hour - 15
                   [] OTHER -> hour + phrase.core
    IN {t \in {shown % Noon, Noon + (shown % Noon)} : t \in Span[phrase.period]}

-----------------------------------------------------------------------------
(* Opening hours                                                           *)

\* hours holds the days the company names; a day it does not name is closed.
sortedHours(hours) ==
    [d \in Weekdays |-> IF d \in DOMAIN hours THEN hours[d]
                        ELSE [open |-> Closed, close |-> Closed]]

Opens(h) == h.open # Closed /\ h.close # Closed

\* A faulty SameHours: the closing times are not compared.
SameOpening(h, i) == h.open = i.open

SameHours(h, i) == h.open = i.open /\ h.close = i.close

\* The open days at which a new part of the phrase begins: the open day before
\* has other hours, or there is none.
PartsBegin(week) ==
    LET openDays == {d \in Weekdays : Opens(week[d])}
    IN {d \in openDays :
            \A e \in openDays : (e < d /\ \A f \in openDays : f <= e \/ f >= d)
                                    => ~SameHours(week[e], week[d])}

\* "Open <first> to <last>, <window>" for each part, and "Closed on <closed>".
hoursSpoken(hours) ==
    LET week == sortedHours(hours)
        openDays == {d \in Weekdays : Opens(week[d])}
        EndOf(d) == Max({e \in openDays : e >= d /\ \A f \in PartsBegin(week) : f <= d \/ f > e})
    IN [parts |-> {[first |-> d, last |-> EndOf(d),
                    from |-> timeToWords(week[d].open),
                    to |-> timeToWords(week[d].close)] : d \in PartsBegin(week)},
        closed |-> Weekdays \ openDays]

\* A day that is said to be closed is closed, whatever range it lies in.
HearHours(phrase) ==
    [d \in Weekdays |->
        IF d \in phrase.closed THEN {}
        ELSE UNION {{[open |-> o, close |-> c] : o \in HearTime(p.from), c \in HearTime(p.to)} :
                    p \in {q \in phrase.parts : q.first <= d /\ d <= q.last}}]
=============================================================================
