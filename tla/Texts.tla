-------------------------------- MODULE Texts --------------------------------
(***************************************************************************)
(* The requests that only convert: a text or a value comes in, and the     *)
(* conversion of SpokenText or CallerText goes out.                        *)
(***************************************************************************)
EXTENDS SpokenText, CallerText

CONSTANTS
    Numbers,    \* prices and counts that are read out
    Lengths,    \* durations in minutes
    Times,      \* times of day
    Weeks,      \* the opening hours of a company
    Phrases,    \* phrases to resolve
    Starts,     \* date-and-time texts to coerce
    Todays      \* the days a request may come on

\* What a text may say: a time, a date written out or in figures, a time and
\* then a date or a date and then a time, or an ISO datetime on its own.  A time
\* before a date has its minutes or am or pm: the runtime's own Date, which is
\* asked for a text no format fits, takes a bare hour there for a day.
ClockItem == {c \in [kind: {"clock"}, h: 0..99, m: 0..99 \cup {Undefined},
                     half: {"am", "pm", "none"}, padded: BOOLEAN] :
                 c.padded => c.half = "none" /\ c.m # Undefined}
MoreThanAnHour(c) == c.m # Undefined \/ c.half # "none"
DateItem == [kind: {"named", "ymd"}, day: 1..31]
DatetimeItem == [kind: {"iso"}, day: 1..31, at: TimesOfDay, offset: Int]

ASSUME TextsAssumption ==
    /\ Numbers \subseteq Int /\ Lengths \subseteq Nat /\ Times \subseteq TimesOfDay
    /\ \A hours \in Weeks : \E D \in SUBSET Weekdays :
          hours \in [D -> [open: TimesOfDay \cup {Closed}, close: TimesOfDay \cup {Closed}]]
    /\ \A p \in Phrases : p.kind = "weekday" => p.target \in Weekdays
    /\ Starts \subseteq [1..1 -> ClockItem \cup DateItem \cup DatetimeItem]
                     \cup ({c \in ClockItem : MoreThanAnHour(c)} \X DateItem)
                     \cup (DateItem \X ClockItem)
    /\ Todays \subseteq Nat

VARIABLES
    said,       \* what came in
    told        \* what went out: nothing yet, or the answer

TextsInit ==
    /\ \/ said \in [what: {"number"}, value: Numbers]
       \/ said \in [what: {"duration"}, value: Lengths]
       \/ said \in [what: {"time"}, value: Times]
       \/ said \in [what: {"hours"}, value: Weeks]
       \/ said \in [what: {"phrase"}, value: Phrases, today: Todays]
       \/ said \in [what: {"start"}, value: Starts, today: Todays]
    /\ told = <<>>

Answering(what, answer) ==
    /\ told = <<>> /\ said.what = what
    /\ told' = <<answer>> /\ UNCHANGED said

SpeakNumber == Answering("number", numberToWords[said.value])
SpeakDuration == Answering("duration", durationToWords(said.value))
SpeakTime == Answering("time", timeToWords(said.value))
SpeakHours == Answering("hours", hoursSpoken(said.value))
ResolvePhrase == Answering("phrase", resolveDate(said.today, said.value))
CoerceStart == Answering("start", [date |-> coerceDate(said.value, said.today),
                                   time |-> coerceTime(said.value)])

TextsNext == SpeakNumber \/ SpeakDuration \/ SpeakTime \/ SpeakHours
                \/ ResolvePhrase \/ CoerceStart

TextsSpec == TextsInit /\ [][TextsNext]_<<said, told>>

Told(what) == told # <<>> /\ said.what = what

Answer == told[1]

-----------------------------------------------------------------------------
(* Properties                                                              *)

\* Who hears a price, a count or a duration read out hears that number: the words
\* of numberToWords mean one number only, across hundreds, thousands and lakhs,
\* and the half hours that are not said in minutes are not lost.
AmountsHeardRight ==
    /\ Told("number") => HearNumber(Answer) = said.value
    /\ Told("duration") => HearDuration(Answer) = said.value

\* Who hears a time hears one time of the day and the right one: the hour named
\* by "quarter to", twelve, and the period of the day do not mislead.
TimesHeardRight == Told("time") => HearTime(Answer) = {said.value}

\* Who hears the opening hours knows every day's hours as the slot engine
\* applies them, given that "Closed on" overrides the ranges it lies in: the
\* ranges join open days with closed days between them.
HoursHeardRight ==
    Told("hours") =>
        \A d \in Weekdays :
            LET h == sortedHours(said.value)[d]
            IN HearHours(Answer)[d] = IF Opens(h) THEN {h} ELSE {}

\* The range alone tells the truth.  It does not: a week closed on Wednesdays
\* only is told as open from Monday to Sunday.
RangesHeardRight ==
    Told("hours") =>
        HearHours([Answer EXCEPT !.closed = {}]) = HearHours(Answer)

\* The days named so in the time until the answer, the answer included.
SuchDays(target, after, until) == {d \in (after + 1)..until : WeekdayOf(d) = target}

\* Which of the days of that name a person means: the second with "next", or
\* the first when today is one.
Meant(phrase, today) ==
    IF phrase.modifier = "next" /\ WeekdayOf(today) # phrase.target THEN 2 ELSE 1

\* A weekday resolves to that weekday, never to today, and to the one that is
\* meant.  It is an error, and no call without an answer, exactly when the
\* calendar ends before that day.
WeekdaysResolvedRight ==
    Told("phrase") /\ said.value.kind = "weekday" =>
        LET DaysUntil(until) == Cardinality(SuchDays(said.value.target, said.today, until))
            meant == Meant(said.value, said.today)
        IN \/ Answer.code = "error" /\ DaysUntil(LastDay) < meant
           \/ /\ Answer.code = "confident" /\ Answer.day <= LastDay
              /\ WeekdayOf(Answer.day) = said.value.target
              /\ DaysUntil(Answer.day) = meant

\* What a person means by an item.
MeansTime(item) ==
    IF item.kind = "iso" THEN item.at
    ELSE LET afternoon == item.half = "pm" \/ (item.half = "none" /\ item.h >= 12)
         IN 60 * ((item.h % 12) + (IF afternoon THEN 12 ELSE 0))
                + (IF item.m = Undefined THEN 0 ELSE item.m)

\* A time that a clock shows.
ShownByClock(item) ==
    item.m < 60 /\ item.h \in (IF item.half = "none" THEN 0..23 ELSE 1..12)

\* The texts dateparse.ts names: a time, a time and then a date, or an ISO
\* datetime, here in the server's own zone.
IsDocumented(text) ==
    \/ text[1].kind = "clock" /\ ShownByClock(text[1])
    \/ text[1].kind = "iso" /\ text[1].offset \in {SameZone, ServerOffset}

\* A start the caller's platform sends in a documented shape is coerced to the
\* time and the date it says: twelve o'clock either side of noon, a time
\* without minutes, a date behind the time or in front of a T.
StartsReadRight ==
    Told("start") /\ IsDocumented(said.value) =>
        /\ 60 * Answer.time.h + Answer.time.m = MeansTime(said.value[1])
        /\ Len(said.value) = 2 => Answer.date = said.value[2].day
        /\ said.value[1].kind = "iso" => Answer.date = said.value[1].day

\* The same of every text with a time in it.  It is not: a date in front gives
\* its first number as the hour.
AnyStartReadRight ==
    Told("start") =>
        \A i \in DOMAIN said.value :
            said.value[i].kind = "clock" /\ ShownByClock(said.value[i]) =>
                60 * Answer.time.h + Answer.time.m = MeansTime(said.value[i])

\* The same instant for an ISO datetime in any zone.  It is not: its date is
\* taken as written and its time is converted.
IsoReadRight ==
    Told("start") /\ said.value[1].kind = "iso" /\ said.value[1].offset # SameZone =>
        1440 * Answer.date + 60 * Answer.time.h + Answer.time.m
            = 1440 * said.value[1].day + said.value[1].at + ServerOffset - said.value[1].offset
=============================================================================
