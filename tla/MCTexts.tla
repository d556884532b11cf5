------------------------------- MODULE MCTexts -------------------------------
(* Values for the constants of Texts.                                      *)
EXTENDS Texts

\* Up to the first thousands, and both sides of each boundary above.
MCNumbers ==
    -30..2100 \cup {9999, 10000, 10001, 19999, 20020, 99999, 100000, 100001,
                     120000, 199999, 250500, 999999, 1000000, 2000011, 150000000,
                     2100200300}

MCLengths == 1..300 \cup {360, 599, 600, 1440}
MCTimes == 0..1439

Window(open, close) == [open |-> open, close |-> close]

\* Every week of days that are closed, or open for one of two windows with the
\* same opening time; a week that names some days only, or half of a window.
MCWeeks ==
    [Weekdays -> {Window(Closed, Closed), Window(600, 1200), Window(600, 1080)}]
      \cup [{2, 3, 7} -> {Window(600, 1200), Window(Closed, 1200), Window(690, Closed)}]

\* The calendar ends soon: of the weekdays named, with "next" and without, some
\* are past its end.
MCTodays == 700..706
MCLastDay == 711

MCPhrases ==
    [kind: {"relative"}, days: {-1, 0, 1, 2, 3, 5, 6, 11, 12, 9999}]
      \cup [kind: {"iso"}, day: {Undefined, 0, 705, 711, 712}]
      \cup [kind: {"weekday"}, modifier: {"none", "this", "next", "coming"}, target: Weekdays]
      \cup {[kind |-> "other"]}

\* Clock times with and without am and pm, those no clock shows among them.
Clocks ==
    [kind: {"clock"}, h: {1, 7, 11, 12}, m: {Undefined, 0, 7, 59}, half: {"am", "pm"},
     padded: {FALSE}]
      \cup [kind: {"clock"}, h: {0, 9, 12, 19, 23, 25}, m: {0, 30, 99}, half: {"none"},
            padded: {TRUE}]
NamedDates == [kind: {"named"}, day: {5, 11, 30}]
Datetimes == [kind: {"iso"}, day: {11}, at: {0, 10, 725, 1147, 1439},
              offset: {SameZone, 0, 330, -300}]

MCStarts ==
    {<<c>> : c \in Clocks} \cup {<<d>> : d \in NamedDates} \cup {<<d>> : d \in Datetimes}
      \cup {<<c, d>> : c \in Clocks, d \in NamedDates}
      \cup {<<d, c>> : d \in NamedDates, c \in Clocks}
      \cup {<<d, c>> : d \in [kind: {"ymd"}, day: {11}], c \in Clocks}
=============================================================================
