SPECIFICATION TextsSpec
CONSTANTS
  LastDay <- MCLastDay
  ServerOffset = 330
  Numbers <- MCNumbers
  Lengths <- MCLengths
  Times <- MCTimes
  Weeks <- MCWeeks
  Phrases <- MCPhrases
  Starts <- MCStarts
  Todays <- MCTodays
INVARIANTS
  AmountsHeardRight
  TimesHeardRight
  HoursHeardRight
  WeekdaysResolvedRight
  StartsReadRight
\* A request is answered once.
CHECK_DEADLOCK FALSE
