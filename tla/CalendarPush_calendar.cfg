SPECIFICATION Spec
CONSTANTS
  s1 = s1
  sweeper = sweeper
  consumer = consumer
  o1 = o1
  Sources = {s1}
  Workers = {sweeper, consumer}
  Sweepers = {sweeper}
  Operators = {o1}
  RemoveCancelled = TRUE
  MAX_ATTEMPTS = 2
  MaxVersion = 2
  MaxRefused = 1
  MaxFaults = 1
INVARIANTS
  TypeOK
  OneEventPerSource
  SuccessIsOnCalendar
  NoGhostEvent
  ShowsTheLatest
PROPERTIES
  RowsSettle
CHECK_DEADLOCK FALSE
