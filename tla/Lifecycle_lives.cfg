SPECIFICATION FairSpec
CONSTANTS
  MaxUpdates = 4
  Ignored <- SecondIgnored
  MaxLives = 2
  Cap = 1
INVARIANTS TakenInOrder ForgottenWasAccepted
PROPERTIES BusIsClosedLast BacklogIsTaken ServedShutdownCompletes
