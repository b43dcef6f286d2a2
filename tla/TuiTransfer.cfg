SPECIFICATION TuiFairSpec
CONSTANTS
  Callers = {u1, u2}
  Sockets = {s1, s2, s3}
  MaxAttempts = 2
  MaxTransfers = 2
INVARIANTS NothingSurvives OutcomeIsItsOwn
PROPERTY ConfirmedQuitEnds
CHECK_DEADLOCK FALSE
