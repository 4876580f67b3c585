SPECIFICATION Spec
CONSTANTS
  Actions = {a1, a2}
  NoAction = NoAction
  MaxSessions = 2
  MaxCancels = 1
  MaxFaults = 1
SYMMETRY ActionSymmetry
INVARIANTS TypeOK WaitingIsReachable  AnswerIsEarned RequestIsInTheWorks
CHECK_DEADLOCK FALSE
