SPECIFICATION Spec
CONSTANTS
  Subjects = {a, b}
  Away = away
  MaxVersion = 1
  MaxRunning = 2
  MaxFetches = 1
INVARIANTS ButtonsSound ShowsOwnChanges
CHECK_DEADLOCK FALSE
