CONSTANTS
  Hosts = {a, b}
  ProbeCount = 3
  MaxLost = 2
SPECIFICATION Spec
CHECK_DEADLOCK FALSE
INVARIANTS ConclusionsExplained RefusalFounded
PROPERTIES CutAddsNothing ConfirmedEnds
