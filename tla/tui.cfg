CONSTANTS
  MaxEvents = 3
  KeyBuffer = 1
  Body = 2
  Page = 10
  MaxPackets = 2
  MaxKeys = 2
  Typeable = {"quit", "page"}
SPECIFICATION Spec
CHECK_DEADLOCK FALSE
INVARIANTS ScreenSound
PROPERTIES NothingUndone InterfaceAnswers
