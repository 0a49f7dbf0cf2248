CONSTANTS
  Human = {a, b}
  NoPlayer = NoPlayer
  Desired = 3
  TimerOn = TRUE
  OnExpulsion = {"onLeave"}
  MaxStarts = 1
SPECIFICATION Spec
PROPERTIES
  ForfeitKeepsTheMatch
CHECK_DEADLOCK FALSE
