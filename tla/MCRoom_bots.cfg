CONSTANTS
  Human = {a, b}
  NoPlayer = NoPlayer
  Desired = 3
  TimerOn = FALSE
  OnExpulsion = {"onLeave"}
  MaxStarts = 1
SPECIFICATION Spec
INVARIANTS
  BotsKeepPlaying
CHECK_DEADLOCK FALSE
