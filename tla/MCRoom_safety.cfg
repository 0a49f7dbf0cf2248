CONSTANTS
  Human = {a, b}
  NoPlayer = NoPlayer
  Desired = 3
  TimerOn = TRUE
  OnExpulsion = {"onDrop", "onLeave"}
  MaxStarts = 2
SPECIFICATION Spec
INVARIANTS
  TurnTimerRuns
  AwayPlayersPause
  PlayersInPlayArePresent
  HostIsInTheRoom
PROPERTIES
  PauseHolds
  MatchEnds
CHECK_DEADLOCK FALSE
