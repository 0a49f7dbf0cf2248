CONSTANTS
  Card <- MCCard
  Joker <- MCJoker
  Value <- MCValue
  NumPlayers = 3
  NumOptions = 3
  NumRanks = 2
  Bot = {2}
  NoCard = NoCard
  NoPlayer = NoPlayer
SPECIFICATION Spec
PROPERTIES
  SelectionSurvivesAReturn
CHECK_DEADLOCK FALSE
