CONSTANTS
  Card <- SmallCard
  Joker <- SmallJoker
  Value <- SmallValue
  NumPlayers = 3
  DrawRounds = 1
  MaxHand = 8
  Openings <- SmallOpenings
  JokerGuess = JokerGuess
  NoCard = NoCard
  NoPlayer = NoPlayer
SPECIFICATION TimedSpec
PROPERTIES
  EveryStepIsProgress
  GameEnds
CHECK_DEADLOCK FALSE
