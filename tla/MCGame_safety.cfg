CONSTANTS
  Card <- MCCard
  Joker <- MCJoker
  Value <- MCValue
  NumPlayers = 3
  DrawRounds = 1
  MaxHand = 8
  Openings <- MCOpenings
  JokerGuess = JokerGuess
  NoCard = NoCard
  NoPlayer = NoPlayer
SPECIFICATION Spec
INVARIANTS
  CardsConserved
  RacksOrdered
  EliminatedIffAllRevealed
  LastActivePlayerWins
  DrawnCardMatchesPhase
  CurrentPlayerCanMove
  OpeningJokersGateTheFirstTurn
  HardBotsKeepTheTruth
PROPERTIES
  NothingIsTakenBack
  DrawnCardIsKept
  ImplementsMatch
  RoomSeesTheMatch
CHECK_DEADLOCK FALSE
