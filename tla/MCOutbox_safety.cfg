CONSTANTS
  first = first  second = second
  ann = ann  bob = bob
  Match = {first, second}
  Player = {ann, bob}
  Registered <- Rosters
  Delivery = {1, 2}
  MaxFaults = 4
  NoMatch = NoMatch
SPECIFICATION Spec
INVARIANTS
  NoReportIsForgotten
PROPERTIES
  ResultsAreFinal
  EveryDeliveryIsProgress
  OutboxDrains
CHECK_DEADLOCK FALSE
