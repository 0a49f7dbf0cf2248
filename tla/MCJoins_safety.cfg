CONSTANTS
  t1 = t1  t2 = t2  t3 = t3
  ann = ann  bob = bob
  r1 = r1  r2 = r2
  NoRoom = NoRoom
  Desired = 2
  Tab = {t1, t2, t3}
  Account = {ann, bob}
  Room = {r1, r2}
  Guest = {ann}
  AccountOf <- Owners
  RoomOf <- TwoRooms
SPECIFICATION Spec
INVARIANTS
  SeatIsReserved
  PlayersAreCommitted
  NoReservationLeaks
  FreeSeatsAreOpen
PROPERTIES
  OneSeatPerAccount
CHECK_DEADLOCK FALSE
