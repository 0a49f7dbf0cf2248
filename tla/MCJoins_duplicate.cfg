CONSTANTS
  t1 = t1  t2 = t2  t3 = t3
  ann = ann  bob = bob
  r1 = r1  r2 = r2
  NoRoom = NoRoom
  Desired = 2
  Tab = {t1, t2}
  Account = {ann}
  Room = {r1}
  Guest = {}
  AccountOf <- OneOwner
  RoomOf <- OneRoom
SPECIFICATION Spec
INVARIANTS
  SeatIsReserved
CHECK_DEADLOCK FALSE
