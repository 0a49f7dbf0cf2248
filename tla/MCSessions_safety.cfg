CONSTANTS
  ann = ann  bob = bob  mail = mail
  Request = {q1, q2, q3}
  Profile <- Profiles
  MaxSessions = 4
  MaxFaults = 1
SPECIFICATION Spec
SYMMETRY Alike
INVARIANTS
  OneUserPerIdentity
  StaysSignedIn
PROPERTIES
  TokensAreUsedOnce
CHECK_DEADLOCK FALSE
