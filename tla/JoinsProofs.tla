------------------------------- MODULE JoinsProofs -------------------------------
(***************************************************************************)
(* Proofs about Joins, for any number of tabs, accounts and rooms.         *)
(* An account may have several tabs in one room; what is said of seats is  *)
(* then said of the accounts that have not (Single), whatever the others   *)
(* do, and only SeatsAreReserved, which is about every seat, assumes that  *)
(* there is no other.                                                      *)
(***************************************************************************)
EXTENDS JoinsProperties, FiniteSetTheorems, TLAPS

\* A tab before a command of the accounts' registry has the guest's
\* reservation; from the checks of onJoin on it has both.  Only a tab of the
\* same account about the same room could release them meanwhile.
GuestIsReserved(t) ==
  AccountOf[t] \in Guest => guest[AccountOf[t]].room = RoomOf[t]

Reserving ==
  \A t \in Tab : AccountOf[t] \in Single =>
    /\ at[t] \in {"userSet", "userGet"} => GuestIsReserved(t)
    /\ at[t] = "check" \/ HasASeat(t) =>
         GuestIsReserved(t) /\ user[AccountOf[t]] = RoomOf[t]

\* A room with a client or an open window is not disposed of.
Kept ==
  \A t \in Tab :
    at[t] \in InOnJoin \cup Windows \cup {"seated", "expelled"} =>
      phase[RoomOf[t]] # "disposed"

Starting == \A r \in starting : phase[r] = "lobby"

Visited == \A a \in visited : guest[a].phase = "committed"

(***************************************************************************)
(* The inductive invariant, and its part that holds of shared rooms too.   *)
(***************************************************************************)
Steady == TypeOK /\ Kept /\ Starting /\ Visited

Inv == Steady /\ Reserving /\ PlayersAreCommitted

\* What is needed of the constants.
LEMMA Constants ==
  /\ \A t \in Tab : AccountOf[t] \in Account /\ RoomOf[t] \in Room
  /\ Guest \subseteq Account
  /\ NoRoom \notin Room
BY JoinsAssumption

\* The initial state.
LEMMA InitInv == Init => Inv
<1> SUFFICES ASSUME Init PROVE Inv
  OBVIOUS
<1>1. TypeOK
  BY Constants DEF Init, TypeOK, Place, Phase
<1>2. Reserving /\ Kept /\ PlayersAreCommitted
  BY Constants DEF Init, Reserving, Kept, PlayersAreCommitted, HasASeat, InOnJoin, Windows
<1>3. Starting /\ Visited
  BY DEF Init, Starting, Visited
<1> QED
  BY <1>1, <1>2, <1>3 DEF Inv, Steady

\* The types.
LEMMA TypeStep == TypeOK /\ [Next]_vars => TypeOK'
<1> SUFFICES ASSUME TypeOK, [Next]_vars PROVE TypeOK'
  OBVIOUS
<1> USE Constants DEF TypeOK, Move, Place, InOnJoin, InOnLeave, Windows, Phase, rooms
<1>1. ASSUME NEW t \in Tab,
             Connect(t) \/ GuestSet(t) \/ GuestGet(t) \/ UserSet(t) \/ UserGet(t)
      PROVE  TypeOK'
  BY <1>1 DEF Connect, GuestSet, GuestGet, UserSet, UserGet, Undo
<1>2. ASSUME NEW t \in Tab, Check(t) PROVE TypeOK'
  BY <1>2 DEF Check, Undo
<1>3. ASSUME NEW t \in Tab, UndoGuest(t) \/ UndoUser(t) PROVE TypeOK'
  BY <1>3 DEF UndoGuest, UndoUser, Undo, ReleaseGuest, ReleaseUser
<1>4. ASSUME NEW t \in Tab, Leave(t) \/ LeaveGuest(t) \/ LeaveUser(t) PROVE TypeOK'
  BY <1>4 DEF Leave, OnLeave, LeaveGuest, LeaveUser, ReleaseGuest, ReleaseUser
<1>5. ASSUME NEW t \in Tab, LeaveRest(t) \/ ReconnectionFails(t) PROVE TypeOK'
  BY <1>5 DEF LeaveRest, ReconnectionFails, AbortStartingSelection
<1>6. ASSUME NEW t \in Tab, Drop(t) \/ OnReconnect(t) \/ EndWindow(t) PROVE TypeOK'
  BY <1>6 DEF Drop, OnReconnect, EndWindow, ReleaseUser
<1>7. ASSUME NEW r \in Room,
             RequestStartGame(r) \/ CommitGuest(r) \/ BeginStartingSelection(r)
      PROVE  TypeOK'
  BY <1>7 DEF RequestStartGame, CommitGuest, BeginStartingSelection, ReservedGuests
<1>8. ASSUME NEW r \in Room, MatchGoesOn(r) \/ RequestRematch(r) \/ Dispose(r)
      PROVE  TypeOK'
  BY <1>8 DEF MatchGoesOn, RequestRematch, Dispose
<1>9. ASSUME NEW r \in Room, OnDispose(r) PROVE TypeOK'
  BY <1>9 DEF OnDispose, ReservedUsers, ReservedGuests, ReleaseUser, ReleaseGuest
<1>10. CASE UNCHANGED vars
  BY <1>10 DEF vars
<1> QED
  BY <1>1, <1>2, <1>3, <1>4, <1>5, <1>6, <1>7, <1>8, <1>9, <1>10 DEF Next

-----------------------------------------------------------------------------
(***************************************************************************)
(* What a step does to the account of a tab other than the one that takes  *)
(* it: a release is of the releasing tab's room, a new reservation of an   *)
(* account that has none.                                                  *)
(***************************************************************************)
LEMMA ReservingStep == Inv /\ [Next]_vars => Reserving'
<1> SUFFICES ASSUME Inv, [Next]_vars PROVE Reserving'
  OBVIOUS
<1> USE Constants DEF Inv, Steady, TypeOK, Reserving, GuestIsReserved, HasASeat, Move, rooms
<1>1. ASSUME NEW t \in Tab, Connect(t) PROVE Reserving'
  BY <1>1 DEF Connect
<1>2. ASSUME NEW t \in Tab, GuestSet(t) PROVE Reserving'
  BY <1>2 DEF GuestSet, Unbound, Reserved
<1>3. ASSUME NEW t \in Tab, GuestGet(t) PROVE Reserving'
  BY <1>3 DEF GuestGet
<1>4. ASSUME NEW t \in Tab, UserSet(t) PROVE Reserving'
  BY <1>4 DEF UserSet
<1>5. ASSUME NEW t \in Tab, UserGet(t) PROVE Reserving'
  BY <1>5 DEF UserGet, Undo
<1>6. ASSUME NEW t \in Tab, Check(t) PROVE Reserving'
  BY <1>6 DEF Check, Undo
<1>7. ASSUME NEW t \in Tab, UndoGuest(t) PROVE Reserving'
  BY <1>7 DEF UndoGuest, Undo, ReleaseGuest, Single, Reserved
<1>8. ASSUME NEW t \in Tab, UndoUser(t) PROVE Reserving'
  BY <1>8 DEF UndoUser, ReleaseUser, Single
<1>9. ASSUME NEW t \in Tab, Leave(t) PROVE Reserving'
  BY <1>9 DEF Leave, OnLeave
<1>10. ASSUME NEW t \in Tab, LeaveGuest(t) PROVE Reserving'
  BY <1>10 DEF LeaveGuest, ReleaseGuest, Single, Reserved
<1>11. ASSUME NEW t \in Tab, LeaveUser(t) PROVE Reserving'
  BY <1>11 DEF LeaveUser, ReleaseUser, Single
<1>12. ASSUME NEW t \in Tab, LeaveRest(t) PROVE Reserving'
  BY <1>12 DEF LeaveRest
<1>13. ASSUME NEW t \in Tab, Drop(t) \/ OnReconnect(t) PROVE Reserving'
  BY <1>13 DEF Drop, OnReconnect
<1>14. ASSUME NEW t \in Tab, ReconnectionFails(t) PROVE Reserving'
  BY <1>14 DEF ReconnectionFails
<1>15. ASSUME NEW t \in Tab, EndWindow(t) PROVE Reserving'
  BY <1>15 DEF EndWindow, ReleaseUser, Single
<1>16. ASSUME NEW r \in Room, CommitGuest(r) PROVE Reserving'
  BY <1>16 DEF CommitGuest, ReservedGuests, Committed
<1>17. ASSUME NEW r \in Room, OnDispose(r) PROVE Reserving'
  BY <1>17 DEF OnDispose, ReservedUsers, ReservedGuests, ReleaseUser, ReleaseGuest,
               Reserved, Kept, InOnJoin, Windows
<1>18. ASSUME NEW r \in Room,
              RequestStartGame(r) \/ BeginStartingSelection(r) \/ MatchGoesOn(r)
                \/ RequestRematch(r) \/ Dispose(r)
       PROVE  Reserving'
  BY <1>18 DEF RequestStartGame, BeginStartingSelection, MatchGoesOn, RequestRematch,
               Dispose
<1>19. CASE UNCHANGED vars
  BY <1>19 DEF vars
<1> QED
  BY <1>1, <1>2, <1>3, <1>4, <1>5, <1>6, <1>7, <1>8, <1>9, <1>10, <1>11, <1>12,
     <1>13, <1>14, <1>15, <1>16, <1>17, <1>18, <1>19 DEF Next

-----------------------------------------------------------------------------
(***************************************************************************)
(* The other parts of the invariant.                                       *)
(***************************************************************************)
\* Only an empty room is disposed of, and nobody connects to it then.
LEMMA KeptStep == Steady /\ [Next]_vars => Kept'
<1> SUFFICES ASSUME Steady, [Next]_vars PROVE Kept'
  OBVIOUS
<1> USE Constants DEF Steady, TypeOK, Kept, InOnJoin, Windows, Move, rooms
<1>1. ASSUME NEW t \in Tab, Connect(t) \/ GuestSet(t) \/ GuestGet(t) PROVE Kept'
  BY <1>1 DEF Connect, GuestSet, GuestGet
<1>2. ASSUME NEW t \in Tab, UserSet(t) \/ UserGet(t) \/ Check(t) PROVE Kept'
  BY <1>2 DEF UserSet, UserGet, Check, Undo
<1>3. ASSUME NEW t \in Tab, UndoGuest(t) \/ UndoUser(t) PROVE Kept'
  BY <1>3 DEF UndoGuest, UndoUser, Undo
<1>4. ASSUME NEW t \in Tab, Leave(t) \/ LeaveGuest(t) \/ LeaveUser(t) PROVE Kept'
  BY <1>4 DEF Leave, OnLeave, LeaveGuest, LeaveUser
<1>5. ASSUME NEW t \in Tab, LeaveRest(t) \/ ReconnectionFails(t) PROVE Kept'
  BY <1>5 DEF LeaveRest, ReconnectionFails, AbortStartingSelection
<1>6. ASSUME NEW t \in Tab, Drop(t) \/ OnReconnect(t) \/ EndWindow(t) PROVE Kept'
  BY <1>6 DEF Drop, OnReconnect, EndWindow
<1>7. ASSUME NEW r \in Room,
             RequestStartGame(r) \/ CommitGuest(r) \/ BeginStartingSelection(r)
               \/ MatchGoesOn(r) \/ RequestRematch(r) \/ OnDispose(r)
      PROVE  Kept'
  BY <1>7 DEF RequestStartGame, CommitGuest, BeginStartingSelection, MatchGoesOn,
              RequestRematch, OnDispose
<1>8. ASSUME NEW r \in Room, Dispose(r) PROVE Kept'
  BY <1>8 DEF Dispose, Clients
<1>9. CASE UNCHANGED vars
  BY <1>9 DEF vars
<1> QED
  BY <1>1, <1>2, <1>3, <1>4, <1>5, <1>6, <1>7, <1>8, <1>9 DEF Next

\* A room stays in the lobby while its guests are committed.
LEMMA StartingStep == Steady /\ [Next]_vars => Starting'
<1> SUFFICES ASSUME Steady, [Next]_vars PROVE Starting'
  OBVIOUS
<1> USE DEF Steady, TypeOK, Starting, rooms
<1>1. ASSUME NEW t \in Tab, LeaveRest(t) \/ ReconnectionFails(t) PROVE Starting'
  BY <1>1, Constants DEF LeaveRest, ReconnectionFails, AbortStartingSelection
<1>2. ASSUME NEW r \in Room,
             RequestStartGame(r) \/ CommitGuest(r) \/ BeginStartingSelection(r)
               \/ MatchGoesOn(r) \/ RequestRematch(r) \/ Dispose(r) \/ OnDispose(r)
      PROVE  Starting'
  BY <1>2 DEF RequestStartGame, CommitGuest, BeginStartingSelection, MatchGoesOn,
              RequestRematch, Dispose, OnDispose
<1>3. ASSUME NEW t \in Tab, ~ (LeaveRest(t) \/ ReconnectionFails(t)),
             \/ Connect(t) \/ GuestSet(t) \/ GuestGet(t) \/ UserSet(t) \/ UserGet(t)
             \/ Check(t) \/ UndoGuest(t) \/ UndoUser(t) \/ Leave(t) \/ LeaveGuest(t)
             \/ LeaveUser(t) \/ Drop(t) \/ OnReconnect(t) \/ EndWindow(t)
      PROVE  Starting'
  BY <1>3 DEF Connect, GuestSet, GuestGet, UserSet, UserGet, Check, UndoGuest, UndoUser,
              Leave, LeaveGuest, LeaveUser, Drop, OnReconnect, EndWindow
<1>4. CASE UNCHANGED vars
  BY <1>4 DEF vars
<1> QED
  BY <1>1, <1>2, <1>3, <1>4 DEF Next

\* What is committed stays so: a release is of a reservation only.
LEMMA VisitedStep == Steady /\ [Next]_vars => Visited'
<1> SUFFICES ASSUME Steady, [Next]_vars PROVE Visited'
  OBVIOUS
<1> USE DEF Steady, TypeOK, Visited, rooms
<1>1. ASSUME NEW t \in Tab, GuestSet(t) PROVE Visited'
  BY <1>1, Constants DEF GuestSet, Unbound
<1>2. ASSUME NEW t \in Tab, UndoGuest(t) \/ LeaveGuest(t) PROVE Visited'
  BY <1>2, Constants DEF UndoGuest, LeaveGuest, ReleaseGuest, Reserved
<1>3. ASSUME NEW r \in Room, CommitGuest(r) PROVE Visited'
  BY <1>3 DEF CommitGuest, ReservedGuests, Committed
<1>4. ASSUME NEW r \in Room, OnDispose(r) PROVE Visited'
  BY <1>4 DEF OnDispose, ReleaseGuest, Reserved, ReservedGuests
<1>5. ASSUME NEW t \in Tab,
             \/ Connect(t) \/ GuestGet(t) \/ UserSet(t) \/ UserGet(t) \/ Check(t)
             \/ UndoUser(t) \/ Leave(t) \/ LeaveUser(t) \/ LeaveRest(t) \/ Drop(t)
             \/ OnReconnect(t) \/ ReconnectionFails(t) \/ EndWindow(t)
      PROVE  Visited'
  BY <1>5 DEF Connect, GuestGet, UserSet, UserGet, Check, UndoUser, Leave, LeaveUser,
              LeaveRest, Drop, OnReconnect, ReconnectionFails, EndWindow,
              AbortStartingSelection
<1>6. ASSUME NEW r \in Room,
             RequestStartGame(r) \/ BeginStartingSelection(r) \/ MatchGoesOn(r)
               \/ RequestRematch(r) \/ Dispose(r)
      PROVE  Visited'
  BY <1>6 DEF RequestStartGame, BeginStartingSelection, MatchGoesOn, RequestRematch,
              Dispose
<1>7. CASE UNCHANGED vars
  BY <1>7 DEF vars
<1> QED
  BY <1>1, <1>2, <1>3, <1>4, <1>5, <1>6, <1>7 DEF Next

\* A reservation is no commitment.
LEMMA Different == \A r, q : Reserved(r) # Committed(q)
<1> SUFFICES ASSUME NEW r, NEW q PROVE Reserved(r).phase # Committed(q).phase
  OBVIOUS
<1> QED
  BY DEF Reserved, Committed

\* A selection begins when the guests with a reservation are committed, and
\* a seat is taken in the lobby only.
LEMMA CommittedStep == Inv /\ [Next]_vars => PlayersAreCommitted'
<1> SUFFICES ASSUME Inv, [Next]_vars PROVE PlayersAreCommitted'
  OBVIOUS
<1> USE Constants DEF Inv, Steady, TypeOK, PlayersAreCommitted, HasASeat, Move, rooms
<1>1. ASSUME NEW t \in Tab, GuestSet(t) PROVE PlayersAreCommitted'
  <2>1. \A q : Unbound # Committed(q)
    BY DEF Unbound, Committed
  <2>2. phase' = phase /\ \A u \in Tab : HasASeat(u)' => HasASeat(u)
    BY <1>1 DEF GuestSet
  <2>3. \A a \in Guest : guest'[a] = guest[a] \/ guest[a] = Unbound
    BY <1>1 DEF GuestSet
  <2> QED
    BY <2>1, <2>2, <2>3
<1>2. ASSUME NEW t \in Tab, Connect(t) \/ GuestGet(t) \/ UserSet(t) \/ UserGet(t)
      PROVE  PlayersAreCommitted'
  BY <1>2 DEF Connect, GuestGet, UserSet, UserGet, Undo
<1>3. ASSUME NEW t \in Tab, Check(t) PROVE PlayersAreCommitted'
  BY <1>3 DEF Check, Undo
<1>4. ASSUME NEW t \in Tab, UndoGuest(t) \/ LeaveGuest(t) PROVE PlayersAreCommitted'
  BY <1>4, Different DEF UndoGuest, LeaveGuest, Undo, ReleaseGuest
<1>5. ASSUME NEW t \in Tab, UndoUser(t) \/ Leave(t) \/ LeaveUser(t) \/ EndWindow(t)
      PROVE  PlayersAreCommitted'
  BY <1>5 DEF UndoUser, Leave, OnLeave, LeaveUser, EndWindow
<1>6. ASSUME NEW t \in Tab, LeaveRest(t) \/ ReconnectionFails(t)
      PROVE  PlayersAreCommitted'
  BY <1>6 DEF LeaveRest, ReconnectionFails, AbortStartingSelection
<1>7. ASSUME NEW t \in Tab, Drop(t) \/ OnReconnect(t) PROVE PlayersAreCommitted'
  BY <1>7 DEF Drop, OnReconnect
<1>8. ASSUME NEW r \in Room, CommitGuest(r) PROVE PlayersAreCommitted'
  BY <1>8 DEF CommitGuest, ReservedGuests, Committed
<1>9. ASSUME NEW r \in Room, BeginStartingSelection(r) PROVE PlayersAreCommitted'
  <2> SUFFICES ASSUME NEW u \in Tab, HasASeat(u)', AccountOf[u] \in Guest \cap Single,
                      phase[RoomOf[u]]' \in {"selection", "playing", "over"}
               PROVE  guest[AccountOf[u]]' = Committed(RoomOf[u])
    OBVIOUS
  <2>1. guest[AccountOf[u]].room = RoomOf[u]
    BY <1>9 DEF BeginStartingSelection, Reserving, GuestIsReserved
  <2>2. CASE RoomOf[u] = r
    <3>1. guest[AccountOf[u]].phase = "committed"
      BY <1>9, <2>1, <2>2 DEF BeginStartingSelection, ReservedGuests, Visited
    <3> QED
      BY <1>9, <2>1, <2>2, <3>1 DEF BeginStartingSelection, Committed, Reserved, Unbound
  <2>3. CASE RoomOf[u] # r
    BY <1>9, <2>3 DEF BeginStartingSelection
  <2> QED
    BY <2>2, <2>3
<1>10. ASSUME NEW r \in Room,
              RequestStartGame(r) \/ MatchGoesOn(r) \/ RequestRematch(r) \/ Dispose(r)
       PROVE  PlayersAreCommitted'
  BY <1>10 DEF RequestStartGame, MatchGoesOn, RequestRematch, Dispose
<1>11. ASSUME NEW r \in Room, OnDispose(r) PROVE PlayersAreCommitted'
  BY <1>11, Different DEF OnDispose, ReleaseGuest, ReservedGuests
<1>12. CASE UNCHANGED vars
  BY <1>12 DEF vars
<1> QED
  BY <1>1, <1>2, <1>3, <1>4, <1>5, <1>6, <1>7, <1>8, <1>9, <1>10, <1>11, <1>12 DEF Next

\* Every step keeps the invariant.
LEMMA InvStep == Inv /\ [Next]_vars => Inv'
BY TypeStep, ReservingStep, KeptStep, StartingStep, VisitedStep, CommittedStep DEF Inv, Steady

\* The invariant holds in every reachable state.
LEMMA Invariant == Spec => []Inv
<1>1. Inv /\ [Next]_vars => Inv'
  BY InvStep
<1> QED
  BY InitInv, <1>1, PTL DEF Spec

-----------------------------------------------------------------------------
(***************************************************************************)
(* Every variable has a value the code can give it.                        *)
(***************************************************************************)
THEOREM TypeCorrect == Spec => []TypeOK
<1>1. Init => TypeOK
  BY InitInv DEF Inv, Steady
<1> QED
  BY <1>1, TypeStep, PTL DEF Spec

(***************************************************************************)
(* Whatever the connections, rejections and departures, in whatever order, *)
(* a seat has the reservations of its account, if no account has two tabs  *)
(* in one room.                                                            *)
(***************************************************************************)
THEOREM SeatsAreReserved == ASSUME DistinctRooms PROVE Spec => []SeatIsReserved
<1>1. Inv => SeatIsReserved
  BY Constants DEF Inv, Steady, Reserving, SeatIsReserved, GuestIsReserved, DistinctRooms
<1> QED
  BY <1>1, Invariant, PTL

(***************************************************************************)
(* The sessions of the guests in a room that has started are committed,    *)
(* those of every guest with one tab in the room, whatever tabs the other  *)
(* accounts open.                                                          *)
(***************************************************************************)
THEOREM GuestsAreCommitted == Spec => []PlayersAreCommitted
<1>1. Inv => PlayersAreCommitted
  BY DEF Inv, Steady
<1> QED
  BY <1>1, Invariant, PTL

-----------------------------------------------------------------------------
(***************************************************************************)
(* No reservation is left behind.  A tab keeps the account's reservation   *)
(* until its onLeave has released it, and a guest's when it created it and *)
(* is not through with onJoin, or has a seat in the lobby, since onLeave   *)
(* of a match in play releases no guest.                                   *)
(***************************************************************************)
HoldsUser(t) == at[t] \notin {"out", "leaveRest"}

HoldsGuest(t) ==
  \/ "guest" \in made[t] /\ at[t] \in {"userSet", "userGet", "check", "undoGuest"}
  \/ at[t] = "leaveGuest"
  \/ at[t] = "seated" /\ phase[RoomOf[t]] = "lobby"

About(t, a, r) == AccountOf[t] = a /\ RoomOf[t] = r

UserHeld ==
  \A a \in Account, r \in Room :
    user[a] = r /\ phase[r] # "disposed" => \E t \in Tab : About(t, a, r) /\ HoldsUser(t)

GuestHeld ==
  \A a \in Guest, r \in Room :
    guest[a] = Reserved(r) /\ phase[r] # "disposed" =>
      \E t \in Tab : About(t, a, r) /\ HoldsGuest(t)

LEMMA SteadyInvariant == Spec => []Steady
<1>1. Init => Steady
  BY InitInv DEF Inv
<1>2. Steady /\ [Next]_vars => Steady'
  BY TypeStep, KeptStep, StartingStep, VisitedStep DEF Steady
<1> QED
  BY <1>1, <1>2, PTL DEF Spec

\* A room that is disposed of stays so.
LEMMA DisposedForGood ==
  ASSUME Steady, [Next]_vars, NEW r \in Room, phase'[r] # "disposed"
  PROVE  phase[r] # "disposed"
<1> USE Constants DEF Steady, TypeOK, rooms
<1>1. ASSUME NEW t \in Tab, LeaveRest(t) PROVE phase[r] # "disposed"
  BY <1>1 DEF LeaveRest, AbortStartingSelection
<1>2. ASSUME NEW t \in Tab, ReconnectionFails(t) PROVE phase[r] # "disposed"
  BY <1>2 DEF ReconnectionFails, AbortStartingSelection, Kept, Windows
<1>3. ASSUME NEW t \in Tab,
             \/ Connect(t) \/ GuestSet(t) \/ GuestGet(t) \/ UserSet(t) \/ UserGet(t)
             \/ Check(t) \/ UndoGuest(t) \/ UndoUser(t) \/ Leave(t) \/ LeaveGuest(t)
             \/ LeaveUser(t) \/ Drop(t) \/ OnReconnect(t) \/ EndWindow(t)
      PROVE  phase[r] # "disposed"
  BY <1>3 DEF Connect, GuestSet, GuestGet, UserSet, UserGet, Check, UndoGuest, UndoUser,
              Leave, LeaveGuest, LeaveUser, Drop, OnReconnect, EndWindow
<1>4. ASSUME NEW q \in Room, RequestStartGame(q) \/ CommitGuest(q) \/ OnDispose(q)
      PROVE  phase[r] # "disposed"
  BY <1>4 DEF RequestStartGame, CommitGuest, OnDispose
<1>5. ASSUME NEW q \in Room, BeginStartingSelection(q) PROVE phase[r] # "disposed"
  BY <1>5 DEF BeginStartingSelection, Starting
<1>6. ASSUME NEW q \in Room, MatchGoesOn(q) \/ RequestRematch(q) \/ Dispose(q)
      PROVE  phase[r] # "disposed"
  BY <1>6 DEF MatchGoesOn, RequestRematch, Dispose
<1>7. CASE UNCHANGED vars
  BY <1>7 DEF vars
<1> QED
  BY <1>1, <1>2, <1>3, <1>4, <1>5, <1>6, <1>7 DEF Next

\* A tab comes to hold the account's reservation when it makes it, and gives
\* it up by releasing it.
LEMMA UserHeldStep == Steady /\ UserHeld /\ [Next]_vars => UserHeld'
<1> SUFFICES ASSUME Steady, UserHeld, [Next]_vars,
                    NEW a \in Account, NEW r \in Room,
                    user'[a] = r, phase'[r] # "disposed"
             PROVE  \E t \in Tab : About(t, a, r) /\ HoldsUser(t)'
  BY DEF UserHeld, About
<1> DEFINE Goal == \E t \in Tab : About(t, a, r) /\ HoldsUser(t)'
<1>1. phase[r] # "disposed"
  BY DisposedForGood
<1>2. user[a] = r => \E t \in Tab : About(t, a, r) /\ HoldsUser(t)
  BY <1>1 DEF UserHeld
<1> USE Constants DEF Steady, TypeOK, HoldsUser, Move, rooms
<1>3. ASSUME NEW t \in Tab, UserSet(t) PROVE Goal
  BY <1>2, <1>3 DEF UserSet, About
<1>4. ASSUME NEW t \in Tab, LeaveUser(t) \/ UndoUser(t) \/ EndWindow(t) PROVE Goal
  BY <1>2, <1>4 DEF LeaveUser, UndoUser, EndWindow, ReleaseUser, About
<1>5. ASSUME NEW t \in Tab, Connect(t) \/ GuestSet(t) \/ GuestGet(t) \/ UserGet(t)
      PROVE  Goal
  BY <1>2, <1>5 DEF Connect, GuestSet, GuestGet, UserGet, Undo
<1>6. ASSUME NEW t \in Tab, Check(t) \/ UndoGuest(t) PROVE Goal
  BY <1>2, <1>6 DEF Check, UndoGuest, Undo
<1>7. ASSUME NEW t \in Tab, Leave(t) \/ LeaveGuest(t) \/ LeaveRest(t) PROVE Goal
  BY <1>2, <1>7 DEF Leave, OnLeave, LeaveGuest, LeaveRest
<1>8. ASSUME NEW t \in Tab, Drop(t) \/ OnReconnect(t) \/ ReconnectionFails(t) PROVE Goal
  BY <1>2, <1>8 DEF Drop, OnReconnect, ReconnectionFails
<1>9. ASSUME NEW q \in Room, OnDispose(q) PROVE Goal
  BY <1>2, <1>9 DEF OnDispose, ReleaseUser, ReservedUsers
<1>10. ASSUME NEW q \in Room,
              \/ RequestStartGame(q) \/ CommitGuest(q) \/ BeginStartingSelection(q)
              \/ MatchGoesOn(q) \/ RequestRematch(q) \/ Dispose(q)
       PROVE  Goal
  BY <1>2, <1>10 DEF RequestStartGame, CommitGuest, BeginStartingSelection, MatchGoesOn,
                     RequestRematch, Dispose
<1>11. CASE UNCHANGED vars
  BY <1>2, <1>11 DEF vars
<1> QED
  BY <1>3, <1>4, <1>5, <1>6, <1>7, <1>8, <1>9, <1>10, <1>11 DEF Next

\* The same of a guest's reservation.  A room leaves the lobby when the
\* guests who are reserved for it are committed.
LEMMA GuestHeldStep == Steady /\ GuestHeld /\ [Next]_vars => GuestHeld'
<1> SUFFICES ASSUME Steady, GuestHeld, [Next]_vars,
                    NEW a \in Guest, NEW r \in Room,
                    guest'[a] = Reserved(r), phase'[r] # "disposed"
             PROVE  \E t \in Tab : About(t, a, r) /\ HoldsGuest(t)'
  BY DEF GuestHeld, About
<1> DEFINE Goal == \E t \in Tab : About(t, a, r) /\ HoldsGuest(t)'
<1>1. phase[r] # "disposed"
  BY DisposedForGood
<1>2. guest[a] = Reserved(r) => \E t \in Tab : About(t, a, r) /\ HoldsGuest(t)
  BY <1>1 DEF GuestHeld
<1>0. Unbound # Reserved(r) /\ Reserved(r).room = r /\ Reserved(r).phase = "reserved"
  BY Constants DEF Unbound, Reserved
<1>00. /\ \A q \in Room : Reserved(q) = Reserved(r) => q = r
       /\ \A q : Committed(q) # Reserved(r)
  BY Different DEF Reserved
<1> USE Constants DEF Steady, TypeOK, HoldsGuest, About, Move, rooms
<1>3. ASSUME NEW t \in Tab, GuestSet(t) PROVE Goal
  BY <1>2, <1>3, <1>00 DEF GuestSet
<1>4. ASSUME NEW t \in Tab, UndoGuest(t) \/ LeaveGuest(t) PROVE Goal
  BY <1>0, <1>2, <1>4 DEF UndoGuest, LeaveGuest, ReleaseGuest, Undo
<1>5. ASSUME NEW t \in Tab, Connect(t) \/ GuestGet(t) \/ UserSet(t) \/ UserGet(t)
      PROVE  Goal
  BY <1>2, <1>5 DEF Connect, GuestGet, UserSet, UserGet, Undo
<1>6. ASSUME NEW t \in Tab, Check(t) PROVE Goal
  BY <1>2, <1>6 DEF Check, Undo
<1>7. ASSUME NEW t \in Tab, Leave(t) \/ LeaveUser(t) \/ UndoUser(t) PROVE Goal
  BY <1>2, <1>7 DEF Leave, OnLeave, LeaveUser, UndoUser
<1>8. ASSUME NEW t \in Tab, LeaveRest(t) \/ ReconnectionFails(t) PROVE Goal
  BY <1>2, <1>8 DEF LeaveRest, ReconnectionFails, AbortStartingSelection, Windows
<1>9. ASSUME NEW t \in Tab, Drop(t) \/ OnReconnect(t) \/ EndWindow(t) PROVE Goal
  BY <1>2, <1>9 DEF Drop, OnReconnect, EndWindow
<1>10. ASSUME NEW q \in Room, BeginStartingSelection(q) PROVE Goal
  <2>1. CASE q = r
    BY <1>0, <1>10, <2>1 DEF BeginStartingSelection, ReservedGuests, Visited
  <2>2. CASE q # r
    BY <1>2, <1>10, <2>2 DEF BeginStartingSelection
  <2> QED
    BY <2>1, <2>2
<1>11. ASSUME NEW q \in Room, CommitGuest(q) PROVE Goal
  BY <1>2, <1>00, <1>11 DEF CommitGuest, ReservedGuests
<1>12. ASSUME NEW q \in Room, OnDispose(q) PROVE Goal
  BY <1>0, <1>2, <1>12 DEF OnDispose, ReleaseGuest, ReservedGuests
<1>13. ASSUME NEW q \in Room,
              RequestStartGame(q) \/ MatchGoesOn(q) \/ RequestRematch(q) \/ Dispose(q)
       PROVE  Goal
  BY <1>2, <1>13 DEF RequestStartGame, MatchGoesOn, RequestRematch, Dispose
<1>14. CASE UNCHANGED vars
  BY <1>2, <1>14 DEF vars
<1> QED
  BY <1>3, <1>4, <1>5, <1>6, <1>7, <1>8, <1>9, <1>10, <1>11, <1>12, <1>13, <1>14 DEF Next

(***************************************************************************)
(* Whatever joins, rejections, drops and departures overlap, and even when *)
(* two tabs of an account meet in one room: a reservation that may be      *)
(* released has a connection that is still to release it, or a room that   *)
(* is being disposed of.                                                   *)
(***************************************************************************)
THEOREM NothingLeaks == Spec => []NoReservationLeaks
<1>1. Init => UserHeld /\ GuestHeld
  BY Constants DEF Init, UserHeld, GuestHeld, Unbound, Reserved
<1>2. Steady /\ UserHeld /\ GuestHeld /\ [Next]_vars => (UserHeld /\ GuestHeld)'
  BY UserHeldStep, GuestHeldStep
<1>3. UserHeld /\ GuestHeld => NoReservationLeaks
  BY DEF UserHeld, GuestHeld, NoReservationLeaks, About, HoldsUser, HoldsGuest
<1> QED
  BY <1>1, <1>2, <1>3, SteadyInvariant, PTL DEF Spec

-----------------------------------------------------------------------------
(***************************************************************************)
(* Free seats are open: a room is locked in the lobby only, and who gets   *)
(* up there is on the way to unlock it.                                    *)
(***************************************************************************)
Unlocking(t) == at[t] \in {"leaveGuest", "leaveUser", "leaveRest"}

Full(r) == Cardinality(Clients(r)) >= Desired

LocksHold ==
  \A r \in locked :
    phase[r] = "lobby" /\ (Full(r) \/ \E t \in Tab : RoomOf[t] = r /\ Unlocking(t))

\* A room whose clients stay is as full as it was.
LEMMA StaysFull ==
  ASSUME NEW r \in Room, Clients(r) \subseteq Clients(r)', Full(r)
  PROVE  Full(r)'
<1>1. IsFiniteSet(Clients(r)')
  BY JoinsAssumption, FS_Subset DEF Clients
<1>2. Cardinality(Clients(r)) <= Cardinality(Clients(r)')
  BY <1>1, FS_Subset
<1>3. Cardinality(Clients(r)) \in Nat /\ Cardinality(Clients(r)') \in Nat
  BY <1>1, FS_Subset, FS_CardinalityType
<1> QED
  BY <1>2, <1>3, JoinsAssumption DEF Full

\* Every step keeps the locks right.
LEMMA LocksStep == Steady /\ LocksHold /\ [Next]_vars => LocksHold'
<1> SUFFICES ASSUME Steady, LocksHold, [Next]_vars, NEW r \in Room, r \in locked'
             PROVE  /\ phase'[r] = "lobby"
                    /\ Full(r)' \/ \E t \in Tab : RoomOf[t] = r /\ Unlocking(t)'
  BY TypeStep DEF LocksHold, Steady, TypeOK
<1> DEFINE Same == /\ r \in locked /\ phase'[r] = phase[r]
                   /\ Clients(r) \subseteq Clients(r)'
                   /\ \A t \in Tab : RoomOf[t] = r /\ Unlocking(t) => Unlocking(t)'
<1> DEFINE Goal == /\ phase'[r] = "lobby"
                   /\ Full(r)' \/ \E t \in Tab : RoomOf[t] = r /\ Unlocking(t)'
<1>0. Same => Goal
  BY StaysFull DEF LocksHold
<1> USE Constants DEF Steady, TypeOK, Move, rooms, Clients, InOnJoin, Unlocking
<1>1. ASSUME NEW t \in Tab, Connect(t) \/ GuestSet(t) \/ GuestGet(t) PROVE Same
  BY <1>1 DEF Connect, GuestSet, GuestGet
<1>2. ASSUME NEW t \in Tab, UserSet(t) \/ UserGet(t) \/ UndoGuest(t) \/ UndoUser(t)
      PROVE  Same
  BY <1>2 DEF UserSet, UserGet, UndoGuest, UndoUser, Undo
<1>3. ASSUME NEW t \in Tab, Check(t) PROVE Goal
  <2>1. Clients(r) \subseteq Clients(r)' /\ phase' = phase
    BY <1>3 DEF Check, Undo
  <2>2. \A u \in Tab : Unlocking(u) => Unlocking(u)'
    BY <1>3 DEF Check
  <2>3. CASE r \in locked
    BY <1>0, <2>1, <2>2, <2>3
  <2>4. CASE r \notin locked
    <3>1. r = RoomOf[t] /\ phase[r] = "lobby"
      BY <1>3, <2>4 DEF Check
    <3>2. Cardinality(Clients(r)) >= Desired
      BY <1>3, <2>4, <3>1 DEF Check
    <3> QED
      BY <2>1, <3>1, <3>2, StaysFull DEF Full
  <2> QED
    BY <2>3, <2>4
<1>4. ASSUME NEW t \in Tab, Leave(t) PROVE Goal
  <2>1. CASE RoomOf[t] = r
    <3>1. at'[t] \in {"leaveGuest", "leaveUser"} /\ phase'[r] = "lobby"
      BY <1>4, <2>1 DEF Leave, OnLeave, LocksHold
    <3> QED
      BY <2>1, <3>1
  <2>2. CASE RoomOf[t] # r
    BY <1>0, <1>4, <2>2 DEF Leave, OnLeave
  <2> QED
    BY <2>1, <2>2
<1>5. ASSUME NEW t \in Tab, LeaveGuest(t) \/ LeaveUser(t) PROVE Same
  BY <1>5 DEF LeaveGuest, LeaveUser
<1>6. ASSUME NEW t \in Tab, LeaveRest(t) PROVE Same
  BY <1>6 DEF LeaveRest, AbortStartingSelection
<1>7. ASSUME NEW t \in Tab, Drop(t) PROVE Same
  BY <1>7 DEF Drop, LocksHold
<1>8. ASSUME NEW t \in Tab, OnReconnect(t) \/ EndWindow(t) PROVE Same
  BY <1>8 DEF OnReconnect, EndWindow
<1>9. ASSUME NEW t \in Tab, ReconnectionFails(t) PROVE Same
  BY <1>9 DEF ReconnectionFails, AbortStartingSelection, LocksHold, Windows
<1>10. ASSUME NEW q \in Room, RequestStartGame(q) \/ CommitGuest(q) \/ OnDispose(q)
       PROVE  Same
  BY <1>10 DEF RequestStartGame, CommitGuest, OnDispose
<1>11. ASSUME NEW q \in Room, BeginStartingSelection(q) \/ RequestRematch(q) \/ Dispose(q)
       PROVE  Same
  BY <1>11 DEF BeginStartingSelection, RequestRematch, Dispose
<1>12. ASSUME NEW q \in Room, MatchGoesOn(q) PROVE Same
  BY <1>12 DEF MatchGoesOn, LocksHold
<1>13. ASSUME UNCHANGED vars PROVE Same
  BY <1>13 DEF vars
<1> HIDE DEF Same, Goal
<1>14. ASSUME NEW t \in Tab,
              \/ Connect(t) \/ GuestSet(t) \/ GuestGet(t) \/ UserSet(t) \/ UserGet(t)
              \/ Check(t) \/ UndoGuest(t) \/ UndoUser(t)
              \/ Leave(t) \/ LeaveGuest(t) \/ LeaveUser(t) \/ LeaveRest(t)
              \/ Drop(t) \/ OnReconnect(t) \/ ReconnectionFails(t) \/ EndWindow(t)
       PROVE  Goal
  BY <1>0, <1>1, <1>2, <1>3, <1>4, <1>5, <1>6, <1>7, <1>8, <1>9, <1>14
<1>15. ASSUME NEW q \in Room,
              \/ RequestStartGame(q) \/ CommitGuest(q) \/ BeginStartingSelection(q)
              \/ MatchGoesOn(q) \/ RequestRematch(q) \/ Dispose(q) \/ OnDispose(q)
       PROVE  Goal
  BY <1>0, <1>10, <1>11, <1>12, <1>15
<1>16. Goal
  BY <1>0, <1>13, <1>14, <1>15 DEF Next
<1> QED
  BY <1>16 DEF Goal

(***************************************************************************)
(* However joins and departures overlap, a locked room is full or somebody *)
(* on the way out will unlock it.                                          *)
(***************************************************************************)
THEOREM NoSeatIsLockedAway == Spec => []FreeSeatsAreOpen
<1>1. Init => LocksHold
  BY DEF Init, LocksHold
<1>2. LocksHold => FreeSeatsAreOpen
  BY DEF LocksHold, FreeSeatsAreOpen, Full, Unlocking
<1> QED
  BY <1>1, <1>2, LocksStep, SteadyInvariant, PTL DEF Spec

-----------------------------------------------------------------------------
(***************************************************************************)
(* The registries keep the promise of module Seats.                        *)
(***************************************************************************)
SeatPairs == {<<AccountOf[t], RoomOf[t]>> : t \in Seating}
Bound == {x \in Guest : guest[x].phase = "committed"}
BoundPairs == {<<a, guest[a].room>> : a \in Bound}

\* The same seats and the same commitments are a stutter of the promise.
LEMMA Unmoved ==
  ASSUME Seating' = Seating, Bound' = Bound,
         \A a \in Bound : guest[a]' = guest[a]
  PROVE  UNCHANGED Promise!vars
<1>1. SeatPairs' = SeatPairs
  BY DEF SeatPairs
<1>2. BoundPairs' = BoundPairs
  BY DEF BoundPairs
<1> QED
  BY <1>1, <1>2 DEF Promise!vars, SeatPairs, BoundPairs, Bound

\* A release is of what is not committed.
LEMMA ReleaseKeepsCommitments ==
  ASSUME TypeOK, NEW a \in Guest, NEW r \in Room, ReleaseGuest(a, r)
  PROVE  Bound' = Bound /\ \A b \in Bound : guest[b]' = guest[b]
<1>1. CASE guest[a] = Reserved(r)
  <2>1. guest' = [guest EXCEPT ![a] = Unbound] /\ guest[a].phase = "reserved"
    BY <1>1 DEF ReleaseGuest, Reserved
  <2> QED
    BY <2>1 DEF TypeOK, Bound, Unbound
<1>2. CASE guest[a] # Reserved(r)
  BY <1>2 DEF ReleaseGuest, Bound
<1> QED
  BY <1>1, <1>2

\* A tab that gets up, or that was not seated.
LEMMA GettingUp ==
  ASSUME Inv, NEW t \in Tab, NEW place, place \in Place,
         ~ (place \in {"seated", "selecting", "playing"}),
         at' = [at EXCEPT ![t] = place], guest' = guest
  PROVE  Promise!Stand \/ UNCHANGED Promise!vars
<1>1. Seating' = Seating \ {t}
  BY DEF Inv, Steady, TypeOK, Seating, HasASeat
<1>2. Bound' = Bound /\ BoundPairs' = BoundPairs
  BY DEF Bound, BoundPairs
<1>3. CASE t \notin Seating
  BY <1>1, <1>2, <1>3, Unmoved
<1>4. CASE t \in Seating
  <2> DEFINE p == <<AccountOf[t], RoomOf[t]>>
  <2>1. \A u \in Tab : <<AccountOf[u], RoomOf[u]>> = p => u = t
    BY <1>4 DEF Seating, Single
  <2>2. p \in SeatPairs
    BY <1>4 DEF SeatPairs
  <2>3. SeatPairs' = SeatPairs \ {p}
    BY <1>1, <2>1 DEF SeatPairs, Seating
  <2>4. \E q \in SeatPairs \ SeatPairs' : SeatPairs' = SeatPairs \ {q} /\ UNCHANGED BoundPairs
    BY <1>2, <2>2, <2>3
  <2> QED
    BY <2>4 DEF Promise!Stand, SeatPairs, BoundPairs, Bound
<1> QED
  BY <1>3, <1>4

\* A tab that passes the checks sits down, in a seat of the promise if its
\* account has one tab a room.
LEMMA SittingDown ==
  ASSUME Inv, NEW t \in Tab, at[t] = "check",
         at' = [at EXCEPT ![t] = "seated"], guest' = guest
  PROVE  Promise!Sit \/ UNCHANGED Promise!vars
<1> DEFINE p == <<AccountOf[t], RoomOf[t]>>
<1>1. CASE AccountOf[t] \notin Single
  <2>1. Seating' = Seating
    BY <1>1 DEF Inv, Steady, TypeOK, Seating, HasASeat
  <2> QED
    BY <2>1, Unmoved DEF Bound
<1>2. CASE AccountOf[t] \in Single
  <2>1. Seating' = Seating \cup {t} /\ t \notin Seating
    BY <1>2 DEF Inv, Steady, TypeOK, Seating, HasASeat
  <2>2. SeatPairs' = SeatPairs \cup {p}
    BY <2>1 DEF SeatPairs
  <2>3. \A u \in Seating : AccountOf[u] # AccountOf[t]
    BY <1>2, <2>1 DEF Inv, Steady, Reserving, Seating, Single
  <2>4. \A q \in SeatPairs : q[1] # p[1]
    BY <2>3 DEF SeatPairs
  <2>5. \A a \in Bound : a = AccountOf[t] => guest[a].room = RoomOf[t]
    BY <1>2 DEF Inv, Steady, Reserving, GuestIsReserved, Bound
  <2>6. \A q \in BoundPairs : q[1] = p[1] => q[2] = p[2]
    BY <2>5 DEF BoundPairs
  <2>7. UNCHANGED BoundPairs
    BY DEF BoundPairs, Bound
  <2>8. p \in SeatPairs' \ SeatPairs
    BY <2>2, <2>4
  <2>9. Promise!Others(BoundPairs, p[1], p[2]) = {}
    BY <2>6 DEF Promise!Others
  <2>10. \E q \in SeatPairs' \ SeatPairs :
            /\ SeatPairs' = SeatPairs \cup {q}
            /\ \A o \in SeatPairs : o[1] # q[1]
            /\ Promise!Others(BoundPairs, q[1], q[2]) = {}
            /\ UNCHANGED BoundPairs
    <3> HIDE DEF p
    <3> QED
      BY <2>2, <2>4, <2>7, <2>8, <2>9
  <2> QED
    BY <2>10 DEF Promise!Sit, SeatPairs, BoundPairs, Bound
<1> QED
  BY <1>1, <1>2

\* A guest's session is committed, or was already.
LEMMA Committing ==
  ASSUME Inv, NEW r \in Room, CommitGuest(r)
  PROVE  Promise!Bind \/ UNCHANGED Promise!vars
<1>1. PICK a \in ReservedGuests(r) \ visited :
         guest' = [guest EXCEPT ![a] = Committed(r)]
  BY DEF CommitGuest
<1>2. a \in Guest /\ guest[a].room = r
  BY DEF ReservedGuests
<1>3. Seating' = Seating /\ SeatPairs' = SeatPairs
  BY DEF CommitGuest, Seating, SeatPairs, HasASeat
<1>4. Bound' = Bound \cup {a}
  BY <1>1, <1>2 DEF Inv, Steady, TypeOK, Bound, Committed
<1>5. \A b \in Bound' : guest'[b].room = guest[b].room
  BY <1>1, <1>2, <1>4 DEF Inv, Steady, TypeOK, Bound, Committed
<1>6. BoundPairs' = BoundPairs \cup {<<a, r>>}
  <2>1. BoundPairs' = {<<b, guest[b].room>> : b \in Bound \cup {a}}
    BY <1>4, <1>5 DEF BoundPairs
  <2> QED
    BY <2>1, <1>2 DEF BoundPairs
<1>7. CASE a \in Bound
  <2>1. <<a, r>> \in BoundPairs
    BY <1>2, <1>7 DEF BoundPairs
  <2>2. BoundPairs' = BoundPairs
    BY <1>6, <2>1
  <2> QED
    BY <1>3, <2>2 DEF Promise!vars, SeatPairs, BoundPairs, Bound
<1>8. CASE a \notin Bound
  <2> DEFINE p == <<a, r>>
  <2>1. \A q \in BoundPairs : q[1] # p[1]
    BY <1>8 DEF BoundPairs
  <2>2. \A u \in Seating : AccountOf[u] = a => RoomOf[u] = r
    BY <1>2 DEF Inv, Steady, Reserving, GuestIsReserved, Seating
  <2>3. \A q \in SeatPairs : q[1] = p[1] => q[2] = p[2]
    BY <2>2 DEF SeatPairs
  <2>4. Promise!Others(SeatPairs, p[1], p[2]) = {}
    BY <2>3 DEF Promise!Others
  <2>5. p \in BoundPairs' \ BoundPairs /\ BoundPairs' = BoundPairs \cup {p}
    BY <1>6, <2>1
  <2>6. \E q \in BoundPairs' \ BoundPairs :
           /\ BoundPairs' = BoundPairs \cup {q}
           /\ \A o \in BoundPairs : o[1] # q[1]
           /\ Promise!Others(SeatPairs, q[1], q[2]) = {}
           /\ UNCHANGED SeatPairs
    <3> HIDE DEF p
    <3> QED
      BY <1>3, <2>1, <2>4, <2>5
  <2> QED
    BY <2>6 DEF Promise!Bind, SeatPairs, BoundPairs, Bound
<1> QED
  BY <1>7, <1>8

\* Every step of the rooms is a step of the promise or a stutter.
LEMMA PromiseStep ==
  Inv /\ [Next]_vars => [Promise!Next]_(Promise!vars)
<1> SUFFICES ASSUME Inv, [Next]_vars
             PROVE  Promise!Next \/ UNCHANGED Promise!vars
  OBVIOUS
<1> DEFINE Same == Seating' = Seating /\ Bound' = Bound
                     /\ \A a \in Bound : guest[a]' = guest[a]
<1>0. TypeOK
  BY DEF Inv, Steady
<1>1. ASSUME NEW t \in Tab, Connect(t) \/ GuestGet(t) \/ UserSet(t) \/ UserGet(t) PROVE Same
  BY <1>0, <1>1 DEF Connect, GuestGet, UserSet, UserGet, Undo, Move, Seating, HasASeat,
                    Bound, TypeOK
<1>2. ASSUME NEW t \in Tab, GuestSet(t) PROVE Same
  BY <1>0, <1>2, Constants DEF GuestSet, Move, Seating, HasASeat, Bound, TypeOK, Unbound,
                               Reserved
<1>3. ASSUME NEW t \in Tab, Check(t) PROVE Promise!Sit \/ UNCHANGED Promise!vars \/ Same
  <2>1. CASE at' = [at EXCEPT ![t] = "seated"]
    BY <1>3, <2>1, SittingDown DEF Check
  <2>2. CASE at' = [at EXCEPT ![t] = Undo(made[t])]
    BY <1>0, <1>3, <2>2 DEF Check, Undo, Seating, HasASeat, Bound, TypeOK
  <2> QED
    BY <1>3, <2>1, <2>2 DEF Check, Move
<1>4. ASSUME NEW t \in Tab, UndoGuest(t) PROVE Same
  <2>1. Seating' = Seating
    BY <1>0, <1>4 DEF UndoGuest, Undo, Move, Seating, HasASeat, TypeOK
  <2>2. CASE AccountOf[t] \in Guest
    BY <1>0, <1>4, <2>1, <2>2, Constants, ReleaseKeepsCommitments DEF UndoGuest
  <2>3. CASE AccountOf[t] \notin Guest
    <3>1. guest' = guest
      BY <1>0, <1>4, <2>3 DEF UndoGuest, ReleaseGuest, TypeOK
    <3> QED
      BY <2>1, <3>1 DEF Bound
  <2> QED
    BY <2>2, <2>3
<1>5. ASSUME NEW t \in Tab, LeaveGuest(t) PROVE Same
  <2>1. Seating' = Seating
    BY <1>0, <1>5 DEF LeaveGuest, Move, Seating, HasASeat, TypeOK
  <2>2. CASE AccountOf[t] \in Guest
    BY <1>0, <1>5, <2>1, <2>2, Constants, ReleaseKeepsCommitments DEF LeaveGuest
  <2>3. CASE AccountOf[t] \notin Guest
    <3>1. guest' = guest
      BY <1>0, <1>5, <2>3 DEF LeaveGuest, ReleaseGuest, TypeOK
    <3> QED
      BY <2>1, <3>1 DEF Bound
  <2> QED
    BY <2>2, <2>3
<1>6. ASSUME NEW t \in Tab,
             UndoUser(t) \/ LeaveUser(t) \/ LeaveRest(t) \/ EndWindow(t) \/ Drop(t)
               \/ OnReconnect(t)
      PROVE  Same
  BY <1>0, <1>6 DEF UndoUser, LeaveUser, LeaveRest, EndWindow, Drop, OnReconnect, Move,
                    Seating, HasASeat, Bound, TypeOK
<1>7. ASSUME NEW t \in Tab, Leave(t) PROVE Promise!Stand \/ UNCHANGED Promise!vars
  <2>1. PICK place \in {"leavePlay", "leaveGuest", "leaveUser"} :
           at' = [at EXCEPT ![t] = place]
    BY <1>7 DEF Leave, OnLeave, Move
  <2> QED
    BY <1>7, <2>1, GettingUp DEF Leave, Place, InOnLeave
<1>8. ASSUME NEW t \in Tab, ReconnectionFails(t)
      PROVE  Promise!Stand \/ UNCHANGED Promise!vars
  BY <1>8, GettingUp DEF ReconnectionFails, Move, Place
<1>9. ASSUME NEW r \in Room, CommitGuest(r) PROVE Promise!Bind \/ UNCHANGED Promise!vars
  BY <1>9, Committing
<1>10. ASSUME NEW r \in Room,
              RequestStartGame(r) \/ BeginStartingSelection(r) \/ MatchGoesOn(r)
                \/ RequestRematch(r) \/ Dispose(r)
       PROVE  Same
  BY <1>10 DEF RequestStartGame, BeginStartingSelection, MatchGoesOn, RequestRematch,
               Dispose, Seating, HasASeat, Bound
<1>11. ASSUME NEW r \in Room, OnDispose(r) PROVE Same
  <2>1. Seating' = Seating
    BY <1>11 DEF OnDispose, Seating, HasASeat
  <2>2. guest' = guest \/ \E a \in Guest : ReleaseGuest(a, r)
    BY <1>11 DEF OnDispose, ReservedGuests
  <2> QED
    BY <1>0, <2>1, <2>2, ReleaseKeepsCommitments DEF Bound
<1>12. ASSUME UNCHANGED vars PROVE Same
  BY <1>12 DEF vars, Seating, HasASeat, Bound
<1>13. Same => UNCHANGED Promise!vars
  BY Unmoved
<1>14. Promise!Sit \/ Promise!Stand \/ Promise!Bind => Promise!Next
  BY DEF Promise!Next
<1> HIDE DEF Same
<1> DEFINE Goal == Promise!Next \/ UNCHANGED Promise!vars
<1>15. Same \/ Promise!Sit \/ Promise!Stand \/ Promise!Bind \/ UNCHANGED Promise!vars => Goal
  BY <1>13, <1>14
<1> HIDE DEF Goal
<1>16. ASSUME NEW t \in Tab,
              \/ Connect(t) \/ GuestSet(t) \/ GuestGet(t) \/ UserSet(t) \/ UserGet(t)
              \/ Check(t) \/ UndoGuest(t) \/ UndoUser(t)
              \/ Leave(t) \/ LeaveGuest(t) \/ LeaveUser(t) \/ LeaveRest(t)
              \/ Drop(t) \/ OnReconnect(t) \/ ReconnectionFails(t) \/ EndWindow(t)
       PROVE  Goal
  BY <1>1, <1>2, <1>3, <1>4, <1>5, <1>6, <1>7, <1>8, <1>15, <1>16
<1>17. Goal
  BY <1>9, <1>10, <1>11, <1>12, <1>15, <1>16 DEF Next
<1> QED
  BY <1>17 DEF Goal

(***************************************************************************)
(* The rooms with their two registries implement module Seats: an account  *)
(* never has seats in two rooms, nor a guest whose session is committed to *)
(* a room a seat in another.  It is said of every account with one tab in  *)
(* each room, whatever tabs the other accounts open.                       *)
(***************************************************************************)
THEOREM PromiseKept == Spec => OneSeatPerAccount
<1>1. Init => Promise!Init
  BY DEF Init, Promise!Init, Seating, HasASeat, Unbound
<1>2. Inv /\ [Next]_vars => [Promise!Next]_(Promise!vars)
  BY PromiseStep
<1> QED
  BY <1>1, <1>2, Invariant, PTL DEF Spec, OneSeatPerAccount, Promise!Spec
=============================================================================
