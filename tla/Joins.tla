---------------------------------- MODULE Joins ----------------------------------
(***************************************************************************)
(* How a browser tab comes by a seat and gives it up: onJoin, onDrop and   *)
(* onLeave of CipherDeckRoom.ts with the two registries they await, the    *)
(* one of the guests' sessions (guestSessions.ts) and the one of the rooms *)
(* accounts play in (userRoomRegistry.ts), for several rooms, accounts and *)
(* tabs.  The rest of a room is in module Room; here a room has a phase.   *)
(*                                                                         *)
(* A step is one command of Redis with what the answer leads to, or code   *)
(* that runs between two awaits.  Keys do not expire here (those of a      *)
(* guest live as long as the token, the others a day).                     *)
(*                                                                         *)
(* Of the Colyseus library this takes: a client counts as one of the       *)
(* room's from onJoin on and not any more from onDrop or onLeave on; a     *)
(* connection closed by the room is followed by onDrop or by onLeave; and  *)
(* a room without clients or open windows is disposed of.                  *)
(*                                                                         *)
(* An operator F_Xyz that stands before F is F with a bug a programmer     *)
(* might have written; the README says which property each one breaks.     *)
(***************************************************************************)
EXTENDS Integers, FiniteSets

CONSTANTS Tab, Account, Room,
          AccountOf, RoomOf,   \* whose tab it is, and the room it is about
          Guest,               \* the accounts of guests
          Desired,             \* desiredPlayers, in every room
          NoRoom

ASSUME JoinsAssumption ==
  /\ IsFiniteSet(Tab)
  /\ AccountOf \in [Tab -> Account]
  /\ RoomOf \in [Tab -> Room]
  /\ Guest \subseteq Account
  /\ Desired \in Nat \ {0}
  /\ NoRoom \notin Room

(***************************************************************************)
(* Where a tab is.  "guestSet" to "userGet": before a command of reserve;  *)
(* "check": before the checks of onJoin; "undoGuest" and "undoUser": a     *)
(* rejection before it releases what the join created; "expelled": told to *)
(* leave but not gone; "selecting" and "playing": dropped, with a window   *)
(* to return ("gone" and "lapsing": the same of an expelled tab, which     *)
(* does not return); "ended": the window has ended; "departed": and the    *)
(* account is released;                                                    *)
(* "leaveGuest", "leaveUser" and "leaveRest": in onLeave, before it        *)
(* releases the guest, the account, and does the rest; "leavePlay": in     *)
(* onLeave of a match in play, before it releases the account.             *)
(***************************************************************************)
InOnJoin == {"guestSet", "guestGet", "userSet", "userGet", "check",
             "undoGuest", "undoUser"}
InOnLeave == {"leaveGuest", "leaveUser", "leaveRest", "leavePlay"}
Windows == {"selecting", "playing", "gone", "lapsing"}
Place == InOnJoin \cup InOnLeave \cup Windows
           \cup {"out", "expelled", "seated", "ended", "departed"}

Phase == {"lobby", "selection", "playing", "over", "disposed"}

VARIABLES
  at,      \* where each tab is
  made,    \* for a tab in onJoin, the reservations it created
  guest,   \* the binding of each guest's session
  user,    \* the room each account has a reservation for
  phase,   \* of each room: startingSelection and game
  locked,  \* the rooms that are locked
  starting,   \* the rooms in requestStartGame, after its checks
  visited     \* the sessions its loop has committed

vars == <<at, made, guest, user, phase, locked, starting, visited>>
rooms == <<phase, locked, starting, visited>>

Unbound == [room |-> NoRoom, phase |-> "none"]
Reserved(r) == [room |-> r, phase |-> "reserved"]
Committed(r) == [room |-> r, phase |-> "committed"]

\* this.clients of a room.
Clients(r) ==
  {t \in Tab : RoomOf[t] = r /\ at[t] \in InOnJoin \cup {"seated", "expelled"}}

\* reservedGuestSessionIds and reservedUserIds of a room: a reservation that
\* is made enters them, and leaves them when it is released.
ReservedGuests(r) == {a \in Guest : guest[a].room = r}
ReservedUsers(r) == {a \in Account : user[a] = r}

Move(t, place) == at' = [at EXCEPT ![t] = place]

\* releaseReservation and release, of what is reserved for the room.
ReleaseGuest_CommittedToo(a, r) ==
  guest' = IF guest[a].room = r THEN [guest EXCEPT ![a] = Unbound] ELSE guest

ReleaseGuest(a, r) ==
  guest' = IF guest[a] = Reserved(r) THEN [guest EXCEPT ![a] = Unbound] ELSE guest

ReleaseUser(a, r) ==
  user' = IF user[a] = r THEN [user EXCEPT ![a] = NoRoom] ELSE user

Init ==
  /\ at = [t \in Tab |-> "out"]
  /\ made = [t \in Tab |-> {}]
  /\ guest = [a \in Guest |-> Unbound]
  /\ user = [a \in Account |-> NoRoom]
  /\ phase = [r \in Room |-> "lobby"]
  /\ locked = {} /\ starting = {} /\ visited = {}

-----------------------------------------------------------------------------
(***************************************************************************)
(* onJoin.                                                                 *)
(***************************************************************************)
\* The tab's seat may have been reserved before the room was locked.
Connect(t) ==
  /\ at[t] = "out"
  /\ phase[RoomOf[t]] # "disposed"
  /\ Move(t, IF AccountOf[t] \in Guest THEN "guestSet" ELSE "userSet")
  /\ UNCHANGED <<made, guest, user, rooms>>

\* The SET NX of the guests' registry, and the GET when the key is there.
GuestSet(t) ==
  LET a == AccountOf[t] IN
  /\ at[t] = "guestSet"
  /\ IF guest[a] = Unbound
     THEN /\ guest' = [guest EXCEPT ![a] = Reserved(RoomOf[t])]
          /\ made' = [made EXCEPT ![t] = {"guest"}]
          /\ Move(t, "userSet")
     ELSE Move(t, "guestGet") /\ UNCHANGED <<guest, made>>
  /\ UNCHANGED <<user, rooms>>

GuestGet(t) ==
  LET a == AccountOf[t] IN
  /\ at[t] = "guestGet"
  /\ Move(t, IF guest[a] = Unbound THEN "guestSet"
             ELSE IF guest[a].room = RoomOf[t] THEN "userSet" ELSE "expelled")
  /\ UNCHANGED <<made, guest, user, rooms>>

\* The same of the accounts' registry, which calls a key that has gone
\* meanwhile a conflict.
UserSet(t) ==
  LET a == AccountOf[t] IN
  /\ at[t] = "userSet"
  /\ IF user[a] = NoRoom
     THEN /\ user' = [user EXCEPT ![a] = RoomOf[t]]
          /\ made' = [made EXCEPT ![t] = @ \cup {"user"}]
          /\ Move(t, "check")
     ELSE Move(t, "userGet") /\ UNCHANGED <<user, made>>
  /\ UNCHANGED <<guest, rooms>>

\* Where a rejection goes on when it has these reservations to undo.
Undo(reservations) ==
  IF "guest" \in reservations THEN "undoGuest"
  ELSE IF "user" \in reservations THEN "undoUser" ELSE "expelled"

UserGet_GoneIsMine(t) ==
  /\ at[t] = "userGet"
  /\ Move(t, IF user[AccountOf[t]] \in {NoRoom, RoomOf[t]} THEN "check"
             ELSE Undo(made[t]))
  /\ UNCHANGED <<made, guest, user, rooms>>

UserGet(t) ==
  /\ at[t] = "userGet"
  /\ Move(t, IF user[AccountOf[t]] = RoomOf[t] THEN "check" ELSE Undo(made[t]))
  /\ UNCHANGED <<made, guest, user, rooms>>

\* The room is full, the account is in it already, or it has started;
\* otherwise the tab has its seat, and a full room is locked.
Check(t) ==
  LET r == RoomOf[t]
      duplicate == \E other \in Clients(r) \ {t} : AccountOf[other] = AccountOf[t]
  IN
  /\ at[t] = "check"
  /\ IF Cardinality(Clients(r)) > Desired \/ duplicate \/ phase[r] # "lobby"
     THEN Move(t, Undo(made[t])) /\ UNCHANGED locked
     ELSE /\ Move(t, "seated")
          /\ locked' = IF Cardinality(Clients(r)) >= Desired
                       THEN locked \cup {r} ELSE locked
  /\ UNCHANGED <<made, guest, user, phase, starting, visited>>

UndoGuest_Forgotten(t) ==
  /\ at[t] = "undoGuest"
  /\ Move(t, Undo(made[t] \ {"guest"}))
  /\ UNCHANGED <<made, guest, user, rooms>>

UndoGuest(t) ==
  /\ at[t] = "undoGuest"
  /\ ReleaseGuest(AccountOf[t], RoomOf[t])
  /\ Move(t, Undo(made[t] \ {"guest"}))
  /\ UNCHANGED <<made, user, rooms>>

UndoUser(t) ==
  /\ at[t] = "undoUser"
  /\ ReleaseUser(AccountOf[t], RoomOf[t])
  /\ Move(t, "expelled")
  /\ UNCHANGED <<made, guest, rooms>>

-----------------------------------------------------------------------------
(***************************************************************************)
(* onLeave and onDrop.                                                     *)
(***************************************************************************)
\* The tab leaves, or its window to return is over: outside a match in play
\* everything is released.
OnLeave(t) ==
  Move(t, IF phase[RoomOf[t]] = "playing" THEN "leavePlay"
          ELSE IF AccountOf[t] \in Guest THEN "leaveGuest" ELSE "leaveUser")

Leave(t) ==
  /\ at[t] \in {"seated", "expelled", "departed"}
  /\ OnLeave(t)
  /\ made' = [made EXCEPT ![t] = {}]
  /\ UNCHANGED <<guest, user, rooms>>

LeaveGuest(t) ==
  /\ at[t] = "leaveGuest"
  /\ ReleaseGuest(AccountOf[t], RoomOf[t])
  /\ Move(t, "leaveUser")
  /\ UNCHANGED <<made, user, rooms>>

LeaveUser(t) ==
  /\ at[t] \in {"leaveUser", "leavePlay"}
  /\ ReleaseUser(AccountOf[t], RoomOf[t])
  /\ Move(t, IF at[t] = "leaveUser" THEN "leaveRest" ELSE "out")
  /\ UNCHANGED <<made, guest, rooms>>

\* abortStartingSelection, which ends the match there may be by now.
AbortStartingSelection(r) ==
  /\ phase' = [phase EXCEPT ![r] = "lobby"]
  /\ locked' = locked \ {r}
  /\ UNCHANGED <<starting, visited>>

LeaveRest_KeepsTheLock(t) ==
  LET r == RoomOf[t] IN
  /\ at[t] = "leaveRest"
  /\ Move(t, "out")
  /\ IF phase[r] = "selection" THEN AbortStartingSelection(r) ELSE UNCHANGED rooms
  /\ UNCHANGED <<made, guest, user>>

LeaveRest(t) ==
  LET r == RoomOf[t] IN
  /\ at[t] = "leaveRest"
  /\ Move(t, "out")
  /\ IF phase[r] = "selection" THEN AbortStartingSelection(r)
     ELSE locked' = locked \ {r} /\ UNCHANGED <<phase, starting, visited>>
  /\ UNCHANGED <<made, guest, user>>

\* A connection is lost in a selection or in a match: the seat is kept for
\* the reconnection window.  (Not for who is not, or no more, a player: Leave.)
Drop(t) ==
  LET r == RoomOf[t] IN
  /\ \/ phase[r] = "selection" /\ at[t] = "seated" /\ Move(t, "selecting")
     \/ phase[r] = "selection" /\ at[t] = "expelled" /\ Move(t, "gone")
     \/ phase[r] = "playing" /\ at[t] = "seated" /\ Move(t, "playing")
     \/ phase[r] = "playing" /\ at[t] = "expelled" /\ Move(t, "lapsing")
  /\ made' = [made EXCEPT ![t] = {}]
  /\ UNCHANGED <<guest, user, rooms>>

OnReconnect(t) ==
  /\ at[t] \in {"selecting", "playing"}
  /\ Move(t, "seated")
  /\ UNCHANGED <<made, guest, user, rooms>>

\* The catch blocks of onDrop.
ReconnectionFails(t) ==
  /\ at[t] \in Windows
  /\ Move(t, "ended")
  /\ IF at[t] \in {"playing", "lapsing"} THEN UNCHANGED rooms
     ELSE AbortStartingSelection(RoomOf[t])
  /\ UNCHANGED <<made, guest, user>>

EndWindow(t) ==
  /\ at[t] = "ended"
  /\ ReleaseUser(AccountOf[t], RoomOf[t])
  /\ Move(t, "departed")
  /\ UNCHANGED <<made, guest, rooms>>

-----------------------------------------------------------------------------
(***************************************************************************)
(* The room.                                                               *)
(***************************************************************************)
\* requestStartGame, its loop over the live set of the reserved sessions, and
\* beginStartingSelection.
RequestStartGame(r) ==
  /\ phase[r] = "lobby"
  /\ r \notin starting
  /\ \E t \in Clients(r) : at[t] = "seated"
  /\ starting' = starting \cup {r}
  /\ UNCHANGED <<at, made, guest, user, phase, locked, visited>>

CommitGuest(r) ==
  /\ r \in starting
  /\ \E a \in ReservedGuests(r) \ visited :
       /\ guest' = [guest EXCEPT ![a] = Committed(r)]
       /\ visited' = visited \cup {a}
  /\ UNCHANGED <<at, made, user, phase, locked, starting>>

BeginStartingSelection_DoesNotWait(r) ==
  /\ r \in starting
  /\ starting' = starting \ {r}
  /\ visited' = visited \ ReservedGuests(r)
  /\ phase' = [phase EXCEPT ![r] = "selection"]
  /\ locked' = locked \ {r}
  /\ UNCHANGED <<at, made, guest, user>>

BeginStartingSelection(r) ==
  /\ r \in starting
  /\ ReservedGuests(r) \subseteq visited
  /\ starting' = starting \ {r}
  /\ visited' = visited \ ReservedGuests(r)
  /\ phase' = [phase EXCEPT ![r] = "selection"]
  /\ locked' = locked \ {r}
  /\ UNCHANGED <<at, made, guest, user>>

\* The selection leads to a match, and the match to its end.
MatchGoesOn(r) ==
  /\ \/ phase[r] = "selection" /\ phase' = [phase EXCEPT ![r] = "playing"]
     \/ phase[r] = "playing" /\ phase' = [phase EXCEPT ![r] = "over"]
  /\ UNCHANGED <<at, made, guest, user, locked, starting, visited>>

RequestRematch(r) ==
  /\ phase[r] = "over"
  /\ phase' = [phase EXCEPT ![r] = "lobby"]
  /\ locked' = locked \ {r}
  /\ UNCHANGED <<at, made, guest, user, starting, visited>>

\* The library disposes of the empty room; onDispose releases what is left.
Dispose(r) ==
  /\ phase[r] # "disposed"
  /\ Clients(r) = {}
  /\ \A t \in Tab : RoomOf[t] = r => at[t] \notin Windows
  /\ phase' = [phase EXCEPT ![r] = "disposed"]
  /\ locked' = locked \ {r}
  /\ starting' = starting \ {r}
  /\ visited' = visited \ ReservedGuests(r)
  /\ UNCHANGED <<at, made, guest, user>>

OnDispose(r) ==
  /\ phase[r] = "disposed"
  /\ \/ \E a \in ReservedUsers(r) : ReleaseUser(a, r) /\ UNCHANGED guest
     \/ \E a \in ReservedGuests(r) :
          guest[a] = Reserved(r) /\ ReleaseGuest(a, r) /\ UNCHANGED user
  /\ UNCHANGED <<at, made, rooms>>

Next ==
  \/ \E t \in Tab :
       \/ Connect(t) \/ GuestSet(t) \/ GuestGet(t) \/ UserSet(t) \/ UserGet(t)
       \/ Check(t) \/ UndoGuest(t) \/ UndoUser(t)
       \/ Leave(t) \/ LeaveGuest(t) \/ LeaveUser(t) \/ LeaveRest(t)
       \/ Drop(t) \/ OnReconnect(t) \/ ReconnectionFails(t) \/ EndWindow(t)
  \/ \E r \in Room :
       \/ RequestStartGame(r) \/ CommitGuest(r) \/ BeginStartingSelection(r)
       \/ MatchGoesOn(r) \/ RequestRematch(r)
       \/ Dispose(r) \/ OnDispose(r)

Spec == Init /\ [][Next]_vars
=============================================================================
