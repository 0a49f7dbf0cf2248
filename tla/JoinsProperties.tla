----------------------------- MODULE JoinsProperties -----------------------------
(***************************************************************************)
(* What the steps of Joins, in any order, must keep true.                  *)
(***************************************************************************)
EXTENDS Joins

(***************************************************************************)
(* Every variable has a value the code can give it.                        *)
(***************************************************************************)
TypeOK ==
  /\ at \in [Tab -> Place]
  /\ made \in [Tab -> SUBSET {"guest", "user"}]
  /\ guest \in [Guest -> {Unbound} \cup {Reserved(r) : r \in Room}
                           \cup {Committed(r) : r \in Room}]
  /\ user \in [Account -> Room \cup {NoRoom}]
  /\ phase \in [Room -> Phase]
  /\ locked \subseteq Room /\ starting \subseteq Room /\ visited \subseteq Guest

HasASeat(t) == at[t] \in {"seated", "selecting", "playing"}

\* An account that opens a second tab in a room may lose the reservation of the
\* first (MCJoins_duplicate.cfg): what follows from a seat's reservation is said
\* of the others, the accounts with one tab a room, whatever those do.
Single ==
  {a \in Account : \A t, u \in Tab :
     AccountOf[t] = a /\ AccountOf[u] = a /\ RoomOf[t] = RoomOf[u] => t = u}

\* Every account is such a one.
DistinctRooms == Account \subseteq Single

(***************************************************************************)
(* Who has a seat, at the table or kept while away, has the account's      *)
(* reservation and, a guest, the session's, both for that room: no other   *)
(* connection's rejection, departure or end of window has released them.   *)
(***************************************************************************)
SeatIsReserved ==
  \A t \in Tab : HasASeat(t) =>
    /\ user[AccountOf[t]] = RoomOf[t]
    /\ AccountOf[t] \in Guest => guest[AccountOf[t]].room = RoomOf[t]

(***************************************************************************)
(* The sessions of the guests who sit in a room that has started are       *)
(* committed, though guests may arrive while the commits are awaited.      *)
(***************************************************************************)
PlayersAreCommitted ==
  \A t \in Tab : HasASeat(t) /\ AccountOf[t] \in Guest \cap Single
                   /\ phase[RoomOf[t]] \in {"selection", "playing", "over"} =>
    guest[AccountOf[t]] = Committed(RoomOf[t])

(***************************************************************************)
(* A reservation that may be released belongs to a connection that will    *)
(* release it, or to a room that is being disposed of: nobody is kept out  *)
(* of every room by a seat that is no more.                                *)
(***************************************************************************)
NoReservationLeaks ==
  \A a \in Account, r \in Room :
    \/ user[a] = r
    \/ a \in Guest /\ guest[a] = Reserved(r)
    => \/ phase[r] = "disposed"
       \/ \E t \in Tab : AccountOf[t] = a /\ RoomOf[t] = r /\ at[t] # "out"

(***************************************************************************)
(* A locked room has all its seats taken, or a connection that is leaving  *)
(* will unlock it.                                                         *)
(***************************************************************************)
FreeSeatsAreOpen ==
  \A r \in locked :
    \/ Cardinality(Clients(r)) >= Desired
    \/ \E t \in Tab : RoomOf[t] = r
         /\ at[t] \in {"leaveGuest", "leaveUser", "leaveRest"}

(***************************************************************************)
(* The registries keep their promise (module Seats): one seat for each     *)
(* account, and none elsewhere for a guest whose session is committed.     *)
(* The seats are those of the accounts in Single, the commitments those of *)
(* every guest.                                                            *)
(***************************************************************************)
Seating == {t \in Tab : HasASeat(t) /\ AccountOf[t] \in Single}

Promise == INSTANCE Seats WITH
  seats <- {<<AccountOf[t], RoomOf[t]>> : t \in Seating},
  bound <- {<<a, guest[a].room>> : a \in {x \in Guest : guest[x].phase = "committed"}}

OneSeatPerAccount == Promise!Spec
=============================================================================
