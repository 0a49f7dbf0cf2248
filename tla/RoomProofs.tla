------------------------------- MODULE RoomProofs -------------------------------
(***************************************************************************)
(* Proofs about Room, for any number of people, bots and requests to       *)
(* start, and whatever follows an expulsion.                               *)
(***************************************************************************)
EXTENDS RoomProperties, FiniteSetTheorems, SequenceTheorems, TLAPS

Selections ==
  [phase : {"none", "choosing", "revealed", "stuck", "joker-placement"},
   players : SUBSET Seat]
Matches ==
  [stage : {"none", "opening", "turns", "over"}, active : SUBSET Seat,
   turn : Seat \cup {NoPlayer}, unplaced : SUBSET Seat]

\* A selection before its match, and a start that is awaited, has no match.
BeforeTheMatch ==
  /\ starts # <<>> => match = NoMatch
  /\ selection.phase \in {"choosing", "revealed", "stuck"} => match = NoMatch

(***************************************************************************)
(* The inductive invariant.                                                *)
(***************************************************************************)
Inv ==
  /\ TypeOK /\ BeforeTheMatch
  /\ TurnTimerRuns /\ AwayPlayersPause /\ PlayersInPlayArePresent /\ HostIsInTheRoom

-----------------------------------------------------------------------------
(***************************************************************************)
(* Matches that players leave.                                             *)
(***************************************************************************)
LEMMA Seats == Human \cap Bot = {} /\ NoPlayer \notin Seat /\ Bot \subseteq Seat
<1>1. Bot \subseteq 1..6
  BY RoomAssumption DEF Bot
<1> QED
  BY <1>1, RoomAssumption DEF Seat

LEMMA AfterOutFacts ==
  ASSUME NEW g \in Matches, NEW out, NEW h \in AfterOut(g, out)
  PROVE  h \in Matches /\ h.active = g.active \ out
<1> DEFINE active == g.active \ out
<1>1. active \subseteq Seat /\ g.unplaced \ out \subseteq Seat
  BY DEF Matches
<1>2. PICK stage \in {"opening", "turns", "over"}, late \in {{}, g.unplaced \ out},
           turn \in active :
        h = [stage |-> stage, active |-> active, turn |-> turn, unplaced |-> late]
  BY DEF AfterOut
<1> QED
  BY <1>1, <1>2 DEF Matches

\* What a move, a bot or the timer may make of a match.
LEMMA AfterMoveFacts ==
  ASSUME NEW g \in Matches, NEW h \in AfterMove(g)
  PROVE  h \in Matches /\ h.active \subseteq g.active
<1>1. PICK k \in {g} \cup UNION {AfterOut(g, {p}) : p \in g.active} :
        \E p \in k.active : h = [k EXCEPT !.turn = p]
  BY DEF AfterMove
<1>2. ASSUME NEW p \in g.active, k \in AfterOut(g, {p})
      PROVE  k \in Matches /\ k.active \subseteq g.active
  <2>1. k \in Matches /\ k.active = g.active \ {p}
    BY <1>2, AfterOutFacts
  <2> QED
    BY <2>1
<1>3. k \in Matches /\ k.active \subseteq g.active
  BY <1>1, <1>2
<1> QED
  BY <1>1, <1>3 DEF Matches

LEMMA AfterTimeoutFacts ==
  ASSUME NEW g \in Matches, NEW h \in AfterTimeout(g)
  PROVE  h \in Matches /\ h.active \subseteq g.active
<1>1. PICK out : h \in AfterOut(g, out)
  BY DEF AfterTimeout
<1>2. h.active = g.active \ out
  BY <1>1, AfterOutFacts
<1> QED
  BY <1>1, <1>2, AfterOutFacts

LEMMA AfterPlacingFacts ==
  ASSUME NEW g \in Matches, NEW p, NEW h \in AfterPlacing(g, p)
  PROVE  h \in Matches /\ h.active = g.active
BY DEF AfterPlacing, Matches

-----------------------------------------------------------------------------
(***************************************************************************)
(* The types.                                                              *)
(***************************************************************************)
LEMMA NoneAreTyped == NoMatch \in Matches /\ NoSelection \in Selections
BY DEF NoMatch, Matches, NoSelection, Selections

LEMMA InitInv == Init => Inv
<1> SUFFICES ASSUME Init PROVE Inv
  OBVIOUS
<1>1. TypeOK
  <2>1. <<>> \in Seq(0..Cardinality(Human))
    OBVIOUS
  <2>2. match \in Matches /\ selection \in Selections
    BY NoneAreTyped DEF Init
  <2> QED
    BY <2>1, <2>2 DEF Init, TypeOK, Place, Matches, Selections
<1>2. BeforeTheMatch /\ TurnTimerRuns
  BY DEF Init, BeforeTheMatch, TurnTimerRuns, InPlay, NoMatch
<1>3. AwayPlayersPause /\ PlayersInPlayArePresent /\ HostIsInTheRoom
  BY DEF Init, AwayPlayersPause, PlayersInPlayArePresent, HostIsInTheRoom, InPlay, NoMatch
<1> QED
  BY <1>1, <1>2, <1>3 DEF Inv

\* The players a match starts with, and the table it starts from.
LEMMA StartTyped ==
  ASSUME TypeOK, NEW timer \in BOOLEAN, StartMatch(selection.players, timer)
  PROVE  /\ match' \in Matches /\ selection' \in Selections /\ turnTimer' \in BOOLEAN
         /\ botTimer' \in BOOLEAN
         /\ match'.active = selection.players
         /\ selection'.phase \in {"none", "joker-placement"}
<1> DEFINE players == selection.players
<1>1. players \subseteq Seat
  BY DEF TypeOK
<1>2. PICK unplaced \in SUBSET players, turn \in players :
        match' = [stage |-> IF unplaced = {} THEN "turns" ELSE "opening",
                  active |-> players, turn |-> turn, unplaced |-> unplaced]
  BY DEF StartMatch, NewMatches
<1>3. match' \in Matches /\ match'.active = players
  BY <1>1, <1>2 DEF Matches
<1>4. selection' \in Selections /\ selection'.phase \in {"none", "joker-placement"}
  BY NoneAreTyped DEF StartMatch, TypeOK, Selections, NoSelection
<1> QED
  BY <1>3, <1>4 DEF StartMatch

LEMMA ForfeitFacts ==
  ASSUME TypeOK, NEW p \in Human, ForfeitDisconnectedPlayer(p)
  PROVE  /\ match' \in Matches /\ selection' \in Selections
         /\ turnTimer' \in BOOLEAN
         /\ dropped' \subseteq dropped /\ dropped \subseteq dropped' \cup {p}
         /\ selection' \in {selection, NoSelection}
         /\ \/ /\ match' = match /\ turnTimer' = turnTimer /\ dropped' = dropped
               /\ ~InPlay \/ p \notin match.active
            \/ /\ match'.active = match.active \ {p}
               /\ InPlay /\ p \in match.active /\ p \notin dropped'
               /\ InPlay' => \/ turnTimer' = Armed(match', dropped')
                             \/ dropped' # {} /\ turnTimer' = turnTimer
<1>0. match \in Matches /\ selection \in Selections /\ turnTimer \in BOOLEAN
        /\ dropped \subseteq Human
  BY DEF TypeOK, Matches, Selections
<1>1. CASE ~InPlay \/ p \notin match.active
  BY <1>0, <1>1 DEF ForfeitDisconnectedPlayer
<1>2. CASE InPlay /\ p \in match.active
  <2>1. match' \in Matches /\ match'.active = match.active \ {p}
    BY <1>0, <1>2, AfterOutFacts DEF ForfeitDisconnectedPlayer
  <2>2. selection' \in {selection, NoSelection} /\ dropped' = dropped \ {p}
    BY <1>2 DEF ForfeitDisconnectedPlayer
  <2>3. turnTimer' = IF match'.stage = "over" THEN FALSE
                     ELSE IF dropped' = {} \/ match'.turn # match.turn
                     THEN Armed(match', dropped') ELSE turnTimer
    BY <1>2 DEF ForfeitDisconnectedPlayer
  <2>4. turnTimer' \in BOOLEAN
    BY <1>0, <2>3, RoomAssumption DEF Armed
  <2>5. InPlay' => \/ turnTimer' = Armed(match', dropped')
                   \/ dropped' # {} /\ turnTimer' = turnTimer
    BY <2>3 DEF InPlay
  <2> QED
    BY <1>0, <1>2, <2>1, <2>2, <2>4, <2>5, NoneAreTyped
<1> QED
  BY <1>1, <1>2

LEMMA HostFacts ==
  ASSUME TypeOK, NEW p \in Human, NEW still, still \subseteq Human,
         TransferDepartedHost(p, still)
  PROVE  /\ host' \in Human \cup {NoPlayer} /\ ready' \subseteq Human
         /\ host' # p
         /\ host' = host \/ host' = NoPlayer \/ host' \in Clients \ {p}
<1>1. NoPlayer \notin Human
  BY RoomAssumption
<1> QED
  BY <1>1 DEF TransferDepartedHost, TypeOK, Clients

-----------------------------------------------------------------------------
(***************************************************************************)
(* The steps by their effect.                                              *)
(***************************************************************************)
\* In the lobby, and those who come to it.
Lobbying ==
  \E p \in Human :
    \/ Join(p) \/ Joined(p) \/ SetPlayerReady(p) \/ UpdateRoomSettings(p)
    \/ RequestStartGame(p)
    \/ \E q \in Human : KickPlayer(p, q) \/ TransferHost(p, q)

\* A player, a bot or the timer has moved.
Moved ==
  /\ InPlay /\ dropped = {}
  /\ match' \in Matches /\ match'.active \subseteq match.active
  /\ selection' \in {selection, NoSelection}
  /\ AfterAction

\* A timer has fired for nothing, or a bot has chosen a card.
Idled ==
  /\ UNCHANGED <<conn, lobby, dropped, match, resuming>>
  /\ \/ botTimer' \in BOOLEAN /\ UNCHANGED turnTimer
     \/ turnTimer' = FALSE /\ UNCHANGED botTimer /\ (~InPlay \/ dropped # {})

\* A player is out of a match in play.
Forfeited(p, place) ==
  /\ Move(p, place)
  /\ TransferDepartedHost(p, ready)
  /\ ForfeitDisconnectedPlayer(p)
  /\ UNCHANGED <<starts, bots, botTimer, resuming>>

\* A player has left a room without a match in play.
Leaving(p) ==
  /\ ~InPlay
  /\ Move(p, "leaving")
  /\ UNCHANGED <<lobby, dropped, match, turnTimer, botTimer, resuming>>

Aborted(p, place) ==
  /\ Move(p, place)
  /\ AbortStartingSelection(p)
  /\ UNCHANGED <<starts, bots, resuming>>

Released(p) ==
  /\ conn[p] \in {"leaving", "answering"}
  /\ Move(p, "out")
  /\ TransferDepartedHost(p, ready \ {p})
  /\ UNCHANGED <<selection, match, dropped, turnTimer, botTimer, starts, bots, resuming>>

Dropping(p) ==
  /\ dropped' = dropped \cup {p}
  /\ \/ /\ match = NoMatch
        /\ Move(p, "selecting") \/ Move(p, "gone")
        /\ UNCHANGED turnTimer
     \/ /\ Move(p, "playing")
        /\ turnTimer' = FALSE
  /\ UNCHANGED <<lobby, match, botTimer, resuming>>

\* What a person's connection does.
Connection(p) ==
  \/ Forfeited(p, "out") \/ Forfeited(p, "departed")
  \/ Leaving(p) \/ Aborted(p, "out") \/ Aborted(p, "departed") \/ Released(p)
  \/ Dropping(p) \/ OnReconnect(p) \/ Resume(p)

LEMMA MatchTyped ==
  ASSUME TypeOK
  PROVE  match \in Matches /\ selection \in Selections
BY DEF TypeOK, Matches, Selections

LEMMA MoveEffect ==
  ASSUME TypeOK, NEW p \in Human, ApplyAction(p) \/ ApplyStartingJokerPlacement(p)
  PROVE  Moved
<1>0. match \in Matches
  BY MatchTyped
<1>1. CASE ApplyAction(p)
  <2>1. match' \in AfterMove(match)
    BY <1>1 DEF ApplyAction
  <2> QED
    BY <1>0, <1>1, <2>1, AfterMoveFacts DEF ApplyAction, Moved, InPlay
<1>2. CASE ApplyStartingJokerPlacement(p)
  <2>1. match' \in AfterPlacing(match, p) /\ selection' \in {selection, NoSelection}
    BY <1>2 DEF ApplyStartingJokerPlacement, PlaceJoker
  <2>2. match' \in Matches /\ match'.active = match.active
    BY <1>0, <2>1, AfterPlacingFacts
  <2> QED
    BY <1>2, <2>1, <2>2 DEF ApplyStartingJokerPlacement, PlaceJoker, Moved, InPlay
<1> QED
  BY <1>1, <1>2

LEMMA TimerEffect ==
  ASSUME TypeOK, RunBotStep \/ HandleTurnTimeout PROVE Moved \/ Idled
<1>0. match \in Matches
  BY MatchTyped
<1>1. CASE RunBotStep
  <2>1. CASE selection.phase = "choosing"
    BY <1>1, <2>1 DEF RunBotStep, Idled
  <2>2. CASE selection.phase # "choosing" /\ InPlay /\ dropped = {} /\ match.unplaced \cap bots # {}
    <3>1. PICK p \in match.unplaced \cap bots : PlaceJoker(p)
      BY <1>1, <2>2 DEF RunBotStep
    <3>2. match' \in AfterPlacing(match, p) /\ selection' \in {selection, NoSelection}
      BY <3>1 DEF PlaceJoker
    <3>3. match' \in Matches /\ match'.active = match.active
      BY <1>0, <3>2, AfterPlacingFacts
    <3> QED
      BY <2>2, <3>1, <3>2, <3>3 DEF PlaceJoker, Moved
  <2>3. CASE /\ selection.phase # "choosing"
             /\ ~(InPlay /\ dropped = {} /\ match.unplaced \cap bots # {})
             /\ match.stage = "turns" /\ dropped = {} /\ match.turn \in bots
    <3>1. match' \in AfterMove(match) /\ UNCHANGED selection /\ AfterAction
      BY <1>1, <2>3 DEF RunBotStep
    <3> QED
      BY <1>0, <2>3, <3>1, AfterMoveFacts DEF Moved, InPlay
  <2>4. CASE /\ selection.phase # "choosing"
             /\ ~(InPlay /\ dropped = {} /\ match.unplaced \cap bots # {})
             /\ ~(match.stage = "turns" /\ dropped = {} /\ match.turn \in bots)
    BY <1>1, <2>4 DEF RunBotStep, Idled
  <2> QED
    BY <2>1, <2>2, <2>3, <2>4
<1>2. CASE HandleTurnTimeout
  <2>1. CASE InPlay /\ dropped = {}
    <3>1. match' \in AfterTimeout(match) /\ UNCHANGED selection /\ AfterAction
      BY <1>2, <2>1 DEF HandleTurnTimeout
    <3> QED
      BY <1>0, <2>1, <3>1, AfterTimeoutFacts DEF Moved
  <2>2. CASE ~(InPlay /\ dropped = {})
    BY <1>2, <2>2 DEF HandleTurnTimeout, Idled
  <2> QED
    BY <2>1, <2>2
<1> QED
  BY <1>1, <1>2

LEMMA LeaveEffect ==
  ASSUME NEW p \in Human, OnLeave(p), UNCHANGED <<botTimer, resuming>>
  PROVE  Forfeited(p, "out") \/ Leaving(p)
BY DEF OnLeave, Forfeited, Leaving

LEMMA ConnectionEffect ==
  ASSUME NEW p \in Human,
         \/ Leave(p) \/ LeaveReleased(p) \/ Drop(p) \/ ReconnectionFails(p) \/ Depart(p)
         \/ OnReconnect(p) \/ Resume(p)
  PROVE  Connection(p)
<1>1. CASE Leave(p) \/ Depart(p)
  BY <1>1, LeaveEffect DEF Leave, Depart, Connection
<1>2. CASE LeaveReleased(p)
  BY <1>2 DEF LeaveReleased, Aborted, Released, Connection
<1>3. CASE Drop(p)
  <2>1. CASE selection # NoSelection /\ match = NoMatch
    BY <1>3, <2>1 DEF Drop, Dropping, Connection
  <2>2. CASE ~(selection # NoSelection /\ match = NoMatch) /\ (~InPlay \/ p \notin match.active)
    BY <1>3, <2>2, LeaveEffect DEF Drop, Connection
  <2>3. CASE ~(selection # NoSelection /\ match = NoMatch) /\ ~(~InPlay \/ p \notin match.active)
    BY <1>3, <2>3 DEF Drop, Dropping, Connection
  <2> QED
    BY <2>1, <2>2, <2>3
<1>4. CASE ReconnectionFails(p)
  BY <1>4 DEF ReconnectionFails, Aborted, Forfeited, Connection
<1>5. CASE OnReconnect(p) \/ Resume(p)
  BY <1>5 DEF Connection
<1> QED
  BY <1>1, <1>2, <1>3, <1>4, <1>5

LEMMA Effects ==
  ASSUME TypeOK, [Next]_vars
  PROVE  \/ Lobbying \/ BeginStartingSelection \/ RevealStartingChoices
         \/ AdvanceStartingSelection \/ Moved \/ Idled \/ Dispose
         \/ \E p \in Human : RequestRematch(p) \/ Connection(p)
         \/ UNCHANGED vars
BY MoveEffect, TimerEffect, ConnectionEffect DEF Next, Lobbying

-----------------------------------------------------------------------------
(***************************************************************************)
(* Every step keeps the types.                                             *)
(***************************************************************************)
\* The number a start counts is one of 0..Cardinality(Human), and its bots
\* are bots.
LEMMA Counted ==
  /\ Cardinality(Clients) \in 0..Cardinality(Human)
  /\ Clients \subseteq Human
<1>1. Clients \subseteq Human /\ IsFiniteSet(Human)
  BY RoomAssumption DEF Clients
<1>2. IsFiniteSet(Clients) /\ Cardinality(Clients) <= Cardinality(Human)
  BY <1>1, FS_Subset
<1>3. Cardinality(Clients) \in Nat /\ Cardinality(Human) \in Nat
  BY <1>1, <1>2, FS_CardinalityType
<1> QED
  BY <1>1, <1>2, <1>3

LEMMA StartsTyped ==
  ASSUME TypeOK, starts # <<>>
  PROVE  /\ Tail(starts) \in Seq(0..Cardinality(Human))
         /\ (Head(starts) + 1)..Desired \subseteq Bot
<1>1. starts \in Seq(0..Cardinality(Human))
  BY DEF TypeOK
<1>2. Head(starts) \in 0..Cardinality(Human) /\ Tail(starts) \in Seq(0..Cardinality(Human))
  BY <1>1, HeadTailProperties
<1>3. Head(starts) \in Nat /\ Desired \in Nat
  BY <1>2, FS_CardinalityType, RoomAssumption
<1> QED
  BY <1>2, <1>3 DEF Bot

LEMMA LobbyingTyped ==
  ASSUME TypeOK, Lobbying PROVE TypeOK'
<1>1. PICK p \in Human :
        \/ Join(p) \/ Joined(p) \/ SetPlayerReady(p) \/ UpdateRoomSettings(p)
        \/ RequestStartGame(p)
        \/ \E q \in Human : KickPlayer(p, q) \/ TransferHost(p, q)
  BY DEF Lobbying
<1>2. CASE Join(p) \/ Joined(p)
  <2>1. conn' \in [Human -> Place] /\ host' \in Human \cup {NoPlayer}
    BY <1>2 DEF TypeOK, Join, Joined, Expel, Move, Place, lobby
  <2> QED
    BY <1>2, <2>1 DEF TypeOK, Join, Joined, Expel, lobby
<1>3. CASE SetPlayerReady(p) \/ UpdateRoomSettings(p)
  BY <1>3 DEF TypeOK, SetPlayerReady, UpdateRoomSettings
<1>4. CASE RequestStartGame(p)
  <2>1. starts' \in Seq(0..Cardinality(Human))
    BY <1>4, Counted DEF TypeOK, RequestStartGame
  <2> QED
    BY <1>4, <2>1 DEF TypeOK, RequestStartGame
<1>5. CASE \E q \in Human : KickPlayer(p, q) \/ TransferHost(p, q)
  BY <1>5 DEF TypeOK, KickPlayer, TransferHost, Manages, Move, Place, lobby
<1> QED
  BY <1>1, <1>2, <1>3, <1>4, <1>5

LEMMA SelectingTyped ==
  ASSUME TypeOK,
         BeginStartingSelection \/ RevealStartingChoices \/ AdvanceStartingSelection
  PROVE  TypeOK'
<1>0. selection \in Selections /\ match \in Matches
  BY MatchTyped
<1>1. CASE BeginStartingSelection
  <2>1. starts' \in Seq(0..Cardinality(Human)) /\ bots' \subseteq Bot
    BY <1>1, StartsTyped DEF BeginStartingSelection
  <2>2. selection' \in Selections /\ botTimer' \in BOOLEAN
    <3>1. CASE UNCHANGED <<selection, botTimer>>
      BY <1>0, <3>1 DEF TypeOK
    <3>2. CASE /\ selection' = [phase |-> "choosing", players |-> Clients \cup bots']
               /\ botTimer' = TRUE
      BY <2>1, <3>2, Counted DEF Selections, Seat
    <3> QED
      BY <1>1, <3>1, <3>2 DEF BeginStartingSelection
  <2> QED
    BY <1>1, <2>1, <2>2 DEF TypeOK, BeginStartingSelection, Selections
<1>2. CASE RevealStartingChoices
  <2>1. selection' \in Selections
    BY <1>0, <1>2 DEF RevealStartingChoices, Selections
  <2>2. conn' \in [Human -> Place]
    BY <1>2 DEF RevealStartingChoices, TypeOK, Place
  <2> QED
    BY <1>2, <2>1, <2>2 DEF TypeOK, RevealStartingChoices, Selections
<1>3. CASE AdvanceStartingSelection
  <2>1. /\ match' \in Matches /\ selection' \in Selections
        /\ turnTimer' \in BOOLEAN /\ botTimer' \in BOOLEAN
    <3>1. CASE StartMatch(selection.players, TimerOn /\ dropped = {})
      BY <3>1, StartTyped, RoomAssumption
    <3>2. CASE /\ selection' = [selection EXCEPT !.phase = "choosing"]
               /\ botTimer' = TRUE
               /\ UNCHANGED <<match, turnTimer>>
      BY <1>0, <3>2 DEF TypeOK, Selections
    <3>3. CASE /\ selection' = [selection EXCEPT !.phase = "stuck"]
               /\ UNCHANGED <<match, turnTimer, botTimer>>
      BY <1>0, <3>3 DEF TypeOK, Selections
    <3> QED
      BY <1>3, <3>1, <3>2, <3>3 DEF AdvanceStartingSelection
  <2> QED
    BY <1>3, <2>1 DEF TypeOK, AdvanceStartingSelection, Matches, Selections
<1> QED
  BY <1>1, <1>2, <1>3

LEMMA MovedTyped ==
  ASSUME TypeOK, Moved \/ Idled PROVE TypeOK'
<1>0. selection \in Selections /\ match \in Matches
  BY MatchTyped
<1>1. CASE Moved
  <2>1. match' \in Matches /\ selection' \in Selections
    BY <1>0, <1>1, NoneAreTyped DEF Moved
  <2>2. turnTimer' \in BOOLEAN /\ botTimer' \in BOOLEAN
    BY <1>1, RoomAssumption DEF Moved, AfterAction, Armed
  <2> QED
    BY <1>1, <2>1, <2>2 DEF TypeOK, Moved, AfterAction, Matches, Selections
<1>2. CASE Idled
  BY <1>2 DEF TypeOK, Idled, lobby
<1> QED
  BY <1>1, <1>2

LEMMA ConnectionTyped ==
  ASSUME TypeOK, NEW p \in Human, Connection(p) PROVE TypeOK'
<1>0. selection \in Selections /\ match \in Matches
  BY MatchTyped
<1>1. ASSUME NEW place \in {"out", "departed"}, Forfeited(p, place) PROVE TypeOK'
  <2>1. conn' \in [Human -> Place]
    BY <1>1 DEF TypeOK, Forfeited, Move, Place
  <2>2. host' \in Human \cup {NoPlayer} /\ ready' \subseteq Human
    BY <1>1, HostFacts DEF Forfeited, TypeOK
  <2>3. /\ match' \in Matches /\ selection' \in Selections
        /\ turnTimer' \in BOOLEAN /\ dropped' \subseteq Human
    BY <1>1, ForfeitFacts DEF Forfeited, TypeOK
  <2> QED
    BY <1>1, <2>1, <2>2, <2>3 DEF TypeOK, Forfeited, Matches, Selections
<1>2. CASE Leaving(p)
  BY <1>2 DEF TypeOK, Leaving, Move, Place, lobby
<1>3. ASSUME NEW place \in {"out", "departed"}, Aborted(p, place) PROVE TypeOK'
  <2>1. conn' \in [Human -> Place]
    BY <1>3 DEF TypeOK, Aborted, Move, Place
  <2>2. host' \in Human \cup {NoPlayer} /\ ready' \subseteq Human
    BY <1>3, HostFacts DEF Aborted, AbortStartingSelection
  <2>3. match' \in Matches /\ selection' \in Selections
    BY <1>3, NoneAreTyped DEF Aborted, AbortStartingSelection
  <2> QED
    BY <1>3, <2>1, <2>2, <2>3
    DEF TypeOK, Aborted, AbortStartingSelection, Matches, Selections
<1>4. CASE Released(p)
  <2>1. conn' \in [Human -> Place]
    BY <1>4 DEF TypeOK, Released, Move, Place
  <2>2. ready \ {p} \subseteq Human
    BY DEF TypeOK
  <2>3. host' \in Human \cup {NoPlayer} /\ ready' \subseteq Human
    BY <1>4, <2>2, HostFacts DEF Released
  <2> QED
    BY <1>4, <2>1, <2>3 DEF TypeOK, Released
<1>5. CASE Dropping(p)
  <2>1. conn' \in [Human -> Place]
    BY <1>5 DEF TypeOK, Dropping, Move, Place
  <2> QED
    BY <1>5, <2>1 DEF TypeOK, Dropping, lobby
<1>6. CASE OnReconnect(p)
  BY <1>6 DEF TypeOK, OnReconnect, Move, Place, lobby
<1>7. CASE Resume(p)
  BY <1>7, RoomAssumption DEF TypeOK, Resume, Armed, lobby
<1> QED
  BY <1>1, <1>2, <1>3, <1>4, <1>5, <1>6, <1>7 DEF Connection

LEMMA TypeStep == TypeOK /\ [Next]_vars => TypeOK'
<1> SUFFICES ASSUME TypeOK, [Next]_vars PROVE TypeOK'
  OBVIOUS
<1>1. CASE Dispose
  <2>1. <<>> \in Seq(0..Cardinality(Human))
    OBVIOUS
  <2>2. selection' \in Selections /\ match' \in Matches
    BY <1>1, NoneAreTyped DEF Dispose
  <2> QED
    BY <1>1, <2>1, <2>2 DEF TypeOK, Dispose, Matches, Selections
<1>2. ASSUME NEW p \in Human, RequestRematch(p) PROVE TypeOK'
  <2>1. selection' \in Selections /\ match' \in Matches
    BY <1>2, NoneAreTyped DEF RequestRematch
  <2> QED
    BY <1>2, <2>1 DEF TypeOK, RequestRematch, Matches, Selections
<1>3. CASE UNCHANGED vars
  BY <1>3 DEF TypeOK, vars
<1> QED
  BY <1>1, <1>2, <1>3, Effects, LobbyingTyped, SelectingTyped, MovedTyped, ConnectionTyped

-----------------------------------------------------------------------------
(***************************************************************************)
(* Every step keeps the invariant.                                         *)
(***************************************************************************)
LEMMA StepLobbying ==
  ASSUME Inv, Lobbying
  PROVE  /\ BeforeTheMatch' /\ TurnTimerRuns' /\ AwayPlayersPause'
         /\ PlayersInPlayArePresent' /\ HostIsInTheRoom'
<1>1. UNCHANGED <<selection, match, dropped, turnTimer, resuming>>
  BY DEF Lobbying, Join, Joined, Expel, SetPlayerReady, UpdateRoomSettings,
         RequestStartGame, KickPlayer, TransferHost, lobby
<1>2. starts' # <<>> => starts # <<>> \/ match = NoMatch
  BY DEF Lobbying, Join, Joined, Expel, SetPlayerReady, UpdateRoomSettings,
         RequestStartGame, KickPlayer, TransferHost, lobby, InLobby
<1>3. \A p \in Human : \/ conn'[p] = conn[p]
                       \/ conn'[p] \in {"joining", "seated", "expelled"}
  <2>1. conn \in [Human -> Place]
    BY DEF Inv, TypeOK
  <2> QED
    BY <2>1 DEF Lobbying, Join, Joined, Expel, Move, SetPlayerReady, UpdateRoomSettings,
           RequestStartGame, KickPlayer, TransferHost, lobby
<1>4. \/ host' = host
      \/ host' \in Human /\ conn'[host'] = "seated"
      \/ host' \in Clients /\ conn' = conn
  <2>1. conn \in [Human -> Place]
    BY DEF Inv, TypeOK
  <2> QED
    BY <2>1 DEF Lobbying, Join, Joined, Expel, Move, SetPlayerReady, UpdateRoomSettings,
           RequestStartGame, KickPlayer, TransferHost, Manages, lobby
<1>5. BeforeTheMatch' /\ TurnTimerRuns' /\ AwayPlayersPause'
  BY <1>1, <1>2, <1>3 DEF Inv, BeforeTheMatch, TurnTimerRuns, AwayPlayersPause, InPlay
<1>6. PlayersInPlayArePresent'
  BY <1>1, <1>3 DEF Inv, PlayersInPlayArePresent, InPlay, Clients
<1>7. HostIsInTheRoom'
  BY <1>3, <1>4 DEF Inv, TypeOK, HostIsInTheRoom, Clients
<1> QED
  BY <1>5, <1>6, <1>7

LEMMA StepSelecting ==
  ASSUME Inv, BeginStartingSelection \/ RevealStartingChoices
  PROVE  /\ BeforeTheMatch' /\ TurnTimerRuns' /\ AwayPlayersPause'
         /\ PlayersInPlayArePresent' /\ HostIsInTheRoom'
<1>1. UNCHANGED <<host, dropped, match, turnTimer, resuming>>
  BY DEF BeginStartingSelection, RevealStartingChoices
<1>2. match = NoMatch
  BY DEF Inv, BeforeTheMatch, BeginStartingSelection, RevealStartingChoices
<1>3. BeforeTheMatch' /\ TurnTimerRuns' /\ PlayersInPlayArePresent'
  BY <1>1, <1>2 DEF BeforeTheMatch, TurnTimerRuns, PlayersInPlayArePresent, InPlay, NoMatch,
     BeginStartingSelection, RevealStartingChoices, Inv, TypeOK
<1>4. \A p \in Human :
        conn'[p] = conn[p] \/ (conn[p] = "leaving" /\ conn'[p] = "answering")
  BY DEF Inv, TypeOK, BeginStartingSelection, RevealStartingChoices
<1>5. AwayPlayersPause'
  BY <1>1, <1>4 DEF Inv, AwayPlayersPause
<1>6. HostIsInTheRoom'
  BY <1>1, <1>4 DEF Inv, TypeOK, HostIsInTheRoom
<1> QED
  BY <1>3, <1>5, <1>6

\* The match starts with those who are in the room, by the check at its head.
LEMMA StepAdvance ==
  ASSUME Inv, AdvanceStartingSelection
  PROVE  /\ BeforeTheMatch' /\ TurnTimerRuns' /\ AwayPlayersPause'
         /\ PlayersInPlayArePresent' /\ HostIsInTheRoom'
<1>1. /\ UNCHANGED <<conn, host, starts, dropped, resuming>>
      /\ selection.phase = "revealed" /\ match = NoMatch /\ starts = <<>>
  BY DEF Inv, BeforeTheMatch, AdvanceStartingSelection, RegistriesHaveAnswered
<1>2. AwayPlayersPause' /\ HostIsInTheRoom'
  BY <1>1 DEF Inv, AwayPlayersPause, HostIsInTheRoom
<1>3. CASE UNCHANGED match
  BY <1>1, <1>3 DEF BeforeTheMatch, TurnTimerRuns, PlayersInPlayArePresent, InPlay, NoMatch,
     Inv, AwayPlayersPause, HostIsInTheRoom
<1>4. CASE /\ Clients \cup bots = selection.players
           /\ StartMatch(selection.players, TimerOn /\ dropped = {})
  <2>1. /\ match'.active = selection.players
        /\ selection'.phase \in {"none", "joker-placement"}
    BY <1>4, StartTyped, RoomAssumption DEF Inv
  <2>2. turnTimer' = (TimerOn /\ dropped = {})
    BY <1>4 DEF StartMatch
  <2>3. selection.players \cap Human \subseteq Clients
    BY <1>4, Seats DEF Inv, TypeOK
  <2>4. BeforeTheMatch' /\ TurnTimerRuns'
    BY <1>1, <2>1, <2>2 DEF BeforeTheMatch, TurnTimerRuns
  <2>5. PlayersInPlayArePresent'
    BY <1>1, <2>1, <2>3 DEF PlayersInPlayArePresent, Clients
  <2> QED
    BY <1>2, <2>4, <2>5
<1> QED
  BY <1>2, <1>3, <1>4 DEF AdvanceStartingSelection

LEMMA StepMoved ==
  ASSUME Inv, Moved \/ Idled
  PROVE  /\ BeforeTheMatch' /\ TurnTimerRuns' /\ AwayPlayersPause'
         /\ PlayersInPlayArePresent' /\ HostIsInTheRoom'
<1>1. UNCHANGED <<conn, host, starts, dropped, resuming>>
  BY DEF Moved, Idled, AfterAction, lobby
<1>2. AwayPlayersPause' /\ HostIsInTheRoom'
  BY <1>1 DEF Inv, AwayPlayersPause, HostIsInTheRoom
<1>3. CASE Moved
  <2>1. match # NoMatch /\ starts = <<>>
    BY <1>3 DEF Moved, InPlay, NoMatch, Inv, BeforeTheMatch
  <2>2. selection.phase \notin {"choosing", "revealed", "stuck"}
    BY <2>1 DEF Inv, BeforeTheMatch
  <2>3. BeforeTheMatch'
    BY <1>1, <1>3, <2>1, <2>2 DEF BeforeTheMatch, Moved, NoSelection
  <2>4. TurnTimerRuns'
    BY <1>3 DEF Moved, AfterAction, Armed, TurnTimerRuns, InPlay
  <2>5. PlayersInPlayArePresent'
    BY <1>1, <1>3 DEF Inv, PlayersInPlayArePresent, Moved, Clients
  <2> QED
    BY <1>2, <2>3, <2>4, <2>5
<1>4. CASE Idled
  BY <1>1, <1>2, <1>4 DEF Inv, Idled, lobby, BeforeTheMatch, TurnTimerRuns,
     PlayersInPlayArePresent, InPlay, Clients
<1> QED
  BY <1>3, <1>4

LEMMA StepReset ==
  ASSUME Inv, Dispose \/ \E p \in Human : RequestRematch(p)
  PROVE  /\ BeforeTheMatch' /\ TurnTimerRuns' /\ AwayPlayersPause'
         /\ PlayersInPlayArePresent' /\ HostIsInTheRoom'
<1>1. conn' = conn /\ match' = NoMatch
  BY DEF Dispose, RequestRematch
<1>2. AwayPlayersPause' /\ HostIsInTheRoom'
  BY DEF Inv, AwayPlayersPause, HostIsInTheRoom, Dispose, RequestRematch
<1> QED
  BY <1>1, <1>2 DEF BeforeTheMatch, TurnTimerRuns, PlayersInPlayArePresent, InPlay, NoMatch

LEMMA StepForfeited ==
  ASSUME Inv, NEW p \in Human, NEW place \in {"out", "departed"}, Forfeited(p, place)
  PROVE  /\ BeforeTheMatch' /\ TurnTimerRuns' /\ AwayPlayersPause'
         /\ PlayersInPlayArePresent' /\ HostIsInTheRoom'
<1>1. /\ TypeOK /\ conn' = [conn EXCEPT ![p] = place] /\ conn \in [Human -> Place]
      /\ UNCHANGED <<starts, resuming>>
  BY DEF Inv, TypeOK, Forfeited, Move
<1>2. /\ dropped' \subseteq dropped /\ dropped \subseteq dropped' \cup {p}
      /\ selection' \in {selection, NoSelection}
      /\ \/ /\ match' = match /\ turnTimer' = turnTimer /\ dropped' = dropped
            /\ ~InPlay \/ p \notin match.active
         \/ /\ match'.active = match.active \ {p}
            /\ InPlay /\ p \in match.active /\ p \notin dropped'
            /\ InPlay' => \/ turnTimer' = Armed(match', dropped')
                          \/ dropped' # {} /\ turnTimer' = turnTimer
  BY <1>1, ForfeitFacts DEF Forfeited
<1>3. BeforeTheMatch'
  BY <1>1, <1>2 DEF Inv, BeforeTheMatch, NoSelection, InPlay, NoMatch
<1>4. TurnTimerRuns'
  <2> SUFFICES ASSUME TimerOn, InPlay', dropped' = {}, resuming' = {} PROVE turnTimer'
    BY DEF TurnTimerRuns
  <2>1. CASE match' = match /\ turnTimer' = turnTimer /\ dropped' = dropped
    <3>1. InPlay
      BY <2>1 DEF InPlay
    <3>2. turnTimer
      BY <1>1, <2>1, <3>1 DEF Inv, TurnTimerRuns
    <3> QED
      BY <2>1, <3>2
  <2>2. CASE turnTimer' = Armed(match', dropped')
    BY <2>2 DEF Armed, InPlay
  <2> QED
    BY <1>2, <2>1, <2>2
<1>5. AwayPlayersPause'
  BY <1>1, <1>2 DEF Inv, AwayPlayersPause
<1>6. PlayersInPlayArePresent'
  BY <1>1, <1>2 DEF Inv, PlayersInPlayArePresent, InPlay, Clients
<1>7. host' # p /\ (host' = host \/ host' = NoPlayer \/ host' \in Clients \ {p})
  <2>1. ready \subseteq Human
    BY <1>1 DEF TypeOK
  <2> QED
    BY <1>1, <2>1, HostFacts DEF Forfeited
<1>8. HostIsInTheRoom'
  BY <1>1, <1>7 DEF Inv, TypeOK, HostIsInTheRoom, Clients
<1> QED
  BY <1>3, <1>4, <1>5, <1>6, <1>8

LEMMA StepLeft ==
  ASSUME Inv, NEW p \in Human,
         Leaving(p) \/ Aborted(p, "out") \/ Aborted(p, "departed") \/ Released(p)
  PROVE  /\ BeforeTheMatch' /\ TurnTimerRuns' /\ AwayPlayersPause'
         /\ PlayersInPlayArePresent' /\ HostIsInTheRoom'
<1>1. conn \in [Human -> Place] /\ TypeOK
  BY DEF Inv, TypeOK
<1>2. PICK place \in {"out", "departed", "leaving"} : conn' = [conn EXCEPT ![p] = place]
  BY DEF Leaving, Aborted, Released, Move
<1>3. \/ UNCHANGED <<host, dropped>> /\ conn'[p] = "leaving"
      \/ /\ host' # p /\ (host' = host \/ host' = NoPlayer \/ host' \in Clients \ {p})
         /\ dropped \subseteq dropped' \cup {p}
  <2>1. ready \ {p} \subseteq Human
    BY <1>1 DEF TypeOK
  <2> QED
    BY <1>1, <2>1, HostFacts
    DEF Leaving, Aborted, Released, AbortStartingSelection, Move, lobby
<1>4. AwayPlayersPause'
  BY <1>1, <1>2, <1>3 DEF Inv, AwayPlayersPause
<1>5. HostIsInTheRoom'
  BY <1>1, <1>2, <1>3 DEF Inv, TypeOK, HostIsInTheRoom, Clients
<1>6. CASE Leaving(p)
  BY <1>4, <1>5, <1>6 DEF Inv, Leaving, lobby, BeforeTheMatch, TurnTimerRuns,
     PlayersInPlayArePresent, InPlay
<1>7. CASE Aborted(p, "out") \/ Aborted(p, "departed")
  BY <1>4, <1>5, <1>7 DEF Aborted, AbortStartingSelection, BeforeTheMatch, TurnTimerRuns,
     PlayersInPlayArePresent, InPlay, NoMatch
<1>8. CASE Released(p)
  <2>1. PlayersInPlayArePresent'
    BY <1>1, <1>2, <1>8 DEF Inv, Released, PlayersInPlayArePresent, InPlay, Clients
  <2> QED
    BY <1>4, <1>5, <1>8, <2>1 DEF Inv, Released, BeforeTheMatch, TurnTimerRuns, InPlay
<1> QED
  BY <1>6, <1>7, <1>8

LEMMA StepDropped ==
  ASSUME Inv, NEW p \in Human, Dropping(p) \/ OnReconnect(p) \/ Resume(p)
  PROVE  /\ BeforeTheMatch' /\ TurnTimerRuns' /\ AwayPlayersPause'
         /\ PlayersInPlayArePresent' /\ HostIsInTheRoom'
<1>1. conn \in [Human -> Place]
  BY DEF Inv, TypeOK
<1>2. UNCHANGED <<host, ready, selection, starts, bots, match>>
  BY DEF Dropping, OnReconnect, Resume, lobby
<1>3. BeforeTheMatch'
  BY <1>2 DEF Inv, BeforeTheMatch
<1>4. CASE Dropping(p)
  <2>1. PICK place \in {"selecting", "gone", "playing"} :
          /\ conn' = [conn EXCEPT ![p] = place]
          /\ match = NoMatch \/ place = "playing"
    BY <1>4 DEF Dropping, Move
  <2>2. dropped' = dropped \cup {p}
    BY <1>4 DEF Dropping
  <2>3. PlayersInPlayArePresent'
    BY <1>1, <1>2, <2>1 DEF Inv, PlayersInPlayArePresent, InPlay, NoMatch, Clients
  <2> QED
    BY <1>1, <1>2, <1>3, <2>1, <2>2, <2>3
    DEF Inv, TurnTimerRuns, AwayPlayersPause, HostIsInTheRoom, TypeOK
<1>5. CASE OnReconnect(p)
  <2>1. conn' = [conn EXCEPT ![p] = "seated"]
    BY <1>5 DEF OnReconnect, Move
  <2>2. PlayersInPlayArePresent'
    BY <1>1, <1>2, <2>1 DEF Inv, PlayersInPlayArePresent, InPlay, Clients
  <2>3. TurnTimerRuns' /\ AwayPlayersPause'
    BY <1>1, <1>5, <2>1 DEF Inv, TurnTimerRuns, AwayPlayersPause, OnReconnect
  <2>4. HostIsInTheRoom'
    BY <1>1, <1>2, <2>1 DEF Inv, TypeOK, HostIsInTheRoom
  <2> QED
    BY <1>3, <2>2, <2>3, <2>4
<1>6. CASE Resume(p)
  <2>1. UNCHANGED <<conn, dropped>> /\ PlayersInPlayArePresent'
    BY <1>2, <1>6 DEF Inv, PlayersInPlayArePresent, Resume, InPlay, Clients
  <2>2. TurnTimerRuns'
    <3> SUFFICES ASSUME TimerOn, InPlay', dropped' = {} PROVE turnTimer'
      BY DEF TurnTimerRuns
    <3>1. InPlay /\ dropped = {}
      BY <1>2, <2>1 DEF InPlay
    <3>2. match # NoMatch
      BY <3>1 DEF InPlay, NoMatch
    <3>3. turnTimer' = Armed(match, dropped)
      BY <1>6, <3>1, <3>2 DEF Resume
    <3> QED
      BY <3>1, <3>3 DEF Armed, InPlay
  <2> QED
    BY <1>2, <1>3, <2>1, <2>2 DEF Inv, AwayPlayersPause, HostIsInTheRoom
<1> QED
  BY <1>4, <1>5, <1>6

LEMMA InvStep == Inv /\ [Next]_vars => Inv'
<1> SUFFICES ASSUME Inv, [Next]_vars PROVE Inv'
  OBVIOUS
<1>1. TypeOK /\ TypeOK'
  BY TypeStep DEF Inv
<1>2. CASE UNCHANGED vars
  BY <1>2 DEF Inv, vars, TypeOK, BeforeTheMatch, TurnTimerRuns, AwayPlayersPause,
     PlayersInPlayArePresent, HostIsInTheRoom, InPlay, Clients
<1>3. ASSUME NEW p \in Human, Connection(p) PROVE Inv'
  BY <1>1, <1>3, StepForfeited, StepLeft, StepDropped DEF Connection, Inv
<1> QED
  BY <1>1, <1>2, <1>3, Effects, StepLobbying, StepSelecting, StepAdvance, StepMoved, StepReset
  DEF Inv

LEMMA Invariant == Spec => []Inv
BY InitInv, InvStep, PTL DEF Spec

-----------------------------------------------------------------------------
(***************************************************************************)
(* The theorems.                                                           *)
(***************************************************************************)
\* The fields of CipherDeckRoom keep their types, with any number of people,
\* connections that come and go, and requests to start that are under way.
THEOREM TypeCorrect == Spec => []TypeOK
BY Invariant, PTL DEF Inv

\* The action timer runs throughout a match: every path that ends a pause,
\* forfeits a player or moves the turn arms it again (armTurnTimer and
\* resumeTurnTimer).
THEOREM TheTimerRuns == Spec => []TurnTimerRuns
BY Invariant, PTL DEF Inv

\* A player the room waits for is one it knows to be away, through aborts,
\* forfeits and returns in any order.
THEOREM ThePauseIsKnown == Spec => []AwayPlayersPause
BY Invariant, PTL DEF Inv

\* A player who has gone for good has forfeited: the check of the players at
\* the start of the match and the handlers of a departure leave no gap.
THEOREM NobodyIsMissing == Spec => []PlayersInPlayArePresent
BY Invariant, PTL DEF Inv

\* A departed host has handed the room on.
THEOREM TheHostIsHere == Spec => []HostIsInTheRoom
BY Invariant, PTL DEF Inv

\* No move, bot or timer changes the match while somebody is away.
THEOREM ThePauseHolds == Spec => PauseHolds
<1>1. ASSUME Inv, [Next]_vars
      PROVE  InPlay /\ dropped # {} /\ match' # match =>
               \/ match' = NoMatch
               \/ \E p \in match.active \cap Human :
                    /\ match'.active = match.active \ {p}
                    /\ conn'[p] \in {"out", "departed"}
  <2> SUFFICES ASSUME InPlay, dropped # {}, match' # match, match' # NoMatch
               PROVE  \E p \in match.active \cap Human :
                        /\ match'.active = match.active \ {p}
                        /\ conn'[p] \in {"out", "departed"}
    OBVIOUS
  <2>1. TypeOK /\ conn \in [Human -> Place]
    BY <1>1 DEF Inv, TypeOK
  <2>2. ~AdvanceStartingSelection
    BY <1>1 DEF AdvanceStartingSelection, Inv, BeforeTheMatch, InPlay, NoMatch
  <2>3. /\ ~Lobbying /\ ~BeginStartingSelection /\ ~RevealStartingChoices
        /\ ~Moved /\ ~Idled /\ ~Dispose /\ ~UNCHANGED vars
        /\ ~\E p \in Human : RequestRematch(p)
    BY DEF Lobbying, Join, Joined, SetPlayerReady, UpdateRoomSettings, RequestStartGame,
       KickPlayer, TransferHost, BeginStartingSelection, RevealStartingChoices, Moved,
       Idled, Dispose, RequestRematch, lobby, vars
  <2>4. PICK p \in Human : Connection(p)
    BY <1>1, <2>1, <2>2, <2>3, Effects
  <2>5. PICK place \in {"out", "departed"} : Forfeited(p, place)
    BY <2>4 DEF Connection, Leaving, Aborted, AbortStartingSelection, Released, Dropping,
       OnReconnect, Resume
  <2>6. match'.active = match.active \ {p} /\ p \in match.active
    BY <2>1, <2>5, ForfeitFacts DEF Forfeited
  <2>7. conn'[p] = place
    BY <2>1, <2>5 DEF Forfeited, Move
  <2> QED
    BY <2>6, <2>7
<1> QED
  BY Invariant, <1>1, PTL DEF Spec, PauseHolds
=============================================================================
