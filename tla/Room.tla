---------------------------------- MODULE Room ----------------------------------
(***************************************************************************)
(* The room of CipherDeckRoom.ts: who is connected, the lobby and its      *)
(* host, the start of a match, the match in play with the turn and bot     *)
(* timers, drops, returns, departures and rematches.                       *)
(*                                                                         *)
(* Of a match the room knows what MatchSteps says, which is what a match   *)
(* of CipherDeckGame does (RoomSeesTheMatch of GameProperties), and of a   *)
(* selection its phase and its players (RoomSeesTheSelection of            *)
(* SelectionProperties).  Node runs one handler at a time, so an action    *)
(* here is what a handler does between two awaits that matter.  A person   *)
(* has one connection at a time; module Joins is about several.            *)
(*                                                                         *)
(* Of the Colyseus library this takes: a closed connection is out of the   *)
(* room's clients before onDrop (or, when the client left by itself,       *)
(* onLeave) is called, and onLeave follows an onDrop that ends without the *)
(* player's return.  Which of the two it calls for a connection the room   *)
(* itself closes with client.leave(code) is left open.                     *)
(*                                                                         *)
(* An operator F_Xyz that stands before F is F with a bug a programmer     *)
(* might have written; the README says which property each one breaks.     *)
(***************************************************************************)
EXTENDS MatchSteps, Sequences

CONSTANTS Human,      \* the people with an account
          NoPlayer,
          Desired,    \* desiredPlayers
          TimerOn,    \* settings.turnSeconds > 0
          OnExpulsion,   \* what the library may call when the room closes a
                         \* connection: "onDrop", "onLeave" or either
          MaxStarts   \* bound: requests to start that may be under way

ASSUME RoomAssumption ==
  /\ Desired \in 3..6
  /\ IsFiniteSet(Human)
  /\ Human \cap (1..6) = {}
  /\ NoPlayer \notin Human \cup (1..6)
  /\ TimerOn \in BOOLEAN
  /\ OnExpulsion \subseteq {"onDrop", "onLeave"}
  /\ MaxStarts \in Nat

Bot == 1..Desired
Seat == Human \cup Bot

(***************************************************************************)
(* Where a person's connection is.  "joining": in onJoin, which awaits the *)
(* registries; "expelled": told to leave but not gone; "selecting" and     *)
(* "playing": dropped from a selection or a match, with the window of      *)
(* allowReconnection open ("gone": the same after an expulsion, so nobody  *)
(* returns); "departed": the window ended; "leaving": in an onLeave that   *)
(* awaits the registries ("answering": the same, since before the choices  *)
(* of a selection were revealed).                                          *)
(***************************************************************************)
Place == {"out", "joining", "seated", "expelled",
          "selecting", "gone", "playing", "departed", "leaving", "answering"}

NoSelection == [phase |-> "none", players |-> {}]
NoMatch == [stage |-> "none", active |-> {}, turn |-> NoPlayer, unplaced |-> {}]

VARIABLES
  conn,       \* where each person's connection is
  host,       \* hostPlayerId
  ready,      \* readyPlayerIds
  dropped,    \* droppedPlayerIds, the keys of reconnectDeadlines too
  selection,  \* startingSelection: its phase and its players
  match,      \* game
  starts,     \* for each requestStartGame that awaits its commits, the
              \* number of players it has counted
  bots,       \* botPlayerIds, by number
  turnTimer, botTimer,   \* the timer is armed
  resuming    \* the onReconnects that await the room's new status

lobby == <<host, ready, selection, starts, bots>>
vars == <<conn, host, ready, dropped, selection, match, starts, bots,
          turnTimer, botTimer, resuming>>

\* playerClients
Clients == {p \in Human : conn[p] \in {"joining", "seated", "expelled"}}

InLobby == selection = NoSelection /\ match = NoMatch
InPlay == match.stage \in {"opening", "turns"}

Move(p, place) == conn' = [conn EXCEPT ![p] = place]

\* armTurnTimer and resumeTurnTimer, for the match g with these people away.
Armed(g, away) == TimerOn /\ g.stage \in {"opening", "turns"} /\ away = {}

-----------------------------------------------------------------------------
(***************************************************************************)
(* Joining (onJoin).  The lock of a full room only stops new reservations  *)
(* of seats (module Joins); a seat reserved before may still be taken.     *)
(***************************************************************************)
Join(p) ==
  /\ conn[p] = "out"
  /\ Move(p, "joining")
  /\ UNCHANGED <<lobby, dropped, match, turnTimer, botTimer, resuming>>

Expel(p) == Move(p, "expelled") /\ UNCHANGED host

\* The registries have answered: the account is busy elsewhere, the room is
\* full or has started, or the client is seated.
Joined(p) ==
  /\ conn[p] = "joining"
  /\ \/ Expel(p)
     \/ /\ Cardinality(Clients) <= Desired
        /\ InLobby
        /\ Move(p, "seated")
        /\ host' = IF host = NoPlayer THEN p ELSE host
  /\ UNCHANGED <<ready, dropped, selection, match, starts, bots, turnTimer,
                 botTimer, resuming>>

-----------------------------------------------------------------------------
(***************************************************************************)
(* The lobby.                                                              *)
(***************************************************************************)
\* setPlayerReady
SetPlayerReady(p) ==
  /\ conn[p] = "seated"
  /\ InLobby
  /\ p # host
  /\ ready' \in {ready \cup {p}, ready \ {p}}
  /\ UNCHANGED <<conn, host, selection, starts, bots, dropped, match,
                 turnTimer, botTimer, resuming>>

\* lobbyTarget
Manages(h, p) ==
  /\ conn[h] = "seated" /\ h = host
  /\ InLobby
  /\ p \in Clients \ {h}

KickPlayer(h, p) ==
  /\ Manages(h, p)
  /\ Move(p, "expelled")
  /\ UNCHANGED <<lobby, dropped, match, turnTimer, botTimer, resuming>>

TransferHost(h, p) ==
  /\ Manages(h, p)
  /\ host' = p
  /\ ready' = ready \ {p}
  /\ UNCHANGED <<conn, selection, starts, bots, dropped, match,
                 turnTimer, botTimer, resuming>>

\* updateRoomSettings, with settings that are accepted
UpdateRoomSettings(h) ==
  /\ conn[h] = "seated" /\ h = host
  /\ InLobby
  /\ ready' = {}
  /\ UNCHANGED <<conn, host, selection, starts, bots, dropped, match,
                 turnTimer, botTimer, resuming>>

\* requestStartGame, up to the commits of the guests' sessions.
RequestStartGame(h) ==
  /\ conn[h] = "seated" /\ h = host
  /\ InLobby
  /\ Clients \ {h} \subseteq ready
  /\ Len(starts) < MaxStarts
  /\ starts' = Append(starts, Cardinality(Clients))
  /\ UNCHANGED <<conn, host, ready, selection, bots, dropped, match,
                 turnTimer, botTimer, resuming>>

\* Its end: bots for the seats nobody had when it counted, and the players
\* who are in the room now (beginStartingSelection).  Hands that cannot be
\* dealt are refused (computeInitialHandSizes throws): those of fewer than
\* three players or more than six, and under some settings, which are only
\* checked for Desired players, those of more than Desired.
BeginStartingSelection ==
  /\ starts # <<>>
  /\ starts' = Tail(starts)
  /\ bots' = (Head(starts) + 1)..Desired
  /\ LET players == Clients \cup bots' IN
     \/ /\ Cardinality(players) \notin 3..Desired
        /\ UNCHANGED <<selection, botTimer>>
     \/ /\ Cardinality(players) \in 3..6
        /\ selection' = [phase |-> "choosing", players |-> players]
        /\ botTimer' = TRUE
  /\ UNCHANGED <<conn, host, ready, dropped, match, turnTimer, resuming>>

-----------------------------------------------------------------------------
(***************************************************************************)
(* The selection.  Its choices are revealed when all are made or the time  *)
(* is up, and 1.8 seconds later there is another round or the match.  The  *)
(* assumption on time is that no answer of the registries takes as long:   *)
(* the starts were asked for in the lobby, and an onLeave that was waiting *)
(* when the choices were revealed is through before the timer fires.       *)
(***************************************************************************)
RevealStartingChoices ==
  /\ selection.phase = "choosing"
  /\ selection' = [selection EXCEPT !.phase = "revealed"]
  /\ conn' = [p \in Human |-> IF conn[p] = "leaving" THEN "answering" ELSE conn[p]]
  /\ UNCHANGED <<host, ready, starts, bots, dropped, match,
                 turnTimer, botTimer, resuming>>

RegistriesHaveAnswered ==
  starts = <<>> /\ \A p \in Human : conn[p] # "answering"

\* finalizeStartingSelection: the players who own the opening Jokers and the
\* one who starts are any of them.
StartMatch(players, timer) ==
  /\ match' \in NewMatches(players)
  /\ selection' = IF match'.unplaced = {} THEN NoSelection
                  ELSE [selection EXCEPT !.phase = "joker-placement"]
  /\ turnTimer' = timer
  /\ botTimer' = TRUE

\* advanceStartingSelection.  It throws when those in the room are not those
\* with a card, and leaves the selection without a timer.
AdvanceStartingSelection_WhoeverIsThere ==
  /\ selection.phase = "revealed"
  /\ RegistriesHaveAnswered
  /\ \/ /\ selection' = [selection EXCEPT !.phase = "choosing"]
        /\ botTimer' = TRUE
        /\ UNCHANGED <<match, turnTimer>>
     \/ StartMatch(selection.players, TimerOn /\ dropped = {})
  /\ UNCHANGED <<conn, host, ready, starts, bots, dropped, resuming>>

AdvanceStartingSelection ==
  /\ selection.phase = "revealed"
  /\ RegistriesHaveAnswered
  /\ \/ /\ selection' = [selection EXCEPT !.phase = "choosing"]
        /\ botTimer' = TRUE
        /\ UNCHANGED <<match, turnTimer>>
     \/ /\ Clients \cup bots = selection.players
        /\ StartMatch(selection.players, TimerOn /\ dropped = {})
     \/ /\ Clients \cup bots # selection.players
        /\ selection' = [selection EXCEPT !.phase = "stuck"]
        /\ UNCHANGED <<match, turnTimer, botTimer>>
  /\ UNCHANGED <<conn, host, ready, starts, bots, dropped, resuming>>

-----------------------------------------------------------------------------
(***************************************************************************)
(* The match in play.                                                      *)
(***************************************************************************)
\* What follows a move that is accepted (applyAction, afterBotAction).
AfterAction ==
  /\ turnTimer' = Armed(match', dropped)
  /\ botTimer' = TRUE
  /\ UNCHANGED <<conn, host, ready, starts, bots, dropped, resuming>>

\* applyAction and applyGuess
ApplyAction(p) ==
  /\ conn[p] = "seated"
  /\ dropped = {}
  /\ match.stage = "turns" /\ match.turn = p
  /\ match' \in AfterMove(match)
  /\ UNCHANGED selection
  /\ AfterAction

PlaceJoker(p) ==
  /\ p \in match.unplaced
  /\ match' \in AfterPlacing(match, p)
  /\ selection' = IF match'.unplaced = {} THEN NoSelection ELSE selection
  /\ AfterAction

ApplyStartingJokerPlacement(p) ==
  /\ conn[p] = "seated"
  /\ dropped = {}
  /\ match.stage = "opening" /\ selection.phase = "joker-placement"
  /\ PlaceJoker(p)

\* runBotStep.  Whether a bot has still to choose a card is left open; where
\* no bot can act the step is not scheduled again.
RunBotStep_IgnoresThePause ==
  /\ botTimer
  /\ InPlay /\ match.stage = "turns" /\ match.turn \in bots
  /\ match' \in AfterMove(match)
  /\ UNCHANGED selection
  /\ AfterAction

RunBotStep ==
  /\ botTimer
  /\ IF selection.phase = "choosing"
     THEN /\ botTimer' \in BOOLEAN
          /\ UNCHANGED <<conn, lobby, dropped, match, turnTimer, resuming>>
     ELSE IF InPlay /\ dropped = {} /\ match.unplaced \cap bots # {}
     THEN \E p \in match.unplaced \cap bots : PlaceJoker(p)
     ELSE IF match.stage = "turns" /\ dropped = {} /\ match.turn \in bots
     THEN /\ match' \in AfterMove(match)
          /\ UNCHANGED selection
          /\ AfterAction
     ELSE /\ botTimer' = FALSE
          /\ UNCHANGED <<conn, lobby, dropped, match, turnTimer, resuming>>

\* handleTurnTimeout
HandleTurnTimeout ==
  /\ turnTimer
  /\ IF InPlay /\ dropped = {}
     THEN /\ match' \in AfterTimeout(match)
          /\ UNCHANGED selection
          /\ AfterAction
     ELSE /\ turnTimer' = FALSE
          /\ UNCHANGED <<conn, lobby, dropped, match, botTimer, resuming>>

\* requestRematch
RequestRematch(h) ==
  /\ conn[h] = "seated" /\ h = host
  /\ match.stage = "over"
  /\ match' = NoMatch
  /\ selection' = NoSelection
  /\ bots' = {}
  /\ ready' = {}
  /\ turnTimer' = FALSE
  /\ botTimer' = FALSE
  /\ UNCHANGED <<conn, host, starts, dropped, resuming>>

-----------------------------------------------------------------------------
(***************************************************************************)
(* Departures.                                                             *)
(***************************************************************************)
\* transferDepartedHost: the first other client becomes host; still is who is
\* ready otherwise.
TransferDepartedHost_Kept(p, still) == host' = host /\ ready' = still

TransferDepartedHost(p, still) ==
  LET others == Clients \ {p} IN
  /\ IF host # p THEN host' = host
     ELSE IF others = {} THEN host' = NoPlayer ELSE host' \in others
  /\ ready' = IF host # p THEN still ELSE still \ {host'}

\* abortStartingSelection, with the transfer its callers make, ends whatever
\* there is by now.  (The turn and bot timers go on.)
AbortStartingSelection_ForgetsEverybody(p) ==
  /\ selection' = NoSelection
  /\ TransferDepartedHost(p, {})
  /\ match' = NoMatch
  /\ dropped' = {}
  /\ UNCHANGED <<turnTimer, botTimer>>

AbortStartingSelection(p) ==
  /\ selection' = NoSelection
  /\ TransferDepartedHost(p, {})
  /\ match' = NoMatch
  /\ dropped' = dropped \ {p}
  /\ UNCHANGED <<turnTimer, botTimer>>

\* forfeitDisconnectedPlayer.  Where it returns early, p stays in dropped.
ForfeitDisconnectedPlayer_KeepsThePause(p) ==
  IF ~InPlay \/ p \notin match.active
  THEN UNCHANGED <<match, dropped, selection, turnTimer>>
  ELSE /\ match' \in AfterOut(match, {p})
       /\ dropped' = dropped \ {p}
       /\ selection' = IF match'.stage # "opening" THEN NoSelection ELSE selection
       /\ UNCHANGED turnTimer

ForfeitDisconnectedPlayer(p) ==
  IF ~InPlay \/ p \notin match.active
  THEN UNCHANGED <<match, dropped, selection, turnTimer>>
  ELSE /\ match' \in AfterOut(match, {p})
       /\ dropped' = dropped \ {p}
       /\ selection' = IF match'.stage # "opening" THEN NoSelection ELSE selection
       /\ turnTimer' = IF match'.stage = "over" THEN FALSE
                       ELSE IF dropped' = {} \/ match'.turn # match.turn
                       THEN Armed(match', dropped') ELSE turnTimer

\* onLeave, for a connection that is out of the clients: with a match in play
\* the player forfeits, otherwise the registries are awaited first.
OnLeave(p) ==
  IF ~InPlay
  THEN /\ Move(p, "leaving")
       /\ UNCHANGED <<lobby, dropped, match, turnTimer>>
  ELSE /\ Move(p, "out")
       /\ TransferDepartedHost(p, ready)
       /\ ForfeitDisconnectedPlayer(p)
       /\ UNCHANGED <<starts, bots>>

\* The rest of onLeave; it may find a selection that began meanwhile.
LeaveReleased(p) ==
  /\ conn[p] \in {"leaving", "answering"}
  /\ Move(p, "out")
  /\ IF selection # NoSelection
     THEN AbortStartingSelection(p)
     ELSE /\ TransferDepartedHost(p, ready \ {p})
          /\ UNCHANGED <<selection, match, dropped, turnTimer, botTimer>>
  /\ UNCHANGED <<starts, bots, resuming>>

\* The player leaves by choice, or was made to leave.
Leave(p) ==
  /\ \/ conn[p] = "seated"
     \/ conn[p] = "expelled" /\ "onLeave" \in OnExpulsion
  /\ OnLeave(p)
  /\ UNCHANGED <<botTimer, resuming>>

-----------------------------------------------------------------------------
(***************************************************************************)
(* Drops and returns.                                                      *)
(***************************************************************************)
\* onDrop, up to allowReconnection.
Drop(p) ==
  /\ \/ conn[p] = "seated"
     \/ conn[p] = "expelled" /\ "onDrop" \in OnExpulsion
  /\ IF selection # NoSelection /\ match = NoMatch
     THEN /\ Move(p, IF conn[p] = "seated" THEN "selecting" ELSE "gone")
          /\ dropped' = dropped \cup {p}
          /\ UNCHANGED <<lobby, match, turnTimer>>
     ELSE IF ~InPlay \/ p \notin match.active
     THEN OnLeave(p)
     ELSE /\ Move(p, "playing")
          /\ dropped' = dropped \cup {p}
          /\ turnTimer' = FALSE
          /\ UNCHANGED <<lobby, match>>
  /\ UNCHANGED <<botTimer, resuming>>

\* The player does not return in time (the catch blocks of onDrop): the
\* window opened in a selection aborts, the one of a match forfeits.
ReconnectionFails(p) ==
  /\ Move(p, "departed")
  /\ \/ /\ conn[p] \in {"selecting", "gone"}
        /\ AbortStartingSelection(p)
     \/ /\ conn[p] = "playing"
        /\ TransferDepartedHost(p, ready)
        /\ ForfeitDisconnectedPlayer(p)
        /\ UNCHANGED botTimer
  /\ UNCHANGED <<starts, bots, resuming>>

\* onLeave after onDrop
Depart(p) ==
  /\ conn[p] = "departed"
  /\ OnLeave(p)
  /\ UNCHANGED <<botTimer, resuming>>

\* onReconnect; its rest runs when the room's new status is out.
OnReconnect(p) ==
  /\ conn[p] \in {"selecting", "playing"}
  /\ Move(p, "seated")
  /\ dropped' = dropped \ {p}
  /\ resuming' = resuming \cup {p}
  /\ UNCHANGED <<lobby, match, turnTimer, botTimer>>

Resume_Never(p) ==
  /\ p \in resuming
  /\ resuming' = resuming \ {p}
  /\ UNCHANGED <<conn, lobby, dropped, match, turnTimer, botTimer>>

Resume(p) ==
  /\ p \in resuming
  /\ resuming' = resuming \ {p}
  /\ turnTimer' = IF match # NoMatch /\ dropped = {}
                  THEN Armed(match, dropped) ELSE turnTimer
  /\ UNCHANGED <<conn, lobby, dropped, match, botTimer>>

-----------------------------------------------------------------------------
Init ==
  /\ conn = [p \in Human |-> "out"]
  /\ host = NoPlayer
  /\ ready = {} /\ dropped = {}
  /\ selection = NoSelection /\ match = NoMatch
  /\ starts = <<>> /\ bots = {}
  /\ turnTimer = FALSE /\ botTimer = FALSE
  /\ resuming = {}

\* The library disposes of a room without clients, open windows and reserved
\* seats (onDispose clears the timers); the next people are in a new room.
Dispose ==
  /\ conn = [p \in Human |-> "out"] /\ UNCHANGED conn
  /\ host' = NoPlayer
  /\ ready' = {} /\ dropped' = {}
  /\ selection' = NoSelection /\ match' = NoMatch
  /\ starts' = <<>> /\ bots' = {}
  /\ turnTimer' = FALSE /\ botTimer' = FALSE
  /\ resuming' = {}

Next ==
  \/ BeginStartingSelection
  \/ RevealStartingChoices
  \/ AdvanceStartingSelection
  \/ RunBotStep
  \/ Dispose
  \/ HandleTurnTimeout
  \/ \E p \in Human :
        \/ Join(p) \/ Joined(p)
        \/ SetPlayerReady(p) \/ UpdateRoomSettings(p) \/ RequestStartGame(p)
        \/ \E q \in Human : KickPlayer(p, q) \/ TransferHost(p, q)
        \/ ApplyAction(p) \/ ApplyStartingJokerPlacement(p) \/ RequestRematch(p)
        \/ Leave(p) \/ LeaveReleased(p)
        \/ Drop(p) \/ ReconnectionFails(p) \/ Depart(p)
        \/ OnReconnect(p) \/ Resume(p)

(***************************************************************************)
(* An armed turn timer fires and an awaited status update returns.  A      *)
(* timer may be armed anew by every move, but the moves of a match come to *)
(* an end (EveryStepIsProgress of GameProperties).                         *)
(***************************************************************************)
Spec ==
  /\ Init
  /\ [][Next]_vars
  /\ WF_vars(HandleTurnTimeout)
  /\ WF_vars(\E p \in Human : Resume(p))
=============================================================================
