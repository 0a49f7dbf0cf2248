----------------------------- MODULE RoomProperties -----------------------------
(***************************************************************************)
(* What the room promises.                                                 *)
(***************************************************************************)
EXTENDS Room

\* The room has the shape of CipherDeckRoom's fields.
TypeOK ==
  /\ conn \in [Human -> Place]
  /\ host \in Human \cup {NoPlayer}
  /\ ready \in SUBSET Human
  /\ dropped \in SUBSET Human
  /\ selection \in [phase : {"none", "choosing", "revealed", "stuck", "joker-placement"},
                    players : SUBSET Seat]
  /\ match \in [stage : {"none", "opening", "turns", "over"}, active : SUBSET Seat,
                turn : Seat \cup {NoPlayer}, unplaced : SUBSET Seat]
  /\ starts \in Seq(0..Cardinality(Human))
  /\ bots \in SUBSET Bot
  /\ turnTimer \in BOOLEAN
  /\ botTimer \in BOOLEAN
  /\ resuming \in SUBSET Human

\* While somebody is away no move, bot or timer changes the match: it only
\* loses a player who left or ran out of time, or is aborted as a whole.
PauseHolds ==
  [][InPlay /\ dropped # {} /\ match' # match =>
       \/ match' = NoMatch
       \/ \E p \in match.active \cap Human :
            /\ match'.active = match.active \ {p}
            /\ conn'[p] \in {"out", "departed"}]_vars

\* The action timer runs throughout a match, but for the pause and the
\* moment in which the last player to return is announced.
TurnTimerRuns ==
  TimerOn /\ InPlay /\ dropped = {} /\ resuming = {} => turnTimer

\* Whoever is waited for is known to be away, so the pause cannot end before
\* the last of them is back or out.
AwayPlayersPause ==
  \A p \in Human : conn[p] \in {"selecting", "gone", "playing"} => p \in dropped

\* A player still in a match in play is connected or has a window open:
\* nobody has gone for good without forfeiting.
PlayersInPlayArePresent ==
  InPlay => match.active \cap Human \subseteq
              Clients \cup {p \in Human : conn[p] = "playing"}

\* Host rights never stay with somebody who is out of the room.
HostIsInTheRoom == host # NoPlayer => conn[host] # "out"

\* With the action timer on, and unless somebody is away again and again or
\* for ever, a match comes to its end, whoever stops playing.
MatchEnds == <>[](dropped = {}) => (InPlay ~> ~InPlay)

-----------------------------------------------------------------------------
(***************************************************************************)
(* What the rules say and the code does not do.                            *)
(***************************************************************************)
\* docs/GAME_RULES.md:61: a player whose time to return is over is
\* eliminated, and the match goes on for the players who stay.
ForfeitKeepsTheMatch ==
  [][\A p \in Human :
       /\ InPlay /\ conn[p] # "departed" /\ conn'[p] = "departed"
       /\ \E q \in match.active \cap Human : conn[q] = "seated"
       => match' # NoMatch]_vars

\* docs/GAME_RULES.md:59: a drop pauses the room for 30 seconds; when no
\* window is open any more, no match is paused.
PauseEnds ==
  (\A p \in Human : conn[p] \in {"out", "seated"}) /\ InPlay => dropped = {}

\* docs/GAME_RULES.md:62: play advances to the next player.  When that is a
\* bot, and a player is there to see it, something is to make it act.
BotsKeepPlaying ==
  /\ match.stage = "turns" /\ match.turn \in bots
  /\ dropped = {} /\ \E p \in Human : conn[p] = "seated"
  => botTimer \/ turnTimer \/ resuming # {}
=============================================================================
