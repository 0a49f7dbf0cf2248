# A TLA+ model of CipherDeck

CipherDeck is a turn-based deduction card game for three to six players.  A
realtime server keeps each match, a browser client renders it, and an HTTP API
keeps accounts and results.  This directory holds a model of that system: TLA+
modules translated from the source, TLC configurations that check them on small
instances, and proofs that TLAPS checks for every instance.

- [The system](#the-system)
- [The modules](#the-modules)
- [What TLC checks](#what-tlc-checks)
- [What is proved](#what-is-proved)
- [Where the code and its documents disagree](#where-the-code-and-its-documents-disagree)
- [What is not modelled](#what-is-not-modelled)
- [Plan](#plan)

## The system

| part | code | state it keeps | operations |
|---|---|---|---|
| rules engine | `shared/src/game.ts`, `rack.ts` | `GameState`: racks, revealed cards, draw pile, whose turn, phase, drawn card, opening Jokers, winner | deal, draw, guess, stop, insert, self-penalty, place opening Joker, forfeit, timeout |
| starting selection | `shared/src/setup.ts`, `CipherDeckRoom.ts:538-737` | options, choices, resolved cards, remaining and discarded cards, two timers | begin, select, choice timeout, reveal, next round, finalize, abort |
| deck | `shared/src/deck.ts` | none | build and shuffle decks of 24 to 56 cards |
| room | `server/src/CipherDeckRoom.ts` | lobby, host, readiness, settings, bots, dropped players and their deadlines, turn timer, spectators | join, leave, drop, reconnect, ready, settings, kick, start, rematch, bot steps, result report |
| registries | `guestSessions.ts`, `userRoomRegistry.ts`, `roomCodeRegistry.ts` | reservations of guests, accounts and codes, in memory or in Redis | reserve, commit, release |
| result outbox | `app.config.ts`, `routers/matches.py` | a Redis list of reports; the rows of the API | enqueue, deliver, retry; store once |
| view projection | `shared/src/view.ts` | none | what each viewer may see of a state |
| API sessions | `services.py`, `routers/auth.py` | refresh sessions and their families | sign in, rotate, revoke, log out |
| API social, decks | `routers/social.py`, `admin.py` | friendships and blocks; deck themes and assets | request, accept, remove, block; upload, activate, delete |
| rate limiter | `rate_limit.py` | counters per window | count, fail open |
| client | `client/src` | what the server last sent | render, send actions |

How they interact.  The room is an actor: Colyseus delivers one message at a
time, and a handler that awaits lets others run in between.  Messages, timers
(choice, reveal, turn, bot), drops and reconnections all meet in the room's
handlers.  The room calls the rules engine, a set of pure functions from a state
and a move to the next state that throw when the move is illegal.  Between the
lobby and the engine stands the starting selection, which hands the engine its
first deal.  The registries are shared by all rooms and, with Redis, by all
server processes.  When a match is over the room puts a report in the outbox,
which delivers it to the API.

What is hard:

- *Any order of moves, forfeits and timeouts.*  A forfeit may come in any phase,
  from the player to act or another; the deadline of the opening forfeits several
  players in one step.  The cards on the table, the Jokers still to place and the
  turn must be settled by it.
- *The selection's timers and ties.*  A choice races the timer; ties repeat until
  the deck must be filled up with discards; players drop and leave meanwhile.
- *Awaits.*  The room's handlers read its state, await Redis, and go on.
- *Several timers per player.*  Reconnection windows of different players overlap
  with each other and with the turn timer.
- *At-least-once delivery* of reports, and token rotation racing logout.

`PROJECT.json` lists every hazard found, at its line, with the properties that
cover it.

What makes each part correct:

- rules engine: no card is lost or in two places; racks stay in order; the match
  is over exactly when one player is left; the active player can always act; with
  the timer on it ends;
- bots: no deduction rules out the truth;
- selection: cards are conserved, every player gets one, only the starter can get
  a Joker, every phase has its timer, ties are broken with other cards;
- room: nobody is missing from a match without a forfeit, pauses pause and end, a
  start uses the players who are there, no timer is forgotten, the host is in the
  room;
- registries: an account sits in one room, whoever sits has the reservation,
  rejected joins give back exactly what they took, free seats are open;
- outbox: a finished match is stored whole and once, and not lost;
- sessions: a sign-in has one living token, an identity one user, and nobody is
  signed out by tabs that refresh at once.

## The modules

```
Racks ── OpeningDeal ──┬── CipherDeckGame ─┬─ GameProperties ──┬── MCGame
                       │                   │   ╰ INSTANCE Match│
                       │                   ╰─ BotGuesses ──────┤
                       │                      GameProofs ──────┴── MatchProofs
                       ╰── StartingSelection ── SelectionProperties ── MCSelection
                                                       ╰── SelectionProofs
RackFacts (lemmas about Racks) is extended by GameProofs and SelectionProofs.

MatchSteps (what the room knows of a match) is extended by GameProperties and Room.

Room ─────── RoomProperties ─────── MCRoom,     RoomProofs
Joins ────── JoinsProperties ────── MCJoins,    JoinsProofs     (INSTANCE Seats)
Outbox ───── OutboxProperties ───── MCOutbox,   OutboxProofs    (INSTANCE Results)
Sessions ─── SessionsProperties ─── MCSessions, SessionsProofs  (INSTANCE SignIns)
```

**Racks** (`types.ts`, `rack.ts`).  A card is its opaque id; `Value` is the sort
key of a standard card, twice its rank plus its color, so that equal keys are
the cards `compareStandardCards` and a guess cannot tell apart.  Filtering,
stable sorting with Jokers in place, and insertion at the legal indexes are
operators on sequences without recursion, so that they can be proved about.

**OpeningDeal**.  Seats, and `IsOpening`: what the selection hands to the engine.
`SelectionProofs` proves that the selection delivers it and `CipherDeckGame`
assumes it, so the two fit together.

**CipherDeckGame** (`game.ts`).  One variable, `game`, the code's `GameState`;
one action per exported function, its guard the conditions that throw
(`DrawCard`, `StopGuessingAndPlace`, `InsertDrawnCard`, `ResolveGuess`,
`RevealSelfPenalty`, `PlaceStartingJoker`, `Forfeit`, `ResolveTurnTimeout`).  The
`revealed` flag of a card is membership in one set.  The deal is `CreateGame`,
where the loop that goes round the table is counted instead of run
(`DealtUpTo`).  Left out: the turn number and `startingCardIds`, which the engine
never reads.

**BotGuesses** (`view.ts`, `chooseBotGuess`).  What a viewer sees of a rack, and
the guesses a hard bot draws from given that view.  The bots' memory of wrong
guesses is left out: a card never changes, so it only removes wrong guesses.

**Match**.  The abstract match: who is in, whose turn it is, who has an opening
Joker to place.  Players leave one at a time (several only during the opening),
the turn passes to the next player in, the last player wins.  `GameProperties`
maps the engine's state to it (`Abstract`).

**MatchSteps**.  The matches that one call of the engine may return, as far as
the room can tell them apart: whether the match is in its opening, in turns or
over, who is in, whose turn it is, and who has an opening Joker to place, with
the order of the seats forgotten.  `Room` is built on these operators, and
`RoomSeesTheMatch` in `GameProperties` says that the engine does nothing else, so
that the two models meet in one place.

**StartingSelection** (`setup.ts`, `CipherDeckRoom.ts`).  The variable `selection`
is the room's `startingSelection`; phases `dealt` and `aborted` are what became
of it.  `choiceTimer` and `revealTimer` say which timeouts are armed,
`beginning` that `beginStartingSelection` still awaits the room's status, and
`dropped` is `droppedPlayerIds`.  The deck is shuffled before the selection and
again after it, so the cards not on the table are sets and a draw takes any of
them.  Bots choose like players; they have no connection to lose.

**Room** (`CipherDeckRoom.ts`).  One room from its first join to its disposal,
with matches and rematches in between: readiness, kicks, host rights, the start
with its awaited commits (`starts`), the turn and bot timers, drops with their
windows, returns, departures with their awaits, and aborts.  Node runs one
handler at a time, so an action is what a handler does between two awaits that
matter.  A start is refused for a table that cannot be dealt: fewer than three
players, more than six, or, under some settings, more than `Desired`, since
`computeInitialHandSizes` was only asked about that many; the model leaves open
which.  The engine is there as the steps of `MatchSteps`, the selection as its
phase; `CipherDeckGame` and `StartingSelection` have their details, and
`RoomSeesTheMatch` and `RoomSeesTheSelection` say that they fit.

**Joins** (`CipherDeckRoom.ts`, `guestSessions.ts`, `userRoomRegistry.ts`).
`onJoin`, `onDrop` and `onLeave` with one Redis command a step, for several tabs,
accounts and rooms: reserving, finding oneself already reserved, the checks after
the awaits, undoing, committing at the start, releasing, locking and unlocking.
**Seats** is what the registries promise, and `JoinsProperties` maps the tabs and
the bindings to it.  The code admits two tabs of one account in one room, and the
first may then lose its reservation (finding 5 below).  What follows from a
seat's reservation is therefore said of the accounts with one tab a room
(`Single`), whatever the others do: `PlayersAreCommitted` is about such guests,
and the mapping to `Seats` takes the seats of such accounts, and the commitments
of every guest.

**Outbox** (`app.config.ts`, `routers/matches.py`, `models.py`).  The game server
posts a result, keeps it in a Redis list when that fails and retries on a timer;
the API looks for the rows of a match and inserts those that are missing under a
unique constraint.  The two ends of a delivery fail apart.  Faults, up to
`MaxFaults`: a lost answer, an aborted request, a requeue that fails, a crash of
the game server.  **Results** is what the players see of it: a match that was
played gets its rows in one step, once, and keeps them.

**Sessions** (`services.py`, `routers/auth.py`, `models.py`).  Google sign-in,
refresh and logout of the tabs of a browser, which share one cookie; a step is a
query, or what is written and its commit.  **SignIns** is what refresh tokens
promise: a sign-in begins with one, a token is used once, for the next one of its
sign-in, and what was used or ended never works again.

In these modules an operator `F_Xyz` stands before `F` and is `F` with a bug
somebody might write: a guard dropped, a timer not cleared, a card not put back.
Nothing uses it; putting it in the place of `F` breaks the property below, and so
shows that the property sees that bug.

| operator | breaks | in run |
|---|---|---|
| `RackAfterPlacing_DropsOthers` | `CardsConserved` | `game_safety` |
| `RackWithDrawnCard_Unsorted` | `RacksOrdered` | `game_safety` |
| `EndTurn_NoEndGame` | `EliminatedIffAllRevealed` | `game_safety` |
| `UpdateEndGame_LastCardToo` | `LastActivePlayerWins` | `game_safety` |
| `AfterWrongGuess_FaceDown` | `DrawnCardMatchesPhase` | `game_safety` |
| `AdvanceTurn_AlwaysDraw` | `CurrentPlayerCanMove` | `game_safety` |
| `JokersAfterForfeit_Kept` | `OpeningJokersGateTheFirstTurn` | `game_safety` |
| `Fits_Strictly` | `HardBotsKeepTheTruth` | `game_safety` |
| `Forfeit_AfterTheEnd` | `NothingIsTakenBack` | `game_safety` |
| `RackWithDrawnCard_Forgets` | `DrawnCardIsKept` | `game_safety` |
| `NextActive_Backwards` | `ImplementsMatch` | `game_safety` |
| `TimeoutStep_OnTurnOnly` | `RoomSeesTheMatch` | `game_safety` |
| `AfterWrongGuess_NoPenalty` | `EveryStepIsProgress` | `game_timed` |
| `NextActive_Neighbor` | `GameEnds` | `game_timed` |
| `TakeOptions_NoRefill` | `TypeOK` | `selection` |
| `Discards_AllOptions` | `SelectionConservesCards` | `selection` |
| `Reveal_TiedKeepTheirs` | `EveryPlayerIsAccountedFor` | `selection` |
| `StartValue_JokerUnranked` | `ResultIsAnOpening` | `selection` |
| `ClearChoiceTimer_Forgotten` | `TimersMatchPhase` | `selection` |
| `Candidates_AnyCard` | `TiesAreBrokenWithOtherCards` | `selection` |
| `Finalize_WhoeverIsThere` | `RoomSeesTheSelection` | `selection` |
| `NextRound_TimerNotArmed` | `SelectionMovesOn` | `selection` |
| `ForfeitDisconnectedPlayer_KeepsThePause` | `TurnTimerRuns` | `room` |
| `AbortStartingSelection_ForgetsEverybody` | `AwayPlayersPause` | `room` |
| `AdvanceStartingSelection_WhoeverIsThere` | `PlayersInPlayArePresent` | `room` |
| `TransferDepartedHost_Kept` | `HostIsInTheRoom` | `room` |
| `RunBotStep_IgnoresThePause` | `PauseHolds` | `room` |
| `Resume_Never` | `MatchEnds` | `room` |
| `UserGet_GoneIsMine` | `SeatIsReserved` | `joins` |
| `BeginStartingSelection_DoesNotWait` | `PlayersAreCommitted` | `joins` |
| `UndoGuest_Forgotten` | `NoReservationLeaks` | `joins` |
| `LeaveRest_KeepsTheLock` | `FreeSeatsAreOpen` | `joins` |
| `ReleaseGuest_CommittedToo` | `OneSeatPerAccount` | `joins` |
| `Conflict_NotAKey` | `ResultsAreFinal` | `outbox` |
| `Requeue_OnlyOnce` | `NoReportIsForgotten` | `outbox` |
| `RetryTick_Peeks` | `EveryDeliveryIsProgress` | `outbox` |
| `ReadRow_Blindly` | `OutboxDrains` | `outbox` |
| `Lock_NotForUpdate` | `TokensAreUsedOnce` | `sessions` |
| `Taken_BySubject` | `OneUserPerIdentity` | `sessions` |
| `Lock_ClearsTheCookie` | `StaysSignedIn` | `sessions` |

### What is taken of the libraries

None of these is in `src/`; each is how the code relies on it.

- *Colyseus.*  A closed connection is out of `this.clients` before `onDrop` or
  `onLeave` is called; `onLeave` follows an `onDrop` whose `allowReconnection`
  fails; a room without clients, open windows and reserved seats is disposed of.
  Which of the two is called for a connection that the room closed itself is left
  open (`OnExpulsion`).  An exception in a timer's callback leaves the state as it
  is at the throw.  A seat reserved before a room was locked may still be taken.
- *FastAPI.*  An answer made of an `HTTPException` has none of the headers the
  handler has set on its response, so the refusal of a late refresh leaves the
  cookie alone although `refresh` clears it.
- *PostgreSQL*, read committed: a query sees what is committed; a row selected
  FOR UPDATE makes another such select wait, and it then sees the new row; a
  unique constraint refuses the second of two inserts.
- *Time.*  The 1.8 seconds of a reveal are longer than an answer of the
  registries (`RegistriesHaveAnswered`): the starts, which were asked for in the
  lobby, and the leaves that were waiting when the choices were revealed are
  through when its timer fires.  A leave that begins during the reveal may still
  be waiting then, and finds the match.

## What TLC checks

Run a check in this directory with `tlc -config <cfg> <module>`.

| run | instance | what it asks |
|---|---|---|
| `game_safety` (`MCGame_safety.cfg`) | 3 players, 12 cards, 2 Jokers, 2 deals; 177,000 states | the engine's invariants, that the hard bots keep the truth, the action properties `NothingIsTakenBack` and `DrawnCardIsKept`, that the engine implements `Match`, and that each of its calls is one of `MatchSteps` |
| `game_timed` (`MCGame_timed.cfg`) | 3 players, 9 cards, the smallest hands; 2,800 states | every step is progress (`Measure` falls), and with the timer on the match ends |
| `selection` (`MCSelection_safety.cfg`) | 3 players, one a bot, 7 cards, 3 options; 87,000 states | the selection's invariants, other cards after a tie, that it goes through the phases `Room` gives it, and that it moves on |
| `room` (`MCRoom_safety.cfg`) | 2 people, a bot, 2 starts under way; 627,000 states | timers, pauses, presence and host through every order of events, and that matches end |
| `joins` (`MCJoins_safety.cfg`) | 3 tabs, a guest with two of them in two rooms, 2 seats a room; 724,000 states | reservations, commits, leaks, locks, and that the registries implement `Seats` |
| `outbox` (`MCOutbox_safety.cfg`) | 2 matches, 2 players, 2 deliveries, 4 faults; 87,000 states | that the deliveries implement `Results`, no forgotten report, progress in every step, and that the outbox drains |
| `sessions` (`MCSessions_safety.cfg`) | 3 requests, 2 Google accounts with one email, 4 sessions, 1 lost answer; 2.1 million states (symmetry of requests) | that the sessions implement `SignIns`, one user, staying signed in |
| `selection_after_a_return`, `forfeit_of_a_new_match`, `pause_without_end`, `bots_keep_playing`, `duplicate_tab` | the instances above, or smaller | five statements of the documents the code does not keep; each is violated |

*Bounds.*  The game needs no bound on steps: every step lowers `Measure`, so its
state space is finite.  Twelve cards for three players give the three hand sizes
the code deals (base + 1, base, base - 1), one draw round, and both an opening
with Jokers of two players and one with two Jokers of the same player.  Cards
share keys, so that there are several legal slots and ambiguous guesses.  Three
players are the fewest the game allows and enough for a turn to skip someone; the
proofs cover the other sizes.  Nine cards give base hands of two, where a player
starts with one card.  The selection has as few cards as `SelectionAssumption`
allows, `2 * NumOptions + NumPlayers - 2`, so that its second round draws from
the deck and its third must refill from the discards; from then on states recur,
and ties may go on for ever.

Two people and a bot are the least table on which a drop leaves somebody to go
on with and two windows overlap; three people are too many for TLC in five
minutes, and the theorems about the room are for any number.  `MaxStarts` is two,
so that a second start overlaps the commits of the first.  In `joins` a guest
tries two rooms, and a second account meets them in the first; with two seats and
two tabs for that room its fullness is reached, but no join finds it full, which
`Check` would refuse.  Two deliveries are the least with which the retry overlaps
a request the caller has given up, and four faults make a report go round the
list more than once.  Three requests let two rotations and a logout, or two first
sign-ins and a refresh, overlap.

*Deadlock* is not checked in any run: a finished match, selection or list stops,
and the other modules are left to people who may do nothing more.

*Fairness.*  `TimedSpec` assumes weak fairness of `ResolveTurnTimeout` only.  That
is the room's deadline (`armTurnTimer`, `CipherDeckRoom.ts:1083`): it is armed
after every action while the timer setting is not Off.  With the setting off
nothing is promised, and `Spec` has no fairness.  The selection assumes that its
two timers fire when armed (`setTimeout`) and that the awaited status update
returns.  The room assumes the same of the turn timer and of the status update in
`onReconnect`.  A move arms the timer anew, so that weak fairness of
`HandleTurnTimeout` says more than that a `setTimeout` which is not cleared
fires: it is justified because the moves of a match come to an end
(`EveryStepIsProgress`, proved).  The outbox assumes that the retry timer goes on
firing and that the two ends of a request go on.  Nothing is assumed of players
or browsers, nothing says that ties end, and `MatchEnds` excepts people who drop
and return for ever.

## What is proved

`tlapm <module>` checks the proofs of `RackFacts`, `GameProofs`, `MatchProofs`,
`SelectionProofs`, `RoomProofs`, `JoinsProofs`, `OutboxProofs` and
`SessionsProofs`.  Each theorem holds for every value of the constants that its
module's assumption allows.

**The engine** (`GameProofs`).  For every deck, opening and table of three to six
players, under `CardsAssumption` (finitely many cards, keys are naturals) and
`GameAssumption` (the base hand is at least two, which `computeInitialHandSizes`
enforces; openings satisfy `IsOpening`), every match satisfies the type
invariant, `CardsConserved`, `RacksOrdered`, `LastActivePlayerWins`,
`DrawnCardMatchesPhase`, `CurrentPlayerCanMove` and
`OpeningJokersGateTheFirstTurn`.

They follow from one inductive invariant, `Safe`:

- `CardsFit`: cards are conserved, racks are ordered and not empty, Jokers to
  place are in their owner's rack, and the cards of the pile are face down;
- `PlayersFit`: an eliminated player has no hidden card; while the match goes on
  the active player and somebody else have one, and when it is over everybody but
  the winner is out;
- `PhaseFits`: the drawn card, the pile and the Jokers to place fit the phase, and
  who has a Joker to place has a hidden card.

None of the properties is inductive by itself.  That the active player can guess
needs somebody else with a hidden card, which is stronger than somebody else not
eliminated: with the smallest hands a player without a hidden card is still in
until the next move ends.  That a forfeit leaves racks ordered needs the sort
(`RackFacts!SortFacts`), that a placement always has a slot needs order
(`LegalSlot`), and that the deal loses nothing needs the numbering of the dealing
loop (`DealRange`).  The model's `IsValidRackOrder` compares all pairs of standard
cards; `NeighborsSuffice` shows that the code's loop, which compares each standard
card with the next one, decides the same.  The proof that a step preserves `Safe` has a lemma for every
action, and `ForfeitSafe` is used both for forfeits and for the timeout.

**What a step of a match does** (`MatchProofs`).  From `Safe`, every step is of
one of five kinds (`StepEffect`): a card is drawn, guessing ends, an opening Joker
is placed, a turn touches one player, or forfeits before turn one take out who is
late; the loop of the opening deadline is one of the last kind because two
forfeits are like one of two players (`OpenedTwice`).  Of each kind it is then
shown that nothing is taken back, that a drawn card goes into its player's rack,
that `Measure` falls, that elimination stays exact, and that it is a step of
`Match` or none.  Exact elimination and with it the refinement assume
`BaseHand >= 3`: with base hands of two the player before the starter is dealt
the face-up starting card alone and is in the match without a hidden card.  The
code deals such hands, with six players and seven draw rounds of its largest deck
for instance; everything but these two and `TheRoomIsRight`, below, is proved for
them too.

`HardBotsAreNotMisled` follows from the order of the racks and holds in every match.

**What the room sees of it** (`MatchProofs`).  `TheRoomIsRight` shows that a new
match, a forfeit, a move and the deadline of the opening are steps of
`MatchSteps`, for every table and deck with `BaseHand >= 3`; so what `RoomProofs`
proves with those operators is about the engine's matches.  A move or a forfeit
takes out one player at most (`ForfeitTakesOne`, from exact elimination).  The
deadline is a loop of forfeits, which keeps that who is out was late, or out
before, and, while the match goes on, that all the late players visited are out.

**The selection** (`SelectionProofs`).  For every deck, number of options and
table, under `SelectionAssumption` (there are as many options as players, and
`2 * NumOptions + NumPlayers - 2` cards; the code has 6, at most 6, and at least
24), all the safety properties of the run hold, including
`TiesAreBrokenWithOtherCards`: the fallback of `drawFreshStartingCards` to cards
just shown is never taken.  The inductive invariant `IInv` adds to the properties
that a player without a Joker was beaten or has not chosen (`JokersAreHigh`) and
that nobody is without a card once the match is dealt (`Complete`).
`SelectionEndsInAnOpening` is the link to the engine, `SelectionAsTheRoomSeesIt`
(`RoomSeesTheSelection`) the one to the room: when the starter is known all
players have a card, so that the count in `finalizeStartingSelection` fails
exactly when somebody is away, and who is dealt a match is there (`AllThere`).

**The room** (`RoomProofs`).  For any number of people, three to six seats, the
timer on or off, and whatever the library calls after an expulsion: the types,
`TurnTimerRuns`, `AwayPlayersPause`, `PlayersInPlayArePresent`,
`HostIsInTheRoom` and `PauseHolds`.  The properties are inductive together with
`BeforeTheMatch`: while a start is awaited or a selection has no match yet there
is no match, which is what keeps a start from replacing one.

**Joins** (`JoinsProofs`).  For any rooms, accounts and tabs: `NoReservationLeaks`
and `FreeSeatsAreOpen`.  The first follows from who holds a binding (`UserHeld`,
`GuestHeld`): a connection that will release it, or a room that is gone.  The
second from who will open a lobby again (`LocksHold`); it counts seats, and so
needs finitely many tabs.  `PlayersAreCommitted` and the refinement
`OneSeatPerAccount` are proved without an assumption on the tabs: they are about
the accounts in `Single`, and hold of these while others open as many tabs in a
room as they like.  `SeatIsReserved` is about every account and so assumes
`DistinctRooms`, that all are in `Single`; without it the run `duplicate_tab`
shows the failure.  Their invariant follows a tab through `onJoin`: which reservations it has before
each command (`Reserving`), that a room with clients is not disposed of (`Kept`),
and that the guests the start has visited are committed (`Visited`).

**The outbox** (`OutboxProofs`).  For any matches, rosters, deliveries and faults:

- `ResultsAreFinal`, the refinement of `Results`.  What makes a late request
  harmless is `Looking`: for each registered player of its match it has still to
  look, is about to insert, or there is a row.  So a commit that meets no
  conflict finds nothing of its match or inserts nothing (`CommitStores`), and
  what it stores was reported (`Known`).
- `NoReportIsForgotten`.
- `EveryDeliveryIsProgress`.  `Measure` is a list of sets of which a step makes
  one smaller and leaves those before it alone; with finitely many matches,
  players and deliveries no behavior has infinitely many steps.  Nothing else
  ends a retry in the model, where every refusal is passing: a request whose
  rows appear while it is under way fails and is delivered again, and
  `Returning` shows that this happens once for each store.

**The sessions** (`SessionsProofs`).  `TokensAreUsedOnce`, the refinement of
`SignIns`, `OneUserPerIdentity` and `StaysSignedIn` for any number of requests.
The invariant says that a session is rotated by one request while it lives
(`Rotating`), and that nobody has used the token an answer brings before the
answer arrives (`Fresh`); a consequence is that a sign-in has one living token
(`OneLivingTokenPerSignIn`), which makes a rotation the use of a token and not a
fork of the chain.

The type invariants of the engine, the room, the joins, the outbox and the sessions are
theorems only; no run repeats them.

*Only model-checked*: the liveness properties `GameEnds`, `SelectionMovesOn`,
`MatchEnds` and `OutboxDrains`: liveness under fairness is out of the prover's
reach.  For the first and the last, what ends them is proved
(`EveryStepIsProgress`, `EveryDeliveryIsProgress`), and what remains with TLC is
that a step is taken while there is one to take.

## Where the code and its documents disagree

1. `selection_after_a_return`.  `finalizeStartingSelection` compares the cards
   with the players connected when the reveal ends (`CipherDeckRoom.ts:697`) and
   throws, in a timer, when somebody is away.  Nothing continues the selection
   then, even when the player returns in time, though `docs/GAME_RULES.md:60`
   says a successful reconnect resumes the player.
2. `forfeit_of_a_new_match`.  `onDrop` decides when the connection drops that a
   failed reconnection aborts the selection (`CipherDeckRoom.ts:418`).  When that
   selection has been aborted meanwhile and the host has started another match,
   the end of the old window ends it for everybody; `docs/GAME_RULES.md:61` says
   the player is eliminated.
3. `pause_without_end`.  `forfeitDisconnectedPlayer` returns before it removes
   the player from `droppedPlayerIds` when the match is over or the player is not
   in it (`CipherDeckRoom.ts:501`); the next match is then paused with nobody
   away.  `docs/GAME_RULES.md:59` gives a pause thirty seconds.
4. `bots_keep_playing`.  `runBotStep` gives up while somebody is away and nothing
   schedules it again (`CipherDeckRoom.ts:1018`): with the timer off a bot whose
   turn it is never acts.  `docs/GAME_RULES.md:62` says play advances to the next
   player.
5. `duplicate_tab`.  A second tab of an account in a room is rejected, and its
   `onLeave` releases the reservation that the seat of the first depends on
   (`CipherDeckRoom.ts:468`); `docs/REALTIME_PROTOCOL.md:26` says every account
   has one active reservation.

Smaller ones, which no run is about.  `docs/GAME_RULES.md:57` says the room locks
when the selection begins, and `beginStartingSelection` unlocks it
(`CipherDeckRoom.ts:588`); `onJoin` refuses whoever comes then.  After the
deadline of the opening Jokers `startingSelection` stays set, and the room shows
the status "starting" through the match.  The connection of a join that is
refused runs through `onLeave` like a player's, and aborts the selection of the
others (`CipherDeckRoom.ts:474`); when it began during the reveal and is answered
after the deal, it ends a match that is placing its opening Jokers, since
`onLeave` looks at `game` before its awaits and at `startingSelection` after
them.  `docs/GAME_RULES.md:59` says a drop pauses actions for the whole room,
while the choice timer of the selection runs on.  `docs/GAME_RULES.md:52`
eliminates a player as soon as every card is revealed; with base hands of two
the player before the starter is dealt one card, the face-up one, and is in the
match all the same.

## What is not modelled

- Deck building and shuffling are random; a match is modelled for any deck given
  to it.
- Serialization, wire types and error codes (`snapshot.ts`, `protocol.ts`,
  `errors.ts`), token verification and input parsing (`auth.ts`, `config.ts`,
  `messages.ts`) are stateless.
- The client decides nothing; the daily puzzle is a pure function; models,
  schemas, migrations and scripts are declarations or tooling.
- Of the room: spectators, names, emotes, rate limits, statistics, and the
  recovery checkpoint, which is written and never read.  In `Room` a person has
  one connection at a time.
- Of the registries: the expiry of keys (a day for an account's seat, the
  token's life for a guest) and the codes of private rooms, a key each.  In
  `Joins` a room that has started does not go back to its lobby after the match.
- Of the outbox: reports the API refuses for good (a wrong secret, a body its
  schema rejects, a user who is gone).  The code delivers such a report every few
  seconds for ever; `EveryDeliveryIsProgress` and `OutboxDrains` are about the
  others.
- Of the sessions: expiry, the status of a user, guest tokens (which have no
  state) and profiles.
- The social graph, the deck themes and the rate limiter of the API: see the plan.

## Plan

Done: the engine, the selection, the room, joins and registries, the outbox and
the sessions, with their theorems; the refinements of `Match`, `Seats`, `Results`
and `SignIns`; the links between the engine, the selection and the room
(`RoomSeesTheMatch`, `RoomSeesTheSelection`).

Left, in this order:

1. **Social and decks**: two requests at a time, the read and the commit apart
   (`routers/social.py`, `routers/admin.py`).
2. **View**: what a viewer may learn, as the property that states which differ
   only in hidden cards look the same.
3. **Rate limiter**: windows, and what a failing Redis lets through.
4. **Expiry** of seats and codes in `Joins`, and rooms that return to the lobby.
