---------------------------------- MODULE Outbox ----------------------------------
(***************************************************************************)
(* How the result of a match gets into the database: the game server posts *)
(* it (app.config.ts), keeps it in a Redis list when that fails and tries  *)
(* again every five seconds; the API stores a row for each registered      *)
(* player (routers/matches.py), which a unique constraint keeps single     *)
(* (models.py).                                                            *)
(*                                                                         *)
(* A delivery has two ends that fail apart: the game server may give up on *)
(* a request the API still works on.  The API's transaction is read        *)
(* committed: its reads see what is committed, its rows appear at once.    *)
(*                                                                         *)
(* An operator F_Xyz that stands before F is F with a bug a programmer     *)
(* might have written; the README says which property each one breaks.     *)
(***************************************************************************)
EXTENDS Integers, Sequences, SequencesExt

CONSTANTS Match, Player,
          Registered,  \* the registered players of each match
          Delivery,    \* bound: the deliveries that may be under way
          MaxFaults,   \* bound: the faults of a behaviour
          NoMatch

ASSUME OutboxAssumption ==
  /\ Registered \in [Match -> SUBSET Player]
  /\ MaxFaults \in Nat
  /\ NoMatch \notin Match

VARIABLES
  reported,  \* the matches with resultReported
  queue,     \* the list ngame:match-result-outbox, its left end first
  report,    \* the report each delivery is about
  caller,    \* the game server's end of it: "none", "waiting" or "failed"
  api,       \* the API's end of it: "none", "storing", "stored" or "error"
  unread,    \* the players whose row the API has still to look for
  insert,    \* the players whose row it is about to insert
  rows,      \* how many rows each match has for each player
  lost,      \* the reports a fault has lost for the game server
  faults     \* how many faults there have been

vars == <<reported, queue, report, caller, api, unread, insert, rows, lost, faults>>
storing == <<api, unread, insert, rows>>

Stored(m) == \A p \in Registered[m] : rows[m][p] > 0

Init ==
  /\ reported = {} /\ queue = <<>> /\ lost = {} /\ faults = 0
  /\ report = [d \in Delivery |-> NoMatch]
  /\ caller = [d \in Delivery |-> "none"]
  /\ api = [d \in Delivery |-> "none"]
  /\ unread = [d \in Delivery |-> {}]
  /\ insert = [d \in Delivery |-> {}]
  /\ rows = [m \in Match |-> [p \in Player |-> 0]]

-----------------------------------------------------------------------------
(***************************************************************************)
(* The game server.                                                        *)
(***************************************************************************)
\* deliverResult, up to the answer.
Post(d, m) ==
  /\ caller[d] = "none" /\ api[d] = "none"
  /\ report' = [report EXCEPT ![d] = m]
  /\ caller' = [caller EXCEPT ![d] = "waiting"]
  /\ api' = [api EXCEPT ![d] = "storing"]
  /\ unread' = [unread EXCEPT ![d] = Registered[m]]
  /\ insert' = [insert EXCEPT ![d] = {}]
  /\ UNCHANGED <<rows, lost, faults>>

\* maybeReportResult and resultReporter
MaybeReportResult(m) ==
  /\ m \notin reported
  /\ reported' = reported \cup {m}
  /\ \E d \in Delivery : Post(d, m)
  /\ UNCHANGED queue

\* The retry timer takes the report at the right end.
RetryTick_Peeks ==
  /\ queue # <<>>
  /\ \E d \in Delivery : Post(d, Last(queue))
  /\ UNCHANGED <<reported, queue>>

RetryTick ==
  /\ queue # <<>>
  /\ queue' = Front(queue)
  /\ \E d \in Delivery : Post(d, Last(queue))
  /\ UNCHANGED reported

\* The answer arrives: response.ok, or it throws.
Answer(d) ==
  /\ caller[d] = "waiting"
  /\ api[d] \in {"stored", "error"}
  /\ caller' = [caller EXCEPT ![d] = IF api[d] = "stored" THEN "none" ELSE "failed"]
  /\ api' = [api EXCEPT ![d] = "none"]
  /\ UNCHANGED <<reported, queue, report, unread, insert, rows, lost, faults>>

\* The catch blocks put the report at the left end.
Requeue_OnlyOnce(d) ==
  /\ caller[d] = "failed"
  /\ caller' = [caller EXCEPT ![d] = "none"]
  /\ queue' = IF queue = <<>> THEN <<report[d]>> ELSE queue
  /\ UNCHANGED <<reported, report, storing, lost, faults>>

Requeue(d) ==
  /\ caller[d] = "failed"
  /\ caller' = [caller EXCEPT ![d] = "none"]
  /\ queue' = <<report[d]>> \o queue
  /\ UNCHANGED <<reported, report, storing, lost, faults>>

-----------------------------------------------------------------------------
(***************************************************************************)
(* The API: store_result.                                                  *)
(***************************************************************************)
ReadRow_Blindly(d) ==
  /\ api[d] = "storing"
  /\ \E p \in unread[d] :
       /\ unread' = [unread EXCEPT ![d] = @ \ {p}]
       /\ insert' = [insert EXCEPT ![d] = @ \cup {p}]
  /\ UNCHANGED <<reported, queue, report, caller, api, rows, lost, faults>>

ReadRow(d) ==
  /\ api[d] = "storing"
  /\ \E p \in unread[d] :
       /\ unread' = [unread EXCEPT ![d] = @ \ {p}]
       /\ insert' = IF rows[report[d]][p] = 0
                    THEN [insert EXCEPT ![d] = @ \cup {p}] ELSE insert
  /\ UNCHANGED <<reported, queue, report, caller, api, rows, lost, faults>>

\* Another transaction may have stored rows since they were looked for: the
\* unique constraint then fails this one as a whole.
Conflict_NotAKey(d) == FALSE

Conflict(d) == \E p \in insert[d] : rows[report[d]][p] > 0

Commit(d) ==
  LET m == report[d] IN
  /\ api[d] = "storing"
  /\ unread[d] = {}
  /\ IF Conflict(d)
     THEN api' = [api EXCEPT ![d] = "error"] /\ UNCHANGED rows
     ELSE /\ api' = [api EXCEPT ![d] = "stored"]
          /\ rows' = [rows EXCEPT ![m] =
                        [p \in Player |-> @[p] + (IF p \in insert[d] THEN 1 ELSE 0)]]
  /\ UNCHANGED <<reported, queue, report, caller, unread, insert, lost, faults>>

\* Nobody waits for the answer.
Unheard(d) ==
  /\ caller[d] # "waiting"
  /\ api[d] \in {"stored", "error"}
  /\ api' = [api EXCEPT ![d] = "none"]
  /\ UNCHANGED <<reported, queue, report, caller, unread, insert, rows, lost, faults>>

-----------------------------------------------------------------------------
(***************************************************************************)
(* Faults.                                                                 *)
(***************************************************************************)
Fault == faults < MaxFaults /\ faults' = faults + 1

\* The request fails in the API, which stores nothing.
Abort(d) ==
  /\ Fault
  /\ api[d] = "storing"
  /\ api' = [api EXCEPT ![d] = "error"]
  /\ UNCHANGED <<reported, queue, report, caller, unread, insert, rows, lost>>

\* The connection breaks, whatever the API does with the request.
LoseAnswer(d) ==
  /\ Fault
  /\ caller[d] = "waiting"
  /\ caller' = [caller EXCEPT ![d] = "failed"]
  /\ UNCHANGED <<reported, queue, report, storing, lost>>

\* lpush fails, and the report is only in the log.
LoseReport(d) ==
  /\ Fault
  /\ caller[d] = "failed"
  /\ caller' = [caller EXCEPT ![d] = "none"]
  /\ lost' = lost \cup {report[d]}
  /\ UNCHANGED <<reported, queue, report, storing>>

\* The game server stops, with what it has not put into the queue.
Crash ==
  /\ Fault
  /\ \E d \in Delivery : caller[d] # "none"
  /\ lost' = lost \cup {report[d] : d \in {x \in Delivery : caller[x] # "none"}}
  /\ caller' = [d \in Delivery |-> "none"]
  /\ UNCHANGED <<reported, queue, report, storing>>

Next ==
  \/ \E m \in Match : MaybeReportResult(m)
  \/ RetryTick
  \/ Crash
  \/ \E d \in Delivery :
       \/ Answer(d) \/ Requeue(d)
       \/ ReadRow(d) \/ Commit(d) \/ Unheard(d)
       \/ Abort(d) \/ LoseAnswer(d) \/ LoseReport(d)

(***************************************************************************)
(* The timer goes on firing, requests and answers make progress, and what  *)
(* a catch block does is done.                                             *)
(***************************************************************************)
Spec ==
  /\ Init /\ [][Next]_vars
  /\ WF_vars(RetryTick)
  /\ \A d \in Delivery :
       WF_vars(Answer(d) \/ Requeue(d)) /\ WF_vars(ReadRow(d) \/ Commit(d) \/ Unheard(d))
=============================================================================
