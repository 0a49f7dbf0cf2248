----------------------------- MODULE OutboxProperties -----------------------------
(***************************************************************************)
(* What the deliveries of match results must keep true, and reach.         *)
(***************************************************************************)
EXTENDS Outbox

(***************************************************************************)
(* Every variable has a value the code can give it.                        *)
(***************************************************************************)
TypeOK ==
  /\ reported \subseteq Match /\ lost \subseteq Match
  /\ queue \in Seq(Match)
  /\ report \in [Delivery -> Match \cup {NoMatch}]
  /\ caller \in [Delivery -> {"none", "waiting", "failed"}]
  /\ api \in [Delivery -> {"none", "storing", "stored", "error"}]
  /\ unread \in [Delivery -> SUBSET Player]
  /\ insert \in [Delivery -> SUBSET Player]
  /\ rows \in [Match -> [Player -> Nat]]
  /\ faults \in 0..MaxFaults

(***************************************************************************)
(* The statistics are those of Results, whatever requests overlap: only a  *)
(* match that was reported gets rows, all in one step and one time, and no *)
(* later delivery adds to them or takes from them.                         *)
(***************************************************************************)
Statistics == INSTANCE Results WITH played <- reported

ResultsAreFinal == Statistics!Spec

(***************************************************************************)
(* A report is stored, waits in the outbox or is being delivered, unless a *)
(* fault has taken it from the game server.                                *)
(***************************************************************************)
NoReportIsForgotten ==
  \A m \in reported :
    \/ Stored(m)
    \/ m \in lost
    \/ m \in {queue[i] : i \in DOMAIN queue}
    \/ \E d \in Delivery : report[d] = m /\ caller[d] # "none"

(***************************************************************************)
(* What is left to do, the weightiest first: faults that may still come,   *)
(* matches to report and to store, deliveries that will put their report   *)
(* back, reports in the list, and the work under way.  A request that      *)
(* finds rows stored since it has looked for them comes back; it does so   *)
(* once for each store, because the next one finds the rows.               *)
(***************************************************************************)
Unstored == {m \in Match : ~Stored(m)}

Returning ==
  {d \in Delivery :
     \/ caller[d] = "failed"
     \/ caller[d] = "waiting" /\ (api[d] = "error" \/ (api[d] = "storing" /\ Conflict(d)))}

Awaited == {d \in Delivery : caller[d] = "waiting"}
Busy    == {d \in Delivery : api[d] # "none"}
Storing == {d \in Delivery : api[d] = "storing"}
ToRead  == {w \in Delivery \X Player : w[1] \in Storing /\ w[2] \in unread[w[1]]}

Measure ==
  << (faults + 1)..MaxFaults, Match \ reported, Unstored, Returning, DOMAIN queue,
     Awaited, Busy, Storing, ToRead >>

\* One set has lost members, and those before it are what they were.
Shrinks(new, old) ==
  \E i \in DOMAIN old :
    new[i] \subseteq old[i] /\ new[i] # old[i] /\ \A j \in 1..(i - 1) : new[j] = old[j]

(***************************************************************************)
(* No step of a delivery is for nothing: what is left to do shrinks with   *)
(* each, so that with finitely many faults a report does not go round the  *)
(* list for ever and the retry timer finds it empty at last.               *)
(***************************************************************************)
EveryDeliveryIsProgress == [][Shrinks(Measure', Measure)]_vars

(***************************************************************************)
(* When the faults are over the outbox empties: no report comes back for   *)
(* ever, even one that the API has already stored.                         *)
(***************************************************************************)
OutboxDrains ==
  <>[](queue = <<>> /\ \A d \in Delivery : caller[d] = "none")
=============================================================================
