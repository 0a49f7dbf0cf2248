------------------------------ MODULE OutboxProofs ------------------------------
(***************************************************************************)
(* Proofs about Outbox, for any matches, rosters, deliveries and number of *)
(* faults.                                                                 *)
(***************************************************************************)
EXTENDS OutboxProperties, TLAPS

\* The reports of a queue.
Waiting(q) == {q[i] : i \in DOMAIN q}

\* What waits and what is under way has been reported.
Known ==
  /\ Waiting(queue) \subseteq reported
  /\ \A d \in Delivery : caller[d] # "none" \/ api[d] # "none" => report[d] \in reported

\* A delivery under way is about a match.
Reporting ==
  \A d \in Delivery :
    /\ caller[d] # "none" \/ api[d] # "none" => report[d] \in Match
    /\ caller[d] = "waiting" => api[d] # "none"

\* The API has a row for a registered player, is about to insert it, or has
\* still to look for it.
Looking ==
  \A d \in Delivery : api[d] = "storing" =>
    /\ unread[d] \cup insert[d] \subseteq Registered[report[d]]
    /\ \A p \in Registered[report[d]] :
         p \in unread[d] \/ p \in insert[d] \/ rows[report[d]][p] > 0

(***************************************************************************)
(* A match is in the statistics of all its registered players once, or of  *)
(* none, though its report is delivered again after a lost answer while    *)
(* the first request may still be at work.                                 *)
(***************************************************************************)
ResultsAreWhole ==
  \A m \in Match :
    \/ \A p \in Player : rows[m][p] = 0
    \/ \A p \in Player : rows[m][p] = IF p \in Registered[m] THEN 1 ELSE 0

\* An answer of success is true.
Answered == \A d \in Delivery : api[d] = "stored" => Stored(report[d])

(***************************************************************************)
(* The inductive invariant.                                                *)
(***************************************************************************)
Inv ==
  /\ TypeOK /\ Reporting /\ Known /\ Looking /\ Answered
  /\ ResultsAreWhole /\ NoReportIsForgotten

-----------------------------------------------------------------------------
(***************************************************************************)
(* The two ends of the queue.                                              *)
(***************************************************************************)
LEMMA RightEnd ==
  ASSUME NEW q \in Seq(Match), q # <<>>
  PROVE  Front(q) \in Seq(Match) /\ Last(q) \in Match
           /\ Waiting(q) = Waiting(Front(q)) \cup {Last(q)}
<1>1. Len(q) \in Nat \ {0} /\ DOMAIN q = 1..Len(q)
  OBVIOUS
<1>2. Front(q) \in Seq(Match) /\ Len(Front(q)) = Len(q) - 1
        /\ \A i \in 1..(Len(q) - 1) : Front(q)[i] = q[i]
  BY <1>1 DEF Front
<1>3. DOMAIN Front(q) = 1..(Len(q) - 1)
  BY <1>2
<1>4. Last(q) = q[Len(q)] /\ Last(q) \in Match
  BY <1>1 DEF Last
<1>5. 1..Len(q) = 1..(Len(q) - 1) \cup {Len(q)}
  BY <1>1
<1> QED
  BY <1>1, <1>2, <1>3, <1>4, <1>5 DEF Waiting

LEMMA LeftEnd ==
  ASSUME NEW q \in Seq(Match), NEW m \in Match
  PROVE  <<m>> \o q \in Seq(Match) /\ Waiting(<<m>> \o q) = {m} \cup Waiting(q)
<1> DEFINE s == <<m>> \o q
<1>1. s \in Seq(Match) /\ Len(s) = 1 + Len(q) /\ s[1] = m
  OBVIOUS
<1>2. \A i \in 1..Len(q) : s[i + 1] = q[i]
  OBVIOUS
<1>3. DOMAIN s = 1..(1 + Len(q)) /\ DOMAIN q = 1..Len(q) /\ Len(q) \in Nat
  BY <1>1
<1> HIDE DEF s
<1>4. \A i \in DOMAIN s : i = 1 \/ i - 1 \in 1..Len(q)
  BY <1>3
<1>5. \A i \in DOMAIN s : s[i] = m \/ s[i] \in Waiting(q)
  BY <1>1, <1>2, <1>3, <1>4 DEF Waiting
<1>6. \A i \in DOMAIN q : i + 1 \in DOMAIN s /\ s[i + 1] = q[i]
  BY <1>2, <1>3
<1>7. 1 \in DOMAIN s
  BY <1>3
<1>8. Waiting(s) = {m} \cup Waiting(q)
  BY <1>1, <1>5, <1>6, <1>7 DEF Waiting
<1> QED
  BY <1>1, <1>8 DEF s

-----------------------------------------------------------------------------
(***************************************************************************)
(* The types.                                                              *)
(***************************************************************************)
LEMMA InitInv == Init => Inv
<1> SUFFICES ASSUME Init PROVE Inv
  OBVIOUS
<1>1. TypeOK
  BY OutboxAssumption DEF Init, TypeOK
<1>2. Reporting /\ Known /\ Looking /\ Answered
  BY DEF Init, Reporting, Known, Waiting, Looking, Answered
<1>3. ResultsAreWhole /\ NoReportIsForgotten
  BY DEF Init, ResultsAreWhole, NoReportIsForgotten
<1> QED
  BY <1>1, <1>2, <1>3 DEF Inv

LEMMA TypeStep == TypeOK /\ Reporting /\ [Next]_vars => TypeOK'
<1> SUFFICES ASSUME TypeOK, Reporting, [Next]_vars PROVE TypeOK'
  OBVIOUS
<1> USE OutboxAssumption DEF TypeOK, storing
<1>1. ASSUME NEW m \in Match, MaybeReportResult(m) PROVE TypeOK'
  BY <1>1 DEF MaybeReportResult, Post
<1>2. CASE RetryTick
  BY <1>2, RightEnd DEF RetryTick, Post
<1>3. CASE Crash
  BY <1>3 DEF Crash, Fault, Reporting
<1>4. ASSUME NEW d \in Delivery, Answer(d) PROVE TypeOK'
  BY <1>4 DEF Answer
<1>5. ASSUME NEW d \in Delivery, Requeue(d) PROVE TypeOK'
  BY <1>5, LeftEnd DEF Requeue, Reporting
<1>6. ASSUME NEW d \in Delivery, ReadRow(d) PROVE TypeOK'
  <2>1. PICK p \in unread[d] :
          /\ unread' = [unread EXCEPT ![d] = @ \ {p}]
          /\ insert' = IF rows[report[d]][p] = 0
                       THEN [insert EXCEPT ![d] = @ \cup {p}] ELSE insert
    BY <1>6 DEF ReadRow
  <2>2. p \in Player
    BY <2>1
  <2>3. unread' \in [Delivery -> SUBSET Player] /\ insert' \in [Delivery -> SUBSET Player]
    BY <2>1, <2>2
  <2> QED
    BY <1>6, <2>3 DEF ReadRow
<1>7. ASSUME NEW d \in Delivery, Commit(d) PROVE TypeOK'
  <2> DEFINE m == report[d]
             row == [p \in Player |-> rows[m][p] + (IF p \in insert[d] THEN 1 ELSE 0)]
  <2>1. m \in Match
    BY <1>7 DEF Commit, Reporting
  <2>2. row \in [Player -> Nat]
    BY <2>1
  <2>3. rows' = rows \/ rows' = [rows EXCEPT ![m] = row]
    BY <1>7 DEF Commit
  <2> HIDE DEF row, m
  <2>4. rows' \in [Match -> [Player -> Nat]]
    BY <2>1, <2>2, <2>3
  <2> QED
    BY <1>7, <2>4 DEF Commit
<1>8. ASSUME NEW d \in Delivery, Unheard(d) \/ Abort(d) \/ LoseAnswer(d) PROVE TypeOK'
  <2>1. CASE Unheard(d)
    BY <2>1 DEF Unheard
  <2>2. CASE Abort(d)
    BY <2>2 DEF Abort, Fault
  <2>3. CASE LoseAnswer(d)
    BY <2>3 DEF LoseAnswer, Fault
  <2> QED
    BY <1>8, <2>1, <2>2, <2>3
<1>9. ASSUME NEW d \in Delivery, LoseReport(d) PROVE TypeOK'
  BY <1>9 DEF LoseReport, Fault, Reporting
<1>10. CASE UNCHANGED vars
  BY <1>10 DEF vars
<1> QED
  BY <1>1, <1>2, <1>3, <1>4, <1>5, <1>6, <1>7, <1>8, <1>9, <1>10 DEF Next

-----------------------------------------------------------------------------
(***************************************************************************)
(* What a commit does to the rows.                                         *)
(***************************************************************************)
LEMMA RowsOfCommit ==
  ASSUME Inv, NEW d \in Delivery, Commit(d)
  PROVE  /\ \A m \in Match, p \in Player : rows'[m][p] >= rows[m][p]
         /\ ~ Conflict(d) => Stored(report[d])'
         /\ ResultsAreWhole'
<1> DEFINE m == report[d]
<1> USE OutboxAssumption DEF Inv, TypeOK
<1>1. m \in Match /\ Registered[m] \subseteq Player /\ api[d] = "storing" /\ unread[d] = {}
  BY DEF Commit, Reporting
<1>2. CASE Conflict(d)
  <2>1. rows' = rows
    BY <1>2 DEF Commit
  <2> QED
    BY <1>2, <2>1 DEF ResultsAreWhole
<1>3. CASE ~ Conflict(d)
  <2>1. rows' = [rows EXCEPT ![m] =
                   [p \in Player |-> rows[m][p] + (IF p \in insert[d] THEN 1 ELSE 0)]]
    BY <1>3 DEF Commit
  <2>2. /\ \A q \in Match \ {m} : rows'[q] = rows[q]
        /\ \A p \in Player : rows'[m][p] = rows[m][p] + (IF p \in insert[d] THEN 1 ELSE 0)
    BY <1>1, <2>1
  <2>3. \A p \in insert[d] : rows[m][p] = 0 /\ p \in Registered[m]
    BY <1>1, <1>3 DEF Conflict, Looking
  <2>4. \A p \in Registered[m] : p \in insert[d] \/ rows[m][p] > 0
    BY <1>1 DEF Looking
  <2> HIDE DEF m
  <2>5. \A q \in Match, p \in Player : rows[q][p] \in Nat
    OBVIOUS
  <2>6. ASSUME NEW q \in Match, NEW p \in Player PROVE rows'[q][p] >= rows[q][p]
    <3>1. CASE q = m
      BY <2>2, <2>5, <3>1
    <3>2. CASE q # m
      BY <2>2, <2>5, <3>2
    <3> QED
      BY <3>1, <3>2
  <2>7. \A p \in Registered[m] : rows'[m][p] > 0
    BY <1>1, <2>2, <2>4, <2>5
  <2>8. \/ \A p \in Player : rows[m][p] = 0
        \/ \A p \in Player : rows[m][p] = IF p \in Registered[m] THEN 1 ELSE 0
    BY <1>1 DEF ResultsAreWhole
  <2>9. ASSUME NEW p \in Player
        PROVE  rows'[m][p] = IF p \in Registered[m] THEN 1 ELSE 0
    <3>1. CASE p \in insert[d]
      <4>1. rows[m][p] = 0 /\ p \in Registered[m]
        BY <2>3, <3>1
      <4> QED
        BY <2>2, <3>1, <4>1
    <3>2. CASE p \notin insert[d]
      <4>1. rows'[m][p] = rows[m][p]
        BY <1>1, <2>2, <2>5, <3>2
      <4>2. p \in Registered[m] => rows[m][p] > 0
        BY <2>4, <3>2
      <4>3. rows[m][p] = 0 \/ rows[m][p] = IF p \in Registered[m] THEN 1 ELSE 0
        BY <2>8
      <4>4. p \notin Registered[m] => rows[m][p] = 0
        BY <4>3
      <4>5. p \in Registered[m] => rows[m][p] = 1
        BY <4>2, <4>3
      <4> QED
        BY <4>1, <4>4, <4>5
    <3> QED
      BY <3>1, <3>2
  <2>10. ASSUME NEW q \in Match
         PROVE  \/ \A p \in Player : rows'[q][p] = 0
                \/ \A p \in Player : rows'[q][p] = IF p \in Registered[q] THEN 1 ELSE 0
    <3>1. CASE q = m
      BY <2>9, <3>1
    <3>2. CASE q # m
      BY <2>2, <3>2 DEF ResultsAreWhole
    <3> QED
      BY <3>1, <3>2
  <2>11. report' = report
    BY DEF Commit
  <2> QED
    BY <2>6, <2>7, <2>10, <2>11 DEF Stored, ResultsAreWhole, m
<1> QED
  BY <1>2, <1>3

\* The rows of the other steps are as they were.
LEMMA RowsOfOthers ==
  ASSUME [Next]_vars, \A d \in Delivery : ~ Commit(d)
  PROVE  rows' = rows
<1> USE DEF storing
<1>1. ASSUME NEW m \in Match, MaybeReportResult(m) PROVE rows' = rows
  BY <1>1 DEF MaybeReportResult, Post
<1>2. CASE RetryTick \/ Crash
  BY <1>2 DEF RetryTick, Crash, Post
<1>3. ASSUME NEW d \in Delivery,
             Answer(d) \/ Requeue(d) \/ ReadRow(d) \/ Unheard(d)
               \/ Abort(d) \/ LoseAnswer(d) \/ LoseReport(d)
      PROVE  rows' = rows
  BY <1>3 DEF Answer, Requeue, ReadRow, Unheard, Abort, LoseAnswer, LoseReport
<1>4. CASE UNCHANGED vars
  BY <1>4 DEF vars
<1> QED
  BY <1>1, <1>2, <1>3, <1>4 DEF Next

LEMMA RowsStep ==
  Inv /\ [Next]_vars =>
    ResultsAreWhole' /\ \A m \in Match, p \in Player : rows'[m][p] >= rows[m][p]
<1> SUFFICES ASSUME Inv, [Next]_vars
             PROVE  ResultsAreWhole'
                      /\ \A m \in Match, p \in Player : rows'[m][p] >= rows[m][p]
  OBVIOUS
<1>1. ASSUME NEW d \in Delivery, Commit(d)
      PROVE  ResultsAreWhole' /\ \A m \in Match, p \in Player : rows'[m][p] >= rows[m][p]
  BY <1>1, RowsOfCommit
<1>2. CASE \A d \in Delivery : ~ Commit(d)
  <2>1. rows' = rows
    BY <1>2, RowsOfOthers
  <2> QED
    BY <2>1 DEF Inv, TypeOK, ResultsAreWhole
<1> QED
  BY <1>1, <1>2

\* What is stored stays so.
LEMMA StoredStays ==
  ASSUME Inv, [Next]_vars, NEW m \in Match, Stored(m) PROVE Stored(m)'
<1>1. \A p \in Player : rows'[m][p] >= rows[m][p]
  BY RowsStep
<1>2. TypeOK'
  BY TypeStep DEF Inv
<1> QED
  BY <1>1, <1>2, OutboxAssumption DEF Inv, TypeOK, Stored

-----------------------------------------------------------------------------
(***************************************************************************)
(* The deliveries.                                                         *)
(***************************************************************************)
LEMMA ReportingStep == Inv /\ [Next]_vars => Reporting'
<1> SUFFICES ASSUME Inv, [Next]_vars PROVE Reporting'
  OBVIOUS
<1> USE DEF Inv, TypeOK, Reporting, storing
<1>1. ASSUME NEW m \in Match, MaybeReportResult(m) PROVE Reporting'
  BY <1>1 DEF MaybeReportResult, Post
<1>2. CASE RetryTick
  BY <1>2, RightEnd DEF RetryTick, Post
<1>3. CASE Crash
  BY <1>3 DEF Crash
<1>4. ASSUME NEW d \in Delivery, Answer(d) \/ Requeue(d) PROVE Reporting'
  BY <1>4 DEF Answer, Requeue
<1>5. ASSUME NEW d \in Delivery, ReadRow(d) \/ Commit(d) \/ Unheard(d) PROVE Reporting'
  BY <1>5 DEF ReadRow, Commit, Unheard
<1>6. ASSUME NEW d \in Delivery, Abort(d) \/ LoseAnswer(d) \/ LoseReport(d)
      PROVE  Reporting'
  BY <1>6 DEF Abort, LoseAnswer, LoseReport
<1>7. CASE UNCHANGED vars
  BY <1>7 DEF vars
<1> QED
  BY <1>1, <1>2, <1>3, <1>4, <1>5, <1>6, <1>7 DEF Next

LEMMA KnownStep == Inv /\ [Next]_vars => Known'
<1> SUFFICES ASSUME Inv, [Next]_vars PROVE Known'
  OBVIOUS
<1> USE DEF Inv, TypeOK, Reporting, Known, storing
<1>1. ASSUME NEW m \in Match, MaybeReportResult(m) PROVE Known'
  BY <1>1 DEF MaybeReportResult, Post
<1>2. CASE RetryTick
  <2>1. Waiting(queue) = Waiting(queue') \cup {Last(queue)} /\ Last(queue) \in reported
    BY <1>2, RightEnd DEF RetryTick
  <2> QED
    BY <1>2, <2>1 DEF RetryTick, Post
<1>3. CASE Crash
  BY <1>3 DEF Crash
<1>4. ASSUME NEW d \in Delivery, Answer(d) PROVE Known'
  BY <1>4 DEF Answer
<1>5. ASSUME NEW d \in Delivery, Requeue(d) PROVE Known'
  <2>1. Waiting(queue') = {report[d]} \cup Waiting(queue) /\ report[d] \in reported
    BY <1>5, LeftEnd DEF Requeue
  <2> QED
    BY <1>5, <2>1 DEF Requeue
<1>6. ASSUME NEW d \in Delivery, ReadRow(d) \/ Commit(d) \/ Unheard(d) PROVE Known'
  BY <1>6 DEF ReadRow, Commit, Unheard
<1>7. ASSUME NEW d \in Delivery, Abort(d) \/ LoseAnswer(d) \/ LoseReport(d) PROVE Known'
  BY <1>7 DEF Abort, LoseAnswer, LoseReport
<1>8. CASE UNCHANGED vars
  BY <1>8 DEF vars
<1> QED
  BY <1>1, <1>2, <1>3, <1>4, <1>5, <1>6, <1>7, <1>8 DEF Next

LEMMA LookingStep == Inv /\ [Next]_vars => Looking'
<1> SUFFICES ASSUME Inv, [Next]_vars PROVE Looking'
  OBVIOUS
<1>0. \A m \in Match, p \in Player : rows'[m][p] >= rows[m][p]
        /\ rows[m][p] \in Nat /\ rows'[m][p] \in Nat
  <2>1. TypeOK /\ TypeOK'
    BY TypeStep DEF Inv
  <2> QED
    BY <2>1, RowsStep DEF TypeOK
<1>a. \A m \in Match, p \in Player : rows[m][p] > 0 => rows'[m][p] > 0
  BY <1>0
<1> USE OutboxAssumption DEF Inv, TypeOK, Reporting, Looking, storing
<1>1. ASSUME NEW m \in Match, MaybeReportResult(m) PROVE Looking'
  BY <1>1 DEF MaybeReportResult, Post
<1>2. CASE RetryTick
  BY <1>2, RightEnd DEF RetryTick, Post
<1>3. CASE Crash
  BY <1>3 DEF Crash
<1>4. ASSUME NEW d \in Delivery, Answer(d) \/ Requeue(d) PROVE Looking'
  BY <1>4 DEF Answer, Requeue
<1>5. ASSUME NEW d \in Delivery, ReadRow(d) PROVE Looking'
  <2>1. rows' = rows /\ report' = report /\ api' = api
    BY <1>5 DEF ReadRow
  <2>2. PICK p \in unread[d] :
          /\ unread' = [unread EXCEPT ![d] = @ \ {p}]
          /\ insert' = IF rows[report[d]][p] = 0
                       THEN [insert EXCEPT ![d] = @ \cup {p}] ELSE insert
    BY <1>5 DEF ReadRow
  <2> SUFFICES ASSUME NEW e \in Delivery, api[e] = "storing"
               PROVE  /\ unread'[e] \cup insert'[e] \subseteq Registered[report[e]]
                      /\ \A q \in Registered[report[e]] :
                           q \in unread'[e] \/ q \in insert'[e] \/ rows[report[e]][q] > 0
    BY <2>1
  <2>3. report[e] \in Match /\ Registered[report[e]] \subseteq Player
    OBVIOUS
  <2>4. CASE e # d
    BY <2>2, <2>4
  <2>5. CASE e = d
    <3>1. rows[report[d]][p] = 0 \/ rows[report[d]][p] > 0
      BY <2>2, <2>3, <2>5
    <3>2. insert'[d] = IF rows[report[d]][p] = 0 THEN insert[d] \cup {p} ELSE insert[d]
      BY <2>2
    <3>3. unread'[d] = unread[d] \ {p}
      BY <2>2
    <3> QED
      BY <2>2, <2>5, <3>1, <3>2, <3>3
  <2> QED
    BY <2>4, <2>5
<1>6. ASSUME NEW d \in Delivery, Commit(d) PROVE Looking'
  <2> SUFFICES ASSUME NEW e \in Delivery, api'[e] = "storing"
               PROVE  /\ unread[e] \cup insert[e] \subseteq Registered[report[e]]
                      /\ \A p \in Registered[report[e]] :
                           p \in unread[e] \/ p \in insert[e] \/ rows'[report[e]][p] > 0
    BY <1>6 DEF Commit
  <2>1. api[e] = "storing"
    BY <1>6 DEF Commit
  <2> QED
    BY <1>a, <2>1
<1>7. ASSUME NEW d \in Delivery, Unheard(d) PROVE Looking'
  BY <1>7 DEF Unheard
<1>8. ASSUME NEW d \in Delivery, Abort(d) \/ LoseAnswer(d) \/ LoseReport(d) PROVE Looking'
  BY <1>8 DEF Abort, LoseAnswer, LoseReport
<1>9. CASE UNCHANGED vars
  BY <1>9 DEF vars
<1> QED
  BY <1>1, <1>2, <1>3, <1>4, <1>5, <1>6, <1>7, <1>8, <1>9 DEF Next

\* An answer of success follows a commit.
LEMMA AnsweredStep == Inv /\ [Next]_vars => Answered'
<1> SUFFICES ASSUME Inv, [Next]_vars PROVE Answered'
  OBVIOUS
<1>0. \A m \in Match : Stored(m) => Stored(m)'
  BY StoredStays
<1>a. \A d \in Delivery : api[d] = "stored" => report[d] \in Match /\ Stored(report[d])
  BY DEF Inv, Reporting, Answered
\* A delivery whose report is what it was.
<1>b. ASSUME NEW d \in Delivery, api[d] = "stored", report'[d] = report[d]
      PROVE  Stored(report[d])'
  <2>1. \A p \in Registered[report[d]] : rows'[report[d]][p] > 0
    BY <1>0, <1>a, <1>b DEF Stored
  <2> QED
    BY <2>1, <1>b DEF Stored
<1> USE DEF Inv, TypeOK, storing
<1>1. ASSUME NEW m \in Match, MaybeReportResult(m) PROVE Answered'
  BY <1>b, <1>1 DEF MaybeReportResult, Post, Answered
<1>2. CASE RetryTick
  BY <1>b, <1>2 DEF RetryTick, Post, Answered
<1>3. CASE Crash
  BY <1>b, <1>3 DEF Crash, Answered
<1>4. ASSUME NEW d \in Delivery, Answer(d) \/ Requeue(d) \/ ReadRow(d) \/ Unheard(d)
      PROVE  Answered'
  BY <1>b, <1>4 DEF Answer, Requeue, ReadRow, Unheard, Answered
<1>5. ASSUME NEW d \in Delivery, Commit(d) PROVE Answered'
  <2>1. report' = report
    BY <1>5 DEF Commit
  <2>2. CASE Conflict(d)
    <3>1. \A e \in Delivery : api'[e] = "stored" => api[e] = "stored"
      BY <1>5, <2>2 DEF Commit
    <3> QED
      BY <1>b, <2>1, <3>1 DEF Answered
  <2>3. CASE ~ Conflict(d)
    <3>1. \A e \in Delivery : api'[e] = "stored" => e = d \/ api[e] = "stored"
      BY <1>5, <2>3 DEF Commit
    <3>2. Stored(report[d])'
      BY <1>5, <2>3, RowsOfCommit
    <3> QED
      BY <1>b, <2>1, <3>1, <3>2 DEF Answered
  <2> QED
    BY <2>2, <2>3
<1>6. ASSUME NEW d \in Delivery, Abort(d) \/ LoseAnswer(d) \/ LoseReport(d)
      PROVE  Answered'
  BY <1>b, <1>6 DEF Abort, LoseAnswer, LoseReport, Answered
<1>7. CASE UNCHANGED vars
  BY <1>b, <1>7 DEF vars, Answered
<1> QED
  BY <1>1, <1>2, <1>3, <1>4, <1>5, <1>6, <1>7 DEF Next

-----------------------------------------------------------------------------
(***************************************************************************)
(* Where the report of a match is.                                         *)
(***************************************************************************)
Accounted(m) ==
  \/ Stored(m)
  \/ m \in lost
  \/ m \in Waiting(queue)
  \/ \E d \in Delivery : report[d] = m /\ caller[d] # "none"

\* A delivery that begins is about its match and takes nobody's place.
LEMMA Posted ==
  ASSUME Inv, NEW d \in Delivery, NEW m \in Match, Post(d, m)
  PROVE  /\ report'[d] = m /\ caller'[d] # "none"
         /\ \A e \in Delivery : caller[e] # "none" =>
              report'[e] = report[e] /\ caller'[e] # "none"
BY DEF Inv, TypeOK, Post

LEMMA ForgottenStep == Inv /\ [Next]_vars => NoReportIsForgotten'
<1> SUFFICES ASSUME Inv, [Next]_vars, NEW m \in reported' PROVE Accounted(m)'
  BY DEF NoReportIsForgotten, Accounted, Waiting
<1>0. \A q \in Match : Stored(q) => Stored(q)'
  BY StoredStays
<1>a. m \in reported => m \in Match /\ Accounted(m)
  BY DEF Inv, TypeOK, NoReportIsForgotten, Accounted, Waiting
\* What keeps the queue, the losses and the deliveries keeps the report.
<1>b. ASSUME m \in reported, lost \subseteq lost', Waiting(queue) \subseteq Waiting(queue'),
             \A d \in Delivery : caller[d] # "none" /\ report[d] = m =>
               \/ report'[d] = m /\ caller'[d] # "none"
               \/ Accounted(m)'
      PROVE  Accounted(m)'
  BY <1>0, <1>a, <1>b DEF Accounted
<1> USE DEF storing
<1>1. ASSUME NEW q \in Match, MaybeReportResult(q) PROVE Accounted(m)'
  <2>1. PICK d \in Delivery : Post(d, q)
    BY <1>1 DEF MaybeReportResult
  <2>2. lost' = lost /\ queue' = queue
    BY <1>1 DEF MaybeReportResult, Post
  <2>3. m = q \/ m \in reported
    BY <1>1 DEF MaybeReportResult
  <2>4. CASE m = q
    BY <2>1, <2>4, Posted DEF Accounted
  <2>5. CASE m \in reported
    BY <1>b, <2>1, <2>2, <2>5, Posted
  <2> QED
    BY <2>3, <2>4, <2>5
<1>2. CASE RetryTick
  <2>1. PICK d \in Delivery : Post(d, Last(queue))
    BY <1>2 DEF RetryTick
  <2>2. /\ Last(queue) \in Match
        /\ Waiting(queue) = Waiting(queue') \cup {Last(queue)}
    BY <1>2, RightEnd DEF RetryTick, Inv, TypeOK
  <2>3. /\ report'[d] = Last(queue) /\ caller'[d] # "none"
        /\ \A e \in Delivery : caller[e] # "none" =>
             report'[e] = report[e] /\ caller'[e] # "none"
    BY <2>1, <2>2, Posted
  <2>4. lost' = lost /\ reported' = reported
    BY <1>2 DEF RetryTick, Post
  <2> QED
    BY <1>0, <1>a, <2>2, <2>3, <2>4 DEF Accounted
<1>3. CASE Crash
  <2>1. /\ reported' = reported /\ queue' = queue
        /\ \A d \in Delivery : caller[d] # "none" => report[d] \in lost'
        /\ lost \subseteq lost'
    BY <1>3 DEF Crash
  <2> QED
    BY <1>b, <2>1 DEF Accounted
<1>4. ASSUME NEW d \in Delivery, Answer(d) PROVE Accounted(m)'
  <2>1. /\ reported' = reported /\ queue' = queue /\ lost' = lost /\ report' = report
        /\ rows' = rows
        /\ \A e \in Delivery : caller[e] # "none" =>
             caller'[e] # "none" \/ (e = d /\ api[d] = "stored")
    BY <1>4 DEF Answer, Inv, TypeOK
  <2>2. api[d] = "stored" => Stored(report[d])
    BY DEF Inv, Answered
  <2>3. Stored(report[d]) => Stored(report[d])'
    BY <2>1 DEF Stored
  <2> QED
    BY <1>b, <2>1, <2>2, <2>3 DEF Accounted
<1>5. ASSUME NEW d \in Delivery, Requeue(d) PROVE Accounted(m)'
  <2>1. report[d] \in Match /\ queue \in Seq(Match)
    BY <1>5 DEF Requeue, Inv, Reporting, TypeOK
  <2>2. Waiting(queue') = {report[d]} \cup Waiting(queue)
    BY <1>5, <2>1, LeftEnd DEF Requeue
  <2>3. /\ reported' = reported /\ lost' = lost /\ report' = report
        /\ \A e \in Delivery : caller[e] # "none" => caller'[e] # "none" \/ e = d
    BY <1>5 DEF Requeue, Inv, TypeOK
  <2> QED
    BY <1>b, <2>2, <2>3 DEF Accounted
<1>6. ASSUME NEW d \in Delivery, ReadRow(d) \/ Commit(d) \/ Unheard(d) \/ Abort(d)
      PROVE  Accounted(m)'
  BY <1>b, <1>6 DEF ReadRow, Commit, Unheard, Abort
<1>7. ASSUME NEW d \in Delivery, LoseAnswer(d) PROVE Accounted(m)'
  BY <1>b, <1>7 DEF LoseAnswer, Inv, TypeOK
<1>8. ASSUME NEW d \in Delivery, LoseReport(d) PROVE Accounted(m)'
  <2>1. /\ reported' = reported /\ queue' = queue /\ report' = report
        /\ lost' = lost \cup {report[d]}
        /\ \A e \in Delivery : caller[e] # "none" => caller'[e] # "none" \/ e = d
    BY <1>8 DEF LoseReport, Inv, TypeOK
  <2> QED
    BY <1>b, <2>1 DEF Accounted
<1>9. CASE UNCHANGED vars
  BY <1>b, <1>9 DEF vars
<1> QED
  BY <1>1, <1>2, <1>3, <1>4, <1>5, <1>6, <1>7, <1>8, <1>9 DEF Next

\* Every step keeps the invariant.
LEMMA InvStep == Inv /\ [Next]_vars => Inv'
<1> SUFFICES ASSUME Inv, [Next]_vars PROVE Inv'
  OBVIOUS
<1>1. TypeOK'
  BY TypeStep DEF Inv
<1> QED
  BY <1>1, ReportingStep, KnownStep, LookingStep, AnsweredStep, RowsStep, ForgottenStep DEF Inv

LEMMA Invariant == Spec => []Inv
BY InitInv, InvStep, PTL DEF Spec

-----------------------------------------------------------------------------
(***************************************************************************)
(* Every variable has a value the code can give it.                        *)
(***************************************************************************)
THEOREM TypeCorrect == Spec => []TypeOK
<1>1. Inv => TypeOK
  BY DEF Inv
<1> QED
  BY <1>1, Invariant, PTL

(***************************************************************************)
(* Whatever requests overlap, are repeated or broken off, the statistics   *)
(* have all of a match once or nothing of it.                              *)
(***************************************************************************)
THEOREM AllOrNothing == Spec => []ResultsAreWhole
<1>1. Inv => ResultsAreWhole
  BY DEF Inv
<1> QED
  BY <1>1, Invariant, PTL

(***************************************************************************)
(* A report that is neither stored nor lost to a fault is still known to   *)
(* the game server.                                                        *)
(***************************************************************************)
THEOREM NothingIsForgotten == Spec => []NoReportIsForgotten
<1>1. Inv => NoReportIsForgotten
  BY DEF Inv
<1> QED
  BY <1>1, Invariant, PTL
-----------------------------------------------------------------------------
(***************************************************************************)
(* The statistics of the players.                                          *)
(***************************************************************************)
\* A commit stores nothing, or all of a match that had nothing.
LEMMA CommitStores ==
  ASSUME Inv, NEW d \in Delivery, Commit(d)
  PROVE  \/ rows' = rows
         \/ /\ rows[report[d]] = Statistics!Nothing
            /\ rows' = [rows EXCEPT ![report[d]] = Statistics!Whole(report[d])]
<1> DEFINE m   == report[d]
           add == [p \in Player |-> rows[m][p] + (IF p \in insert[d] THEN 1 ELSE 0)]
<1>1. /\ m \in Match /\ Registered[m] \subseteq Player
      /\ rows \in [Match -> [Player -> Nat]] /\ rows[m] \in [Player -> Nat]
      /\ api[d] = "storing" /\ unread[d] = {}
  BY OutboxAssumption DEF Commit, Inv, TypeOK, Reporting
<1>2. CASE Conflict(d)
  BY <1>2 DEF Commit
<1>3. CASE ~ Conflict(d)
  <2>1. rows' = [rows EXCEPT ![m] = add]
    BY <1>3 DEF Commit
  <2>2. \A p \in insert[d] : rows[m][p] = 0 /\ p \in Registered[m]
    BY <1>1, <1>3 DEF Conflict, Looking, Inv, TypeOK
  <2>3. \A p \in Registered[m] : p \in insert[d] \/ rows[m][p] > 0
    BY <1>1 DEF Looking, Inv
  <2>4. \/ \A p \in Player : rows[m][p] = 0
        \/ \A p \in Player : rows[m][p] = IF p \in Registered[m] THEN 1 ELSE 0
    BY <1>1 DEF ResultsAreWhole, Inv
  <2> HIDE DEF m
  <2>5. CASE \A p \in Player : rows[m][p] = 0
    <3>1. rows[m] = Statistics!Nothing
      BY <1>1, <2>5 DEF Statistics!Nothing
    <3>2. \A p \in Player : p \in insert[d] <=> p \in Registered[m]
      BY <2>2, <2>3, <2>5
    <3>3. add = Statistics!Whole(m)
      BY <2>5, <3>2 DEF Statistics!Whole
    <3> QED
      BY <2>1, <3>1, <3>3 DEF m
  <2>6. CASE \A p \in Player : rows[m][p] = IF p \in Registered[m] THEN 1 ELSE 0
    <3>1. insert[d] = {}
      BY <1>1, <2>2, <2>6
    <3>2. add = [p \in Player |-> rows[m][p]]
      BY <1>1, <3>1
    <3>3. add = rows[m]
      BY <1>1, <3>2
    <3> HIDE DEF add
    <3> QED
      BY <1>1, <2>1, <3>3
  <2> QED
    BY <2>4, <2>5, <2>6
<1> QED
  BY <1>2, <1>3

\* Of the other steps only the report of a match is seen.
LEMMA OthersReport ==
  ASSUME [Next]_vars, \A d \in Delivery : ~ Commit(d)
  PROVE  reported' = reported \/ \E m \in Match \ reported : reported' = reported \cup {m}
<1>1. ASSUME NEW m \in Match, MaybeReportResult(m)
      PROVE  m \notin reported /\ reported' = reported \cup {m}
  BY <1>1 DEF MaybeReportResult
<1>2. CASE RetryTick \/ Crash
  BY <1>2 DEF RetryTick, Crash
<1>3. ASSUME NEW d \in Delivery,
             Answer(d) \/ Requeue(d) \/ ReadRow(d) \/ Unheard(d)
               \/ Abort(d) \/ LoseAnswer(d) \/ LoseReport(d)
      PROVE  reported' = reported
  BY <1>3 DEF Answer, Requeue, ReadRow, Unheard, Abort, LoseAnswer, LoseReport
<1>4. CASE UNCHANGED vars
  BY <1>4 DEF vars
<1> QED
  BY <1>1, <1>2, <1>3, <1>4 DEF Next

(***************************************************************************)
(* The deliveries implement Results: rows appear for reported matches only *)
(* and for a match at once, and nothing changes them afterwards.           *)
(***************************************************************************)
THEOREM OnceAndForAll == Spec => ResultsAreFinal
<1>1. Init => Statistics!Init
  BY DEF Init, Statistics!Init, Statistics!Nothing
<1>2. Inv /\ [Next]_vars => [Statistics!Next]_(Statistics!vars)
  <2> SUFFICES ASSUME Inv, [Next]_vars
               PROVE  Statistics!Next \/ (reported' = reported /\ rows' = rows)
    BY DEF Statistics!vars
  <2>1. ASSUME NEW d \in Delivery, Commit(d)
        PROVE  Statistics!Store \/ (reported' = reported /\ rows' = rows)
    <3>1. report[d] \in reported /\ reported' = reported
      BY <2>1 DEF Commit, Inv, Known
    <3> QED
      BY <2>1, <3>1, CommitStores DEF Statistics!Store
  <2>2. CASE \A d \in Delivery : ~ Commit(d)
    <3>1. rows' = rows
      BY <2>2, RowsOfOthers
    <3> QED
      BY <2>2, <3>1, OthersReport DEF Statistics!Next, Statistics!Finish
  <2> QED
    BY <2>1, <2>2 DEF Statistics!Next
<1> QED
  BY <1>1, <1>2, Invariant, PTL DEF Spec, ResultsAreFinal, Statistics!Spec
-----------------------------------------------------------------------------
(***************************************************************************)
(* Every step of a delivery is progress.                                   *)
(***************************************************************************)
LEMMA Parts ==
  /\ DOMAIN Measure = 1..9
  /\ Measure[1] = (faults + 1)..MaxFaults /\ Measure'[1] = (faults' + 1)..MaxFaults
  /\ Measure[2] = Match \ reported        /\ Measure'[2] = Match \ reported'
  /\ Measure[3] = Unstored                /\ Measure'[3] = Unstored'
  /\ Measure[4] = Returning               /\ Measure'[4] = Returning'
  /\ Measure[5] = DOMAIN queue            /\ Measure'[5] = DOMAIN queue'
  /\ Measure[6] = Awaited                 /\ Measure'[6] = Awaited'
  /\ Measure[7] = Busy                    /\ Measure'[7] = Busy'
  /\ Measure[8] = Storing                 /\ Measure'[8] = Storing'
  /\ Measure[9] = ToRead                  /\ Measure'[9] = ToRead'
BY DEF Measure

\* Which set of Measure a step makes smaller.
LEMMA Shrunk ==
  ASSUME NEW i \in 1..9, Measure'[i] \subseteq Measure[i], Measure'[i] # Measure[i],
         \A j \in 1..(i - 1) : Measure'[j] = Measure[j]
  PROVE  Shrinks(Measure', Measure)
BY Parts DEF Shrinks

LEMMA FaultShrinks ==
  ASSUME TypeOK, Fault PROVE Shrinks(Measure', Measure)
<1>1. faults \in Nat /\ MaxFaults \in Nat /\ faults < MaxFaults /\ faults' = faults + 1
  BY OutboxAssumption DEF Fault, TypeOK
<1>2. faults + 1 \in (faults + 1)..MaxFaults /\ faults + 1 \notin (faults' + 1)..MaxFaults
        /\ (faults' + 1)..MaxFaults \subseteq (faults + 1)..MaxFaults
  BY <1>1
<1>3. Measure'[1] = (faults' + 1)..MaxFaults /\ Measure[1] = (faults + 1)..MaxFaults
  BY Parts
<1>4. Measure'[1] \subseteq Measure[1] /\ Measure'[1] # Measure[1]
  BY <1>2, <1>3
<1>5. 1 \in 1..9 /\ \A j \in 1..(1 - 1) : Measure'[j] = Measure[j]
  OBVIOUS
<1> QED
  BY <1>4, <1>5, Shrunk

\* The steps of a delivery take nothing that comes before the set they shrink.
LEMMA ReportShrinks ==
  ASSUME NEW m \in Match, MaybeReportResult(m) PROVE Shrinks(Measure', Measure)
<1>1. m \notin reported /\ reported' = reported \cup {m} /\ faults' = faults
  BY DEF MaybeReportResult, Post
<1>2. Measure'[2] \subseteq Measure[2] /\ Measure'[2] # Measure[2]
  BY <1>1, Parts
<1>3. Measure'[1] = Measure[1]
  BY <1>1, Parts
<1>4. 2 \in 1..9 /\ \A j \in 1..(2 - 1) : j = 1
  OBVIOUS
<1> QED
  BY <1>2, <1>3, <1>4, Shrunk

\* What does not touch the rows leaves as much to store.
LEMMA AsMuchToStore ==
  ASSUME rows' = rows, reported' = reported, faults' = faults
  PROVE  Unstored' = Unstored /\ \A j \in 1..3 : Measure'[j] = Measure[j]
<1>1. Unstored' = Unstored
  BY DEF Unstored, Stored
<1>2. Measure'[1] = Measure[1] /\ Measure'[2] = Measure[2] /\ Measure'[3] = Measure[3]
  BY <1>1, Parts
<1>3. \A j \in 1..3 : j = 1 \/ j = 2 \/ j = 3
  OBVIOUS
<1> QED
  BY <1>1, <1>2, <1>3

\* A request meets the rows it met.
LEMMA SameConflicts ==
  ASSUME NEW d \in Delivery, rows' = rows, report'[d] = report[d], insert'[d] = insert[d]
  PROVE  Conflict(d)' = Conflict(d)
BY DEF Conflict

LEMMA RetryShrinks ==
  ASSUME Inv, RetryTick PROVE Shrinks(Measure', Measure)
<1>1. PICK d \in Delivery : Post(d, Last(queue))
  BY DEF RetryTick
<1>2. /\ caller[d] = "none" /\ api[d] = "none"
      /\ caller' = [caller EXCEPT ![d] = "waiting"] /\ api' = [api EXCEPT ![d] = "storing"]
      /\ insert' = [insert EXCEPT ![d] = {}] /\ report' = [report EXCEPT ![d] = Last(queue)]
      /\ rows' = rows /\ faults' = faults /\ reported' = reported
      /\ queue # <<>> /\ queue' = Front(queue)
  BY <1>1 DEF Post, RetryTick
<1>3. \A j \in 1..3 : Measure'[j] = Measure[j]
  BY <1>2, AsMuchToStore
<1>4. d \notin Returning /\ d \notin Returning'
  <2>1. insert'[d] = {} /\ caller'[d] = "waiting" /\ api'[d] = "storing"
    BY <1>2 DEF Inv, TypeOK
  <2>2. ~ Conflict(d)'
    BY <2>1 DEF Conflict
  <2> QED
    BY <1>2, <2>1, <2>2 DEF Returning
<1>5. ASSUME NEW e \in Delivery, e # d PROVE e \in Returning' <=> e \in Returning
  <2>1. /\ caller'[e] = caller[e] /\ api'[e] = api[e]
        /\ insert'[e] = insert[e] /\ report'[e] = report[e]
    BY <1>2, <1>5 DEF Inv, TypeOK
  <2>2. Conflict(e)' = Conflict(e)
    BY <1>2, <2>1, SameConflicts
  <2> QED
    BY <2>1, <2>2 DEF Returning
<1>6. Returning' = Returning
  BY <1>4, <1>5 DEF Returning
<1>7. DOMAIN queue' \subseteq DOMAIN queue /\ DOMAIN queue' # DOMAIN queue
  <2>1. queue \in Seq(Match) /\ Len(queue) \in Nat \ {0} /\ DOMAIN queue = 1..Len(queue)
    BY <1>2 DEF Inv, TypeOK
  <2>2. DOMAIN Front(queue) = 1..(Len(queue) - 1)
    BY <2>1 DEF Front
  <2>3. Len(queue) \in 1..Len(queue) /\ Len(queue) \notin 1..(Len(queue) - 1)
          /\ 1..(Len(queue) - 1) \subseteq 1..Len(queue)
    BY <2>1
  <2>4. DOMAIN queue' = 1..(Len(queue) - 1)
    BY <1>2, <2>2
  <2> QED
    BY <2>1, <2>3, <2>4
<1>8. Measure'[5] \subseteq Measure[5] /\ Measure'[5] # Measure[5]
  BY <1>7, Parts
<1>9. Measure'[4] = Measure[4]
  BY <1>6, Parts
<1>10. 5 \in 1..9 /\ \A j \in 1..(5 - 1) : j \in 1..3 \/ j = 4
  OBVIOUS
<1> QED
  BY <1>3, <1>8, <1>9, <1>10, Shrunk

LEMMA RequeueShrinks ==
  ASSUME Inv, NEW d \in Delivery, Requeue(d) PROVE Shrinks(Measure', Measure)
<1>1. /\ caller[d] = "failed" /\ caller' = [caller EXCEPT ![d] = "none"]
      /\ api' = api /\ insert' = insert /\ rows' = rows /\ report' = report
      /\ faults' = faults /\ reported' = reported
  BY DEF Requeue, storing
<1>2. \A j \in 1..3 : Measure'[j] = Measure[j]
  BY <1>1, AsMuchToStore
<1>3. d \in Returning /\ d \notin Returning'
  BY <1>1 DEF Returning, Inv, TypeOK
<1>4. ASSUME NEW e \in Delivery, e # d PROVE e \in Returning' <=> e \in Returning
  <2>1. caller'[e] = caller[e]
    BY <1>1, <1>4 DEF Inv, TypeOK
  <2>2. Conflict(e)' = Conflict(e)
    BY <1>1, SameConflicts
  <2> QED
    BY <1>1, <2>1, <2>2 DEF Returning
<1>5. Returning' \subseteq Returning /\ Returning' # Returning
  BY <1>3, <1>4 DEF Returning
<1>6. Measure'[4] \subseteq Measure[4] /\ Measure'[4] # Measure[4]
  BY <1>5, Parts
<1>7. 4 \in 1..9 /\ \A j \in 1..(4 - 1) : j \in 1..3
  OBVIOUS
<1> QED
  BY <1>2, <1>6, <1>7, Shrunk

\* The steps that touch neither the queue nor who comes back.
LEMMA SameBefore ==
  ASSUME rows' = rows, reported' = reported, faults' = faults, queue' = queue,
         Returning' = Returning
  PROVE  \A j \in 1..5 : Measure'[j] = Measure[j]
<1>1. \A j \in 1..3 : Measure'[j] = Measure[j]
  BY AsMuchToStore
<1>2. Measure'[4] = Measure[4] /\ Measure'[5] = Measure[5]
  BY Parts
<1>3. \A j \in 1..5 : j \in 1..3 \/ j = 4 \/ j = 5
  OBVIOUS
<1> QED
  BY <1>1, <1>2, <1>3

LEMMA AnswerShrinks ==
  ASSUME Inv, NEW d \in Delivery, Answer(d) PROVE Shrinks(Measure', Measure)
<1>1. /\ caller[d] = "waiting" /\ api[d] \in {"stored", "error"}
      /\ caller' = [caller EXCEPT ![d] = IF api[d] = "stored" THEN "none" ELSE "failed"]
      /\ api' = [api EXCEPT ![d] = "none"]
      /\ insert' = insert /\ rows' = rows /\ report' = report /\ queue' = queue
      /\ faults' = faults /\ reported' = reported
  BY DEF Answer
<1>2. \A e \in Delivery : Conflict(e)' = Conflict(e)
  BY <1>1, SameConflicts
<1>3. /\ caller'[d] = IF api[d] = "stored" THEN "none" ELSE "failed"
      /\ \A e \in Delivery \ {d} : caller'[e] = caller[e] /\ api'[e] = api[e]
  BY <1>1 DEF Inv, TypeOK
<1>4. d \in Returning' <=> d \in Returning
  BY <1>1, <1>3 DEF Returning
<1>5. ASSUME NEW e \in Delivery \ {d} PROVE e \in Returning' <=> e \in Returning
  BY <1>2, <1>3 DEF Returning
<1>6. Returning' = Returning
  BY <1>4, <1>5 DEF Returning
<1>7. \A j \in 1..5 : Measure'[j] = Measure[j]
  BY <1>1, <1>6, SameBefore
<1>8. Awaited' \subseteq Awaited /\ d \in Awaited /\ d \notin Awaited'
  BY <1>1, <1>3 DEF Awaited
<1>9. Measure'[6] \subseteq Measure[6] /\ Measure'[6] # Measure[6]
  BY <1>8, Parts
<1>10. 6 \in 1..9 /\ \A j \in 1..(6 - 1) : j \in 1..5
  OBVIOUS
<1> QED
  BY <1>7, <1>9, <1>10, Shrunk

LEMMA UnheardShrinks ==
  ASSUME Inv, NEW d \in Delivery, Unheard(d) PROVE Shrinks(Measure', Measure)
<1>1. /\ caller[d] # "waiting" /\ api[d] \in {"stored", "error"}
      /\ caller' = caller /\ api' = [api EXCEPT ![d] = "none"]
      /\ insert' = insert /\ rows' = rows /\ report' = report /\ queue' = queue
      /\ faults' = faults /\ reported' = reported
  BY DEF Unheard
<1>2. \A e \in Delivery : Conflict(e)' = Conflict(e)
  BY <1>1, SameConflicts
<1>3. api'[d] = "none" /\ \A e \in Delivery \ {d} : api'[e] = api[e]
  BY <1>1 DEF Inv, TypeOK
<1>4. d \in Returning' <=> d \in Returning
  BY <1>1 DEF Returning
<1>5. ASSUME NEW e \in Delivery \ {d} PROVE e \in Returning' <=> e \in Returning
  BY <1>1, <1>2, <1>3 DEF Returning
<1>6. Returning' = Returning
  BY <1>4, <1>5 DEF Returning
<1>7. \A j \in 1..5 : Measure'[j] = Measure[j]
  BY <1>1, <1>6, SameBefore
<1>8. Awaited' = Awaited
  BY <1>1 DEF Awaited
<1>9. Busy' \subseteq Busy /\ d \in Busy /\ d \notin Busy'
  BY <1>1, <1>3 DEF Busy
<1>10. Measure'[7] \subseteq Measure[7] /\ Measure'[7] # Measure[7] /\ Measure'[6] = Measure[6]
  BY <1>8, <1>9, Parts
<1>11. 7 \in 1..9 /\ \A j \in 1..(7 - 1) : j \in 1..5 \/ j = 6
  OBVIOUS
<1> QED
  BY <1>7, <1>10, <1>11, Shrunk

LEMMA CommitShrinks ==
  ASSUME Inv, NEW d \in Delivery, Commit(d) PROVE Shrinks(Measure', Measure)
<1>1. /\ api[d] = "storing" /\ unread[d] = {} /\ report[d] \in Match
      /\ reported' = reported /\ queue' = queue /\ report' = report /\ caller' = caller
      /\ unread' = unread /\ insert' = insert /\ faults' = faults
  BY DEF Commit, Inv, Reporting
<1>2. \/ Conflict(d) /\ api' = [api EXCEPT ![d] = "error"] /\ rows' = rows
      \/ ~ Conflict(d) /\ api' = [api EXCEPT ![d] = "stored"]
  BY DEF Commit
<1>3. api'[d] \in {"error", "stored"} /\ \A e \in Delivery \ {d} : api'[e] = api[e]
  BY <1>2 DEF Inv, TypeOK
\* It stores a match that was not stored.
<1>4. CASE rows' # rows
  <2>1. ~ Conflict(d)
    BY <1>2, <1>4
  <2>2. Stored(report[d])'
    BY <2>1, RowsOfCommit
  <2>3. rows[report[d]] = Statistics!Nothing /\ rows' = [rows EXCEPT ![report[d]] =
          Statistics!Whole(report[d])]
    BY <1>4, CommitStores
  <2>4. ~ Stored(report[d])
    <3> SUFFICES ASSUME Stored(report[d]) PROVE FALSE
      OBVIOUS
    <3>1. Registered[report[d]] \subseteq Player
      BY <1>1, OutboxAssumption
    <3>2. Registered[report[d]] = {}
      BY <2>3, <3>1 DEF Stored, Statistics!Nothing
    <3>3. Statistics!Whole(report[d]) = Statistics!Nothing
      BY <3>2 DEF Statistics!Whole, Statistics!Nothing
    <3>4. rows \in [Match -> [Player -> Nat]]
      BY DEF Inv, TypeOK
    <3> QED
      BY <1>1, <1>4, <2>3, <3>3, <3>4
  <2>5. \A m \in Match : Stored(m) => Stored(m)'
    BY StoredStays DEF Next
  <2>6. Unstored' \subseteq Unstored /\ report[d] \in Unstored
    BY <1>1, <2>4, <2>5 DEF Unstored
  <2>7. report[d] \notin Unstored'
    BY <1>1, <2>2 DEF Unstored
  <2>8. Measure'[3] \subseteq Measure[3] /\ Measure'[3] # Measure[3]
    BY <2>6, <2>7, Parts
  <2>9. Measure'[1] = Measure[1] /\ Measure'[2] = Measure[2]
    BY <1>1, Parts
  <2>10. 3 \in 1..9 /\ \A j \in 1..(3 - 1) : j = 1 \/ j = 2
    OBVIOUS
  <2> QED
    BY <2>8, <2>9, <2>10, Shrunk
\* It finds nothing to store, or rows that somebody has stored.
<1>5. CASE rows' = rows
  <2>1. \A e \in Delivery : Conflict(e)' = Conflict(e)
    BY <1>1, <1>5, SameConflicts
  <2>2. d \in Returning' <=> d \in Returning
    <3>1. api'[d] = IF Conflict(d) THEN "error" ELSE "stored"
      BY <1>2 DEF Inv, TypeOK
    <3> QED
      BY <1>1, <3>1 DEF Returning
  <2>3. ASSUME NEW e \in Delivery \ {d} PROVE e \in Returning' <=> e \in Returning
    BY <1>1, <1>3, <2>1 DEF Returning
  <2>4. Returning' = Returning
    BY <2>2, <2>3 DEF Returning
  <2>5. \A j \in 1..5 : Measure'[j] = Measure[j]
    BY <1>1, <1>5, <2>4, SameBefore
  <2>6. Awaited' = Awaited /\ Busy' = Busy
    BY <1>1, <1>3 DEF Awaited, Busy
  <2>7. Storing' \subseteq Storing /\ d \in Storing /\ d \notin Storing'
    BY <1>1, <1>3 DEF Storing
  <2>8. /\ Measure'[8] \subseteq Measure[8] /\ Measure'[8] # Measure[8]
        /\ Measure'[6] = Measure[6] /\ Measure'[7] = Measure[7]
    BY <2>6, <2>7, Parts
  <2>9. 8 \in 1..9 /\ \A j \in 1..(8 - 1) : j \in 1..5 \/ j = 6 \/ j = 7
    OBVIOUS
  <2> QED
    BY <2>5, <2>8, <2>9, Shrunk
<1> QED
  BY <1>4, <1>5

LEMMA ReadShrinks ==
  ASSUME Inv, NEW d \in Delivery, ReadRow(d) PROVE Shrinks(Measure', Measure)
<1>1. /\ api[d] = "storing" /\ reported' = reported /\ queue' = queue /\ report' = report
      /\ caller' = caller /\ api' = api /\ rows' = rows /\ faults' = faults
  BY DEF ReadRow
<1>2. PICK p \in unread[d] :
        /\ unread' = [unread EXCEPT ![d] = @ \ {p}]
        /\ insert' = IF rows[report[d]][p] = 0
                     THEN [insert EXCEPT ![d] = @ \cup {p}] ELSE insert
  BY DEF ReadRow
<1>3. p \in Player
  BY DEF Inv, TypeOK
<1>4. Conflict(d)' <=> Conflict(d)
  <2>1. insert'[d] = insert[d] \/ (insert'[d] = insert[d] \cup {p} /\ rows[report[d]][p] = 0)
    BY <1>2 DEF Inv, TypeOK
  <2> QED
    BY <1>1, <2>1 DEF Conflict
<1>5. ASSUME NEW e \in Delivery, e # d PROVE Conflict(e)' <=> Conflict(e)
  <2>1. insert'[e] = insert[e]
    BY <1>2, <1>5 DEF Inv, TypeOK
  <2> QED
    BY <1>1, <2>1 DEF Conflict
<1>6. Returning' = Returning
  BY <1>1, <1>4, <1>5 DEF Returning
<1>7. \A j \in 1..5 : Measure'[j] = Measure[j]
  BY <1>1, <1>6, SameBefore
<1>8. Awaited' = Awaited /\ Busy' = Busy /\ Storing' = Storing
  BY <1>1 DEF Awaited, Busy, Storing
<1>9. \A e \in Delivery : unread'[e] \subseteq unread[e]
  BY <1>2 DEF Inv, TypeOK
<1>10. p \notin unread'[d]
  BY <1>2 DEF Inv, TypeOK
<1>11. ToRead' \subseteq ToRead
  BY <1>8, <1>9 DEF ToRead, Storing
<1>12. <<d, p>> \in ToRead /\ <<d, p>> \notin ToRead'
  BY <1>1, <1>2, <1>3, <1>10 DEF ToRead, Storing
<1>13. /\ Measure'[9] \subseteq Measure[9] /\ Measure'[9] # Measure[9]
       /\ Measure'[6] = Measure[6] /\ Measure'[7] = Measure[7] /\ Measure'[8] = Measure[8]
  BY <1>8, <1>11, <1>12, Parts
<1>14. 9 \in 1..9 /\ \A j \in 1..(9 - 1) : j \in 1..5 \/ j = 6 \/ j = 7 \/ j = 8
  OBVIOUS
<1> QED
  BY <1>7, <1>13, <1>14, Shrunk

(***************************************************************************)
(* Every step of the deliveries makes what is left to do smaller: the      *)
(* retries come to an end, whatever overlaps and with any number of        *)
(* faults.                                                                 *)
(***************************************************************************)
THEOREM RetriesEnd == Spec => EveryDeliveryIsProgress
<1>1. Inv /\ Next => Shrinks(Measure', Measure)
  <2> SUFFICES ASSUME Inv, Next PROVE Shrinks(Measure', Measure)
    OBVIOUS
  <2>1. ASSUME NEW m \in Match, MaybeReportResult(m) PROVE Shrinks(Measure', Measure)
    BY <2>1, ReportShrinks
  <2>2. CASE RetryTick
    BY <2>2, RetryShrinks
  <2>3. ASSUME Fault PROVE Shrinks(Measure', Measure)
    BY <2>3, FaultShrinks DEF Inv
  <2>4. ASSUME NEW d \in Delivery, Answer(d) \/ Requeue(d) PROVE Shrinks(Measure', Measure)
    BY <2>4, AnswerShrinks, RequeueShrinks
  <2>5. ASSUME NEW d \in Delivery, ReadRow(d) \/ Commit(d) \/ Unheard(d)
        PROVE  Shrinks(Measure', Measure)
    BY <2>5, ReadShrinks, CommitShrinks, UnheardShrinks
  <2>6. CASE Crash
    BY <2>3, <2>6 DEF Crash
  <2>7. ASSUME NEW d \in Delivery, Abort(d) \/ LoseAnswer(d) \/ LoseReport(d)
        PROVE  Shrinks(Measure', Measure)
    BY <2>3, <2>7 DEF Abort, LoseAnswer, LoseReport
  <2> QED
    BY <2>1, <2>2, <2>4, <2>5, <2>6, <2>7 DEF Next
<1>2. Inv /\ [Next]_vars => [Shrinks(Measure', Measure)]_vars
  BY <1>1
<1> QED
  BY <1>2, Invariant, PTL DEF Spec, EveryDeliveryIsProgress
=============================================================================
