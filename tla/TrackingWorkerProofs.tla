------------------------ MODULE TrackingWorkerProofs ------------------------
(***************************************************************************)
(* Proofs about TrackingWorker, for any number of shipments and any pace,  *)
(* waits, retries and thresholds: what a traversal sends and when, and     *)
(* what its verdict and an open circuit mean.                              *)
(*                                                                         *)
(* In a lemma about the steps, USE names the definitions that every case   *)
(* needs; a case adds its action.                                          *)
(***************************************************************************)
EXTENDS TrackingWorker, FiniteSetTheorems, TLAPS

-----------------------------------------------------------------------------
(* Invariants.                                                             *)

Working == {"head", "send"} \cup Awaiting

\* The kinds of the values, without the bounds on the counters.
KindsOK ==
    /\ pc \in {"verdict"} \cup Working \cup Ends
    /\ item \in 1 .. Total + 1
    /\ result \in [Items -> {"none", "invariant"} \cup Terminal \cup Failures]
    /\ attempt \in 0 .. Retries /\ refreshed \in BOOLEAN
    /\ token \in {"none", "fresh"}
    /\ requests \in Nat /\ errors \in Nat /\ checked \in Nat
    /\ streak \in [kind : {"none"} \cup Failures, count : Nat]
    /\ samples \in [taken : 0 .. SampleSize, odd : Nat]
    /\ open \in BOOLEAN /\ stopFile \in BOOLEAN /\ aborted \in BOOLEAN /\ stopped \in BOOLEAN

\* Ages and waits.
AgesOK ==
    /\ waiting \in Nat
    /\ sinceStart \in 0 .. Longest /\ throttled \in -1 .. Longest
    /\ sends \in [Latest -> 0 .. Longest]

\* While the loop goes on, every shipment before the one it is at was counted,
\* no circuit is open and no stop was seen.
LoopOK ==
    /\ pc \in Working => item <= Total /\ checked = item - 1 /\ ~open /\ ~stopped
    /\ checked <= Total /\ errors <= checked
    /\ pc = "send" => ~aborted
    /\ streak.count <= Threshold
    /\ (pc \in Working => streak.count < Threshold)
    /\ samples.odd <= samples.taken

\* An attempt sends once, and once more after a refused token.
RequestsOK ==
    LET refresh == IF refreshed THEN 1 ELSE 0 IN
    /\ pc \in {"head", "pace", "token"} => ~refreshed
    /\ pc \in {"refresh", "repace"} => refreshed
    /\ pc = "head" => attempt = 0 /\ requests = 0
    /\ pc \in {"pace", "token", "backoff"} => requests <= 2 * attempt
    /\ pc \in {"send", "refresh", "repace"} => requests <= 2 * attempt + refresh
    /\ requests <= 2 * attempt + 1 + refresh

\* Each request had a start of its own, no earlier than the request before it: the
\* j-th latest request is older than the latest start by all the intervals but
\* two, and while the next one is still to be sent, by all but one.
Behind(lag) ==
    \A j \in Latest : j >= lag => sends[j] = Longest \/ sends[j] >= sinceStart + (j - lag) * Interval

\* Requests keep behind the latest start.
PaceOK == Behind(2) /\ (pc \in {"token", "send"} => Behind(1))

\* A throttled lookup waits before it starts again.
WaitOK ==
    /\ pc = "backoff" => throttled = -1 \/ throttled + waiting >= Throttle
    /\ pc \in Working \ {"backoff"} => throttled = -1 \/ throttled >= Throttle

\* What was counted and is no error was answered.
TallyOK == errors = 0 => \A i \in Items : i <= checked => result[i] \in Terminal

\* A verdict is what the counters said.
VerdictOK == pc = "complete" => ~open /\ ~stopped /\ errors = 0 /\ checked = Total

\* A streak began at a shipment that was counted.
StreakOK ==
    streak.kind # "none" =>
        \E first \in 1 .. checked :
            /\ result[first] = streak.kind
            /\ \A i \in first .. checked : result[i] \in {streak.kind, "cached"}
            /\ Cardinality({i \in first .. checked : result[i] = streak.kind}) = streak.count

WorkerInv == KindsOK /\ AgesOK /\ LoopOK /\ RequestsOK /\ PaceOK /\ WaitOK /\ TallyOK
             /\ VerdictOK /\ StreakOK

-----------------------------------------------------------------------------
(* What the helpers of the actions return.                                 *)

LEMMA RecordKinds ==
    ASSUME KindsOK, item \in Items, Record("cached") \/ Record("not_found") \/ Record("misread")
           \/ Record("found") \/ Record("invariant") \/ \E kind \in Failures : Record(kind)
    PROVE  /\ result' \in [Items -> {"none", "invariant"} \cup Terminal \cup Failures]
           /\ errors' \in Nat /\ checked' = checked + 1
           /\ errors' >= errors /\ errors' <= errors + 1
  <1> DEFINE Kinds == {"none", "invariant"} \cup Terminal \cup Failures
  <1>1. PICK kind \in Kinds : Record(kind)
    BY DEF Terminal
  <1>2. result' \in [Items -> Kinds]
    BY <1>1 DEF KindsOK, Record
  <1>3. errors' \in Nat /\ checked' = checked + 1 /\ errors' >= errors /\ errors' <= errors + 1
    BY <1>1 DEF KindsOK, Record
  <1> QED
    BY <1>2, <1>3

\* Going on to the next shipment keeps the kinds.
LEMMA NextItemKinds ==
    ASSUME item \in Items, NextItem \/ (UNCHANGED <<item, lookup>> /\ pc' = "verdict"), KindsOK
    PROVE  /\ pc' \in {"verdict"} \cup Working \cup Ends
           /\ item' \in 1 .. Total + 1
           /\ attempt' \in 0 .. Retries /\ refreshed' \in BOOLEAN /\ requests' \in Nat
  <1>1. CASE NextItem
    <2>1. pc' \in {"verdict", "head"} /\ item' \in 1 .. Total + 1
      BY <1>1, WorkloadAssumption DEF Items, NextItem
    <2>2. attempt' \in 0 .. Retries /\ requests' \in Nat
      BY <1>1, LimitsAssumption DEF NextItem
    <2>3. refreshed' \in BOOLEAN
      BY <1>1 DEF NextItem
    <2> QED
      BY <2>1, <2>2, <2>3 DEF Working
  <1>2. CASE UNCHANGED <<item, lookup>> /\ pc' = "verdict"
    BY <1>2 DEF KindsOK, lookup
  <1> QED
    BY <1>1, <1>2

\* A failure continues the streak of its kind, or begins a new one.
LEMMA CountedKind ==
    ASSUME KindsOK, NEW kind \in Failures
    PROVE  /\ Counted(kind) \in [kind : {"none"} \cup Failures, count : Nat]
           /\ Counted(kind).kind = kind
           /\ Counted(kind).count = IF streak.kind = kind THEN streak.count + 1 ELSE 1
  BY DEF KindsOK, Counted

\* The empty streak is a streak of none.
LEMMA NoStreakKind == NoStreak \in [kind : {"none"} \cup Failures, count : Nat] /\ NoStreak.count = 0
  BY DEF NoStreak

\* A sample keeps its kind, and no more are odd than were taken.
LEMMA SampledKind ==
    ASSUME KindsOK, NEW odd \in BOOLEAN
    PROVE  /\ Sampled(odd) \in [taken : 0 .. SampleSize, odd : Nat]
           /\ samples.odd <= samples.taken => Sampled(odd).odd <= Sampled(odd).taken
  BY LimitsAssumption DEF KindsOK, Sampled

\* A failing lookup leaves the token in a kind, and fails where an answer is awaited.
LEMMA FailingKind ==
    ASSUME KindsOK, NEW kind, Failing(kind)
    PROVE  /\ token' \in {"none", "fresh"}
           /\ pc \in {"sent", "token", "refresh"}
  BY DEF KindsOK, Failing

-----------------------------------------------------------------------------
(* The steps.                                                              *)

LEMMA KindsStep ==
    ASSUME KindsOK, LoopOK, [Next]_vars
    PROVE  KindsOK'
<1> USE WorkloadAssumption, LimitsAssumption
        DEF KindsOK, LoopOK, Working, Awaiting, Ends, Items, Terminal, Failures, Transient,
            NextItem, pacing, lookup, breaker, tally, stop, LeaveLoop
<1>1. CASE Elapse
  BY <1>1 DEF Elapse
<1>2. CASE RequestStop
  BY <1>2 DEF RequestStop
<1>3. CASE Poll
  BY <1>3 DEF Poll
<1>4. CASE HeadStops
  BY <1>4 DEF HeadStops
<1>5. CASE HeadSkips
  <2>1. item \in Items /\ checked' = checked + 1 /\ errors' \in Nat
        /\ result' \in [Items -> {"none", "invariant"} \cup Terminal \cup Failures]
    BY <1>5, RecordKinds DEF HeadSkips
  <2>5. /\ pc' \in {"verdict"} \cup Working \cup Ends
        /\ item' \in 1 .. Total + 1
        /\ attempt' \in 0 .. Retries /\ refreshed' \in BOOLEAN /\ requests' \in Nat
    BY <1>5, <2>1, NextItemKinds DEF HeadSkips
  <2> HIDE DEF NextItem, Working, Ends, Terminal, Failures, Transient, Items
  <2> QED
    BY <1>5, <2>1, <2>5 DEF HeadSkips
<1>6. CASE HeadLooksUp
  BY <1>6 DEF HeadLooksUp
<1>7. CASE Cancel
  BY <1>7 DEF Cancel
<1>8. CASE Start
  BY <1>8 DEF Start
<1>9. CASE GetToken
  BY <1>9 DEF GetToken
<1>10. CASE Send
  BY <1>10 DEF Send
<1>11. CASE Refresh
  BY <1>11 DEF Refresh
<1>12. CASE BackoffEnds
  BY <1>12 DEF BackoffEnds
<1>13. CASE NotFound
  <2>1. item \in Items /\ checked' = checked + 1 /\ errors' \in Nat
        /\ result' \in [Items -> {"none", "invariant"} \cup Terminal \cup Failures]
    BY <1>13, RecordKinds DEF NotFound
  <2>5. /\ pc' \in {"verdict"} \cup Working \cup Ends
        /\ item' \in 1 .. Total + 1
        /\ attempt' \in 0 .. Retries /\ refreshed' \in BOOLEAN /\ requests' \in Nat
    BY <1>13, <2>1, NextItemKinds DEF NotFound
  <2> HIDE DEF NextItem, Working, Ends, Terminal, Failures, Transient, Items
  <2> QED
    BY <1>13, <2>1, <2>5, NoStreakKind DEF NotFound
<1>14. CASE Found
  <2>1. item \in Items /\ checked' = checked + 1 /\ errors' \in Nat
        /\ result' \in [Items -> {"none", "invariant"} \cup Terminal \cup Failures]
    BY <1>14, RecordKinds DEF Found
  <2>2. samples' \in [taken : 0 .. SampleSize, odd : Nat] /\ open' \in BOOLEAN
    BY <1>14, SampledKind DEF Found, SemanticallyOpen
  <2>5. /\ pc' \in {"verdict"} \cup Working \cup Ends
        /\ item' \in 1 .. Total + 1
        /\ attempt' \in 0 .. Retries /\ refreshed' \in BOOLEAN /\ requests' \in Nat
    BY <1>14, <2>1, NextItemKinds DEF Found
  <2> HIDE DEF NextItem, Working, Ends, Terminal, Failures, Transient, Items
  <2> QED
    BY <1>14, <2>1, <2>5, <2>2, NoStreakKind DEF Found
<1>15. CASE InvariantFails
  <2>1. item \in Items /\ checked' = checked + 1 /\ errors' \in Nat
        /\ result' \in [Items -> {"none", "invariant"} \cup Terminal \cup Failures]
    BY <1>15, RecordKinds DEF InvariantFails
  <2>5. /\ pc' \in {"verdict"} \cup Working \cup Ends
        /\ item' \in 1 .. Total + 1
        /\ attempt' \in 0 .. Retries /\ refreshed' \in BOOLEAN /\ requests' \in Nat
    BY <1>15, <2>1, NextItemKinds DEF InvariantFails
  <2> HIDE DEF NextItem, Working, Ends, Terminal, Failures, Transient, Items
  <2> QED
    BY <1>15, <2>1, <2>5, NoStreakKind DEF InvariantFails
<1>16. ASSUME NEW kind \in Failures, Retry(kind)
      PROVE  KindsOK'
  <2>1. token' \in {"none", "fresh"} /\ pc \in Working
    BY <1>16, FailingKind DEF Retry
  <2> QED
    BY <1>16, <2>1 DEF Retry
<1>17. ASSUME NEW kind \in Failures, Fail(kind)
      PROVE  KindsOK'
  <2>1. token' \in {"none", "fresh"} /\ pc \in Working
    BY <1>17, FailingKind DEF Fail
  <2>2. item \in Items /\ checked' = checked + 1 /\ errors' \in Nat
        /\ result' \in [Items -> {"none", "invariant"} \cup Terminal \cup Failures]
    BY <1>17, <2>1, RecordKinds DEF Fail
  <2>3. streak' \in [kind : {"none"} \cup Failures, count : Nat]
    BY <1>17, CountedKind DEF Fail
  <2>4. open' \in BOOLEAN
    BY <1>17 DEF Fail
  <2>5. /\ pc' \in {"verdict"} \cup Working \cup Ends
        /\ item' \in 1 .. Total + 1
        /\ attempt' \in 0 .. Retries /\ refreshed' \in BOOLEAN /\ requests' \in Nat
    BY <1>17, <2>2, NextItemKinds DEF Fail
  <2>6. UNCHANGED <<samples, stop>>
    BY <1>17 DEF Fail
  <2> HIDE DEF NextItem, Working, Ends, Terminal, Failures, Transient, Items
  <2> QED
    BY <2>1, <2>2, <2>3, <2>4, <2>5, <2>6
<1>18. CASE Verdict
  BY <1>18 DEF Verdict
<1>19. CASE UNCHANGED vars
  BY <1>19 DEF vars
<1> HIDE DEF KindsOK, LoopOK, Working, Awaiting, Ends, Items, Terminal, Failures, Transient,
            NextItem, pacing, lookup, breaker, tally, stop, LeaveLoop
<1>20. QED
  BY <1>1, <1>2, <1>3, <1>4, <1>5, <1>6, <1>7, <1>8, <1>9, <1>10, <1>11, <1>12, <1>13,
     <1>14, <1>15, <1>16, <1>17, <1>18, <1>19
  DEF Next, Worker, Lookup, Done

\* The longest age that is told apart covers every distance that is required.
LEMMA LongestBounds == Longest \in Nat /\ Longest >= Interval /\ Longest >= Throttle
  <1>1. (Depth - 1) * Interval \in Nat /\ (Depth - 1) * Interval >= Interval
    BY PacingAssumption, DepthAssumption
  <1> QED
    BY <1>1, PacingAssumption DEF Longest

LEMMA Intervals ==
    ASSUME NEW j \in Latest
    PROVE  /\ (j - 1) * Interval \in Nat
           /\ (j - 1) * Interval <= Longest
           /\ (j - 1) * Interval = (j - 2) * Interval + Interval
  <1>1. (j - 1) * Interval \in Nat /\ (j - 1) * Interval <= (Depth - 1) * Interval
    BY PacingAssumption, DepthAssumption DEF Latest
  <1>2. (j - 1) * Interval = (j - 2) * Interval + Interval
    BY PacingAssumption DEF Latest
  <1>3. (Depth - 1) * Interval <= Longest /\ Longest \in Nat /\ (Depth - 1) * Interval \in Nat
    BY PacingAssumption, DepthAssumption DEF Longest
  <1> QED
    BY <1>1, <1>2, <1>3

\* Every step keeps the ages and the waits.
LEMMA AgesStep ==
    ASSUME KindsOK, AgesOK, [Next]_vars
    PROVE  AgesOK'
<1> USE PacingAssumption, LongestBounds
        DEF AgesOK, Older, NextItem, pacing, lookup, breaker, tally, stop, LeaveLoop
<1>1. CASE Elapse
  BY <1>1 DEF Elapse
<1>2. CASE RequestStop
  BY <1>2 DEF RequestStop
<1>3. CASE Poll
  BY <1>3 DEF Poll
<1>4. CASE HeadStops
  BY <1>4 DEF HeadStops
<1>5. CASE HeadSkips
  BY <1>5 DEF HeadSkips
<1>6. CASE HeadLooksUp
  BY <1>6 DEF HeadLooksUp
<1>7. CASE Cancel
  BY <1>7 DEF Cancel
<1>8. CASE Start
  BY <1>8 DEF Start
<1>9. CASE GetToken
  BY <1>9 DEF GetToken
<1>10. CASE Send
  <2>1. sends' \in [Latest -> 0 .. Longest]
    <3>1. \A j \in Latest : j = 1 \/ j - 1 \in Latest
      BY DepthAssumption DEF Latest
    <3>2. \A j \in Latest : (IF j = 1 THEN 0 ELSE sends[j - 1]) \in 0 .. Longest
      BY <3>1
    <3> QED
      BY <1>10, <3>2 DEF Send
  <2> QED
    BY <1>10, <2>1 DEF Send
<1>11. CASE Refresh
  BY <1>11 DEF Refresh
<1>12. CASE BackoffEnds
  BY <1>12 DEF BackoffEnds
<1>13. CASE NotFound
  BY <1>13 DEF NotFound
<1>14. CASE Found
  BY <1>14 DEF Found
<1>15. CASE InvariantFails
  BY <1>15 DEF InvariantFails
<1>16. ASSUME NEW kind \in Failures, Retry(kind)
      PROVE  AgesOK'
  BY <1>16 DEF Retry
<1>17. ASSUME NEW kind \in Failures, Fail(kind)
      PROVE  AgesOK'
  BY <1>17 DEF Fail
<1>18. CASE Verdict
  BY <1>18 DEF Verdict
<1>19. CASE UNCHANGED vars
  BY <1>19 DEF vars
<1> HIDE DEF AgesOK, Older, NextItem, pacing, lookup, breaker, tally, stop, LeaveLoop
<1>20. QED
  BY <1>1, <1>2, <1>3, <1>4, <1>5, <1>6, <1>7, <1>8, <1>9, <1>10, <1>11, <1>12, <1>13,
     <1>14, <1>15, <1>16, <1>17, <1>18, <1>19
  DEF Next, Worker, Lookup, Done

\* Every step keeps the counters of the loop in agreement.
LEMMA LoopStep ==
    ASSUME KindsOK, LoopOK, [Next]_vars
    PROVE  LoopOK'
<1> USE WorkloadAssumption, LimitsAssumption
        DEF LoopOK, KindsOK, Working, Awaiting, Ends, Items, NextItem, pacing, lookup, breaker, tally, stop, LeaveLoop
<1>1. CASE Elapse
  BY <1>1 DEF Elapse
<1>2. CASE RequestStop
  BY <1>2 DEF RequestStop
<1>3. CASE Poll
  BY <1>3 DEF Poll
<1>4. CASE HeadStops
  BY <1>4 DEF HeadStops
<1>5. CASE HeadSkips
  <2>1. item \in Items /\ pc \in Working /\ errors' \in Nat /\ checked' = checked + 1
        /\ errors' <= errors + 1
    BY <1>5, RecordKinds DEF HeadSkips
  <2> QED
    BY <1>5, <2>1 DEF HeadSkips
<1>6. CASE HeadLooksUp
  BY <1>6 DEF HeadLooksUp
<1>7. CASE Cancel
  BY <1>7 DEF Cancel
<1>8. CASE Start
  BY <1>8 DEF Start
<1>9. CASE GetToken
  BY <1>9 DEF GetToken
<1>10. CASE Send
  BY <1>10 DEF Send
<1>11. CASE Refresh
  BY <1>11 DEF Refresh
<1>12. CASE BackoffEnds
  BY <1>12 DEF BackoffEnds
<1>13. CASE NotFound
  <2>1. item \in Items /\ pc \in Working /\ errors' \in Nat /\ checked' = checked + 1
        /\ errors' <= errors + 1
    BY <1>13, RecordKinds DEF NotFound
  <2> QED
    BY <1>13, <2>1, NoStreakKind DEF NotFound
<1>14. CASE Found
  <2>1. item \in Items /\ pc \in Working /\ errors' \in Nat /\ checked' = checked + 1
        /\ errors' <= errors + 1
    BY <1>14, RecordKinds DEF Found
  <2>2. samples'.odd <= samples'.taken /\ open' \in BOOLEAN
    BY <1>14, SampledKind DEF Found, SemanticallyOpen
  <2> QED
    BY <1>14, <2>1, <2>2, NoStreakKind DEF Found
<1>15. CASE InvariantFails
  <2>1. item \in Items /\ pc \in Working /\ errors' \in Nat /\ checked' = checked + 1
        /\ errors' <= errors + 1
    BY <1>15, RecordKinds DEF InvariantFails
  <2> QED
    BY <1>15, <2>1, NoStreakKind DEF InvariantFails
<1>16. ASSUME NEW kind \in Failures, Retry(kind)
      PROVE  LoopOK'
  <2>1. pc \in Working
    BY <1>16, FailingKind DEF Retry
  <2> QED
    BY <1>16, <2>1 DEF Retry
<1>17. ASSUME NEW kind \in Failures, Fail(kind)
      PROVE  LoopOK'
  <2>1. item \in Items /\ pc \in Working /\ errors' \in Nat /\ checked' = checked + 1
        /\ errors' <= errors + 1
    BY <1>17, RecordKinds, FailingKind DEF Fail
  <2>2. streak'.count <= Threshold /\ (~open' => streak'.count < Threshold) /\ open' \in BOOLEAN
    <3>1. streak' = Counted(kind) /\ open' = (streak'.count >= Threshold)
      BY <1>17 DEF Fail
    <3>2. streak'.count \in Nat /\ streak'.count <= Threshold
      BY <3>1, <2>1, CountedKind
    <3>3. open' \in BOOLEAN
      BY <3>1
    <3>4. open' \/ ~(streak'.count >= Threshold)
      BY <1>17 DEF Fail
    <3> QED
      BY <3>2, <3>3, <3>4
  <2> QED
    BY <1>17, <2>1, <2>2 DEF Fail
<1>18. CASE Verdict
  BY <1>18 DEF Verdict
<1>19. CASE UNCHANGED vars
  BY <1>19 DEF vars
<1> HIDE DEF LoopOK, KindsOK, Working, Awaiting, Ends, Items, NextItem, pacing, lookup, breaker, tally, stop, LeaveLoop
<1>20. QED
  BY <1>1, <1>2, <1>3, <1>4, <1>5, <1>6, <1>7, <1>8, <1>9, <1>10, <1>11, <1>12, <1>13,
     <1>14, <1>15, <1>16, <1>17, <1>18, <1>19
  DEF Next, Worker, Lookup, Done

\* Every step keeps the bound on the requests of a lookup.
LEMMA RequestsStep ==
    ASSUME KindsOK, RequestsOK, [Next]_vars
    PROVE  RequestsOK'
<1> USE LimitsAssumption
        DEF RequestsOK, KindsOK, Awaiting, NextItem, pacing, lookup, breaker, tally, stop, LeaveLoop
<1>1. CASE Elapse
  BY <1>1 DEF Elapse
<1>2. CASE RequestStop
  BY <1>2 DEF RequestStop
<1>3. CASE Poll
  BY <1>3 DEF Poll
<1>4. CASE HeadStops
  BY <1>4 DEF HeadStops
<1>5. CASE HeadSkips
  BY <1>5 DEF HeadSkips
<1>6. CASE HeadLooksUp
  BY <1>6 DEF HeadLooksUp
<1>7. CASE Cancel
  BY <1>7 DEF Cancel
<1>8. CASE Start
  BY <1>8 DEF Start
<1>9. CASE GetToken
  BY <1>9 DEF GetToken
<1>10. CASE Send
  BY <1>10 DEF Send
<1>11. CASE Refresh
  BY <1>11 DEF Refresh
<1>12. CASE BackoffEnds
  BY <1>12 DEF BackoffEnds
<1>13. CASE NotFound
  BY <1>13 DEF NotFound
<1>14. CASE Found
  BY <1>14 DEF Found
<1>15. CASE InvariantFails
  BY <1>15 DEF InvariantFails
<1>16. ASSUME NEW kind \in Failures, Retry(kind)
      PROVE  RequestsOK'
  BY <1>16 DEF Retry
<1>17. ASSUME NEW kind \in Failures, Fail(kind)
      PROVE  RequestsOK'
  BY <1>17 DEF Fail
<1>18. CASE Verdict
  BY <1>18 DEF Verdict
<1>19. CASE UNCHANGED vars
  BY <1>19 DEF vars
<1> HIDE DEF RequestsOK, KindsOK, Awaiting, NextItem, pacing, lookup, breaker, tally, stop, LeaveLoop
<1>20. QED
  BY <1>1, <1>2, <1>3, <1>4, <1>5, <1>6, <1>7, <1>8, <1>9, <1>10, <1>11, <1>12, <1>13,
     <1>14, <1>15, <1>16, <1>17, <1>18, <1>19
  DEF Next, Worker, Lookup, Done

\* What a step that leaves the requests and the starts alone keeps.
LEMMA BehindStays ==
    ASSUME UNCHANGED <<sends, sinceStart>>
    PROVE  Behind(1)' = Behind(1) /\ Behind(2)' = Behind(2)
  BY DEF Behind

\* Time adds as much to the ages of the requests as to the start's.
LEMMA BehindAges ==
    ASSUME AgesOK, NEW lag \in {1, 2}, Behind(lag), Elapse
    PROVE  Behind(lag)'
  <1> SUFFICES ASSUME NEW j \in Latest, j >= lag
               PROVE  sends'[j] = Longest \/ sends'[j] >= sinceStart' + (j - lag) * Interval
    BY DEF Behind
  <1>1. sends'[j] = Older(sends[j]) /\ sinceStart' = Older(sinceStart)
    BY DEF Elapse
  <1>2. sends[j] \in 0 .. Longest /\ sinceStart \in 0 .. Longest
    BY DEF AgesOK
  <1>3. (j - lag) * Interval \in Int
    BY PacingAssumption DEF Latest
  <1>4. sends[j] = Longest \/ sends[j] >= sinceStart + (j - lag) * Interval
    BY DEF Behind
  <1> HIDE DEF Behind
  <1> DEFINE gap == (j - lag) * Interval
  <1>5. gap \in Int /\ (sends[j] = Longest \/ sends[j] >= sinceStart + gap)
    BY <1>3, <1>4
  <1> HIDE DEF gap
  <1>6. sends'[j] = Longest \/ sends'[j] >= sinceStart' + gap
    BY <1>1, <1>2, <1>5, LongestBounds DEF Older
  <1> QED
    BY <1>6 DEF gap

\* A start puts an interval between itself and all the requests.
LEMMA BehindStart ==
    ASSUME AgesOK, Behind(2), Start
    PROVE  Behind(1)' /\ Behind(2)'
  <1>1. sends' = sends /\ sinceStart' = 0 /\ sinceStart >= Interval
    BY DEF Start, Paced
  <1>2. ASSUME NEW j \in Latest
        PROVE  sends[j] = Longest \/ sends[j] >= (j - 1) * Interval
    <2>1. sends[j] \in Nat /\ sinceStart \in Nat
      BY LongestBounds DEF AgesOK
    <2>2. CASE j = 1
      <3>1. (j - 1) * Interval = 0
        BY <2>2, PacingAssumption
      <3> QED
        BY <2>1, <3>1
    <2>3. CASE j >= 2
      <3>1. sends[j] = Longest \/ sends[j] >= sinceStart + (j - 2) * Interval
        BY <2>3 DEF Behind
      <3>2. (j - 2) * Interval \in Int /\ Interval \in Int
        BY PacingAssumption DEF Latest
      <3> QED
        BY <1>1, <2>1, <3>1, <3>2, Intervals
    <2> QED
      BY <2>2, <2>3 DEF Latest
  <1>3. Behind(1)'
    <2> SUFFICES ASSUME NEW j \in Latest
                 PROVE  sends'[j] = Longest \/ sends'[j] >= sinceStart' + (j - 1) * Interval
      BY DEF Behind
    <2> QED
      BY <1>1, <1>2, Intervals
  <1>4. Behind(2)'
    <2> SUFFICES ASSUME NEW j \in Latest, j >= 2
                 PROVE  sends'[j] = Longest \/ sends'[j] >= sinceStart' + (j - 2) * Interval
      BY DEF Behind
    <2>1. sends[j] \in Nat /\ (j - 2) * Interval \in Int /\ Interval \in Nat
      BY LongestBounds, PacingAssumption DEF AgesOK, Latest
    <2> QED
      BY <1>1, <1>2, <2>1, Intervals
  <1> QED
    BY <1>3, <1>4

\* A request moves the others one place, and stays behind its start.
LEMMA BehindSend ==
    ASSUME AgesOK, Behind(1), Send
    PROVE  Behind(2)'
  <1> SUFFICES ASSUME NEW j \in Latest, j >= 2
               PROVE  sends'[j] = Longest \/ sends'[j] >= sinceStart' + (j - 2) * Interval
    BY DEF Behind
  <1>1. j - 1 \in Latest /\ j - 1 >= 1 /\ (j - 1) - 1 = j - 2
    BY DepthAssumption DEF Latest
  <1>2. sends'[j] = sends[j - 1] /\ sinceStart' = sinceStart
    BY DEF Send
  <1>3. sends[j - 1] = Longest \/ sends[j - 1] >= sinceStart + ((j - 1) - 1) * Interval
    BY <1>1 DEF Behind
  <1> QED
    BY <1>1, <1>2, <1>3

\* Every step keeps the pace between requests.
LEMMA PaceStep ==
    ASSUME KindsOK, AgesOK, PaceOK, [Next]_vars
    PROVE  PaceOK'
<1> USE DEF PaceOK, NextItem, pacing, lookup, breaker, tally, stop, LeaveLoop
<1>1. CASE Elapse
  <2>1. pc' = pc
    BY <1>1 DEF Elapse
  <2> QED
    BY <1>1, <2>1, BehindAges
<1>2. CASE RequestStop
  BY <1>2, BehindStays DEF RequestStop
<1>3. CASE Poll
  BY <1>3, BehindStays DEF Poll
<1>4. CASE HeadStops
  BY <1>4, BehindStays DEF HeadStops
<1>5. CASE HeadSkips
  BY <1>5, BehindStays DEF HeadSkips
<1>6. CASE HeadLooksUp
  BY <1>6, BehindStays DEF HeadLooksUp
<1>7. CASE Cancel
  BY <1>7, BehindStays DEF Cancel
<1>8. CASE Start
  BY <1>8, BehindStart
<1>9. CASE GetToken
  BY <1>9, BehindStays DEF GetToken
<1>10. CASE Send
  <2>1. pc = "send" /\ pc' = "sent"
    BY <1>10 DEF Send
  <2> QED
    BY <1>10, <2>1, BehindSend
<1>11. CASE Refresh
  BY <1>11, BehindStays DEF Refresh
<1>12. CASE BackoffEnds
  BY <1>12, BehindStays DEF BackoffEnds
<1>13. CASE NotFound
  BY <1>13, BehindStays DEF NotFound
<1>14. CASE Found
  BY <1>14, BehindStays DEF Found
<1>15. CASE InvariantFails
  BY <1>15, BehindStays DEF InvariantFails
<1>16. ASSUME NEW kind \in Failures, Retry(kind)
      PROVE  PaceOK'
  BY <1>16, BehindStays DEF Retry
<1>17. ASSUME NEW kind \in Failures, Fail(kind)
      PROVE  PaceOK'
  BY <1>17, BehindStays DEF Fail
<1>18. CASE Verdict
  BY <1>18, BehindStays DEF Verdict
<1>19. CASE UNCHANGED vars
  BY <1>19, BehindStays DEF vars
<1> HIDE DEF PaceOK, NextItem, pacing, lookup, breaker, tally, stop, LeaveLoop
<1>20. QED
  BY <1>1, <1>2, <1>3, <1>4, <1>5, <1>6, <1>7, <1>8, <1>9, <1>10, <1>11, <1>12, <1>13,
     <1>14, <1>15, <1>16, <1>17, <1>18, <1>19
  DEF Next, Worker, Lookup, Done

\* Every step keeps the wait of a throttled lookup.
LEMMA WaitStep ==
    ASSUME KindsOK, AgesOK, WaitOK, [Next]_vars
    PROVE  WaitOK'
<1> USE PacingAssumption, LongestBounds
        DEF WaitOK, AgesOK, Working, Awaiting, Ends, Older, NextItem, Paced, pacing, lookup, breaker, tally, stop, LeaveLoop
<1>1. CASE Elapse
  BY <1>1 DEF Elapse
<1>2. CASE RequestStop
  BY <1>2 DEF RequestStop
<1>3. CASE Poll
  BY <1>3 DEF Poll
<1>4. CASE HeadStops
  BY <1>4 DEF HeadStops
<1>5. CASE HeadSkips
  BY <1>5 DEF HeadSkips
<1>6. CASE HeadLooksUp
  BY <1>6 DEF HeadLooksUp
<1>7. CASE Cancel
  BY <1>7 DEF Cancel
<1>8. CASE Start
  BY <1>8 DEF Start
<1>9. CASE GetToken
  BY <1>9 DEF GetToken
<1>10. CASE Send
  BY <1>10 DEF Send
<1>11. CASE Refresh
  BY <1>11 DEF Refresh
<1>12. CASE BackoffEnds
  BY <1>12 DEF BackoffEnds
<1>13. CASE NotFound
  BY <1>13 DEF NotFound
<1>14. CASE Found
  BY <1>14 DEF Found
<1>15. CASE InvariantFails
  BY <1>15 DEF InvariantFails
<1>16. ASSUME NEW kind \in Failures, Retry(kind)
      PROVE  WaitOK'
  <2>1. pc \in {"sent", "token", "refresh"}
    BY <1>16, FailingKind DEF Retry
  <2>2. waiting' \in Nat /\ (kind = "throttle" => waiting' = Throttle /\ throttled' = 0)
        /\ (kind # "throttle" => throttled' = throttled)
    BY <1>16 DEF Retry
  <2> QED
    BY <1>16, <2>1, <2>2 DEF Retry
<1>17. ASSUME NEW kind \in Failures, Fail(kind)
      PROVE  WaitOK'
  BY <1>17 DEF Fail
<1>18. CASE Verdict
  BY <1>18 DEF Verdict
<1>19. CASE UNCHANGED vars
  BY <1>19 DEF vars
<1> HIDE DEF WaitOK, AgesOK, Working, Awaiting, Ends, Older, NextItem, Paced, pacing, lookup, breaker, tally, stop, LeaveLoop
<1>20. QED
  BY <1>1, <1>2, <1>3, <1>4, <1>5, <1>6, <1>7, <1>8, <1>9, <1>10, <1>11, <1>12, <1>13,
     <1>14, <1>15, <1>16, <1>17, <1>18, <1>19
  DEF Next, Worker, Lookup, Done

\* Without errors, what every step has counted was answered.
LEMMA TallyStep ==
    ASSUME KindsOK, LoopOK, TallyOK, [Next]_vars
    PROVE  TallyOK'
<1> USE WorkloadAssumption
        DEF TallyOK, LoopOK, KindsOK, Working, Awaiting, Items, Terminal, Record, pacing, lookup, breaker, tally, stop, LeaveLoop
<1>1. CASE Elapse
  BY <1>1 DEF Elapse
<1>2. CASE RequestStop
  BY <1>2 DEF RequestStop
<1>3. CASE Poll
  BY <1>3 DEF Poll
<1>4. CASE HeadStops
  BY <1>4 DEF HeadStops
<1>5. CASE HeadSkips
  BY <1>5 DEF HeadSkips
<1>6. CASE HeadLooksUp
  BY <1>6 DEF HeadLooksUp
<1>7. CASE Cancel
  BY <1>7 DEF Cancel
<1>8. CASE Start
  BY <1>8 DEF Start
<1>9. CASE GetToken
  BY <1>9 DEF GetToken
<1>10. CASE Send
  BY <1>10 DEF Send
<1>11. CASE Refresh
  BY <1>11 DEF Refresh
<1>12. CASE BackoffEnds
  BY <1>12 DEF BackoffEnds
<1>13. CASE NotFound
  BY <1>13 DEF NotFound
<1>14. CASE Found
  BY <1>14 DEF Found
<1>15. CASE InvariantFails
  BY <1>15 DEF InvariantFails
<1>16. ASSUME NEW kind \in Failures, Retry(kind)
      PROVE  TallyOK'
  BY <1>16 DEF Retry
<1>17. ASSUME NEW kind \in Failures, Fail(kind)
      PROVE  TallyOK'
  <2>1. errors' = errors + 1
    BY <1>17 DEF Fail, Record, Failures, Transient
  <2> QED
    BY <2>1
<1>18. CASE Verdict
  BY <1>18 DEF Verdict
<1>19. CASE UNCHANGED vars
  BY <1>19 DEF vars
<1> HIDE DEF TallyOK, LoopOK, KindsOK, Working, Awaiting, Items, Terminal, Record, pacing, lookup, breaker, tally, stop, LeaveLoop
<1>20. QED
  BY <1>1, <1>2, <1>3, <1>4, <1>5, <1>6, <1>7, <1>8, <1>9, <1>10, <1>11, <1>12, <1>13,
     <1>14, <1>15, <1>16, <1>17, <1>18, <1>19
  DEF Next, Worker, Lookup, Done

\* Every step keeps the verdict in agreement with the counters.
LEMMA VerdictStep ==
    ASSUME KindsOK, VerdictOK, [Next]_vars
    PROVE  VerdictOK'
<1> USE DEF VerdictOK, KindsOK, Awaiting, Ends, NextItem, Failing, pacing, lookup, breaker, tally, stop, LeaveLoop
<1>1. CASE Elapse
  BY <1>1 DEF Elapse
<1>2. CASE RequestStop
  BY <1>2 DEF RequestStop
<1>3. CASE Poll
  BY <1>3 DEF Poll
<1>4. CASE HeadStops
  BY <1>4 DEF HeadStops
<1>5. CASE HeadSkips
  BY <1>5 DEF HeadSkips
<1>6. CASE HeadLooksUp
  BY <1>6 DEF HeadLooksUp
<1>7. CASE Cancel
  BY <1>7 DEF Cancel
<1>8. CASE Start
  BY <1>8 DEF Start
<1>9. CASE GetToken
  BY <1>9 DEF GetToken
<1>10. CASE Send
  BY <1>10 DEF Send
<1>11. CASE Refresh
  BY <1>11 DEF Refresh
<1>12. CASE BackoffEnds
  BY <1>12 DEF BackoffEnds
<1>13. CASE NotFound
  BY <1>13 DEF NotFound
<1>14. CASE Found
  BY <1>14 DEF Found
<1>15. CASE InvariantFails
  BY <1>15 DEF InvariantFails
<1>16. ASSUME NEW kind \in Failures, Retry(kind)
      PROVE  VerdictOK'
  BY <1>16 DEF Retry
<1>17. ASSUME NEW kind \in Failures, Fail(kind)
      PROVE  VerdictOK'
  BY <1>17 DEF Fail
<1>18. CASE Verdict
  BY <1>18 DEF Verdict
<1>19. CASE UNCHANGED vars
  BY <1>19 DEF vars
<1> HIDE DEF VerdictOK, KindsOK, Awaiting, Ends, NextItem, Failing, pacing, lookup, breaker, tally, stop, LeaveLoop
<1>20. QED
  BY <1>1, <1>2, <1>3, <1>4, <1>5, <1>6, <1>7, <1>8, <1>9, <1>10, <1>11, <1>12, <1>13,
     <1>14, <1>15, <1>16, <1>17, <1>18, <1>19
  DEF Next, Worker, Lookup, Done

\* A streak from a given shipment on.
StreakFrom(first) ==
    /\ result[first] = streak.kind
    /\ \A i \in first .. checked : result[i] \in {streak.kind, "cached"}
    /\ Cardinality({i \in first .. checked : result[i] = streak.kind}) = streak.count

\* Every step keeps a streak in agreement with the results it counts.
LEMMA StreakStep ==
    ASSUME KindsOK, LoopOK, StreakOK, [Next]_vars
    PROVE  StreakOK'
<1> USE DEF pacing, lookup, breaker, tally, stop
<1>1. CASE Elapse
  BY <1>1 DEF Elapse, StreakOK
<1>2. CASE RequestStop
  BY <1>2 DEF RequestStop, StreakOK
<1>3. CASE Poll
  BY <1>3 DEF Poll, StreakOK
<1>4. CASE HeadStops
  BY <1>4 DEF HeadStops, StreakOK
<1>5. CASE HeadSkips
  <2>1. /\ checked' = item /\ checked = item - 1 /\ item \in Items
        /\ result' = [result EXCEPT ![item] = "cached"] /\ UNCHANGED streak
    BY <1>5 DEF HeadSkips, Record, breaker, Working, Items, LoopOK, KindsOK
  <2> SUFFICES ASSUME streak.kind # "none"
               PROVE  StreakOK'
    BY <2>1 DEF StreakOK
  <2>2. streak.kind \in Failures
    BY DEF KindsOK
  <2>3. PICK first \in 1 .. checked : StreakFrom(first)
    BY DEF StreakOK, StreakFrom
  <2>4. \A i \in first .. checked' : result'[i] = IF i = item THEN "cached" ELSE result[i]
    BY <2>1 DEF KindsOK, Items
  <2>5. {i \in first .. checked' : result'[i] = streak.kind} = {i \in first .. checked : result[i] = streak.kind}
    BY <2>1, <2>2, <2>4 DEF KindsOK, Items, Failures, Transient
  <2>6. \A i \in first .. checked' : result'[i] \in {streak.kind, "cached"}
    BY <2>1, <2>3, <2>4 DEF StreakFrom, KindsOK, Items
  <2>7. first \in 1 .. checked' /\ result'[first] = streak.kind
    BY <2>1, <2>3, <2>4 DEF StreakFrom, KindsOK, Items
  <2>8. {i \in first .. checked' : result'[i] = streak'.kind}
          = {i \in first .. checked' : result'[i] = streak.kind}
    BY <2>1
  <2>9. Cardinality({i \in first .. checked' : result'[i] = streak'.kind}) = streak'.count
    BY <2>1, <2>3, <2>5, <2>8 DEF StreakFrom
  <2> QED
    BY <2>1, <2>6, <2>7, <2>9 DEF StreakOK
<1>6. CASE HeadLooksUp
  BY <1>6 DEF HeadLooksUp, StreakOK
<1>7. CASE Cancel
  BY <1>7 DEF Cancel, StreakOK
<1>8. CASE Start
  BY <1>8 DEF Start, StreakOK
<1>9. CASE GetToken
  BY <1>9 DEF GetToken, StreakOK
<1>10. CASE Send
  BY <1>10 DEF Send, StreakOK
<1>11. CASE Refresh
  BY <1>11 DEF Refresh, StreakOK
<1>12. CASE BackoffEnds
  BY <1>12 DEF BackoffEnds, StreakOK
<1>13. CASE NotFound
  BY <1>13 DEF NotFound, NoStreak, StreakOK
<1>14. CASE Found
  BY <1>14 DEF Found, NoStreak, StreakOK
<1>15. CASE InvariantFails
  BY <1>15 DEF InvariantFails, NoStreak, StreakOK
<1>16. ASSUME NEW kind \in Failures, Retry(kind)
      PROVE  StreakOK'
  BY <1>16 DEF Retry, StreakOK
<1>17. ASSUME NEW kind \in Failures, Fail(kind)
      PROVE  StreakOK'
  <2>1. /\ checked' = item /\ checked = item - 1 /\ item \in Items
        /\ result' = [result EXCEPT ![item] = kind] /\ streak' = Counted(kind)
    BY <1>17, FailingKind DEF Fail, Record, Working, Awaiting, Items, LoopOK, KindsOK
  <2>2. kind # "none" /\ streak'.kind = kind
    BY <2>1, CountedKind DEF Failures, Transient
  <2>3. CASE streak.kind = kind
    <3>1. PICK first \in 1 .. checked : StreakFrom(first)
      BY <2>2, <2>3 DEF StreakOK, StreakFrom
    <3> DEFINE Before == {i \in first .. checked : result[i] = kind}
               After == {i \in first .. checked' : result'[i] = kind}
    <3>2. \A i \in first .. checked' : result'[i] = IF i = item THEN kind ELSE result[i]
      BY <2>1 DEF KindsOK, Items
    <3>3. After = Before \cup {item} /\ item \notin Before
      BY <2>1, <3>2 DEF KindsOK, Items
    <3>4. IsFiniteSet(Before)
      <4>1. IsFiniteSet(first .. checked)
        BY FS_Interval DEF KindsOK
      <4> QED
        BY <4>1, FS_Subset
    <3>5. Cardinality(After) = Cardinality(Before) + 1
      BY <3>3, <3>4, FS_AddElement
    <3>6. Cardinality(After) = streak'.count
      BY <2>1, <2>3, <3>1, <3>5, CountedKind DEF StreakFrom
    <3>7. \A i \in first .. checked' : result'[i] \in {kind, "cached"}
      BY <2>1, <2>3, <3>1, <3>2 DEF StreakFrom, KindsOK, Items
    <3>8. first \in 1 .. checked' /\ result'[first] = kind
      BY <2>1, <2>3, <3>1, <3>2 DEF StreakFrom, KindsOK, Items
    <3> QED
      BY <2>2, <3>6, <3>7, <3>8 DEF StreakOK
  <2>4. CASE streak.kind # kind
    <3>1. result'[item] = kind /\ item \in 1 .. checked' /\ item .. checked' = {item}
      BY <2>1 DEF KindsOK, Items
    <3>2. {i \in item .. checked' : result'[i] = kind} = {item}
      BY <3>1
    <3>3. Cardinality({i \in item .. checked' : result'[i] = kind}) = streak'.count
      BY <2>1, <2>4, <3>2, CountedKind, FS_Singleton
    <3> QED
      BY <2>2, <3>1, <3>3 DEF StreakOK
  <2> QED
    BY <2>3, <2>4
<1>18. CASE Verdict
  BY <1>18 DEF Verdict, StreakOK
<1>19. CASE UNCHANGED vars
  BY <1>19 DEF vars, StreakOK
<1> HIDE DEF pacing, lookup, breaker, tally, stop
<1>20. QED
  BY <1>1, <1>2, <1>3, <1>4, <1>5, <1>6, <1>7, <1>8, <1>9, <1>10, <1>11, <1>12, <1>13,
     <1>14, <1>15, <1>16, <1>17, <1>18, <1>19
  DEF Next, Worker, Lookup, Done

\* No step but Send makes a request.
LEMMA OnlySendSends ==
    ASSUME KindsOK, [Next]_vars, requests' > requests
    PROVE  Send
  <1> SUFFICES ASSUME ~Send
               PROVE  ~(requests' > requests)
    OBVIOUS
  <1> USE DEF KindsOK, NextItem, pacing, lookup, breaker, tally, stop
  <1>1. CASE Elapse
    BY <1>1 DEF Elapse
  <1>2. CASE RequestStop
    BY <1>2 DEF RequestStop
  <1>3. CASE Poll
    BY <1>3 DEF Poll
  <1>4. CASE HeadStops
    BY <1>4 DEF HeadStops
  <1>5. CASE HeadSkips
    BY <1>5 DEF HeadSkips
  <1>6. CASE HeadLooksUp
    BY <1>6 DEF HeadLooksUp
  <1>7. CASE Cancel
    BY <1>7 DEF Cancel
  <1>8. CASE Start
    BY <1>8 DEF Start
  <1>9. CASE GetToken
    BY <1>9 DEF GetToken
  <1>10. CASE Send
    BY <1>10
  <1>11. CASE Refresh
    BY <1>11 DEF Refresh
  <1>12. CASE BackoffEnds
    BY <1>12 DEF BackoffEnds
  <1>13. CASE NotFound
    BY <1>13 DEF NotFound
  <1>14. CASE Found
    BY <1>14 DEF Found
  <1>15. CASE InvariantFails
    BY <1>15 DEF InvariantFails
  <1>16. ASSUME NEW kind \in Failures, Retry(kind)
        PROVE  ~(requests' > requests)
    BY <1>16 DEF Retry
  <1>17. ASSUME NEW kind \in Failures, Fail(kind)
        PROVE  ~(requests' > requests)
    BY <1>17 DEF Fail
  <1>18. CASE Verdict
    BY <1>18 DEF Verdict
  <1>19. CASE UNCHANGED vars
    BY <1>19 DEF vars
  <1> HIDE DEF KindsOK, NextItem, pacing, lookup, breaker, tally, stop
  <1> QED
    BY <1>1, <1>2, <1>3, <1>4, <1>5, <1>6, <1>7, <1>8, <1>9, <1>10,
       <1>11, <1>12, <1>13, <1>14, <1>15, <1>16, <1>17, <1>18, <1>19
    DEF Next, Worker, Lookup, Done

-----------------------------------------------------------------------------
(* The invariant and what follows from it.                                 *)

LEMMA WorkerInit == Init => WorkerInv
  <1> SUFFICES ASSUME Init
               PROVE  WorkerInv
    OBVIOUS
  <1> USE WorkloadAssumption, PacingAssumption, LimitsAssumption DEF Init, Items
  <1>1. KindsOK
    <2>1. result \in [Items -> {"none", "invariant"} \cup Terminal \cup Failures]
      OBVIOUS
    <2>2. streak \in [kind : {"none"} \cup Failures, count : Nat]
          /\ samples \in [taken : 0 .. SampleSize, odd : Nat]
      OBVIOUS
    <2>3. open \in BOOLEAN /\ refreshed \in BOOLEAN /\ stopFile \in BOOLEAN
          /\ aborted \in BOOLEAN /\ stopped \in BOOLEAN
      OBVIOUS
    <2>4. attempt \in 0 .. Retries /\ requests \in Nat /\ errors \in Nat /\ checked \in Nat
          /\ item \in 1 .. Total + 1 /\ token \in {"none", "fresh"} /\ pc \in Working
      BY DEF Working
    <2> QED
      BY <2>1, <2>2, <2>3, <2>4 DEF KindsOK
  <1>2. AgesOK
    BY LongestBounds DEF AgesOK
  <1>3. LoopOK
    BY DEF LoopOK
  <1>4. RequestsOK
    BY DEF RequestsOK
  <1>5. PaceOK /\ WaitOK
    BY DEF PaceOK, WaitOK, Behind, Latest
  <1>6. TallyOK /\ VerdictOK /\ StreakOK
    BY DEF TallyOK, VerdictOK, StreakOK
  <1> QED
    BY <1>1, <1>2, <1>3, <1>4, <1>5, <1>6 DEF WorkerInv

\* The invariant holds of every behaviour.
THEOREM WorkerCorrect == Spec => []WorkerInv
  <1>1. WorkerInv /\ [Next]_vars => WorkerInv'
    BY KindsStep, AgesStep, LoopStep, RequestsStep, PaceStep, WaitStep, TallyStep, VerdictStep,
       StreakStep
    DEF WorkerInv
  <1> QED
    BY WorkerInit, <1>1, PTL DEF Spec

\* The values of the variables stay in the program's ranges, and one shipment costs
\* at most two requests for each attempt.
THEOREM TypeCorrect == Spec => []TypeOK
  <1>1. WorkerInv => TypeOK
    <2> SUFFICES ASSUME KindsOK, AgesOK, LoopOK, RequestsOK
                 PROVE  TypeOK
      BY DEF WorkerInv
    <2>1. requests \in 0 .. 2 * (Retries + 1)
      BY LimitsAssumption DEF KindsOK, RequestsOK
    <2>2. streak \in [kind : {"none"} \cup Failures, count : 0 .. Threshold]
      BY LimitsAssumption DEF KindsOK, LoopOK
    <2>3. samples \in [taken : 0 .. SampleSize, odd : 0 .. SampleSize]
      BY LimitsAssumption DEF KindsOK, LoopOK
    <2>4. errors \in 0 .. Total /\ checked \in 0 .. Total
      BY WorkloadAssumption DEF KindsOK, LoopOK
    <2>5. pc \in {"head", "send", "verdict"} \cup Awaiting \cup Ends
      BY DEF KindsOK, Working
    <2>6. sinceStart \in 0 .. Longest /\ sends \in [Latest -> 0 .. Longest]
      BY DEF AgesOK
    <2>7. {open, stopFile, aborted, stopped} \subseteq BOOLEAN
      BY DEF KindsOK
    <2> QED
      BY <2>1, <2>2, <2>3, <2>4, <2>5, <2>6, <2>7 DEF TypeOK, KindsOK, AgesOK
  <1> QED
    BY WorkerCorrect, <1>1, PTL

\* A complete traversal answered every shipment, whatever failed on the way.
THEOREM CompleteAnswered == Spec => []CompleteMeansAnswered
  <1>1. WorkerInv => CompleteMeansAnswered
    BY DEF WorkerInv, VerdictOK, TallyOK, CompleteMeansAnswered, Items
  <1> QED
    BY WorkerCorrect, <1>1, PTL

\* Requests keep the pace through retries, refused tokens and changes of shipment.
THEOREM RequestsPaced == Spec => RequestsArePaced
  <1>1. WorkerInv /\ [Next]_vars =>
            [requests' > requests =>
                 /\ \A j \in Latest : sends[j] >= (j - 1) * Interval
                 /\ throttled = -1 \/ throttled >= Throttle]_vars
    <2> SUFFICES ASSUME WorkerInv, [Next]_vars, requests' > requests
                 PROVE  /\ \A j \in Latest : sends[j] >= (j - 1) * Interval
                        /\ throttled = -1 \/ throttled >= Throttle
      OBVIOUS
    <2>1. pc = "send" /\ AgesOK /\ PaceOK /\ WaitOK
      BY OnlySendSends DEF WorkerInv, Send
    <2>2. throttled = -1 \/ throttled >= Throttle
      BY <2>1 DEF WaitOK, Working
    <2>3. ASSUME NEW j \in Latest
          PROVE  sends[j] >= (j - 1) * Interval
      <3>1. sends[j] = Longest \/ sends[j] >= sinceStart + (j - 1) * Interval
        BY <2>1 DEF PaceOK, Behind, Latest
      <3>2. sends[j] \in Nat /\ sinceStart \in Nat
        BY <2>1, LongestBounds DEF AgesOK
      <3> QED
        BY <3>1, <3>2, Intervals
    <2> QED
      BY <2>2, <2>3
  <1> QED
    BY WorkerCorrect, <1>1, PTL DEF Spec, RequestsArePaced

\* Nothing is sent once a circuit is open or a stop was seen.
THEOREM EndIsQuiet == Spec => NothingIsSentAfterTheEnd
  <1>1. WorkerInv /\ [Next]_vars => [requests' > requests => ~open /\ ~stopped /\ ~aborted]_vars
    BY OnlySendSends DEF WorkerInv, LoopOK, Working, Send
  <1> QED
    BY WorkerCorrect, <1>1, PTL DEF Spec, NothingIsSentAfterTheEnd

\* The failures that open the circuit are consecutive lookups.
THEOREM StreaksAreConsecutive == Spec => []CircuitNeedsConsecutiveFailures
  <1>1. WorkerInv => CircuitNeedsConsecutiveFailures
    <2> SUFFICES ASSUME KindsOK, LoopOK, StreakOK, streak.kind # "none"
                 PROVE  CircuitNeedsConsecutiveFailures
      BY DEF WorkerInv, CircuitNeedsConsecutiveFailures
    <2>1. PICK first \in 1 .. checked : StreakFrom(first)
      BY DEF StreakOK, StreakFrom
    <2>2. first \in Items
      BY WorkloadAssumption DEF LoopOK, KindsOK, Items
    <2> QED
      BY <2>1, <2>2 DEF StreakFrom, CircuitNeedsConsecutiveFailures
  <1> QED
    BY WorkerCorrect, <1>1, PTL
=============================================================================
