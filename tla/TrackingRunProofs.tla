------------------------- MODULE TrackingRunProofs -------------------------
(***************************************************************************)
(* Proofs about TrackingRun, for any shipments, results, runs, output      *)
(* files, restarts and faults: what a complete run means, that its results *)
(* are not lost to a discard, what a failed worker leaves, and what a      *)
(* claim rests on.                                                         *)
(*                                                                         *)
(* In a lemma about the steps, USE names the definitions that every case   *)
(* needs; a case adds its action.                                          *)
(***************************************************************************)
EXTENDS TrackingRun, FiniteSetTheorems, WellFoundedInduction, TLAPS

-----------------------------------------------------------------------------
(* Invariants.                                                             *)

\* The worker of a run that has promoted its records, or is about to end.
Promoted == {"summary", "completed", "error", "killed"}

\* Where a worker is agrees with what it has written, and the app watches the
\* worker of the latest run or none.
WorkerOK ==
    /\ attached \subseteq {last}
    /\ \A r \in Runs :
          /\ r > last => at[r] = "none"
          /\ r \in attached => status[r] = "running"
          /\ status[r] = "complete" => at[r] = "completed" /\ promoted[r]
          /\ order[r] # 0 => at[r] \in Promoted
          /\ at[r] \in {"summary", "completed"} => order[r] # 0
          /\ at[r] \in {"moving", "restoring", "unrestored", "summary", "completed"} =>
                backup[r] # NoBackup

\* Nothing is due any more once the files or the records are being replaced.
AnsweredOK ==
    \A r \in Runs : at[r] \in {"staging", "moving", "restoring"} \/ order[r] # 0 =>
        \A p \in Pins : class[r][p] # "due"

\* The ids of classification_records grow with every promotion.
OrderOK ==
    /\ \A q, r \in Runs : order[q] = order[r] /\ order[q] # 0 => q = r
    /\ \A r \in Runs : order[r] <= Cardinality(Ordered)

\* A shipment's current record is no older than any of a run not discarded.
CurrentOK ==
    \A r \in Runs : order[r] # 0 /\ status[r] # "discarded" =>
        \A p \in Classified(r) : Age(p) >= order[r]

RunInv == TypeOK /\ WorkerOK /\ AnsweredOK /\ OrderOK /\ CurrentOK

\* A run whose worker has replaced no file, or has put back all it replaced.
Untouched(r) ==
    \/ at[r] \in {"none", "reading", "looking", "staging", "aborted"}
    \/ at[r] = "error" /\ order[r] = 0

Replacing == {"moving", "restoring"}

\* As long as the app was not restarted, one worker is alive; it is watched,
\* its files are those it has moved, and no backup has one of them.
ReplacementOK ==
    crashes = 0 => \A r \in Runs :
        /\ at[r] \in Alive => r \in attached
        /\ Untouched(r) => \A f \in Files : files[f] # r
        /\ at[r] \in Replacing => \A f \in Files : f > moved[r] => files[f] # r
        /\ Untouched(r) \/ at[r] \in Replacing =>
              \A q \in Runs, f \in Files : backup[q] # NoBackup => backup[q][f] # r

\* A file of a run, or a backup of one, is there only if that run has a backup
\* of what it replaced.
BackupOK ==
    \A r \in Runs : backup[r] = NoBackup =>
        /\ \A f \in Files : files[f] # r
        /\ \A q \in Runs, f \in Files : backup[q] # NoBackup => backup[q][f] # r

\* A list of no run is empty.
SelectionOK == selection.pins # {} => selection.run # 0
-----------------------------------------------------------------------------
(* Types.                                                                  *)

LEMMA EmptySelection == NoSelection \in [run : 0 .. MaxRuns, pins : SUBSET Pins]
<1>1. {} \in SUBSET Pins /\ 0 \in 0 .. MaxRuns
  BY BoundsAssumption
<1>2. QED
  BY <1>1 DEF NoSelection

\* The first state has the types.
LEMMA TypeInit == Init => TypeOK
<1> SUFFICES ASSUME Init PROVE TypeOK
  OBVIOUS
<1>1. last \in 0 .. MaxRuns /\ crashes \in 0 .. MaxCrashes
  BY BoundsAssumption DEF Init
<1>2. status \in [Runs -> Statuses] /\ promoted \in [Runs -> BOOLEAN]
  BY DEF Init, Statuses
<1>3. class \in [Runs -> [Pins -> Results \cup {"none", "due"}]]
  BY DEF Init, NoClass
<1>4. /\ order \in [Runs -> 0 .. MaxRuns] /\ current \in [Pins -> 0 .. MaxRuns + 1]
      /\ rechecked \in [Pins -> 0 .. MaxRuns]
  BY BoundsAssumption DEF Init
<1>5. files \in [Files -> 0 .. MaxRuns] /\ moved \in [Runs -> 0 .. NumFiles]
  BY BoundsAssumption DEF Init
<1>6. backup \in [Runs -> {NoBackup} \cup [Files -> 0 .. MaxRuns]]
  BY DEF Init
<1>7. at \in [Runs -> {"none"} \cup Alive \cup Ended]
  BY DEF Init
<1>8. /\ attached \subseteq Runs /\ abandoned \subseteq Runs
      /\ stopFile \in BOOLEAN /\ filed \subseteq Pins
  BY DEF Init
<1>9. selection \in [run : 0 .. MaxRuns, pins : SUBSET Pins]
  BY EmptySelection DEF Init
<1>10. QED
  BY <1>1, <1>2, <1>3, <1>4, <1>5, <1>6, <1>7, <1>8, <1>9 DEF TypeOK

\* There are no more promotions than runs.
LEMMA OrderedBound == Cardinality(Ordered) \in 0 .. MaxRuns
<1>1. IsFiniteSet(Runs) /\ Cardinality(Runs) = MaxRuns
  BY FS_Interval, BoundsAssumption DEF Runs
<1>2. Ordered \subseteq Runs
  BY DEF Ordered
<1>3. IsFiniteSet(Ordered) /\ Cardinality(Ordered) <= MaxRuns
  BY <1>1, <1>2, FS_Subset
<1>4. QED
  BY <1>3, FS_CardinalityType, BoundsAssumption

\* A run that has not promoted its records is not counted among those that have.
LEMMA OrderedIsCounted ==
    ASSUME TypeOK, NEW r \in Runs, order[r] = 0
    PROVE  /\ IsFiniteSet(Ordered) /\ Cardinality(Ordered) \in Nat
           /\ Cardinality(Ordered) < MaxRuns
<1>1. IsFiniteSet(Runs) /\ Cardinality(Runs) = MaxRuns
  BY FS_Interval, BoundsAssumption DEF Runs
<1>2. IsFiniteSet(Runs \ {r}) /\ Cardinality(Runs \ {r}) = MaxRuns - 1
  BY <1>1, FS_RemoveElement
<1>3. Ordered \subseteq Runs \ {r}
  BY DEF Ordered
<1>4. IsFiniteSet(Ordered) /\ Cardinality(Ordered) <= MaxRuns - 1
  BY <1>2, <1>3, FS_Subset
<1>5. QED
  BY <1>4, FS_CardinalityType, BoundsAssumption

\* The orders of older records have a greatest one.
LEMMA GreatestOrder ==
    ASSUME TypeOK, NEW S \in SUBSET Runs, S # {}
    PROVE  \E q \in S : \A o \in S : order[o] <= order[q]
<1> DEFINE distance == {MaxRuns - order[q] : q \in S}
<1>1. distance \subseteq Nat /\ distance # {}
  BY BoundsAssumption DEF TypeOK
<1>2. PICK d \in distance : \A e \in distance : ~ (<<e, d>> \in OpToRel(<, Nat))
  BY <1>1, NatLessThanWellFounded, WFMin
<1>3. \A e \in distance : d <= e
  <2>1. OpToRel(<, Nat) = {ss \in Nat \X Nat : ss[1] < ss[2]}
    BY DEF OpToRel
  <2>2. \A e \in distance : ~ (<<e, d>> \in {ss \in Nat \X Nat : ss[1] < ss[2]})
    BY <1>2, <2>1
  <2>3. ASSUME NEW e \in distance PROVE d <= e
    <3>1. e \in Nat /\ d \in Nat
      BY <1>1
    <3>2. <<e, d>> \in Nat \X Nat /\ <<e, d>>[1] = e /\ <<e, d>>[2] = d
      BY <3>1
    <3>3. ~ (<<e, d>>[1] < <<e, d>>[2])
      BY <2>2, <3>2
    <3>4. QED
      BY <3>1, <3>2, <3>3
  <2>4. QED
    BY <2>3
<1>4. PICK q \in S : d = MaxRuns - order[q]
  OBVIOUS
<1>5. ASSUME NEW o \in S PROVE order[o] <= order[q]
  <2>1. MaxRuns - order[q] <= MaxRuns - order[o]
    BY <1>3, <1>4
  <2>2. MaxRuns \in Nat /\ order[q] \in Nat /\ order[o] \in Nat
    BY BoundsAssumption DEF TypeOK
  <2>3. QED
    BY <2>1, <2>2
<1>6. QED
  BY <1>5

\* What the record before the current one is: the claim's, if no older run has
\* a later one, or the latest of the older runs.
LEMMA PrecedingIsLatest ==
    ASSUME TypeOK, NEW r \in Runs, NEW p \in Pins
    PROVE  LET c == Preceding(r, p)
               runs == Older(r, p)
           IN  \/ c = 0 /\ runs = {}
               \/ /\ c = OfClaim /\ rechecked[p] # 0
                  /\ \A o \in runs : order[o] <= rechecked[p]
               \/ c \in runs /\ \A o \in runs : order[o] <= order[c]
<1> DEFINE runs == Older(r, p)
           newest == CHOOSE q \in runs : \A o \in runs : order[o] <= order[q]
           claimed == rechecked[p] \in 1 .. order[r] - 1
<1>0. Preceding(r, p) = IF runs = {} \/ (claimed /\ order[newest] <= rechecked[p])
                        THEN (IF claimed THEN OfClaim ELSE 0)
                        ELSE newest
  BY DEF Preceding
<1>1. runs \subseteq Runs /\ order[r] \in Nat /\ rechecked[p] \in Nat
      /\ \A q \in Runs : order[q] \in Nat
  BY BoundsAssumption DEF TypeOK, Older
<1>2. claimed => rechecked[p] # 0
  BY <1>1
<1>3. runs # {} => newest \in runs /\ \A o \in runs : order[o] <= order[newest]
  <2>1. runs # {} => \E q \in runs : \A o \in runs : order[o] <= order[q]
    BY <1>1, GreatestOrder
  <2>2. QED
    BY <2>1
<1> HIDE DEF runs, newest, claimed
<1>4. QED
  <2>1. CASE runs = {}
    BY <1>0, <1>2, <2>1 DEF runs
  <2>2. CASE runs # {} /\ claimed /\ order[newest] <= rechecked[p]
    <3>1. \A o \in runs : order[o] <= rechecked[p]
      BY <1>1, <1>3, <2>2
    <3>2. QED
      BY <1>0, <1>2, <2>2, <3>1 DEF runs
  <2>3. CASE runs # {} /\ ~ (claimed /\ order[newest] <= rechecked[p])
    BY <1>0, <1>3, <2>3 DEF runs
  <2>4. QED
    BY <2>1, <2>2, <2>3

\* What a discarded result falls back to is a run, a claim or nothing.
LEMMA PrecedingIsARecord ==
    ASSUME TypeOK, NEW r \in Runs, NEW p \in Pins
    PROVE  Preceding(r, p) \in 0 .. MaxRuns + 1
BY PrecedingIsLatest, BoundsAssumption DEF Runs, Older, OfClaim

\* What the end of a worker does to the record of its run.
LEMMA EndTypes ==
    ASSUME TypeOK, NEW r \in Runs, NEW place \in Ended, WorkerEnds(r, place)
    PROVE  /\ at' \in [Runs -> {"none"} \cup Alive \cup Ended]
           /\ moved' \in [Runs -> 0 .. NumFiles]
           /\ class' \in [Runs -> [Pins -> Results \cup {"none", "due"}]]
<1>1. NoClass \in [Pins -> Results \cup {"none", "due"}]
  BY DEF NoClass
<1>2. QED
  BY <1>1, BoundsAssumption DEF TypeOK, WorkerEnds, WorkerGoes

\* A worker that goes on keeps the type of where it is.
LEMMA GoTypes ==
    ASSUME TypeOK, NEW r \in Runs, NEW place \in Alive, WorkerGoes(r, place)
    PROVE  at' \in [Runs -> {"none"} \cup Alive \cup Ended]
BY DEF TypeOK, WorkerGoes

\* Every step keeps the types.
LEMMA TypeStep ==
    ASSUME TypeOK, WorkerOK, [Next]_vars
    PROVE  TypeOK'
<1> USE DEF records, database, pointers, disk, process, step3
<1>1. CASE Start
  <2>1. last' \in 0 .. MaxRuns /\ last' \in Runs
    BY <1>1, BoundsAssumption DEF Start, TypeOK, Runs
  <2>2. /\ status' \in [Runs -> Statuses]
        /\ at' \in [Runs -> {"none"} \cup Alive \cup Ended]
        /\ attached' \subseteq Runs
    BY <1>1, <2>1 DEF Start, TypeOK, Statuses, Alive
  <2>3. stopFile' \in BOOLEAN
    BY <1>1 DEF Start
  <2>4. QED
    BY <1>1, <2>1, <2>2, <2>3 DEF Start, TypeOK
<1>2. CASE RequestStop
  BY <1>2 DEF RequestStop, TypeOK
<1>3. CASE Crash
  <2>1. crashes' \in 0 .. MaxCrashes /\ attached' \subseteq Runs
    BY <1>3, BoundsAssumption DEF Crash, TypeOK
  <2>2. selection' \in [run : 0 .. MaxRuns, pins : SUBSET Pins]
    BY <1>3, EmptySelection DEF Crash
  <2>3. QED
    BY <1>3, <2>1, <2>2 DEF Crash, TypeOK
<1>4. CASE Discard
  <2>1. PICK r \in Incomplete :
            /\ status' = [status EXCEPT ![r] = "discarded"]
            /\ current' = [p \in Pins |->
                              IF current[p] = r THEN Preceding(r, p) ELSE current[p]]
            /\ files' = IF backup[r] = NoBackup THEN files ELSE backup[r]
    BY <1>4 DEF Discard
  <2>2. r \in Runs
    BY <2>1, BoundsAssumption DEF Incomplete, TypeOK, Runs
  <2>3. status' \in [Runs -> Statuses]
    BY <2>1, <2>2 DEF TypeOK, Statuses
  <2>4. current' \in [Pins -> 0 .. MaxRuns + 1]
    BY <2>1, <2>2, PrecedingIsARecord DEF TypeOK
  <2>5. files' \in [Files -> 0 .. MaxRuns]
    BY <2>1, <2>2 DEF TypeOK
  <2>6. QED
    BY <1>4, <2>3, <2>4, <2>5 DEF Discard, TypeOK
<1>5. CASE Preview
  <2>1. PICK chosen \in SUBSET Candidates(QueueRun) :
            selection' = [run |-> QueueRun, pins |-> chosen]
    BY <1>5 DEF Preview
  <2>2. chosen \in SUBSET Pins
    BY <2>1 DEF Candidates, Classified
  <2>3. QueueRun \in 0 .. MaxRuns
    BY BoundsAssumption DEF QueueRun, TypeOK
  <2>4. selection' \in [run : 0 .. MaxRuns, pins : SUBSET Pins]
    BY <2>1, <2>2, <2>3
  <2>5. QED
    BY <1>5, <2>4 DEF Preview, TypeOK
<1>6. CASE Submit
  <2>1. filed' \subseteq Pins
    BY <1>6 DEF Submit, TypeOK
  <2>2. selection' \in [run : 0 .. MaxRuns, pins : SUBSET Pins]
    BY <1>6, EmptySelection DEF Submit
  <2>3. current' \in [Pins -> 0 .. MaxRuns + 1]
    BY <1>6, BoundsAssumption DEF Submit, TypeOK, OfClaim
  <2>4. Cardinality(Ordered) \in 0 .. MaxRuns
    BY OrderedBound
  <2>5. rechecked' \in [Pins -> 0 .. MaxRuns]
    BY <1>6, <2>4 DEF Submit, TypeOK
  <2>6. QED
    BY <1>6, <2>1, <2>2, <2>3, <2>5 DEF Submit, TypeOK
<1>7. ASSUME NEW r \in Runs, Read(r)
      PROVE  TypeOK'
  <2>1. PICK recent \in SUBSET Pins :
            LET workload == (recent \cup CarryForward) \ ConfirmedOnTime IN
            IF recent \cup CarryForward = {}
            THEN WorkerEnds(r, "error")
            ELSE /\ WorkerGoes(r, "looking")
                 /\ UNCHANGED moved
                 /\ class' = [class EXCEPT ![r] =
                                 [p \in Pins |-> IF p \in workload THEN "due" ELSE "none"]]
    BY <1>7 DEF Read
  <2>2. CASE recent \cup CarryForward = {}
    <3>1. "error" \in Ended /\ WorkerEnds(r, "error")
      BY <2>1, <2>2 DEF Ended
    <3>2. QED
      BY <1>7, <3>1, EndTypes DEF Read, TypeOK
  <2>3. CASE recent \cup CarryForward # {}
    <3> DEFINE due == [p \in Pins |-> IF p \in (recent \cup CarryForward) \ ConfirmedOnTime
                                      THEN "due" ELSE "none"]
    <3>1. /\ WorkerGoes(r, "looking") /\ moved' = moved
          /\ class' = [class EXCEPT ![r] = due]
      BY <2>1, <2>3
    <3>2. due \in [Pins -> Results \cup {"none", "due"}]
      OBVIOUS
    <3> HIDE DEF due
    <3>3. class' \in [Runs -> [Pins -> Results \cup {"none", "due"}]]
      BY <3>1, <3>2 DEF TypeOK
    <3>4. at' \in [Runs -> {"none"} \cup Alive \cup Ended]
      BY <3>1, GoTypes DEF Alive
    <3>5. QED
      BY <1>7, <3>1, <3>3, <3>4 DEF Read, TypeOK
  <2>4. QED
    BY <2>2, <2>3
<1>8. ASSUME NEW r \in Runs, Traverse(r)
      PROVE  TypeOK'
  <2>1. PICK found \in [Pins -> Results \cup {"none"}] : class' = [class EXCEPT ![r] = found]
    BY <1>8 DEF Traverse
  <2>2. found \in [Pins -> Results \cup {"none", "due"}]
    OBVIOUS
  <2>3. class' \in [Runs -> [Pins -> Results \cup {"none", "due"}]]
    BY <2>1, <2>2 DEF TypeOK
  <2>4. at' \in [Runs -> {"none"} \cup Alive \cup Ended]
    BY <1>8, GoTypes DEF Traverse, Alive
  <2>5. QED
    BY <1>8, <2>3, <2>4 DEF Traverse, TypeOK
<1>9. ASSUME NEW r \in Runs, Abort(r)
      PROVE  TypeOK'
  <2>1. "aborted" \in Ended /\ WorkerEnds(r, "aborted")
    BY <1>9 DEF Abort, Ended
  <2>2. QED
    BY <1>9, <2>1, EndTypes DEF Abort, TypeOK
<1>10. ASSUME NEW r \in Runs, Stage(r)
      PROVE  TypeOK'
  <2>1. CASE WorkerGoes(r, "moving") /\ backup' = [backup EXCEPT ![r] = files]
                /\ UNCHANGED <<class, moved>>
    <3>1. at' \in [Runs -> {"none"} \cup Alive \cup Ended]
      BY <2>1, GoTypes DEF Alive
    <3>2. backup' \in [Runs -> {NoBackup} \cup [Files -> 0 .. MaxRuns]]
      BY <2>1 DEF TypeOK
    <3>3. QED
      BY <1>10, <2>1, <3>1, <3>2 DEF Stage, TypeOK
  <2>2. CASE WorkerEnds(r, "error") /\ UNCHANGED backup
    <3>1. "error" \in Ended
      BY DEF Ended
    <3>2. QED
      BY <1>10, <2>2, <3>1, EndTypes DEF Stage, TypeOK
  <2>3. QED
    BY <1>10, <2>1, <2>2 DEF Stage
<1>11. ASSUME NEW r \in Runs, MoveFile(r)
      PROVE  TypeOK'
  <2>1. CASE /\ files' = [files EXCEPT ![moved[r] + 1] = r]
             /\ moved' = [moved EXCEPT ![r] = @ + 1]
             /\ UNCHANGED at
    <3>1. moved[r] + 1 \in 0 .. NumFiles
      BY <1>11, BoundsAssumption DEF MoveFile, TypeOK
    <3>2. moved' \in [Runs -> 0 .. NumFiles]
      BY <2>1, <3>1 DEF TypeOK
    <3>3. r \in 0 .. MaxRuns
      BY BoundsAssumption DEF Runs
    <3>4. files' \in [Files -> 0 .. MaxRuns]
      BY <2>1, <3>3 DEF TypeOK
    <3>5. QED
      BY <1>11, <2>1, <3>2, <3>4 DEF MoveFile, TypeOK
  <2>2. CASE WorkerGoes(r, "restoring") /\ UNCHANGED <<files, moved>>
    <3>1. at' \in [Runs -> {"none"} \cup Alive \cup Ended]
      BY <2>2, GoTypes DEF Alive
    <3>2. QED
      BY <1>11, <2>2, <3>1 DEF MoveFile, TypeOK
  <2>3. QED
    BY <1>11, <2>1, <2>2 DEF MoveFile
<1>12. ASSUME NEW r \in Runs, PromoteBatch(r)
      PROVE  TypeOK'
  <2>1. CASE /\ order' = [order EXCEPT ![r] = Cardinality(Ordered) + 1]
             /\ current' = [p \in Pins |->
                               IF class[r][p] \in {"none", "no_data"} THEN current[p] ELSE r]
             /\ WorkerGoes(r, "summary")
    <3>1. order[r] = 0
      BY <1>12 DEF PromoteBatch, WorkerOK, Promoted
    <3>2. Cardinality(Ordered) + 1 \in 0 .. MaxRuns
      BY <3>1, OrderedIsCounted, BoundsAssumption DEF Ordered
    <3>3. order' \in [Runs -> 0 .. MaxRuns]
      BY <2>1, <3>2 DEF TypeOK
    <3>4. current' \in [Pins -> 0 .. MaxRuns + 1]
      <4>1. r \in 0 .. MaxRuns + 1 /\ \A p \in Pins : current[p] \in 0 .. MaxRuns + 1
        BY BoundsAssumption DEF TypeOK, Runs
      <4>2. QED
        BY <2>1, <4>1
    <3>5. at' \in [Runs -> {"none"} \cup Alive \cup Ended]
      BY <2>1, GoTypes DEF Alive
    <3>6. QED
      BY <1>12, <3>3, <3>4, <3>5 DEF PromoteBatch, TypeOK
  <2>2. CASE WorkerGoes(r, "restoring") /\ UNCHANGED <<order, current>>
    <3>1. at' \in [Runs -> {"none"} \cup Alive \cup Ended]
      BY <2>2, GoTypes DEF Alive
    <3>2. QED
      BY <1>12, <2>2, <3>1 DEF PromoteBatch, TypeOK
  <2>3. QED
    BY <1>12, <2>1, <2>2 DEF PromoteBatch
<1>13. ASSUME NEW r \in Runs, Restore(r)
      PROVE  TypeOK'
  <2>1. CASE \E place \in {"error", "unrestored"} : WorkerEnds(r, place) /\ UNCHANGED files
    <3>1. PICK place \in {"error", "unrestored"} : WorkerEnds(r, place) /\ files' = files
      BY <2>1
    <3>2. place \in Ended
      BY <3>1 DEF Ended
    <3>3. QED
      BY <1>13, <3>1, <3>2, EndTypes DEF Restore, TypeOK
  <2>2. CASE /\ moved[r] # 0
             /\ files' = [files EXCEPT ![moved[r]] = backup[r][moved[r]]]
             /\ moved' = [moved EXCEPT ![r] = @ - 1]
             /\ UNCHANGED <<class, at>>
    <3>1. moved[r] - 1 \in 0 .. NumFiles /\ moved[r] \in Files
      BY <2>2, BoundsAssumption DEF TypeOK, Files
    <3>2. moved' \in [Runs -> 0 .. NumFiles]
      BY <2>2, <3>1 DEF TypeOK
    <3>3. backup[r] \in [Files -> 0 .. MaxRuns]
      BY <1>13 DEF Restore, TypeOK, WorkerOK
    <3>4. files' \in [Files -> 0 .. MaxRuns]
      BY <2>2, <3>1, <3>3 DEF TypeOK
    <3>5. QED
      BY <1>13, <2>2, <3>2, <3>4 DEF Restore, TypeOK
  <2>3. QED
    BY <1>13, <2>1, <2>2 DEF Restore
<1>14. ASSUME NEW r \in Runs, Summarise(r)
      PROVE  TypeOK'
  <2>1. PICK place \in Ended : WorkerEnds(r, place)
    BY <1>14 DEF Summarise, Ended
  <2>2. QED
    BY <1>14, <2>1, EndTypes DEF Summarise, TypeOK
<1>15. ASSUME NEW r \in Runs, Kill(r)
      PROVE  TypeOK'
  <2>1. "killed" \in Ended /\ WorkerEnds(r, "killed")
    BY <1>15 DEF Kill, Ended
  <2>2. QED
    BY <1>15, <2>1, EndTypes DEF Kill, TypeOK
<1>16. ASSUME NEW r \in Runs, Close(r)
      PROVE  TypeOK'
  <2>1. ASSUME UNCHANGED <<status, promoted>>
        PROVE  status' \in [Runs -> Statuses] /\ promoted' \in [Runs -> BOOLEAN]
    BY <2>1 DEF TypeOK
  <2>2. ASSUME NEW s \in {Outcome(r), "failed"},
               status' = [status EXCEPT ![r] = s],
               promoted' = [promoted EXCEPT ![r] = s = "complete"]
        PROVE  status' \in [Runs -> Statuses] /\ promoted' \in [Runs -> BOOLEAN]
    <3>1. s \in Statuses
      BY DEF Outcome, Statuses
    <3>2. QED
      BY <2>2, <3>1 DEF TypeOK
  <2>3. status' \in [Runs -> Statuses] /\ promoted' \in [Runs -> BOOLEAN]
    BY <1>16, <2>1, <2>2 DEF Close, TypeOK
  <2>4. attached' \subseteq Runs
    BY <1>16 DEF Close, TypeOK
  <2>5. QED
    BY <1>16, <2>3, <2>4 DEF Close, TypeOK
<1>17. CASE UNCHANGED vars
  BY <1>17 DEF vars, TypeOK
<1> HIDE DEF records, database, pointers, disk, process, step3
<1>18. QED
  BY <1>1, <1>2, <1>3, <1>4, <1>5, <1>6, <1>7, <1>8, <1>9, <1>10, <1>11, <1>12, <1>13,
     <1>14, <1>15, <1>16, <1>17 DEF Next, WorkerStep

-----------------------------------------------------------------------------
(* Workers and runs.                                                       *)

\* What the end of a worker leaves as it is.
LEMMA EndEffect ==
    ASSUME TypeOK, NEW r \in Runs, NEW place, WorkerEnds(r, place)
    PROVE  /\ at' = [at EXCEPT ![r] = place]
           /\ \A q \in Runs : q # r \/ order[r] # 0 => class'[q] = class[q]
           /\ \A p \in Pins : order[r] = 0 => class'[r][p] = "none"
BY DEF TypeOK, WorkerEnds, WorkerGoes, NoClass

\* A backup of the output files is not the absence of one.
LEMMA FilesAreSome == TypeOK => files # NoBackup
<1>1. 1 \in Files
  BY BoundsAssumption DEF Files
<1>2. TypeOK => DOMAIN files = Files
  BY DEF TypeOK
<1>3. DOMAIN NoBackup = {}
  BY DEF NoBackup
<1>4. QED
  BY <1>1, <1>2, <1>3

\* Every step keeps a worker in agreement with what it has written.
LEMMA WorkerOKStep ==
    ASSUME TypeOK, WorkerOK, [Next]_vars
    PROVE  WorkerOK'
<1>0. /\ files # NoBackup
      /\ \A r \in Runs :
            order[r] = 0 => Cardinality(Ordered) + 1 # 0
  BY FilesAreSome, OrderedIsCounted DEF Ordered
<1> USE BoundsAssumption
        DEF WorkerOK, TypeOK, records, database, pointers, disk, process, step3, WorkerGoes,
            WorkerEnds, Promoted, Alive, Ended, Runs
<1>1. CASE Start
  <2>1. /\ last' = last + 1 /\ last' \in Runs /\ last \in Nat
        /\ at[last'] = "none" /\ order[last'] = 0
    <3>1. last' = last + 1 /\ last < MaxRuns /\ last \in 0 .. MaxRuns
      BY <1>1 DEF Start
    <3>2. last' \in Runs /\ last' > last /\ last \in Nat
      BY <3>1
    <3>3. at[last'] = "none"
      BY <3>2
    <3>4. order[last'] = 0
      BY <3>2, <3>3
    <3>5. QED
      BY <3>1, <3>2, <3>3, <3>4
  <2>2. UNCHANGED <<promoted, order, backup>>
    BY <1>1 DEF Start
  <2>3. /\ at'[last'] \in {"reading", "none"}
        /\ status'[last'] \in {"running", "failed"}
        /\ \A r \in Runs \ {last'} : at'[r] = at[r] /\ status'[r] = status[r]
    BY <1>1, <2>1 DEF Start
  <2>4. attached' \subseteq {last'} /\ (last' \in attached' => status'[last'] = "running")
    BY <1>1, <2>1 DEF Start, NoActiveChild
  <2>5. QED
    BY <2>1, <2>2, <2>3, <2>4
<1>2. CASE RequestStop
  BY <1>2 DEF RequestStop
<1>3. CASE Crash
  BY <1>3 DEF Crash
<1>4. CASE Discard
  BY <1>4 DEF Discard, NoActiveChild, Incomplete
<1>5. CASE Preview
  BY <1>5 DEF Preview
<1>6. CASE Submit
  BY <1>6 DEF Submit
<1>7. ASSUME NEW r \in Runs, Read(r)
      PROVE  WorkerOK'
  BY <1>7, ZenonT(30) DEF Read
<1>8. ASSUME NEW r \in Runs, Traverse(r)
      PROVE  WorkerOK'
  BY <1>8 DEF Traverse
<1>9. ASSUME NEW r \in Runs, Abort(r)
      PROVE  WorkerOK'
  BY <1>9 DEF Abort
<1>10. ASSUME NEW r \in Runs, Stage(r)
      PROVE  WorkerOK'
  <2>2. CASE at' = [at EXCEPT ![r] = "moving"] /\ backup' = [backup EXCEPT ![r] = files]
    BY <1>10, <1>0, <2>2 DEF Stage
  <2>3. CASE WorkerEnds(r, "error") /\ UNCHANGED backup
    BY <1>10, <2>3 DEF Stage
  <2>4. QED
    BY <1>10, <2>2, <2>3 DEF Stage
<1>11. ASSUME NEW r \in Runs, MoveFile(r)
      PROVE  WorkerOK'
  BY <1>11 DEF MoveFile
<1>12. ASSUME NEW r \in Runs, PromoteBatch(r)
      PROVE  WorkerOK'
  <2>1. CASE WorkerGoes(r, "restoring") /\ UNCHANGED <<order, current>>
    BY <1>12, <2>1 DEF PromoteBatch
  <2>2. CASE /\ order' = [order EXCEPT ![r] = Cardinality(Ordered) + 1]
             /\ WorkerGoes(r, "summary")
    <3>1. order[r] = 0
      BY <1>12 DEF PromoteBatch
    <3>2. Cardinality(Ordered) + 1 # 0
      BY <1>0, <3>1
    <3>3. QED
      BY <1>12, <2>2, <3>2 DEF PromoteBatch
  <2>3. QED
    BY <1>12, <2>1, <2>2 DEF PromoteBatch
<1>13. ASSUME NEW r \in Runs, Restore(r)
      PROVE  WorkerOK'
  BY <1>13 DEF Restore
<1>14. ASSUME NEW r \in Runs, Summarise(r)
      PROVE  WorkerOK'
  BY <1>14 DEF Summarise
<1>15. ASSUME NEW r \in Runs, Kill(r)
      PROVE  WorkerOK'
  BY <1>15 DEF Kill
<1>16. ASSUME NEW r \in Runs, Close(r)
      PROVE  WorkerOK'
  BY <1>16, ZenonT(30) DEF Close, Outcome
<1>17. CASE UNCHANGED vars
  BY <1>17 DEF vars
<1> HIDE DEF WorkerOK, TypeOK, records, database, pointers, disk, process, step3, WorkerGoes,
             WorkerEnds, Promoted, Alive, Ended, Runs
<1>18. QED
  BY <1>1, <1>2, <1>3, <1>4, <1>5, <1>6, <1>7, <1>8, <1>9, <1>10, <1>11, <1>12, <1>13,
     <1>14, <1>15, <1>16, <1>17 DEF Next, WorkerStep

\* No step leaves a shipment due once the replacement has begun.
LEMMA AnsweredStep ==
    ASSUME TypeOK, WorkerOK, AnsweredOK, [Next]_vars
    PROVE  AnsweredOK'
<1> USE BoundsAssumption
        DEF AnsweredOK, TypeOK, WorkerOK, records, database, pointers, disk, process, step3,
            WorkerGoes, Promoted
<1>1. CASE Start
  BY <1>1 DEF Start
<1>2. CASE RequestStop
  BY <1>2 DEF RequestStop
<1>3. CASE Crash
  BY <1>3 DEF Crash
<1>4. CASE Discard
  <2>1. UNCHANGED <<class, order, at>>
    BY <1>4 DEF Discard
  <2>2. QED
    BY <2>1
<1>5. CASE Preview
  BY <1>5 DEF Preview
<1>6. CASE Submit
  BY <1>6 DEF Submit
<1>7. ASSUME NEW r \in Runs, Read(r)
      PROVE  AnsweredOK'
  <2>1. order[r] = 0 /\ order' = order
    BY <1>7 DEF Read
  <2>2. \A q \in Runs \ {r} : at'[q] = at[q] /\ class'[q] = class[q]
    BY <1>7 DEF Read, WorkerEnds
  <2>3. at'[r] \in {"looking", "error"}
    BY <1>7 DEF Read, WorkerEnds
  <2>4. QED
    BY <2>1, <2>2, <2>3, SMTT(30)
<1>8. ASSUME NEW r \in Runs, Traverse(r)
      PROVE  AnsweredOK'
  <2>1. PICK found \in [Pins -> Results \cup {"none"}] : class' = [class EXCEPT ![r] = found]
    BY <1>8 DEF Traverse
  <2>2. \A p \in Pins : found[p] # "due"
    BY ResultsAssumption DEF ResultNames
  <2>3. QED
    BY <1>8, <2>1, <2>2 DEF Traverse
<1>9. ASSUME NEW r \in Runs, Abort(r)
      PROVE  AnsweredOK'
  BY <1>9, EndEffect DEF Abort
<1>10. ASSUME NEW r \in Runs, Stage(r)
      PROVE  AnsweredOK'
  BY <1>10, EndEffect DEF Stage
<1>11. ASSUME NEW r \in Runs, MoveFile(r)
      PROVE  AnsweredOK'
  BY <1>11 DEF MoveFile
<1>12. ASSUME NEW r \in Runs, PromoteBatch(r)
      PROVE  AnsweredOK'
  BY <1>12 DEF PromoteBatch
<1>13. ASSUME NEW r \in Runs, Restore(r)
      PROVE  AnsweredOK'
  BY <1>13, EndEffect DEF Restore
<1>14. ASSUME NEW r \in Runs, Summarise(r)
      PROVE  AnsweredOK'
  <2>1. order[r] # 0 /\ order' = order
    BY <1>14 DEF Summarise
  <2>2. PICK place \in Ended : WorkerEnds(r, place)
    BY <1>14 DEF Summarise, Ended
  <2>3. \A q \in Runs : class'[q] = class[q]
    BY <2>1, <2>2, EndEffect
  <2>4. at' = [at EXCEPT ![r] = place] /\ place \notin {"staging", "moving", "restoring"}
    BY <2>2 DEF WorkerEnds, Ended
  <2>5. QED
    BY <2>1, <2>3, <2>4
<1>15. ASSUME NEW r \in Runs, Kill(r)
      PROVE  AnsweredOK'
  BY <1>15, EndEffect DEF Kill
<1>16. ASSUME NEW r \in Runs, Close(r)
      PROVE  AnsweredOK'
  BY <1>16 DEF Close
<1>17. CASE UNCHANGED vars
  BY <1>17 DEF vars
<1> HIDE DEF AnsweredOK, TypeOK, WorkerOK, records, database, pointers, disk, process, step3,
             WorkerGoes, Promoted
<1>18. QED
  BY <1>1, <1>2, <1>3, <1>4, <1>5, <1>6, <1>7, <1>8, <1>9, <1>10, <1>11, <1>12, <1>13,
     <1>14, <1>15, <1>16, <1>17 DEF Next, WorkerStep

\* The first state satisfies the two invariants on the workers.
LEMMA RunInit == Init => WorkerOK /\ AnsweredOK
BY BoundsAssumption DEF Init, WorkerOK, AnsweredOK, Runs

\* Types and the invariants on the workers hold of every behaviour.
LEMMA RunCorrect == Spec => [](TypeOK /\ WorkerOK /\ AnsweredOK)
<1>1. Init => TypeOK /\ WorkerOK /\ AnsweredOK
  BY TypeInit, RunInit
<1>2. TypeOK /\ WorkerOK /\ AnsweredOK /\ [Next]_vars => (TypeOK /\ WorkerOK /\ AnsweredOK)'
  BY TypeStep, WorkerOKStep, AnsweredStep
<1>3. QED
  BY <1>1, <1>2, PTL DEF Spec

\* Every variable has values that the program can give it; in particular the
\* orders never outgrow the number of runs.
THEOREM TypeCorrect == Spec => []TypeOK
BY RunCorrect, PTL

\* A complete run has an answer for its whole workload and has replaced every
\* file and record, whatever failed, stopped or died on the way.
THEOREM CompleteRunsWhole == Spec => []CompleteRunsAreWhole
<1>1. TypeOK /\ WorkerOK /\ AnsweredOK => CompleteRunsAreWhole
  BY DEF WorkerOK, AnsweredOK, CompleteRunsAreWhole
<1>2. QED
  BY <1>1, RunCorrect, PTL

-----------------------------------------------------------------------------
(* Promotions and discards.                                                *)

\* What a run has classified is fixed once it has promoted its records.
LEMMA RecordsStand ==
    ASSUME TypeOK, WorkerOK, [Next]_vars, NEW q \in Runs, order[q] # 0
    PROVE  order'[q] = order[q] /\ class'[q] = class[q] /\ Classified(q)' = Classified(q)
<1>1. order'[q] = order[q] /\ class'[q] = class[q]
  <2> USE DEF TypeOK, WorkerOK, records, database, pointers, disk, process, step3, WorkerGoes, Promoted
  <2>1. CASE Start \/ RequestStop \/ Crash \/ Discard \/ Preview \/ Submit
    <3>1. UNCHANGED <<order, class>>
      BY <2>1 DEF Start, RequestStop, Crash, Discard, Preview, Submit
    <3>2. QED
      BY <3>1
  <2>2. ASSUME NEW r \in Runs, Read(r) \/ Traverse(r) \/ Stage(r) \/ Abort(r) \/ Restore(r)
        PROVE  order'[q] = order[q] /\ class'[q] = class[q]
    <3>1. q # r /\ order' = order
      BY <2>2 DEF Read, Traverse, Stage, Abort, Restore
    <3>2. class'[q] = class[q]
      BY <2>2, <3>1 DEF Read, Traverse, Stage, Abort, Restore, WorkerEnds
    <3>3. QED
      BY <3>1, <3>2
  <2>3. ASSUME NEW r \in Runs, MoveFile(r) \/ PromoteBatch(r)
        PROVE  order'[q] = order[q] /\ class'[q] = class[q]
    <3>1. q # r
      BY <2>3 DEF MoveFile, PromoteBatch
    <3>2. QED
      BY <2>3, <3>1 DEF MoveFile, PromoteBatch
  <2>4. ASSUME NEW r \in Runs, Summarise(r) \/ Kill(r)
        PROVE  order'[q] = order[q] /\ class'[q] = class[q]
    <3>1. order' = order
      BY <2>4 DEF Summarise, Kill
    <3>2. PICK place \in Ended : WorkerEnds(r, place)
      BY <2>4 DEF Summarise, Kill, Ended
    <3>3. class'[q] = class[q]
      BY <3>2, EndEffect
    <3>4. QED
      BY <3>1, <3>3
  <2>5. ASSUME NEW r \in Runs, Close(r)
        PROVE  order'[q] = order[q] /\ class'[q] = class[q]
    BY <2>5 DEF Close
  <2>6. CASE UNCHANGED vars
    BY <2>6 DEF vars
  <2> HIDE DEF TypeOK, WorkerOK, records, database, pointers, disk, process, step3, WorkerGoes, Promoted
  <2>7. QED
    BY <2>1, <2>2, <2>3, <2>4, <2>5, <2>6 DEF Next, WorkerStep
<1>2. QED
  BY <1>1 DEF Classified

\* A run gets the next id when it promotes its records, and only then.
LEMMA OrderEffect ==
    ASSUME TypeOK, WorkerOK, [Next]_vars
    PROVE  \/ order' = order
           \/ \E r \in Runs : /\ PromoteBatch(r) /\ order[r] = 0
                              /\ order' = [order EXCEPT ![r] = Cardinality(Ordered) + 1]
<1> USE DEF records, database, pointers, disk, process, step3
<1>1. CASE Start \/ RequestStop \/ Crash \/ Discard \/ Preview \/ Submit
  BY <1>1 DEF Start, RequestStop, Crash, Discard, Preview, Submit
<1>2. ASSUME NEW r \in Runs, Read(r) \/ Traverse(r) \/ Abort(r) \/ Stage(r) \/ MoveFile(r)
                                \/ Restore(r) \/ Summarise(r) \/ Kill(r) \/ Close(r)
      PROVE  order' = order
  BY <1>2 DEF Read, Traverse, Abort, Stage, MoveFile, Restore, Summarise, Kill, Close
<1>3. ASSUME NEW r \in Runs, PromoteBatch(r), order' # order
      PROVE  order[r] = 0 /\ order' = [order EXCEPT ![r] = Cardinality(Ordered) + 1]
  BY <1>3 DEF PromoteBatch, WorkerOK, Promoted, Ordered
<1>4. CASE UNCHANGED vars
  BY <1>4 DEF vars
<1>5. QED
  BY <1>1, <1>2, <1>3, <1>4 DEF Next, WorkerStep

\* Every step keeps the promotions numbered in their order.
LEMMA OrderStep ==
    ASSUME TypeOK, WorkerOK, OrderOK, [Next]_vars
    PROVE  OrderOK'
<1>1. CASE order' = order
  BY <1>1 DEF OrderOK, Ordered
<1>2. ASSUME NEW r \in Runs, order[r] = 0,
             order' = [order EXCEPT ![r] = Cardinality(Ordered) + 1]
      PROVE  OrderOK'
  <2> DEFINE n == Cardinality(Ordered)
  <2>1. IsFiniteSet(Ordered) /\ n \in Nat
    BY <1>2, OrderedIsCounted
  <2>2. order'[r] = n + 1 /\ \A q \in Runs \ {r} : order'[q] = order[q]
    BY <1>2 DEF TypeOK
  <2>3. r \notin Ordered /\ Ordered' = Ordered \cup {r}
    BY <1>2, <2>1, <2>2 DEF Ordered
  <2>4. Cardinality(Ordered') = n + 1
    BY <2>1, <2>3, FS_AddElement
  <2>5. \A q \in Runs : order[q] <= n /\ order[q] \in Nat
    BY BoundsAssumption DEF OrderOK, TypeOK
  <2> HIDE DEF n
  <2>6. \A q \in Runs : order'[q] <= Cardinality(Ordered')
    BY <2>1, <2>2, <2>4, <2>5
  <2>7. ASSUME NEW p \in Runs, NEW q \in Runs, order'[p] = order'[q], order'[p] # 0
        PROVE  p = q
    BY <2>1, <2>2, <2>5, <2>7 DEF OrderOK
  <2>8. QED
    BY <2>6, <2>7 DEF OrderOK
<1>3. QED
  BY <1>1, <1>2, OrderEffect

\* Only a promotion, a discard and a claim move the current records; no run
\* that was discarded is anything else later.
LEMMA CurrentEffect ==
    ASSUME TypeOK, WorkerOK, [Next]_vars
    PROVE  \/ Discard
           \/ Submit
           \/ \E r \in Runs : PromoteBatch(r)
           \/ /\ UNCHANGED <<current, order, rechecked>>
              /\ \A q \in Runs : order[q] # 0 /\ status'[q] # "discarded"
                                    => status[q] # "discarded"
<1> DEFINE Still == /\ UNCHANGED <<current, order, rechecked>>
                    /\ \A q \in Runs : order[q] # 0 /\ status'[q] # "discarded"
                                          => status[q] # "discarded"
<1> USE DEF records, database, pointers, disk, process, step3
<1>1. CASE Start
  <2>1. last + 1 \in Runs /\ at[last + 1] = "none"
    BY <1>1, BoundsAssumption DEF Start, TypeOK, WorkerOK, Runs
  <2>2. order[last + 1] = 0
    BY <2>1 DEF WorkerOK, Promoted
  <2>3. \A q \in Runs \ {last + 1} : status'[q] = status[q]
    BY <1>1 DEF Start, TypeOK
  <2>4. UNCHANGED <<current, order, rechecked>>
    BY <1>1 DEF Start
  <2>5. QED
    BY <2>2, <2>3, <2>4
<1>2. CASE RequestStop \/ Crash \/ Preview
  BY <1>2 DEF RequestStop, Crash, Preview
<1>3. ASSUME NEW r \in Runs, Read(r) \/ Traverse(r) \/ Abort(r) \/ Stage(r) \/ MoveFile(r)
                                \/ Restore(r) \/ Summarise(r) \/ Kill(r)
      PROVE  Still
  BY <1>3 DEF Read, Traverse, Abort, Stage, MoveFile, Restore, Summarise, Kill
<1>4. ASSUME NEW r \in Runs, Close(r)
      PROVE  Still
  <2>1. status[r] = "running" /\ UNCHANGED <<current, order, rechecked>>
    BY <1>4 DEF Close, WorkerOK
  <2>2. \A q \in Runs \ {r} : status'[q] = status[q]
    BY <1>4 DEF Close, TypeOK
  <2>3. QED
    BY <2>1, <2>2
<1>5. CASE UNCHANGED vars
  BY <1>5 DEF vars
<1>6. QED
  BY <1>1, <1>2, <1>3, <1>4, <1>5 DEF Next, WorkerStep

\* A current record that is neither moved nor written again keeps its age.
LEMMA AgeStands ==
    ASSUME NEW p \in Pins, current'[p] = current[p], rechecked'[p] = rechecked[p],
           current[p] \notin {0, OfClaim} => order'[current[p]] = order[current[p]]
    PROVE  Age(p)' = Age(p)
BY DEF Age, OfClaim

\* A shipment that loses its current record gets the latest of the others.
LEMMA CurrentAfterDiscard ==
    ASSUME TypeOK, OrderOK, CurrentOK, Discard
    PROVE  CurrentOK'
<1>1. PICK r \in Incomplete :
          /\ status' = [status EXCEPT ![r] = "discarded"]
          /\ current' = [p \in Pins |->
                            IF current[p] = r THEN Preceding(r, p) ELSE current[p]]
  BY DEF Discard
<1>2. UNCHANGED <<order, class, rechecked>>
  BY DEF Discard
<1>3. r \in Runs /\ r # 0 /\ r # OfClaim
  BY BoundsAssumption DEF Incomplete, TypeOK, Runs, OfClaim
<1>4. ASSUME NEW q \in Runs, order[q] # 0, status'[q] # "discarded", NEW p \in Classified(q)
      PROVE  Age(p)' >= order[q]
  <2>1. q # r /\ status[q] # "discarded"
    BY <1>1, <1>3, <1>4 DEF TypeOK
  <2>2. p \in Pins /\ Age(p) >= order[q]
    BY <1>4, <2>1 DEF CurrentOK, Classified
  <2>3. CASE current[p] = r
    <3>1. Age(p) = order[r]
      BY <1>3, <2>3 DEF Age
    <3>2. order[q] \in Nat /\ order[r] \in Nat /\ order[q] # order[r] /\ order[q] <= order[r]
      BY <1>3, <1>4, <2>1, <2>2, <3>1, BoundsAssumption DEF OrderOK, TypeOK
    <3>3. q \in Older(r, p)
      BY <1>4, <2>1, <3>2 DEF Older
    <3>4. current'[p] = Preceding(r, p)
      BY <1>1, <2>2, <2>3
    <3>5. CASE current'[p] = OfClaim /\ order[q] <= rechecked[p]
      <4>1. Age(p)' = rechecked[p]
        BY <1>2, <3>5, BoundsAssumption DEF Age, OfClaim
      <4>2. QED
        BY <2>2, <3>2, <3>5, <4>1, BoundsAssumption DEF TypeOK
    <3>6. CASE current'[p] \in Older(r, p) /\ order[q] <= order[current'[p]]
      <4>1. current'[p] \in Runs /\ current'[p] \notin {0, OfClaim}
        BY <3>6, BoundsAssumption DEF Older, Runs, OfClaim
      <4>2. Age(p)' = order[current'[p]] /\ order[current'[p]] \in Nat
        BY <1>2, <4>1 DEF Age, TypeOK
      <4>3. QED
        BY <3>2, <3>6, <4>2
    <3>7. QED
      BY <1>3, <2>2, <3>3, <3>4, <3>5, <3>6, PrecedingIsLatest
  <2>4. CASE current[p] # r
    <3>1. Age(p)' = Age(p)
      BY <1>1, <1>2, <2>2, <2>4, AgeStands
    <3>2. QED
      BY <2>2, <3>1
  <2>5. QED
    BY <2>3, <2>4
<1>5. \A q \in Runs : Classified(q)' = Classified(q)
  BY <1>2 DEF Classified
<1>6. QED
  BY <1>2, <1>4, <1>5 DEF CurrentOK

\* What a run promotes becomes current, and is newer than everything before.
LEMMA CurrentAfterPromotion ==
    ASSUME TypeOK, WorkerOK, OrderOK, CurrentOK, NEW r \in Runs, PromoteBatch(r)
    PROVE  CurrentOK'
<1>0. UNCHANGED <<status, class, rechecked>>
  BY DEF PromoteBatch, records
<1>1. CASE UNCHANGED <<order, current>>
  BY <1>0, <1>1 DEF CurrentOK, Classified, Age
<1>2. CASE /\ order' = [order EXCEPT ![r] = Cardinality(Ordered) + 1]
           /\ current' = [p \in Pins |->
                             IF class[r][p] \in {"none", "no_data"} THEN current[p] ELSE r]
  <2> DEFINE n == Cardinality(Ordered)
  <2>1. r # 0 /\ r # OfClaim /\ n \in Nat
    BY OrderedBound, BoundsAssumption DEF Runs, OfClaim
  <2>2. order'[r] = n + 1 /\ \A q \in Runs \ {r} : order'[q] = order[q]
    BY <1>2 DEF TypeOK
  <2>3. \A q \in Runs : order[q] <= n /\ order[q] \in Nat
    BY BoundsAssumption DEF OrderOK, TypeOK
  <2>4. \A p \in Pins : current[p] \notin {0, OfClaim} => current[p] \in Runs
    <3>1. \A p \in Pins : current[p] \in 0 .. MaxRuns + 1
      BY DEF TypeOK
    <3>2. QED
      BY <3>1, BoundsAssumption DEF Runs, OfClaim
  <2> HIDE DEF n
  <2>5. \A q \in Runs \ {r} : Classified(q)' = Classified(q)
    BY <1>0, <2>2 DEF Classified
  <2>6. \A p \in Classified(r)' : p \in Pins /\ current'[p] = r
    BY <1>0, <1>2 DEF Classified
  <2>7. \A p \in Pins : current'[p] \in {current[p], r} /\ rechecked'[p] = rechecked[p]
    BY <1>0, <1>2
  <2>8. ASSUME NEW q \in Runs, order'[q] # 0, status'[q] # "discarded",
               NEW p \in Classified(q)'
        PROVE  Age(p)' >= order'[q]
    <3>1. p \in Pins
      BY DEF Classified
    <3>2. CASE current'[p] = r
      <4>1. Age(p)' = n + 1
        BY <2>1, <2>2, <3>2 DEF Age, OfClaim
      <4>2. order'[q] <= n + 1
        BY <2>1, <2>2, <2>3
      <4>3. QED
        BY <2>1, <2>2, <2>3, <4>1, <4>2
    <3>3. CASE current'[p] = current[p] /\ current[p] # r
      <4>1. q # r
        BY <2>6, <3>3
      <4>2. Age(p) >= order[q]
        BY <1>0, <2>2, <2>5, <2>8, <4>1 DEF CurrentOK
      <4>3. current[p] \notin {0, OfClaim} => order'[current[p]] = order[current[p]]
        BY <2>2, <2>4, <3>1, <3>3
      <4>4. Age(p)' = Age(p)
        BY <2>7, <3>1, <3>3, <4>3, AgeStands
      <4>5. QED
        BY <2>2, <4>1, <4>2, <4>4
    <3>4. QED
      BY <2>7, <3>1, <3>2, <3>3
  <2>9. QED
    BY <2>8 DEF CurrentOK
<1>3. QED
  BY <1>1, <1>2 DEF PromoteBatch

\* The record that a claim writes comes after every promotion there was.
LEMMA CurrentAfterSubmit ==
    ASSUME TypeOK, OrderOK, CurrentOK, Submit
    PROVE  CurrentOK'
<1>1. PICK reached \in SUBSET selection.pins :
          /\ current' = [p \in Pins |-> IF p \in reached THEN OfClaim ELSE current[p]]
          /\ rechecked' = [p \in Pins |-> IF p \in reached THEN Cardinality(Ordered)
                                         ELSE rechecked[p]]
  BY DEF Submit
<1>2. UNCHANGED <<status, class, order>>
  BY DEF Submit, records
<1>3. ASSUME NEW q \in Runs, order[q] # 0, status[q] # "discarded", NEW p \in Classified(q)
      PROVE  Age(p)' >= order[q]
  <2>1. p \in Pins /\ Age(p) >= order[q] /\ order[q] <= Cardinality(Ordered)
    BY <1>3 DEF CurrentOK, OrderOK, Classified
  <2>2. CASE p \in reached
    <3>1. current'[p] = OfClaim /\ rechecked'[p] = Cardinality(Ordered)
      BY <1>1, <2>1, <2>2
    <3>2. Age(p)' = Cardinality(Ordered)
      BY <3>1, BoundsAssumption DEF Age, OfClaim
    <3>3. QED
      BY <2>1, <3>2, OrderedBound, BoundsAssumption DEF TypeOK
  <2>3. CASE p \notin reached
    <3>1. Age(p)' = Age(p)
      BY <1>1, <1>2, <2>1, <2>3, AgeStands
    <3>2. QED
      BY <2>1, <3>1
  <2>4. QED
    BY <2>2, <2>3
<1>4. \A q \in Runs : Classified(q)' = Classified(q)
  BY <1>2 DEF Classified
<1>5. QED
  BY <1>2, <1>3, <1>4 DEF CurrentOK

\* Every step keeps the current records the latest that stand.
LEMMA CurrentStep ==
    ASSUME TypeOK, WorkerOK, OrderOK, CurrentOK, [Next]_vars
    PROVE  CurrentOK'
<1>1. CASE Discard
  BY <1>1, CurrentAfterDiscard
<1>2. ASSUME NEW r \in Runs, PromoteBatch(r)
      PROVE  CurrentOK'
  BY <1>2, CurrentAfterPromotion
<1>3. CASE Submit
  BY <1>3, CurrentAfterSubmit
<1>4. CASE /\ UNCHANGED <<current, order, rechecked>>
           /\ \A q \in Runs : order[q] # 0 /\ status'[q] # "discarded"
                                 => status[q] # "discarded"
  <2>1. \A q \in Runs : order[q] # 0 => Classified(q)' = Classified(q)
    BY RecordsStand
  <2>2. \A p : Age(p)' = Age(p)
    BY <1>4 DEF Age, OfClaim
  <2>3. QED
    BY <1>4, <2>1, <2>2 DEF CurrentOK
<1>5. QED
  BY <1>1, <1>2, <1>3, <1>4, CurrentEffect

\* The first state satisfies the invariant.
LEMMA RunInvInit == Init => RunInv
<1> SUFFICES ASSUME Init PROVE RunInv
  OBVIOUS
<1>1. TypeOK /\ WorkerOK /\ AnsweredOK
  BY TypeInit, RunInit
<1>2. Ordered = {} /\ Cardinality(Ordered) = 0
  BY FS_EmptySet DEF Init, Ordered
<1>3. OrderOK /\ CurrentOK
  BY <1>2 DEF Init, OrderOK, CurrentOK
<1>4. QED
  BY <1>1, <1>3 DEF RunInv

\* Every step keeps the invariant.
LEMMA RunInvStep == RunInv /\ [Next]_vars => RunInv'
BY TypeStep, WorkerOKStep, AnsweredStep, OrderStep, CurrentStep DEF RunInv

\* The invariant holds of every behaviour.
LEMMA RunInvCorrect == Spec => []RunInv
BY RunInvInit, RunInvStep, PTL DEF Spec

\* What a complete run found about a shipment is not superseded by an older
\* result, whichever runs are discarded and however late a worker that
\* outlived its app promotes its own.
THEOREM ResultsStand == Spec => []ResultsOfCompleteRunsStand
<1>1. RunInv => ResultsOfCompleteRunsStand
  <2> SUFFICES ASSUME RunInv, NEW r \in Runs, Authoritative(r), NEW p \in Classified(r)
               PROVE  Age(p) >= order[r]
    BY DEF ResultsOfCompleteRunsStand
  <2>1. order[r] # 0 /\ status[r] # "discarded"
    BY DEF Authoritative, Classified
  <2>2. QED
    BY <2>1 DEF RunInv, CurrentOK
<1>2. QED
  BY <1>1, RunInvCorrect, PTL

-----------------------------------------------------------------------------
(* Claims.                                                                 *)

LEMMA SelectionStep == SelectionOK /\ [Next]_vars => SelectionOK'
<1> SUFFICES ASSUME SelectionOK, [Next]_vars PROVE SelectionOK'
  OBVIOUS
<1> USE DEF SelectionOK, records, database, pointers, disk, process, step3, NoSelection
<1>1. CASE Start \/ RequestStop \/ Crash \/ Discard \/ Preview \/ Submit
  BY <1>1 DEF Start, RequestStop, Crash, Discard, Preview, Submit
<1>2. ASSUME NEW r \in Runs, WorkerStep(r) \/ Kill(r) \/ Close(r)
      PROVE  SelectionOK'
  BY <1>2 DEF WorkerStep, Read, Traverse, Abort, Stage, MoveFile, PromoteBatch, Restore,
              Summarise, Kill, Close
<1>3. CASE UNCHANGED vars
  BY <1>3 DEF vars
<1>4. QED
  BY <1>1, <1>2, <1>3 DEF Next

\* A step files claims only for late shipments of an authoritative latest run.
LEMMA FiledStep ==
    ASSUME SelectionOK, [Next]_vars
    PROVE  \A p \in filed' \ filed :
              Authoritative(last) /\ p \in Classified(last) /\ class[last][p] = "late"
<1> USE DEF records, database, pointers, disk, process, step3
<1>1. CASE Submit
  <2>1. selection.run = QueueRun /\ selection.run # 0
    BY <1>1 DEF Submit, SelectionOK
  <2>2. Authoritative(last) /\ selection.run = last
    BY <2>1 DEF QueueRun
  <2>3. filed' \ filed \subseteq Candidates(last)
    BY <1>1, <2>2 DEF Submit
  <2>4. QED
    BY <2>2, <2>3 DEF Candidates
<1>2. CASE Start \/ RequestStop \/ Crash \/ Discard \/ Preview
  BY <1>2 DEF Start, RequestStop, Crash, Discard, Preview
<1>3. ASSUME NEW r \in Runs, WorkerStep(r) \/ Kill(r) \/ Close(r)
      PROVE  filed' = filed
  BY <1>3 DEF WorkerStep, Read, Traverse, Abort, Stage, MoveFile, PromoteBatch, Restore,
              Summarise, Kill, Close
<1>4. CASE UNCHANGED vars
  BY <1>4 DEF vars
<1>5. QED
  BY <1>1, <1>2, <1>3, <1>4 DEF Next

\* A claim is started only for a shipment that the latest run, complete at that
\* moment, found late, however old the list in the window is.
THEOREM ClaimsRest == Spec => ClaimsRestOnLatestRun
<1>1. Init => SelectionOK
  BY DEF Init, SelectionOK, NoSelection
<1>2. SelectionOK /\ [Next]_vars =>
          [\A p \in filed' \ filed : Authoritative(last) /\ p \in Classified(last)
                                        /\ class[last][p] = "late"]_vars
  BY FiledStep
<1>3. QED
  BY <1>1, <1>2, SelectionStep, PTL DEF Spec, ClaimsRestOnLatestRun

-----------------------------------------------------------------------------
(* The output files.                                                       *)

\* Two workers are never alive at once before the app was restarted.
LEMMA OneWorker ==
    ASSUME WorkerOK, ReplacementOK, crashes = 0,
           NEW q \in Runs, NEW r \in Runs, at[q] \in Alive, at[r] \in Alive
    PROVE  q = r
BY DEF WorkerOK, ReplacementOK

\* What holds of one run as long as the app was not restarted.
RunReplaces(r) ==
    /\ at[r] \in Alive => r \in attached
    /\ Untouched(r) => \A f \in Files : files[f] # r
    /\ at[r] \in Replacing => \A f \in Files : f > moved[r] => files[f] # r
    /\ Untouched(r) \/ at[r] \in Replacing =>
          \A q \in Runs, f \in Files : backup[q] # NoBackup => backup[q][f] # r

\* Every step keeps the output files in agreement with the workers that replace them.
LEMMA ReplacementStep ==
    ASSUME TypeOK, WorkerOK, ReplacementOK, [Next]_vars
    PROVE  ReplacementOK'
<1> SUFFICES ASSUME crashes' = 0, NEW r \in Runs PROVE RunReplaces(r)'
  BY DEF ReplacementOK, RunReplaces, Replacing, Untouched
<1> DEFINE Goal == RunReplaces(r)'
<1>1. crashes = 0
  <2>1. CASE Crash
    BY <2>1, BoundsAssumption DEF Crash, TypeOK
  <2>2. CASE ~ Crash
    BY <2>2 DEF Next, WorkerStep, vars, Start, RequestStop, Discard, Preview, Submit, Read,
                Traverse, Abort, Stage, MoveFile, PromoteBatch, Restore, Summarise, Kill, Close
  <2>3. QED
    BY <2>1, <2>2
<1>2. RunReplaces(r)
  BY <1>1 DEF ReplacementOK, RunReplaces, Replacing, Untouched
<1>3. \A q \in Runs : at[q] \in Alive /\ at[r] \in Alive => q = r
  BY <1>1, OneWorker
<1>4. \A q \in Runs : order[q] # 0 => at[q] \in Promoted
  BY DEF WorkerOK
<1> USE BoundsAssumption
        DEF RunReplaces, TypeOK, records, database, pointers, disk, process, step3, WorkerGoes,
            WorkerEnds, Promoted, Untouched, Replacing, Alive, Ended
<1>5. CASE Start
  BY <1>1, <1>2, <1>5 DEF Start, NoActiveChild, WorkerOK
<1>6. CASE RequestStop \/ Preview \/ Submit
  BY <1>2, <1>6 DEF RequestStop, Preview, Submit
<1>7. CASE Crash
  BY <1>7 DEF Crash
<1>8. CASE Discard
  BY <1>2, <1>8 DEF Discard, NoActiveChild, Incomplete, Runs
<1>9. ASSUME NEW q \in Runs, Read(q)
      PROVE  Goal
  BY <1>2, <1>9 DEF Read
<1>10. ASSUME NEW q \in Runs, Traverse(q)
       PROVE  Goal
  BY <1>2, <1>10 DEF Traverse
<1>11. ASSUME NEW q \in Runs, Abort(q)
       PROVE  Goal
  BY <1>2, <1>11 DEF Abort
<1>12. ASSUME NEW q \in Runs, Stage(q)
       PROVE  Goal
  <2>1. at[q] = "staging" /\ UNCHANGED <<order, files, attached>>
    BY <1>12 DEF Stage
  <2>2. r # q => at[r] \notin Alive
    BY <1>3, <2>1
  <2>3. CASE WorkerGoes(q, "moving") /\ backup' = [backup EXCEPT ![q] = files]
               /\ moved' = moved
    <3>1. Untouched(r) \/ at[r] \in Replacing <=> Untouched(r)' \/ at'[r] \in Replacing
      BY <2>1, <2>3
    <3>2. Untouched(r) => \A f \in Files : files[f] # r
      BY <1>2
    <3>3. r = q => Untouched(r)
      BY <2>1
    <3>4. QED
      BY <1>2, <2>1, <2>2, <2>3, <3>1, <3>2, <3>3
  <2>4. CASE WorkerEnds(q, "error") /\ UNCHANGED backup
    BY <1>2, <2>1, <2>2, <2>4
  <2>5. QED
    BY <1>12, <2>3, <2>4 DEF Stage
<1>13. ASSUME NEW q \in Runs, MoveFile(q)
       PROVE  Goal
  <2>1. at[q] = "moving" /\ UNCHANGED <<order, backup, attached>>
    BY <1>13 DEF MoveFile
  <2>2. r # q => at[r] \notin Alive
    BY <1>3, <2>1
  <2>3. CASE /\ files' = [files EXCEPT ![moved[q] + 1] = q]
             /\ moved' = [moved EXCEPT ![q] = @ + 1]
             /\ UNCHANGED at
    <3>1. CASE r = q
      BY <1>2, <2>1, <2>3, <3>1 DEF Files
    <3>2. CASE r # q
      BY <1>2, <2>1, <2>2, <2>3, <3>2
    <3>3. QED
      BY <3>1, <3>2
  <2>4. CASE WorkerGoes(q, "restoring") /\ UNCHANGED <<files, moved>>
    BY <1>2, <2>1, <2>4
  <2>5. QED
    BY <1>13, <2>3, <2>4 DEF MoveFile
<1>14. ASSUME NEW q \in Runs, PromoteBatch(q)
       PROVE  Goal
  BY <1>2, <1>14 DEF PromoteBatch
<1>15. ASSUME NEW q \in Runs, Restore(q)
       PROVE  Goal
  <2>1. at[q] = "restoring" /\ UNCHANGED <<order, backup, attached>>
    BY <1>15 DEF Restore
  <2>2. r # q => at[r] \notin Alive
    BY <1>3, <2>1
  <2>3. CASE /\ UNCHANGED files
             /\ (WorkerEnds(q, "error") /\ moved[q] = 0) \/ WorkerEnds(q, "unrestored")
    BY <1>2, <2>1, <2>2, <2>3 DEF Files
  <2>4. CASE /\ files' = [files EXCEPT ![moved[q]] = backup[q][moved[q]]]
             /\ moved' = [moved EXCEPT ![q] = @ - 1]
             /\ at' = at /\ moved[q] # 0
    <3>1. backup[q] # NoBackup /\ moved[q] \in Files
      BY <2>1, <2>4 DEF WorkerOK, Files
    <3>2. CASE r = q
      BY <1>2, <2>1, <2>4, <3>1, <3>2, SMTT(30) DEF Files
    <3>3. CASE r # q
      BY <1>2, <2>1, <2>2, <2>4, <3>1, <3>3
    <3>4. QED
      BY <3>2, <3>3
  <2>5. QED
    BY <1>15, <2>3, <2>4 DEF Restore
<1>16. ASSUME NEW q \in Runs, Summarise(q)
       PROVE  Goal
  BY <1>2, <1>16 DEF Summarise, WorkerOK
<1>17. ASSUME NEW q \in Runs, Kill(q)
       PROVE  Goal
  BY <1>2, <1>17 DEF Kill
<1>18. ASSUME NEW q \in Runs, Close(q)
       PROVE  Goal
  BY <1>2, <1>18 DEF Close
<1>19. CASE UNCHANGED vars
  BY <1>2, <1>19 DEF vars
<1> HIDE DEF RunReplaces, TypeOK, records, database, pointers, disk, process, step3, WorkerGoes,
             WorkerEnds, Promoted, Untouched, Replacing, Alive, Ended, Goal
<1>20. QED
  BY <1>5, <1>6, <1>7, <1>8, <1>9, <1>10, <1>11, <1>12, <1>13, <1>14, <1>15, <1>16, <1>17,
     <1>18, <1>19 DEF Next, WorkerStep, Goal

\* Every step keeps a backup for every run that has a file.
LEMMA BackupStep ==
    ASSUME TypeOK, WorkerOK, BackupOK, [Next]_vars
    PROVE  BackupOK'
<1> USE DEF records, database, pointers, disk, process, step3
<1>1. ASSUME NEW r \in Runs, Stage(r), backup' = [backup EXCEPT ![r] = files], files' = files
      PROVE  BackupOK'
  <2>1. backup'[r] = files /\ \A q \in Runs \ {r} : backup'[q] = backup[q]
    BY <1>1 DEF TypeOK
  <2>2. files # NoBackup
    BY FilesAreSome
  <2>3. QED
    BY <1>1, <2>1, <2>2 DEF BackupOK
<1>2. ASSUME UNCHANGED backup,
             \A f \in Files : \/ files'[f] = files[f]
                              \/ \E q \in Runs : files'[f] = q /\ backup[q] # NoBackup
                              \/ \E q \in Runs : backup[q] # NoBackup /\ files'[f] = backup[q][f]
      PROVE  BackupOK'
  BY <1>2 DEF BackupOK
<1>3. ASSUME NEW r \in Runs, MoveFile(r)
      PROVE  BackupOK'
  <2>1. backup[r] # NoBackup /\ backup' = backup
    BY <1>3 DEF MoveFile, WorkerOK
  <2>2. \A f \in Files : files'[f] = files[f] \/ files'[f] = r
    BY <1>3 DEF MoveFile, TypeOK
  <2>3. QED
    BY <1>2, <2>1, <2>2
<1>4. ASSUME NEW r \in Runs, Restore(r)
      PROVE  BackupOK'
  <2>1. backup[r] # NoBackup /\ backup' = backup
    BY <1>4 DEF Restore, WorkerOK
  <2>2. \A f \in Files : files'[f] = files[f] \/ files'[f] = backup[r][f]
    BY <1>4 DEF Restore, TypeOK
  <2>3. QED
    BY <1>2, <2>1, <2>2
<1>5. CASE Discard
  <2>1. PICK r \in Incomplete : files' = IF backup[r] = NoBackup THEN files ELSE backup[r]
    BY <1>5 DEF Discard
  <2>2. r \in Runs /\ backup' = backup
    BY <1>5, <2>1, BoundsAssumption DEF Discard, Incomplete, TypeOK, Runs
  <2>3. QED
    BY <1>2, <2>1, <2>2
<1>6. CASE UNCHANGED disk
  BY <1>2, <1>6
<1>7. CASE Start \/ RequestStop \/ Crash \/ Preview \/ Submit
  BY <1>6, <1>7 DEF Start, RequestStop, Crash, Preview, Submit
<1>8. ASSUME NEW r \in Runs, Read(r) \/ Traverse(r) \/ Abort(r) \/ PromoteBatch(r)
                                \/ Summarise(r) \/ Kill(r) \/ Close(r)
      PROVE  BackupOK'
  BY <1>6, <1>8 DEF Read, Traverse, Abort, PromoteBatch, Summarise, Kill, Close
<1>9. ASSUME NEW r \in Runs, Stage(r)
      PROVE  BackupOK'
  BY <1>1, <1>6, <1>9 DEF Stage
<1>10. CASE UNCHANGED vars
  BY <1>6, <1>10 DEF vars
<1>11. QED
  BY <1>3, <1>4, <1>5, <1>7, <1>8, <1>9, <1>10 DEF Next, WorkerStep

\* The first state satisfies the invariants on the files.
LEMMA ReplacementInit == Init => ReplacementOK /\ BackupOK
BY DEF Init, ReplacementOK, BackupOK, Untouched, Replacing, Alive, Runs

\* A file of a run that did not promote its records is left only by a worker
\* that was killed while it replaced the files or could not put one back, and
\* then the run is not complete and what was replaced is in its backup, as long
\* as no restart of the app lets two workers run at once.
THEOREM FailedLeavesNoFile == Spec => []FailedWorkerLeavesNoFile
<1>1. Init => RunInv /\ ReplacementOK /\ BackupOK
  BY RunInvInit, ReplacementInit
<1>2. RunInv /\ ReplacementOK /\ BackupOK /\ [Next]_vars
        => (RunInv /\ ReplacementOK /\ BackupOK)'
  BY RunInvStep, ReplacementStep, BackupStep DEF RunInv
<1>3. RunInv /\ ReplacementOK /\ BackupOK => FailedWorkerLeavesNoFile
  BY DEF RunInv, WorkerOK, ReplacementOK, BackupOK, FailedWorkerLeavesNoFile, Untouched, Ended
<1>4. QED
  BY <1>1, <1>2, <1>3, PTL DEF Spec
=============================================================================
