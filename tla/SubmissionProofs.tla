-------------------------- MODULE SubmissionProofs --------------------------
(***************************************************************************)
(* What Submission guarantees for every number of claims, workers and      *)
(* attempts.  The safety properties follow from one inductive invariant,   *)
(* which adds to them what a worker may rely on about the row it holds:    *)
(* nobody else holds it, and until the worker records it the row is        *)
(* unresolved or the user's.                                               *)
(***************************************************************************)
EXTENDS Submission, SequenceTheorems, TLAPS

-----------------------------------------------------------------------------
(* The invariant, by rows first.                                           *)

ManualStates == {"submitted_manual", "not_submitted", "retry_approved"}

\* A row that may have a successor.
Settled(r) ==
    /\ r.status # "in_progress"
    /\ r.action # "" \/ (r.status = "failed" /\ r.number < MaxAttempts)

\* A row that a worker may still record.
Holdable(r) == r.status \in UnresolvedStates \cup ManualStates

RowsOK(rows) ==
    /\ rows \in Seq(Row)
    /\ \A i \in 1..Len(rows) : rows[i].status \in ManualStates => rows[i].action # ""
    /\ \A i \in 1..Len(rows) : i < Len(rows) => Settled(rows[i])

AttemptsOK ==
    /\ attempts = [c \in Claims |-> attempts[c]]
    /\ \A c \in Claims : RowsOK(attempts[c])

ControlOK ==
    /\ filed \subseteq Claims \X (Nat \ {0})
    /\ app \in {"up", "down"}
    /\ stop \in BOOLEAN
    /\ activeChild \in Workers \cup {None}
    /\ orphans \subseteq Workers
    /\ pc \in [Workers -> Locations]
    /\ queue \in [Workers -> SUBSET Claims]
    /\ item \in [Workers -> Claims \cup {None}]
    /\ row \in [Workers -> Nat]
    /\ outcome \in [Workers -> Outcomes]

\* A worker in the middle of a claim holds a row; no other worker does.
LocationsOK ==
    \A w \in Workers :
        /\ pc[w] \in Processing => row[w] # 0
        /\ row[w] # 0 => pc[w] \in Processing \cup {"fatal"}
        /\ row[w] # 0 \/ pc[w] = "begin" => item[w] \in Claims

HeldRowsOK ==
    \A w \in Workers :
        row[w] # 0 =>
            /\ row[w] \in 1..Len(attempts[item[w]])
            /\ Holdable(attempts[item[w]][row[w]])

HoldersDistinct ==
    \A v, w \in Workers :
        v # w /\ row[v] # 0 /\ row[w] # 0 /\ item[v] = item[w] => row[v] # row[w]

IInv == AttemptsOK /\ ControlOK /\ LocationsOK /\ HeldRowsOK /\ HoldersDistinct

-----------------------------------------------------------------------------
(* What the operations on a claim's rows preserve.                         *)

\* A claim's rows hold a status, an attempt number and a reconciliation action.
LEMMA RowsAreTyped ==
    ASSUME NEW rows \in Seq(Row), NEW i \in 1..Len(rows)
    PROVE  /\ rows[i].status \in Statuses
           /\ rows[i].number \in Nat \ {0}
           /\ rows[i].action \in ReconciliationActions \cup {""}
<1>1. rows[i] \in Row  BY ElementOfSeq
<1>2. QED  BY <1>1 DEF Row

\* Setting a row's status gives a row that differs in nothing else.
LEMMA RowWithStatus ==
    ASSUME NEW r \in Row, NEW s \in Statuses
    PROVE  /\ [r EXCEPT !.status = s] \in Row
           /\ [r EXCEPT !.status = s].status = s
           /\ [r EXCEPT !.status = s].number = r.number
           /\ [r EXCEPT !.status = s].action = r.action
BY DEF Row

\* markInterruptedAttempts keeps a claim's rows sound: it turns in_progress into
\* unknown, and a row that a worker holds can still be recorded.
LEMMA InterruptedRows ==
    ASSUME NEW rows, RowsOK(rows)
    PROVE  /\ RowsOK(Interrupted(rows))
           /\ Len(Interrupted(rows)) = Len(rows)
           /\ \A i \in 1..Len(rows) :
                 /\ rows[i].status # "in_progress" => Interrupted(rows)[i] = rows[i]
                 /\ rows[i].status = "in_progress" =>
                        /\ Interrupted(rows)[i].status = "unknown"
                        /\ Interrupted(rows)[i].action = rows[i].action
                 /\ Interrupted(rows)[i].number = rows[i].number
                 /\ Holdable(rows[i]) => Holdable(Interrupted(rows)[i])
<1> DEFINE new == Interrupted(rows)
<1>1. rows \in Seq(Row) /\ Len(rows) \in Nat  BY LenProperties DEF RowsOK
<1>2. \A i \in 1..Len(rows) : rows[i] \in Row  BY <1>1, ElementOfSeq
<1>3. new = [i \in 1..Len(rows) |-> IF rows[i].status = "in_progress"
                                    THEN [rows[i] EXCEPT !.status = "unknown"]
                                    ELSE rows[i]]
    BY DEF Interrupted
<1>4. ASSUME NEW i \in 1..Len(rows)
      PROVE  /\ new[i] \in Row
             /\ rows[i].status # "in_progress" => new[i] = rows[i]
             /\ rows[i].status = "in_progress" =>
                    new[i].status = "unknown" /\ new[i].action = rows[i].action
             /\ new[i].number = rows[i].number
  <2>1. CASE rows[i].status # "in_progress"  BY <1>2, <1>3, <2>1
  <2>2. CASE rows[i].status = "in_progress"
    <3>1. new[i] = [rows[i] EXCEPT !.status = "unknown"]  BY <1>3, <2>2
    <3>2. "unknown" \in Statuses  BY DEF Statuses, UnresolvedStates
    <3>3. QED  BY <1>2, <2>2, <3>1, <3>2, RowWithStatus
  <2>3. QED  BY <2>1, <2>2
<1>5. new \in [1..Len(rows) -> Row]  BY <1>3, <1>4
<1>6. new \in Seq(Row)  BY <1>1, <1>5, SeqDef
<1>7. Len(new) = Len(rows)  BY <1>1, <1>3, <1>6, LenProperties
<1>8. RowsOK(new)
    BY <1>4, <1>6, <1>7 DEF RowsOK, Settled, ManualStates
<1>9. \A i \in 1..Len(rows) : Holdable(rows[i]) => Holdable(new[i])
    BY <1>4 DEF Holdable, UnresolvedStates, ManualStates
<1>10. QED  BY <1>4, <1>7, <1>8, <1>9

\* completeClaimAttempt on a row that a worker may hold keeps the rows sound and
\* touches that row's status only.
LEMMA CompletedRows ==
    ASSUME NEW rows, RowsOK(rows), NEW i \in 1..Len(rows), Holdable(rows[i]),
           NEW s \in Outcomes
    PROVE  /\ RowsOK(Completed(rows, i, s))
           /\ Len(Completed(rows, i, s)) = Len(rows)
           /\ Completed(rows, i, s)[i].status = s
           /\ Completed(rows, i, s)[i].action = rows[i].action
           /\ Completed(rows, i, s)[i].number = rows[i].number
           /\ \A j \in 1..Len(rows) : j # i => Completed(rows, i, s)[j] = rows[j]
<1> DEFINE done == [rows[i] EXCEPT !.status = s]
<1> DEFINE new == [rows EXCEPT ![i] = done]
<1>1. rows \in Seq(Row) /\ Len(rows) \in Nat  BY LenProperties DEF RowsOK
<1>2. s \in Statuses
    BY DEF Outcomes, Statuses, TerminalStates, UnresolvedStates, RetryableStates
<1>3. /\ done \in Row /\ done.status = s
      /\ done.number = rows[i].number /\ done.action = rows[i].action
    BY <1>1, <1>2, ElementOfSeq, RowWithStatus
<1>4. Completed(rows, i, s) = new  BY DEF Completed
<1> HIDE DEF done
<1>5. /\ new \in Seq(Row)
      /\ Len(new) = Len(rows)
      /\ \A j \in 1..Len(rows) : new[j] = IF j = i THEN done ELSE rows[j]
    BY <1>1, <1>3, ExceptSeq
<1> HIDE DEF new
<1>6. s # "in_progress" /\ s \notin ManualStates  BY DEF Outcomes, ManualStates
<1>7. i < Len(rows) => done.action # ""
  <2>1. SUFFICES ASSUME i < Len(rows) PROVE rows[i].action # ""  BY <1>3
  <2>2. Settled(rows[i])  BY <2>1 DEF RowsOK
  <2>3. QED  BY <2>2 DEF RowsOK, Settled, Holdable, UnresolvedStates, ManualStates
<1>8. RowsOK(new)  BY <1>3, <1>5, <1>6, <1>7 DEF RowsOK, Settled
<1>9. QED  BY <1>3, <1>4, <1>5, <1>8

\* reconcileAttempt keeps the rows sound, and a worker that holds the row can
\* still record it.
LEMMA ReconciledRows ==
    ASSUME NEW rows, RowsOK(rows), NEW i \in 1..Len(rows), NEW a \in ReconciliationActions
    PROVE  /\ RowsOK(Reconciled(rows, i, a))
           /\ Len(Reconciled(rows, i, a)) = Len(rows)
           /\ Reconciled(rows, i, a)[i].action = a
           /\ a # ""
           /\ Holdable(Reconciled(rows, i, a)[i])
           /\ \A j \in 1..Len(rows) : j # i => Reconciled(rows, i, a)[j] = rows[j]
<1> DEFINE s == ReconciledStatus[a]
<1> DEFINE first == [rows[i] EXCEPT !.status = s]
<1> DEFINE done == [first EXCEPT !.action = a]
<1> DEFINE mid == [rows EXCEPT ![i] = first]
<1> DEFINE new == [mid EXCEPT ![i] = done]
<1>1. rows \in Seq(Row) /\ Len(rows) \in Nat  BY LenProperties DEF RowsOK
<1>2. s \in Statuses /\ s # "in_progress" /\ s \in ManualStates /\ a # ""
    BY DEF ReconciledStatus, ReconciliationActions, Statuses, TerminalStates, RetryableStates,
           ManualStates
<1> HIDE DEF s
<1>3. first \in Row /\ first.status = s
    BY <1>1, <1>2, ElementOfSeq, RowWithStatus
<1> HIDE DEF first
<1>4. done \in Row /\ done.status = s /\ done.action = a
    BY <1>3 DEF Row
<1>5. /\ mid \in Seq(Row)
      /\ Len(mid) = Len(rows)
      /\ \A j \in 1..Len(rows) : mid[j] = IF j = i THEN first ELSE rows[j]
    BY <1>1, <1>3, ExceptSeq
<1>6. Reconciled(rows, i, a) = new
    BY <1>5 DEF Reconciled, s, first
<1> HIDE DEF mid, done
<1>7. /\ new \in Seq(Row)
      /\ Len(new) = Len(rows)
      /\ \A j \in 1..Len(rows) : new[j] = IF j = i THEN done ELSE rows[j]
    BY <1>4, <1>5, ExceptSeq
<1> HIDE DEF new
<1>8. RowsOK(new)  BY <1>2, <1>4, <1>7 DEF RowsOK, Settled
<1>9. QED  BY <1>2, <1>4, <1>6, <1>7, <1>8 DEF Holdable

\* What the user says becomes the row's status; its number stays.
LEMMA ReconciledRow ==
    ASSUME NEW rows, RowsOK(rows), NEW i \in 1..Len(rows), NEW a \in ReconciliationActions
    PROVE  /\ Reconciled(rows, i, a)[i].status = ReconciledStatus[a]
           /\ Reconciled(rows, i, a)[i].number = rows[i].number
<1>1. rows \in Seq(Row) /\ DOMAIN rows = 1..Len(rows)  BY LenProperties DEF RowsOK
<1>2. rows[i] \in Row  BY <1>1, ElementOfSeq
<1>3. QED  BY <1>1, <1>2 DEF Reconciled, Row

\* beginClaimAttempt adds one open row, and the row before it is settled.
LEMMA BegunRows ==
    ASSUME NEW rows, RowsOK(rows), AutomaticAttemptDecision(rows)
    PROVE  /\ RowsOK(Begun(rows))
           /\ Len(Begun(rows)) = Len(rows) + 1
           /\ Len(rows) \in Nat
           /\ Holdable(Begun(rows)[Len(rows) + 1])
           /\ Begun(rows)[Len(rows) + 1].status = "in_progress"
           /\ Begun(rows)[Len(rows) + 1].number =
                  IF rows = <<>> THEN 1 ELSE Latest(rows).number + 1
           /\ \A j \in 1..Len(rows) : Begun(rows)[j] = rows[j]
<1> DEFINE n == IF rows = <<>> THEN 1 ELSE Latest(rows).number + 1
<1> DEFINE r == [status |-> "in_progress", number |-> n, action |-> ""]
<1> DEFINE new == Append(rows, r)
<1>1. rows \in Seq(Row) /\ Len(rows) \in Nat  BY LenProperties DEF RowsOK
<1>2. rows # <<>> => Len(rows) \in 1..Len(rows)  BY <1>1, EmptySeq
<1>3. n \in Nat \ {0}
  <2>1. CASE rows = <<>>  BY <2>1
  <2>2. CASE rows # <<>>
    <3>1. Latest(rows).number \in Nat \ {0}  BY <1>1, <1>2, <2>2, RowsAreTyped DEF Latest
    <3>2. QED  BY <2>2, <3>1
  <2>3. QED  BY <2>1, <2>2
<1> HIDE DEF n
<1>4. r \in Row
    BY <1>3 DEF Row, Statuses, UnresolvedStates
<1>5. r.status = "in_progress" /\ r.number = n  OBVIOUS
<1> HIDE DEF r
<1>6. /\ new \in Seq(Row)
      /\ Len(new) = Len(rows) + 1
      /\ \A j \in 1..Len(rows) : new[j] = rows[j]
      /\ new[Len(rows) + 1] = r
    BY <1>1, <1>4, AppendProperties
<1>7. Begun(rows) = new  BY DEF Begun, n, r
<1> HIDE DEF new
<1>8. rows # <<>> => Settled(rows[Len(rows)])
  <2>1. SUFFICES ASSUME rows # <<>> PROVE Settled(Latest(rows))  BY DEF Latest
  <2>2. /\ Latest(rows).status \in Statuses
        /\ Latest(rows).status \in ManualStates => Latest(rows).action # ""
      BY <1>1, <1>2, <2>1, RowsAreTyped DEF Latest, RowsOK
  <2>3. QED
      BY <2>1, <2>2
      DEF AutomaticAttemptDecision, Settled, Statuses, TerminalStates, UnresolvedStates,
          RetryableStates, ManualStates
<1>9. ASSUME NEW j \in 1..Len(new), new[j].status \in ManualStates
      PROVE  new[j].action # ""
  <2>1. j \in 1..Len(rows) \/ j = Len(rows) + 1  BY <1>1, <1>6
  <2>2. j # Len(rows) + 1  BY <1>5, <1>6, <1>9 DEF ManualStates
  <2>3. QED  BY <1>6, <1>9, <2>1, <2>2 DEF RowsOK
<1>10. ASSUME NEW j \in 1..Len(new), j < Len(new)
       PROVE  Settled(new[j])
  <2>1. j \in 1..Len(rows)  BY <1>1, <1>6, <1>10
  <2>2. new[j] = rows[j]  BY <1>6, <2>1
  <2>3. CASE j < Len(rows)
    <3>1. Settled(rows[j])  BY <2>1, <2>3 DEF RowsOK
    <3>2. QED  BY <2>2, <3>1
  <2>4. CASE j = Len(rows)
    <3>1. rows # <<>>  BY <1>1, <2>1, EmptySeq
    <3>2. Settled(rows[Len(rows)])  BY <1>8, <3>1
    <3>3. QED  BY <2>2, <2>4, <3>2
  <2>5. QED  BY <1>1, <2>1, <2>3, <2>4
<1>11. RowsOK(new)  BY <1>6, <1>9, <1>10 DEF RowsOK
<1>12. QED  BY <1>1, <1>5, <1>6, <1>7, <1>11 DEF Holdable, UnresolvedStates, n

-----------------------------------------------------------------------------
(* The invariant holds initially.                                          *)

\* The rows that the legacy import leaves are sound.
LEMMA LegacyRowsOK == \A rows \in LegacyRows : RowsOK(rows)
<1> DEFINE Imported == [status : LegacyStatuses, number : 1..MaxAttempts, action : {""}]
<1>1. RowsOK(<<>>)  BY EmptySeq DEF RowsOK
<1>2. ASSUME NEW r \in Imported PROVE RowsOK(<<r>>)
  <2> DEFINE rows == <<r>>
  <2>1. r.status \in Statuses /\ r.status \notin ManualStates
      BY LegacyAssumption
      DEF Statuses, TerminalStates, UnresolvedStates, RetryableStates, ManualStates
  <2>2. r \in Row
    <3> HIDE DEF Imported
    <3>1. ASSUME NEW n \in 1..MaxAttempts PROVE n \in Nat \ {0}  BY MaxAttemptsAssumption
    <3>2. LegacyStatuses \subseteq Statuses
        BY LegacyAssumption DEF Statuses, TerminalStates, UnresolvedStates, RetryableStates
    <3>3. QED  BY <3>1, <3>2 DEF Row, Imported
  <2> HIDE DEF Imported
  <2>3. rows \in Seq(Row) /\ Len(rows) = 1 /\ rows[1] = r  BY <2>2
  <2> HIDE DEF rows
  <2>4. \A i \in 1..Len(rows) : i = 1  BY <2>3
  <2>5. \A i \in 1..Len(rows) : rows[i].status \notin ManualStates  BY <2>1, <2>3, <2>4
  <2>6. \A i \in 1..Len(rows) : ~ (i < Len(rows))  BY <2>3
  <2>7. RowsOK(rows)  BY <2>3, <2>5, <2>6 DEF RowsOK
  <2>8. QED  BY <2>7 DEF rows
<1>3. LegacyRows = {<<>>} \cup {<<r>> : r \in Imported}  BY DEF LegacyRows
<1> HIDE DEF Imported
<1>4. QED  BY <1>1, <1>2, <1>3

\* The invariant holds when the app has started on an imported database.
LEMMA InitIInv == Init => IInv
<1> SUFFICES ASSUME Init PROVE IInv  OBVIOUS
<1>1. AttemptsOK  BY LegacyRowsOK DEF Init, AttemptsOK
<1>2. ControlOK  BY DEF Init, ControlOK, Locations, Outcomes
<1>3. LocationsOK  BY DEF Init, LocationsOK, Processing
<1>4. HeldRowsOK /\ HoldersDistinct  BY DEF Init, HeldRowsOK, HoldersDistinct
<1>5. QED  BY <1>1, <1>2, <1>3, <1>4 DEF IInv

-----------------------------------------------------------------------------
(* Steps that leave the table alone.                                       *)

\* A step that writes no attempt preserves the invariant when every worker keeps
\* the row it holds or drops it.
LEMMA QuietStep ==
    ASSUME IInv, UNCHANGED attempts, ControlOK', LocationsOK',
           \A w \in Workers : row'[w] = 0 \/ (row'[w] = row[w] /\ item'[w] = item[w])
    PROVE  IInv'
<1>1. AttemptsOK'  BY DEF IInv, AttemptsOK
<1>2. HeldRowsOK'  BY DEF IInv, HeldRowsOK
<1>3. HoldersDistinct'  BY DEF IInv, HoldersDistinct
<1>4. QED  BY <1>1, <1>2, <1>3 DEF IInv

\* submit:run's own steps, the stop button and an orphan's end preserve it.
LEMMA MainProcessStep ==
    ASSUME IInv, NEW w \in Workers,
           \/ \E selection \in SUBSET Claims : SubmitRun(w, selection)
           \/ SubmitRunRefused \/ RequestStop
           \/ HandshakeFails(w) \/ Spawn(w) \/ SpawnFails(w) \/ CloseThrows(w) \/ OrphanGone(w)
    PROVE  IInv'
<1> USE DEF mainVars, workerVars, dbVars
<1>1. UNCHANGED <<attempts, row, item>>
    BY DEF SubmitRun, SubmitRunRefused, RequestStop, HandshakeFails, Spawn, SpawnFails, CloseThrows,
           OrphanGone
<1>2. ASSUME NEW selection \in SUBSET Claims, SubmitRun(w, selection)
      PROVE  ControlOK' /\ LocationsOK'
  <2>1. ControlOK'  BY <1>2 DEF IInv, ControlOK, SubmitRun, Locations, Live
  <2>2. LocationsOK'  BY <1>2 DEF IInv, ControlOK, LocationsOK, SubmitRun, Processing
  <2>3. QED  BY <2>1, <2>2
<1>3. ASSUME SubmitRunRefused \/ RequestStop PROVE ControlOK' /\ LocationsOK'
  <2>1. ControlOK'  BY <1>3 DEF IInv, ControlOK, SubmitRunRefused, RequestStop
  <2>2. LocationsOK'  BY <1>3 DEF IInv, LocationsOK, SubmitRunRefused, RequestStop
  <2>3. QED  BY <2>1, <2>2
<1>4. ASSUME HandshakeFails(w) \/ SpawnFails(w) \/ CloseThrows(w) PROVE ControlOK' /\ LocationsOK'
  <2>1. ControlOK'
      BY <1>4 DEF IInv, ControlOK, HandshakeFails, SpawnFails, CloseThrows, Locations
  <2>2. LocationsOK'
      BY <1>4
      DEF IInv, ControlOK, LocationsOK, HandshakeFails, SpawnFails, CloseThrows, Processing
  <2>3. QED  BY <2>1, <2>2
<1>5. ASSUME Spawn(w) \/ OrphanGone(w) PROVE ControlOK' /\ LocationsOK'
  <2>1. ControlOK'  BY <1>5 DEF IInv, ControlOK, Spawn, OrphanGone, Locations, Live
  <2>2. LocationsOK'
      BY <1>5 DEF IInv, ControlOK, LocationsOK, Spawn, OrphanGone, Processing
  <2>3. QED  BY <2>1, <2>2
<1>6. ControlOK' /\ LocationsOK'  BY <1>2, <1>3, <1>4, <1>5
<1>7. QED  BY <1>1, <1>6, QuietStep

\* So do the worker's steps that only change where it is.
LEMMA WorkerMove ==
    ASSUME IInv, NEW w \in Workers,
           \/ Login(w) \/ RevalidationFails(w) \/ BeginThrows(w)
           \/ OpenTicketPopup(w) \/ FillFails(w) \/ WaitFails(w)
           \/ SaveEvidence(w) \/ CompleteThrows(w) \/ ResetToTicketLauncher(w)
    PROVE  IInv'
<1> USE DEF mainVars, workerVars, dbVars, Goto
<1>1. PICK location \in Locations :
          /\ Goto(w, location)
          /\ location \in Processing => pc[w] \in Processing
          /\ location = "begin" => FALSE
          /\ pc[w] \in Processing => location \in Processing \cup {"fatal"}
          /\ pc[w] # "fatal"
    BY DEF Login, RevalidationFails, BeginThrows, OpenTicketPopup, FillFails, WaitFails,
           SaveEvidence, CompleteThrows, ResetToTicketLauncher, Locations, Live, Processing
<1>2. UNCHANGED <<attempts, filed, app, stop, activeChild, orphans, queue, item, row, outcome>>
    BY DEF Login, RevalidationFails, BeginThrows, OpenTicketPopup, FillFails, WaitFails,
           SaveEvidence, CompleteThrows, ResetToTicketLauncher
<1>3. ControlOK'  BY <1>1, <1>2 DEF IInv, ControlOK
<1>4. LocationsOK'  BY <1>1, <1>2 DEF IInv, ControlOK, LocationsOK
<1>5. QED  BY <1>2, <1>3, <1>4, QuietStep

\* So do the worker's steps that read the page or choose the next claim.
LEMMA OtherQuietWorkerStep ==
    ASSUME IInv, NEW w \in Workers,
           \/ \E c \in Claims : NextClaim(w, c)
           \/ ClickCreateTicket(w) \/ WaitForClaimOutcome(w) \/ CatchClaimError(w)
    PROVE  IInv'
<1> USE DEF mainVars, workerVars, dbVars, Goto
<1>1. CASE \E c \in Claims : NextClaim(w, c)
  <2>1. PICK c \in Claims : NextClaim(w, c)  BY <1>1
  <2>2. row[w] = 0
      BY <2>1 DEF IInv, ControlOK, LocationsOK, NextClaim, Processing
  <2>3. ControlOK'
      BY <2>1 DEF IInv, ControlOK, NextClaim, Locations, Live
  <2>4. LocationsOK'
      BY <2>1, <2>2 DEF IInv, ControlOK, LocationsOK, NextClaim, Processing
  <2>5. \A v \in Workers : row'[v] = 0 \/ (row'[v] = row[v] /\ item'[v] = item[v])
      BY <2>1, <2>2 DEF IInv, ControlOK, NextClaim
  <2>6. UNCHANGED attempts  BY <2>1 DEF NextClaim
  <2>7. QED  BY <2>3, <2>4, <2>5, <2>6, QuietStep
<1>2. ASSUME \/ ClickCreateTicket(w) \/ WaitForClaimOutcome(w) \/ CatchClaimError(w)
      PROVE  IInv'
  <2>1. UNCHANGED <<attempts, app, stop, activeChild, orphans, queue, item, row>>
      BY <1>2 DEF ClickCreateTicket, WaitForClaimOutcome, CatchClaimError
  <2>2. PICK location \in {"wait", "caught", "evidence", "result", "fatal"} : Goto(w, location)
      BY <1>2 DEF ClickCreateTicket, WaitForClaimOutcome, CatchClaimError
  <2>3. pc[w] \in Processing
      BY <1>2 DEF ClickCreateTicket, WaitForClaimOutcome, CatchClaimError, Processing
  <2>4. filed' \subseteq filed \cup {<<item[w], row[w]>>}
      BY <1>2 DEF ClickCreateTicket, WaitForClaimOutcome, CatchClaimError
  <2>5. <<item[w], row[w]>> \in Claims \X (Nat \ {0})
      BY <2>3 DEF IInv, ControlOK, LocationsOK
  <2>6. outcome' \in [Workers -> Outcomes]
      BY <1>2 DEF IInv, ControlOK, ClickCreateTicket, WaitForClaimOutcome, CatchClaimError, Outcomes
  <2>7. ControlOK'
    <3>1. filed' \subseteq Claims \X (Nat \ {0})  BY <2>4, <2>5 DEF IInv, ControlOK
    <3>2. pc' \in [Workers -> Locations]
        BY <2>2 DEF IInv, ControlOK, Locations, Live, Processing
    <3>3. QED  BY <2>1, <2>6, <3>1, <3>2 DEF IInv, ControlOK
  <2>8. LocationsOK'
      BY <2>1, <2>2, <2>3 DEF IInv, ControlOK, LocationsOK, Processing
  <2>9. QED  BY <2>1, <2>7, <2>8, QuietStep
<1>3. QED  BY <1>1, <1>2

\* A worker that exits drops its row, which preserves the invariant.
LEMMA ExitStep ==
    ASSUME IInv, NEW w \in Workers, Exits(w), UNCHANGED attempts,
           UNCHANGED <<filed, app, activeChild, orphans>>, stop' \in BOOLEAN
    PROVE  IInv'
<1> USE DEF Exits, Goto
<1>1. ControlOK'
    BY DEF IInv, ControlOK, Locations, Outcomes
<1>2. LocationsOK'
    BY DEF IInv, ControlOK, LocationsOK, Processing
<1>3. \A v \in Workers : row'[v] = 0 \/ (row'[v] = row[v] /\ item'[v] = item[v])
    BY DEF IInv, ControlOK
<1>4. QED  BY <1>1, <1>2, <1>3, QuietStep

\* A worker's normal end and its death preserve the invariant.
LEMMA WorkerEnds ==
    ASSUME IInv, NEW w \in Workers, LoopEnds(w) \/ WorkerDies(w)
    PROVE  IInv'
<1>1. /\ Exits(w)
      /\ UNCHANGED <<attempts, filed, app, stop, activeChild, orphans>>
    BY DEF LoopEnds, WorkerDies, dbVars, mainVars
<1>2. stop' \in BOOLEAN  BY <1>1 DEF IInv, ControlOK
<1>3. QED  BY <1>1, <1>2, ExitStep

\* Killing the active child preserves the invariant.
LEMMA ForceStopStep == ASSUME IInv, ForceStop PROVE IInv'
<1>1. activeChild \in Workers  BY DEF IInv, ControlOK, ForceStop
<1>2. Exits(activeChild)  BY DEF ForceStop
<1>3. UNCHANGED <<attempts, filed, app, activeChild, orphans>>  BY DEF ForceStop, dbVars
<1>4. stop' \in BOOLEAN  BY DEF ForceStop
<1>5. QED  BY <1>1, <1>2, <1>3, <1>4, ExitStep

\* A crash of the main process preserves the invariant.
LEMMA AppCrashStep == ASSUME IInv, AppCrash PROVE IInv'
<1>1. UNCHANGED <<attempts, filed, stop, item, row, outcome>>  BY DEF AppCrash, dbVars
<1>2. ControlOK'
    BY <1>1 DEF IInv, ControlOK, AppCrash, Locations, Live, Processing
<1>3. \A w \in Workers : pc'[w] = IF pc[w] \in Live \/ w \in orphans THEN pc[w] ELSE "idle"
    BY DEF AppCrash
<1>4. LocationsOK'
    BY <1>1, <1>3 DEF IInv, LocationsOK, Live, Processing
<1>5. QED  BY <1>1, <1>2, <1>4, QuietStep

-----------------------------------------------------------------------------
(* Steps that write the table.                                             *)

\* Marking every interrupted attempt preserves the invariant, even when the rows
\* belong to workers that still run.
LEMMA MarkingStep ==
    ASSUME IInv, attempts' = [c \in Claims |-> Interrupted(attempts[c])],
           ControlOK', LocationsOK',
           \A w \in Workers : row'[w] = 0 \/ (row'[w] = row[w] /\ item'[w] = item[w])
    PROVE  IInv'
<1>1. \A c \in Claims : RowsOK(attempts[c])  BY DEF IInv, AttemptsOK
<1>2. \A c \in Claims : attempts'[c] = Interrupted(attempts[c])  OBVIOUS
<1>3. AttemptsOK'  BY <1>1, <1>2, InterruptedRows DEF AttemptsOK
<1>4. HeldRowsOK'
  <2>1. SUFFICES ASSUME NEW w \in Workers, row'[w] # 0
                 PROVE  /\ row'[w] \in 1..Len(attempts'[item'[w]])
                        /\ Holdable(attempts'[item'[w]][row'[w]])
      BY DEF HeldRowsOK
  <2>2. row'[w] = row[w] /\ item'[w] = item[w]  BY <2>1
  <2>3. item[w] \in Claims  BY <2>1, <2>2 DEF IInv, LocationsOK
  <2>4. row[w] \in 1..Len(attempts[item[w]]) /\ Holdable(attempts[item[w]][row[w]])
      BY <2>1, <2>2 DEF IInv, HeldRowsOK
  <2>5. QED  BY <1>1, <1>2, <2>2, <2>3, <2>4, InterruptedRows
<1>5. HoldersDistinct'  BY DEF IInv, HoldersDistinct
<1>6. QED  BY <1>3, <1>4, <1>5 DEF IInv

\* A worker's startup preserves the invariant.
LEMMA StartupStep == ASSUME IInv, NEW w \in Workers, Startup(w) PROVE IInv'
<1> USE DEF Startup, mainVars, Goto, Exits
<1>1. attempts' = [c \in Claims |-> Interrupted(attempts[c])]  OBVIOUS
<1>2. row[w] = 0  BY DEF IInv, ControlOK, LocationsOK, Processing
<1>3. ControlOK'
    BY DEF IInv, ControlOK, Locations, Live, Outcomes
<1>4. LocationsOK'
    BY <1>2 DEF IInv, ControlOK, LocationsOK, Processing
<1>5. \A v \in Workers : row'[v] = 0 \/ (row'[v] = row[v] /\ item'[v] = item[v])
    BY <1>2 DEF IInv, ControlOK
<1>6. QED  BY <1>1, <1>3, <1>4, <1>5, MarkingStep

\* The close handler preserves the invariant.
LEMMA WorkerClosedStep == ASSUME IInv, NEW w \in Workers, WorkerClosed(w) PROVE IInv'
<1> USE DEF WorkerClosed, mainVars
<1>1. \/ attempts' = [c \in Claims |-> Interrupted(attempts[c])]
      \/ UNCHANGED attempts
    OBVIOUS
<1>2. ControlOK'
    BY DEF IInv, ControlOK, Locations
<1>3. LocationsOK'
    BY DEF IInv, ControlOK, LocationsOK, Processing
<1>4. UNCHANGED <<row, item>>  OBVIOUS
<1>5. QED  BY <1>1, <1>2, <1>3, <1>4, MarkingStep, QuietStep

\* A start of the app preserves the invariant.
LEMMA AppStartStep == ASSUME IInv, AppStart PROVE IInv'
<1>1. attempts' = [c \in Claims |-> Interrupted(attempts[c])]  BY DEF AppStart
<1>2. ControlOK' /\ LocationsOK' /\ UNCHANGED <<row, item>>
    BY DEF IInv, ControlOK, LocationsOK, AppStart, workerVars
<1>3. QED  BY <1>1, <1>2, MarkingStep

\* beginClaimAttempt preserves the invariant: the new row is nobody else's.
LEMMA BeginStep == ASSUME IInv, NEW w \in Workers, BeginClaimAttempt(w) PROVE IInv'
<1> DEFINE c == item[w]
<1> DEFINE rows == attempts[c]
<1>1. /\ pc[w] = "begin"
      /\ AutomaticAttemptDecision(rows)
      /\ attempts' = [attempts EXCEPT ![c] = Begun(rows)]
      /\ row' = [row EXCEPT ![w] = Len(rows) + 1]
      /\ pc' = [pc EXCEPT ![w] = "open"]
      /\ UNCHANGED <<filed, app, stop, activeChild, orphans, queue, item, outcome>>
    BY DEF BeginClaimAttempt, BeginAllowed, Goto, mainVars
<1>2. c \in Claims /\ row[w] = 0
    BY <1>1 DEF IInv, LocationsOK, Processing
<1>3. RowsOK(rows)  BY <1>2 DEF IInv, AttemptsOK
<1> DEFINE new == Begun(rows)
<1>4. /\ RowsOK(new)
      /\ Len(rows) \in Nat
      /\ Len(new) = Len(rows) + 1
      /\ Holdable(new[Len(rows) + 1])
      /\ \A j \in 1..Len(rows) : new[j] = rows[j]
    BY <1>1, <1>3, BegunRows
<1>5. \A d \in Claims : attempts'[d] = IF d = c THEN new ELSE attempts[d]
    BY <1>1 DEF IInv, AttemptsOK
<1> HIDE DEF new
<1>6. AttemptsOK'
  <2>1. attempts' = [d \in Claims |-> attempts'[d]]  BY <1>1 DEF IInv, AttemptsOK
  <2>2. \A d \in Claims : RowsOK(attempts'[d])  BY <1>4, <1>5 DEF IInv, AttemptsOK
  <2>3. QED  BY <2>1, <2>2 DEF AttemptsOK
<1>7. /\ row'[w] = Len(rows) + 1 /\ pc'[w] = "open"
      /\ \A v \in Workers : v # w => row'[v] = row[v] /\ pc'[v] = pc[v]
      /\ row' \in [Workers -> Nat] /\ pc' \in [Workers -> Locations]
    BY <1>1, <1>4 DEF IInv, ControlOK, Locations, Live, Processing
<1>8. ControlOK'  BY <1>1, <1>7 DEF IInv, ControlOK
<1>9. LocationsOK'
    BY <1>1, <1>2, <1>7 DEF IInv, LocationsOK, Processing
<1>10. \A v \in Workers : v # w /\ row[v] # 0 =>
            item[v] \in Claims /\ row[v] \in 1..Len(attempts[item[v]])
    BY DEF IInv, LocationsOK, HeldRowsOK
<1>11. HeldRowsOK'
  <2>1. SUFFICES ASSUME NEW v \in Workers, row'[v] # 0
                 PROVE  /\ row'[v] \in 1..Len(attempts'[item[v]])
                        /\ Holdable(attempts'[item[v]][row'[v]])
      BY <1>1 DEF HeldRowsOK
  <2>2. CASE v = w  BY <1>2, <1>4, <1>5, <1>7, <2>2
  <2>3. CASE v # w
    <3>1. /\ row'[v] = row[v] /\ row[v] # 0 /\ item[v] \in Claims
          /\ row[v] \in 1..Len(attempts[item[v]])
          /\ Holdable(attempts[item[v]][row[v]])
        BY <1>7, <1>10, <2>1, <2>3 DEF IInv, HeldRowsOK
    <3>2. CASE item[v] = c  BY <1>4, <1>5, <3>1, <3>2
    <3>3. CASE item[v] # c  BY <1>5, <3>1, <3>3
    <3>4. QED  BY <3>2, <3>3
  <2>4. QED  BY <2>2, <2>3
<1>12. HoldersDistinct'
  <2>1. \A v \in Workers : v # w /\ row[v] # 0 /\ item[v] = c => row[v] # Len(rows) + 1
      BY <1>4, <1>10
  <2>2. QED  BY <1>1, <1>7, <2>1 DEF IInv, HoldersDistinct
<1>13. QED  BY <1>6, <1>8, <1>9, <1>11, <1>12 DEF IInv

\* Recording the row that a worker holds, and dropping it, preserves the
\* invariant, whatever the row's status has become meanwhile.
LEMMA RecordingStep ==
    ASSUME IInv, NEW w \in Workers, row[w] # 0, NEW s \in Outcomes,
           attempts' = [attempts EXCEPT ![item[w]] = Completed(attempts[item[w]], row[w], s)],
           ControlOK', LocationsOK', row' = [row EXCEPT ![w] = 0],
           \A v \in Workers : v # w => item'[v] = item[v]
    PROVE  IInv'
<1> DEFINE c == item[w]
<1> DEFINE rows == attempts[c]
<1> DEFINE new == Completed(rows, row[w], s)
<1>1. c \in Claims /\ row[w] \in 1..Len(rows) /\ Holdable(rows[row[w]])
    BY DEF IInv, LocationsOK, HeldRowsOK
<1>2. RowsOK(rows)  BY <1>1 DEF IInv, AttemptsOK
<1>3. /\ RowsOK(new)
      /\ Len(new) = Len(rows)
      /\ \A j \in 1..Len(rows) : j # row[w] => new[j] = rows[j]
    BY <1>1, <1>2, CompletedRows
<1>4. \A d \in Claims : attempts'[d] = IF d = c THEN new ELSE attempts[d]
    BY DEF IInv, AttemptsOK
<1> HIDE DEF new
<1>5. AttemptsOK'
  <2>1. attempts' = [d \in Claims |-> attempts'[d]]  BY DEF IInv, AttemptsOK
  <2>2. \A d \in Claims : RowsOK(attempts'[d])  BY <1>3, <1>4 DEF IInv, AttemptsOK
  <2>3. QED  BY <2>1, <2>2 DEF AttemptsOK
<1>6. /\ row'[w] = 0
      /\ \A v \in Workers : v # w => row'[v] = row[v]
    BY DEF IInv, ControlOK
<1>7. HeldRowsOK'
  <2>1. SUFFICES ASSUME NEW v \in Workers, row'[v] # 0
                 PROVE  /\ row'[v] \in 1..Len(attempts'[item'[v]])
                        /\ Holdable(attempts'[item'[v]][row'[v]])
      BY DEF HeldRowsOK
  <2>2. /\ v # w /\ row'[v] = row[v] /\ row[v] # 0 /\ item'[v] = item[v]
        /\ item[v] \in Claims
        /\ row[v] \in 1..Len(attempts[item[v]])
        /\ Holdable(attempts[item[v]][row[v]])
      BY <1>6, <2>1 DEF IInv, LocationsOK, HeldRowsOK
  <2>3. item[v] = c => row[v] # row[w]  BY <2>2 DEF IInv, HoldersDistinct
  <2>4. CASE item[v] = c  BY <1>3, <1>4, <2>2, <2>3, <2>4
  <2>5. CASE item[v] # c  BY <1>4, <2>2, <2>5
  <2>6. QED  BY <2>4, <2>5
<1>8. HoldersDistinct'  BY <1>6 DEF IInv, HoldersDistinct
<1>9. QED  BY <1>5, <1>7, <1>8 DEF IInv

\* completeClaimAttempt in the loop preserves the invariant.
LEMMA CompleteStep == ASSUME IInv, NEW w \in Workers, CompleteClaimAttempt(w) PROVE IInv'
<1> USE DEF CompleteClaimAttempt, mainVars, Goto
<1>1. row[w] # 0  BY DEF IInv, LocationsOK, Processing
<1>2. outcome[w] \in Outcomes  BY DEF IInv, ControlOK
<1>3. ControlOK'
    BY DEF IInv, ControlOK, Locations, Live, Outcomes
<1>4. LocationsOK'
    BY DEF IInv, ControlOK, LocationsOK, Processing
<1>5. \A v \in Workers : v # w => item'[v] = item[v]  BY DEF IInv, ControlOK
<1>6. QED  BY <1>1, <1>2, <1>3, <1>4, <1>5, RecordingStep

\* The fatal-error handler preserves the invariant.
LEMMA FatalStep == ASSUME IInv, NEW w \in Workers, FatalError(w) PROVE IInv'
<1> USE DEF FatalError, mainVars, Goto, Exits
<1>1. CASE row[w] = 0
  <2>1. Exits(w) /\ UNCHANGED <<attempts, filed, app, activeChild, orphans>> /\ stop' = stop
      BY <1>1
  <2>2. stop' \in BOOLEAN  BY <2>1 DEF IInv, ControlOK
  <2>3. QED  BY <2>1, <2>2, ExitStep
<1>2. CASE row[w] # 0
  <2>1. attempts' = [attempts EXCEPT ![item[w]] = Completed(attempts[item[w]], row[w], "unknown")]
      BY <1>2
  <2>2. "unknown" \in Outcomes  BY DEF Outcomes
  <2>3. ControlOK'
      BY DEF IInv, ControlOK, Locations, Outcomes
  <2>4. LocationsOK'
      BY DEF IInv, ControlOK, LocationsOK, Processing
  <2>5. \A v \in Workers : v # w => item'[v] = item[v]  BY DEF IInv, ControlOK
  <2>6. row' = [row EXCEPT ![w] = 0]  OBVIOUS
  <2>7. QED  BY <1>2, <2>1, <2>2, <2>3, <2>4, <2>5, <2>6, RecordingStep
<1>3. QED  BY <1>1, <1>2

\* A reconciliation preserves the invariant, also of a row that a worker holds.
LEMMA ReconcileStep ==
    ASSUME IInv, NEW c \in Claims, NEW i \in 1..Len(attempts[c]),
           NEW action \in ReconciliationActions, ReconcileAttempt(c, i, action)
    PROVE  IInv'
<1> DEFINE rows == attempts[c]
<1> DEFINE new == Reconciled(rows, i, action)
<1>1. /\ attempts' = [attempts EXCEPT ![c] = new]
      /\ filed' \subseteq filed
      /\ UNCHANGED <<app, stop, activeChild, orphans, pc, queue, item, row, outcome>>
    BY DEF ReconcileAttempt, mainVars, workerVars
<1>2. /\ RowsOK(new)
      /\ Len(new) = Len(rows)
      /\ Holdable(new[i])
      /\ \A j \in 1..Len(rows) : j # i => new[j] = rows[j]
  <2>1. RowsOK(rows)  BY DEF IInv, AttemptsOK
  <2> HIDE DEF rows
  <2>2. i \in 1..Len(rows)  BY DEF rows
  <2>3. /\ RowsOK(new)
        /\ Len(new) = Len(rows)
        /\ new[i].action = action /\ action # "" /\ Holdable(new[i])
        /\ \A j \in 1..Len(rows) : j # i => new[j] = rows[j]
      BY <2>1, <2>2, ReconciledRows, ZenonT(60)
  <2>4. QED  BY <2>3
<1>3. \A d \in Claims : attempts'[d] = IF d = c THEN new ELSE attempts[d]
    BY <1>1 DEF IInv, AttemptsOK
<1> HIDE DEF new
<1>4. AttemptsOK'
  <2>1. attempts' = [d \in Claims |-> attempts'[d]]  BY <1>1 DEF IInv, AttemptsOK
  <2>2. \A d \in Claims : RowsOK(attempts'[d])  BY <1>2, <1>3 DEF IInv, AttemptsOK
  <2>3. QED  BY <2>1, <2>2 DEF AttemptsOK
<1>5. ControlOK'  BY <1>1 DEF IInv, ControlOK
<1>6. LocationsOK' /\ HoldersDistinct'  BY <1>1 DEF IInv, LocationsOK, HoldersDistinct
<1>7. HeldRowsOK'
  <2>1. SUFFICES ASSUME NEW w \in Workers, row[w] # 0
                 PROVE  /\ row[w] \in 1..Len(attempts'[item[w]])
                        /\ Holdable(attempts'[item[w]][row[w]])
      BY <1>1 DEF HeldRowsOK
  <2>2. /\ item[w] \in Claims
        /\ row[w] \in 1..Len(attempts[item[w]])
        /\ Holdable(attempts[item[w]][row[w]])
      BY <2>1 DEF IInv, LocationsOK, HeldRowsOK
  <2>3. CASE item[w] # c  BY <1>3, <2>2, <2>3
  <2>4. CASE item[w] = c /\ row[w] # i  BY <1>2, <1>3, <2>2, <2>4
  <2>5. CASE item[w] = c /\ row[w] = i  BY <1>2, <1>3, <2>2, <2>5
  <2>6. QED  BY <2>3, <2>4, <2>5
<1>8. QED  BY <1>4, <1>5, <1>6, <1>7 DEF IInv

-----------------------------------------------------------------------------
(* The invariant is inductive.                                             *)

\* Every step preserves the invariant.
LEMMA NextIInv == IInv /\ [Next]_vars => IInv'
<1> SUFFICES ASSUME IInv, [Next]_vars PROVE IInv'  OBVIOUS
<1>1. CASE UserStep
  <2>1. CASE \E w \in Workers, selection \in SUBSET Claims : SubmitRun(w, selection)
      BY <2>1, MainProcessStep
  <2>2. CASE SubmitRunRefused \/ RequestStop
    <3>1. ControlOK' /\ LocationsOK' /\ UNCHANGED <<attempts, row, item>>
        BY <2>2 DEF IInv, ControlOK, LocationsOK, SubmitRunRefused, RequestStop, dbVars, workerVars
    <3>2. QED  BY <3>1, QuietStep
  <2>3. CASE ForceStop  BY <2>3, ForceStopStep
  <2>4. CASE \E c \in Claims : \E i \in 1..Len(attempts[c]), action \in Answers :
                 ReconcileAttempt(c, i, action)
      BY <2>4, ReconcileStep, AnswersAssumption
  <2>5. QED  BY <1>1, <2>1, <2>2, <2>3, <2>4 DEF UserStep
<1>2. ASSUME NEW w \in Workers, WorkerStep(w) PROVE IInv'
    BY <1>2, StartupStep, WorkerMove, OtherQuietWorkerStep, WorkerEnds, BeginStep, CompleteStep,
       FatalStep
    DEF WorkerStep
<1>3. ASSUME NEW w \in Workers, SubmitRunStep(w) \/ ProcessGone(w) \/ WorkerDies(w) PROVE IInv'
    BY <1>3, MainProcessStep, WorkerClosedStep, WorkerEnds DEF SubmitRunStep, ProcessGone
<1>4. CASE AppCrash  BY <1>4, AppCrashStep
<1>5. CASE AppStart  BY <1>5, AppStartStep
<1>6. CASE UNCHANGED vars
  <2>1. ControlOK' /\ LocationsOK' /\ UNCHANGED <<attempts, row, item>>
      BY <1>6 DEF vars, IInv, ControlOK, LocationsOK
  <2>2. QED  BY <2>1, QuietStep
<1>7. QED  BY <1>1, <1>2, <1>3, <1>4, <1>5, <1>6 DEF Next

\* Every reachable state satisfies the inductive invariant.
THEOREM Invariance == Spec => []IInv
BY InitIInv, NextIInv, PTL DEF Spec

-----------------------------------------------------------------------------
(* The safety properties.                                                  *)

\* Every variable keeps its type, whatever the workers, the user and crashes do.
THEOREM TypeCorrect == Spec => []TypeOK
<1>1. IInv => TypeOK
  <2>1. SUFFICES ASSUME IInv PROVE TypeOK  OBVIOUS
  <2>2. attempts \in [Claims -> Seq(Row)]  BY <2>1 DEF IInv, AttemptsOK, RowsOK
  <2>3. QED  BY <2>1, <2>2 DEF IInv, ControlOK, TypeOK
<1>2. QED  BY <1>1, Invariance, PTL

\* Only the latest attempt of a claim can be in progress.
THEOREM OpenAttemptIsLatest == Spec => []OneOpenAttempt
<1>1. IInv => OneOpenAttempt
  <2>1. SUFFICES ASSUME IInv, NEW c \in Claims, NEW i \in 1..Len(attempts[c]),
                        attempts[c][i].status = "in_progress"
                 PROVE  i = Len(attempts[c])
      BY DEF OneOpenAttempt
  <2>2. RowsOK(attempts[c])  BY <2>1 DEF IInv, AttemptsOK
  <2>3. Len(attempts[c]) \in Nat  BY <2>2, LenProperties DEF RowsOK
  <2>4. ~ (i < Len(attempts[c]))  BY <2>1, <2>2 DEF RowsOK, Settled
  <2>5. QED  BY <2>3, <2>4
<1>2. QED  BY <1>1, Invariance, PTL

\* No attempt follows one that is neither a recorded failure nor reconciled.
THEOREM SupersededAreSettled == Spec => []SupersededAttemptsAreSettled
<1>1. IInv => SupersededAttemptsAreSettled
    BY DEF IInv, AttemptsOK, RowsOK, Settled, SupersededAttemptsAreSettled
<1>2. QED  BY <1>1, Invariance, PTL

\* Past the retry limit, only the user lets a claim be attempted again.
THEOREM RetriesAreLimited == Spec => []RetryLimit
<1>1. IInv => RetryLimit
  <2>1. SUFFICES ASSUME IInv, NEW c \in Claims, NEW i \in 1..Len(attempts[c]),
                        i < Len(attempts[c]), attempts[c][i].number >= MaxAttempts
                 PROVE  attempts[c][i].action # ""
      BY DEF RetryLimit
  <2>2. RowsOK(attempts[c])  BY <2>1 DEF IInv, AttemptsOK
  <2>3. attempts[c][i].number \in Nat  BY <2>1, <2>2, RowsAreTyped DEF RowsOK
  <2>4. Settled(attempts[c][i])  BY <2>1, <2>2 DEF RowsOK
  <2>5. ~ (attempts[c][i].number < MaxAttempts)
      BY <2>1, <2>3, MaxAttemptsAssumption
  <2>6. QED  BY <2>4, <2>5 DEF Settled
<1>2. QED  BY <1>1, Invariance, PTL

\* Two workers are in the same claim only if the user reconciled the first.
THEOREM ClaimsAreNotShared == Spec => []NoConcurrentSubmissionOfOneClaim
<1>1. IInv => NoConcurrentSubmissionOfOneClaim
  <2>1. SUFFICES ASSUME IInv, NEW v \in Workers, NEW w \in Workers, NEW c \in Claims,
                        NEW i \in 1..Len(attempts[c]), NEW j \in 1..Len(attempts[c]),
                        v # w, Holds(v, c, i), Holds(w, c, j), i <= j
                 PROVE  attempts[c][i].action # ""
      BY DEF NoConcurrentSubmissionOfOneClaim
  <2>2. RowsOK(attempts[c])  BY <2>1 DEF IInv, AttemptsOK
  <2>3. i # j  BY <2>1 DEF IInv, HoldersDistinct, Holds
  <2>4. i < Len(attempts[c])
    <3>1. Len(attempts[c]) \in Nat  BY <2>2, LenProperties DEF RowsOK
    <3>2. QED  BY <2>1, <2>3, <3>1
  <2>5. Settled(attempts[c][i])  BY <2>2, <2>4 DEF RowsOK
  <2>6. Holdable(attempts[c][i])  BY <2>1 DEF IInv, HeldRowsOK, Holds
  <2>7. QED  BY <2>2, <2>5, <2>6 DEF RowsOK, Settled, Holdable, UnresolvedStates, ManualStates
<1>2. QED  BY <1>1, Invariance, PTL

\* The latest of sound rows has a status and a number.
LEMMA LatestIsTyped ==
    ASSUME NEW rows, RowsOK(rows), rows # <<>>
    PROVE  Latest(rows).status \in Statuses /\ Latest(rows).number \in Nat
<1>1. rows \in Seq(Row) /\ Len(rows) \in Nat  BY LenProperties DEF RowsOK
<1>2. Len(rows) \in 1..Len(rows)  BY <1>1, EmptySeq
<1>3. QED  BY <1>1, <1>2, RowsAreTyped DEF Latest

\* The queue offers exactly the claims that beginClaimAttempt accepts.
THEOREM QueueIsFaithful == Spec => []QueueAgreesWithDecision
<1>1. IInv => QueueAgreesWithDecision
  <2>1. SUFFICES ASSUME IInv, NEW c \in Claims
                 PROVE  Executable(c, attempts[c]) <=> BeginAllowed(c, attempts[c])
      BY DEF QueueAgreesWithDecision
  <2> DEFINE rows == attempts[c]
  <2>2. CASE c \in Tombstoned
      BY <2>2 DEF Executable, CandidateExecutionState, BeginAllowed
  <2>3. CASE c \notin Tombstoned /\ rows = <<>>
      BY <2>3 DEF Executable, CandidateExecutionState, BeginAllowed, AutomaticAttemptDecision
  <2>4. CASE c \notin Tombstoned /\ rows # <<>>
    <3>1. Latest(rows).status \in Statuses /\ Latest(rows).number \in Nat
        BY <2>1, <2>4, LatestIsTyped DEF IInv, AttemptsOK
    <3>2. QED
        BY <2>4, <3>1, MaxAttemptsAssumption
        DEF Executable, CandidateExecutionState, BeginAllowed, AutomaticAttemptDecision,
            Statuses, TerminalStates, UnresolvedStates, RetryableStates
  <2>5. QED  BY <2>2, <2>3, <2>4
<1>2. QED  BY <1>1, Invariance, PTL

\* A claim that is no longer offered is settled, or listed for reconciliation.
THEOREM NoneIsStranded == Spec => []NoClaimIsStranded
<1>1. IInv => NoClaimIsStranded
  <2>1. SUFFICES ASSUME IInv, NEW c \in Claims, c \notin Tombstoned,
                        ~ NeedsReconciliation(attempts[c]),
                        ~ Executable(c, attempts[c])
                 PROVE  Latest(attempts[c]).status \in TerminalStates
      BY DEF NoClaimIsStranded
  <2> DEFINE rows == attempts[c]
  <2>2. rows # <<>>  BY <2>1 DEF Executable, CandidateExecutionState
  <2>3. Latest(rows).status \in Statuses /\ Latest(rows).number \in Nat
      BY <2>1, <2>2, LatestIsTyped DEF IInv, AttemptsOK
  <2>4. QED
      BY <2>1, <2>2, <2>3, MaxAttemptsAssumption
      DEF Executable, CandidateExecutionState, NeedsReconciliation,
          Statuses, TerminalStates, UnresolvedStates, RetryableStates
<1>2. QED  BY <1>1, Invariance, PTL

-----------------------------------------------------------------------------
(* What no step may do.                                                    *)

\* The only ways in which a step changes an existing row.
Changes(c, i) ==
    \/ attempts[c][i].status = "in_progress" /\ attempts'[c][i].status = "unknown"
    \/ \E w \in Workers :
          /\ row[w] # 0 /\ item[w] = c /\ row[w] = i
          /\ \/ attempts'[c][i].status = "unknown"
             \/ /\ pc[w] = "result" /\ Holds(w, c, i)
                /\ attempts'[c][i].status = outcome[w]
    \/ CanReconcile(attempts[c], i) /\ attempts'[c][i].action # ""

\* A step leaves an existing row alone, or changes it in one of those ways.
LEMMA RowSteps ==
    ASSUME IInv, [Next]_vars, NEW c \in Claims, NEW i \in 1..Len(attempts[c])
    PROVE  attempts'[c][i] = attempts[c][i] \/ Changes(c, i)
<1> DEFINE Result == attempts'[c][i] = attempts[c][i] \/ Changes(c, i)
<1>1. RowsOK(attempts[c])  BY DEF IInv, AttemptsOK
<1>2. CASE UNCHANGED attempts  BY <1>2
<1>3. CASE attempts' = [d \in Claims |-> Interrupted(attempts[d])]
  <2>1. attempts'[c] = Interrupted(attempts[c])  BY <1>3
  <2>2. /\ attempts[c][i].status # "in_progress" => attempts'[c][i] = attempts[c][i]
        /\ attempts[c][i].status = "in_progress" => attempts'[c][i].status = "unknown"
      BY <1>1, <2>1, InterruptedRows
  <2>3. attempts[c][i].status = "in_progress" /\ attempts'[c][i].status = "unknown" => Changes(c, i)
      BY DEF Changes
  <2>4. QED  BY <2>2, <2>3
<1>4. ASSUME NEW w \in Workers, BeginClaimAttempt(w) PROVE Result
  <2>1. /\ AutomaticAttemptDecision(attempts[item[w]])
        /\ attempts' = [attempts EXCEPT ![item[w]] = Begun(attempts[item[w]])]
      BY <1>4 DEF BeginClaimAttempt, BeginAllowed
  <2>2. CASE item[w] = c
    <3>1. attempts'[c] = Begun(attempts[c])  BY <2>1, <2>2 DEF IInv, AttemptsOK
    <3>2. QED  BY <1>1, <2>1, <2>2, <3>1, BegunRows
  <2>3. CASE item[w] # c  BY <2>1, <2>3
  <2>4. QED  BY <2>2, <2>3
<1>5. ASSUME NEW w \in Workers, row[w] # 0, NEW s \in Outcomes,
             attempts' = [attempts EXCEPT ![item[w]] = Completed(attempts[item[w]], row[w], s)],
             s = "unknown" \/ (pc[w] = "result" /\ s = outcome[w])
      PROVE  Result
  <2>1. CASE item[w] # c  BY <1>5, <2>1
  <2>2. CASE item[w] = c
    <3>1. attempts'[c] = Completed(attempts[c], row[w], s)
        BY <1>5, <2>2 DEF IInv, AttemptsOK
    <3>2. row[w] \in 1..Len(attempts[c]) /\ Holdable(attempts[c][row[w]])
        BY <1>5, <2>2 DEF IInv, HeldRowsOK
    <3>3. /\ attempts'[c][row[w]].status = s
          /\ \A j \in 1..Len(attempts[c]) : j # row[w] => attempts'[c][j] = attempts[c][j]
        BY <1>1, <1>5, <3>1, <3>2, CompletedRows
    <3>4. CASE i # row[w]  BY <3>3, <3>4
    <3>5. CASE i = row[w]
        BY <1>5, <2>2, <3>3, <3>5 DEF Changes, Holds, Live, Processing
    <3>6. QED  BY <3>4, <3>5
  <2>3. QED  BY <2>1, <2>2
<1>6. ASSUME NEW d \in Claims, NEW k \in 1..Len(attempts[d]), NEW a \in ReconciliationActions,
             ReconcileAttempt(d, k, a)
      PROVE  Result
  <2>1. /\ CanReconcile(attempts[d], k)
        /\ attempts' = [attempts EXCEPT ![d] = Reconciled(attempts[d], k, a)]
      BY <1>6 DEF ReconcileAttempt
  <2>2. CASE d # c  BY <2>1, <2>2
  <2>3. CASE d = c
    <3>0. k \in 1..Len(attempts[c])  BY <2>3
    <3>1. attempts'[c] = Reconciled(attempts[c], k, a)  BY <2>1, <2>3 DEF IInv, AttemptsOK
    <3>2. /\ Reconciled(attempts[c], k, a)[k].action = a /\ a # ""
          /\ \A j \in 1..Len(attempts[c]) :
                 j # k => Reconciled(attempts[c], k, a)[j] = attempts[c][j]
        BY <1>1, <3>0, ReconciledRows, ZenonT(60)
    <3>3. CASE i # k  BY <3>1, <3>2, <3>3
    <3>4. CASE i = k  BY <2>1, <2>3, <3>1, <3>2, <3>4 DEF Changes
    <3>5. QED  BY <3>3, <3>4
  <2>4. QED  BY <2>2, <2>3
<1>7. CASE UserStep
  <2>1. CASE \E d \in Claims : \E k \in 1..Len(attempts[d]), a \in Answers :
                ReconcileAttempt(d, k, a)
      BY <1>6, <2>1, AnswersAssumption
  <2>2. CASE \/ \E w \in Workers, selection \in SUBSET Claims : SubmitRun(w, selection)
             \/ SubmitRunRefused \/ RequestStop \/ ForceStop
      BY <1>2, <2>2 DEF SubmitRun, SubmitRunRefused, RequestStop, ForceStop, dbVars
  <2>3. QED  BY <1>7, <2>1, <2>2 DEF UserStep
<1>8. ASSUME NEW w \in Workers, WorkerStep(w) PROVE Result
  <2>1. CASE Startup(w)  BY <1>3, <2>1 DEF Startup
  <2>2. CASE BeginClaimAttempt(w)  BY <1>4, <2>2
  <2>3. CASE CompleteClaimAttempt(w)
    <3>1. row[w] # 0 /\ outcome[w] \in Outcomes /\ pc[w] = "result"
        BY <2>3 DEF CompleteClaimAttempt, IInv, ControlOK, LocationsOK, Processing
    <3>2. attempts' = [attempts EXCEPT ![item[w]] =
                          Completed(attempts[item[w]], row[w], outcome[w])]
        BY <2>3 DEF CompleteClaimAttempt
    <3>3. QED  BY <1>5, <3>1, <3>2
  <2>4. CASE FatalError(w)
    <3>1. CASE row[w] = 0  BY <1>2, <2>4, <3>1 DEF FatalError
    <3>2. CASE row[w] # 0
      <4>1. attempts' = [attempts EXCEPT ![item[w]] =
                            Completed(attempts[item[w]], row[w], "unknown")]
          BY <2>4, <3>2 DEF FatalError
      <4>2. "unknown" \in Outcomes  BY DEF Outcomes
      <4>3. QED  BY <1>5, <3>2, <4>1, <4>2
    <3>3. QED  BY <3>1, <3>2
  <2>5. CASE \/ Login(w) \/ LoopEnds(w) \/ RevalidationFails(w)
             \/ \E d \in Claims : NextClaim(w, d)
             \/ BeginThrows(w) \/ OpenTicketPopup(w) \/ FillFails(w) \/ ClickCreateTicket(w)
             \/ WaitForClaimOutcome(w) \/ WaitFails(w) \/ SaveEvidence(w)
             \/ CatchClaimError(w) \/ CompleteThrows(w) \/ ResetToTicketLauncher(w)
      BY <1>2, <2>5
      DEF Login, LoopEnds, RevalidationFails, NextClaim, BeginThrows, OpenTicketPopup, FillFails,
          ClickCreateTicket, WaitForClaimOutcome, WaitFails, SaveEvidence, CatchClaimError,
          CompleteThrows, ResetToTicketLauncher, dbVars
  <2>6. QED  BY <1>8, <2>1, <2>2, <2>3, <2>4, <2>5 DEF WorkerStep
<1>9. ASSUME NEW w \in Workers, SubmitRunStep(w) \/ ProcessGone(w) \/ WorkerDies(w) PROVE Result
  <2>1. CASE WorkerClosed(w)  BY <1>2, <1>3, <2>1 DEF WorkerClosed
  <2>2. CASE SubmitRunStep(w) \/ CloseThrows(w) \/ OrphanGone(w) \/ WorkerDies(w)
      BY <1>2, <2>2 DEF SubmitRunStep, HandshakeFails, Spawn, SpawnFails, CloseThrows, OrphanGone, WorkerDies,
                        dbVars
  <2>3. QED  BY <1>9, <2>1, <2>2 DEF ProcessGone
<1>10. CASE AppCrash  BY <1>2, <1>10 DEF AppCrash, dbVars
<1>11. CASE AppStart  BY <1>3, <1>11 DEF AppStart
<1>12. CASE UNCHANGED vars  BY <1>2, <1>12 DEF vars
<1>13. QED  BY <1>7, <1>8, <1>9, <1>10, <1>11, <1>12 DEF Next

\* No step changes a row that has an outcome which a worker read.
THEOREM OutcomesAreFinal == Spec => WorkerOutcomeIsFinal
<1> DEFINE Final == \A c \in Claims : \A i \in 1..Len(attempts[c]) :
          attempts[c][i].status \in {"submitted", "already_submitted", "rejected"} =>
              attempts'[c][i] = attempts[c][i]
<1>1. IInv /\ [Next]_vars => Final
  <2>1. SUFFICES ASSUME IInv, [Next]_vars, NEW c \in Claims, NEW i \in 1..Len(attempts[c]),
                        attempts[c][i].status \in {"submitted", "already_submitted", "rejected"},
                        Changes(c, i)
                 PROVE  FALSE
      BY RowSteps
  <2>2. \A w \in Workers : row[w] # 0 /\ item[w] = c /\ row[w] = i =>
            Holdable(attempts[c][i])
      BY <2>1 DEF IInv, HeldRowsOK
  <2>3. QED
      BY <2>1, <2>2 DEF Changes, CanReconcile, Holdable, UnresolvedStates, ManualStates
<1>2. QED  BY <1>1, Invariance, PTL DEF Spec, WorkerOutcomeIsFinal

\* An open attempt that is interrupted becomes unknown, and nothing else.
THEOREM InterruptedAreUnknown == Spec => InterruptionLeavesUnknown
<1> DEFINE Left == \A c \in Claims : \A i \in 1..Len(attempts[c]) :
          attempts[c][i].status = "in_progress" =>
              \/ attempts'[c][i].status \in UnresolvedStates
              \/ attempts'[c][i].action # ""
              \/ \E w \in Workers :
                    /\ pc[w] = "result" /\ Holds(w, c, i)
                    /\ attempts'[c][i].status = outcome[w]
<1>1. IInv /\ [Next]_vars => Left
  <2>1. SUFFICES ASSUME IInv, [Next]_vars, NEW c \in Claims, NEW i \in 1..Len(attempts[c]),
                        attempts[c][i].status = "in_progress"
                 PROVE  \/ attempts'[c][i].status \in UnresolvedStates
                        \/ attempts'[c][i].action # ""
                        \/ \E w \in Workers :
                              /\ pc[w] = "result" /\ Holds(w, c, i)
                              /\ attempts'[c][i].status = outcome[w]
      OBVIOUS
  <2>2. attempts'[c][i] = attempts[c][i] \/ Changes(c, i)  BY <2>1, RowSteps
  <2>3. QED  BY <2>1, <2>2 DEF Changes, UnresolvedStates
<1>2. QED  BY <1>1, Invariance, PTL DEF Spec, InterruptionLeavesUnknown

-----------------------------------------------------------------------------
(* Submission implements ClaimPromise.                                     *)

Holder(w, c) == row[w] # 0 /\ item[w] = c /\ row[w] = Len(attempts[c])

\* A claim is held when a worker has the number of its latest row.
LEMMA HeldIs ==
    ASSUME IInv
    PROVE  \A c \in Claims : c \in Held <=> \E w \in Workers : Holder(w, c)
<1>1. \A w \in Workers : row[w] # 0 => pc[w] \in Live
    BY DEF IInv, LocationsOK, Live
<1>2. QED  BY <1>1 DEF Held, Holds, Holder

\* It is so after a step as well.
LEMMA HeldIsNext ==
    ASSUME IInv'
    PROVE  \A c \in Claims : c \in Held' <=> \E w \in Workers : Holder(w, c)'
<1>1. \A w \in Workers : row'[w] # 0 => pc'[w] \in Live
    BY DEF IInv, LocationsOK, Live
<1>2. QED  BY <1>1 DEF Held, Holds, Holder

\* Every claim's rows are empty or have a latest one, before a step and after it.
LEMMA LatestOf ==
    ASSUME NEW rows, RowsOK(rows)
    PROVE  /\ Len(rows) \in Nat /\ (rows = <<>> <=> Len(rows) = 0)
           /\ rows # <<>> => /\ Len(rows) \in 1..Len(rows) /\ Latest(rows) = rows[Len(rows)]
                             /\ Latest(rows) \in Row
<1>1. rows \in Seq(Row) /\ Len(rows) \in Nat /\ (rows = <<>> <=> Len(rows) = 0)
    BY LenProperties, EmptySeq DEF RowsOK
<1>2. rows # <<>> => Len(rows) \in 1..Len(rows)  BY <1>1
<1>3. QED  BY <1>1, <1>2, ElementOfSeq DEF Latest

\* What each status says of the claim.
LEMMA StandingIs ==
    /\ StandingOf("in_progress") = "open" /\ StandingOf("unknown") = "uncertain"
    /\ StandingOf("failed") = "failed" /\ StandingOf("submitted_manual") = "confirmed"
    /\ \A s \in {"not_submitted", "retry_approved"} : StandingOf(s) = "approved"
    /\ \A s \in {"submitted", "already_submitted", "rejected"} : StandingOf(s) = "final"
    /\ \A s \in Statuses \ {"in_progress"} : StandingOf(s) # "open"
BY DEF StandingOf, Statuses, TerminalStates, UnresolvedStates, RetryableStates

\* Standing and number depend on the latest row only.
LEMMA SameLatest ==
    ASSUME NEW rows, RowsOK(rows), NEW new, RowsOK(new), Len(new) = Len(rows),
           rows # <<>> => new[Len(rows)] = rows[Len(rows)]
    PROVE  Standing(new) = Standing(rows) /\ Tries(new) = Tries(rows)
BY LatestOf DEF Standing, Tries

\* Marking makes what was open uncertain and leaves the rest.
LEMMA MarkedStanding ==
    ASSUME NEW rows, RowsOK(rows)
    PROVE  /\ Standing(Interrupted(rows)) =
                  IF Standing(rows) = "open" THEN "uncertain" ELSE Standing(rows)
           /\ Tries(Interrupted(rows)) = Tries(rows)
<1> DEFINE new == Interrupted(rows)
<1>1. /\ RowsOK(new) /\ Len(new) = Len(rows)
      /\ \A i \in 1..Len(rows) :
            /\ rows[i].status # "in_progress" => new[i] = rows[i]
            /\ rows[i].status = "in_progress" => new[i].status = "unknown"
            /\ new[i].number = rows[i].number
    BY InterruptedRows
<1> HIDE DEF new
<1>2. CASE rows = <<>>
  <2>1. new = <<>>  BY <1>1, <1>2, LatestOf
  <2>2. QED  BY <1>2, <2>1 DEF Standing, Tries, new
<1>3. CASE rows # <<>>
  <2>1. /\ Len(rows) \in 1..Len(rows) /\ Latest(rows) = rows[Len(rows)]
        /\ Latest(rows).status \in Statuses
      BY <1>3, LatestOf DEF Row
  <2>2. new # <<>> /\ Latest(new) = new[Len(rows)]  BY <1>1, <1>3, LatestOf
  <2>3. Tries(new) = Tries(rows)  BY <1>1, <1>3, <2>1, <2>2 DEF Tries
  <2>4. CASE Latest(rows).status = "in_progress"
    <3>1. Standing(rows) = "open"  BY <1>3, <2>4, StandingIs DEF Standing
    <3>2. Latest(new).status = "unknown"  BY <1>1, <2>1, <2>2, <2>4
    <3>3. Standing(new) = "uncertain"  BY <2>2, <3>2, StandingIs DEF Standing
    <3>4. QED  BY <2>3, <3>1, <3>3 DEF new
  <2>5. CASE Latest(rows).status # "in_progress"
    <3>1. Standing(rows) # "open"  BY <1>3, <2>1, <2>5, StandingIs DEF Standing
    <3>2. Latest(new) = Latest(rows)  BY <1>1, <2>1, <2>2, <2>5
    <3>3. Standing(new) = Standing(rows)  BY <1>3, <2>2, <3>2 DEF Standing
    <3>4. QED  BY <2>3, <3>1, <3>3 DEF new
  <2>6. QED  BY <2>4, <2>5
<1>4. QED  BY <1>2, <1>3 DEF new

\* A write to one claim's rows changes what is known of that claim only.
LEMMA OneClaimChanges ==
    ASSUME IInv, NEW c \in Claims, NEW new, attempts' = [attempts EXCEPT ![c] = new]
    PROVE  /\ attempts'[c] = new
           /\ \A d \in Claims : d # c => attempts'[d] = attempts[d]
           /\ [d \in Claims |-> Standing(attempts'[d])] =
                  [[d \in Claims |-> Standing(attempts[d])] EXCEPT ![c] = Standing(new)]
           /\ [d \in Claims |-> Tries(attempts'[d])] =
                  [[d \in Claims |-> Tries(attempts[d])] EXCEPT ![c] = Tries(new)]
<1>1. \A d \in Claims : attempts'[d] = IF d = c THEN new ELSE attempts[d]
    BY DEF IInv, AttemptsOK
<1>2. \A d \in Claims :
          Standing(attempts'[d]) = IF d = c THEN Standing(new) ELSE Standing(attempts[d])
    BY <1>1
<1>3. \A d \in Claims : Tries(attempts'[d]) = IF d = c THEN Tries(new) ELSE Tries(attempts[d])
    BY <1>1
<1>4. [d \in Claims |-> Standing(attempts'[d])] =
          [[d \in Claims |-> Standing(attempts[d])] EXCEPT ![c] = Standing(new)]
    BY <1>2
<1>5. [d \in Claims |-> Tries(attempts'[d])] =
          [[d \in Claims |-> Tries(attempts[d])] EXCEPT ![c] = Tries(new)]
    BY <1>3
<1>6. QED  BY <1>1, <1>4, <1>5

\* A worker that drops its row leaves the rows alone; if the row was the latest, the
\* claim is held no longer, since no other worker has it.
LEMMA DropStep ==
    ASSUME IInv, IInv', UNCHANGED attempts, NEW v \in Workers,
           \A w \in Workers : w # v /\ row[w] # 0 => row'[w] = row[w] /\ item'[w] = item[w],
           \A w \in Workers : row[w] = 0 => row'[w] = 0,
           row'[v] = 0 \/ (row'[v] = row[v] /\ item'[v] = item[v])
    PROVE  [Promise!Next]_(Promise!vars)
<1>1. \A w \in Workers, c \in Claims : w # v => (Holder(w, c)' <=> Holder(w, c))
    BY DEF Holder
<1>2. \A c \in Claims : Holder(v, c)' => Holder(v, c)
    BY DEF Holder
<1>3. \A w \in Workers, c \in Claims : w # v /\ Holder(v, c) => ~ Holder(w, c)
    BY DEF IInv, HoldersDistinct, Holder
<1>4. Held \subseteq Claims /\ Held' \subseteq Claims  BY DEF Held
<1>5. CASE \E c \in Claims : Holder(v, c) /\ ~ Holder(v, c)'
  <2>1. PICK c \in Claims : Holder(v, c) /\ ~ Holder(v, c)'  BY <1>5
  <2>2. \A d \in Claims : d # c => ~ Holder(v, d)  BY <2>1 DEF Holder
  <2>3. \A d \in Claims : d \in Held' <=> d \in Held /\ d # c
    <3>1. \A d \in Claims : d \in Held' <=> \E w \in Workers : Holder(w, d)'  BY HeldIsNext
    <3>2. \A d \in Claims : d \in Held <=> \E w \in Workers : Holder(w, d)  BY HeldIs
    <3>3. c \notin Held'  BY <1>1, <1>3, <2>1, <3>1
    <3>4. \A d \in Claims : d # c => (d \in Held' <=> d \in Held)
        BY <1>1, <1>2, <2>2, <3>1, <3>2
    <3>5. QED  BY <3>3, <3>4
  <2>4. Held' = Held \ {c}  BY <1>4, <2>3
  <2>5. Promise!Vanish(c)  BY <2>4 DEF Promise!Vanish
  <2>6. QED  BY <2>5 DEF Promise!Next
<1>6. CASE \A c \in Claims : Holder(v, c)' <=> Holder(v, c)
  <2>1. \A c \in Claims : c \in Held' <=> c \in Held  BY <1>1, <1>6, HeldIs, HeldIsNext
  <2>2. Held' = Held  BY <1>4, <2>1
  <2>3. QED  BY <2>2 DEF Promise!vars
<1>7. QED  BY <1>2, <1>5, <1>6

\* A step that changes neither rows nor what workers hold does not show.
LEMMA HiddenStep ==
    ASSUME IInv, IInv', UNCHANGED attempts,
           \A w \in Workers : /\ row'[w] = row[w]
                              /\ row[w] # 0 => item'[w] = item[w]
    PROVE  [Promise!Next]_(Promise!vars)
<1>1. \A w \in Workers, c \in Claims : Holder(w, c)' <=> Holder(w, c)  BY DEF Holder
<1>2. Held \subseteq Claims /\ Held' \subseteq Claims  BY DEF Held
<1>3. Held' = Held  BY <1>1, <1>2, HeldIs, HeldIsNext
<1>4. QED  BY <1>3 DEF Promise!vars

\* The marking of what is open is an interruption.
LEMMA MarkIsInterrupt ==
    ASSUME IInv, IInv', attempts' = [c \in Claims |-> Interrupted(attempts[c])],
           \A w \in Workers : /\ row'[w] = row[w]
                              /\ row[w] # 0 => item'[w] = item[w]
    PROVE  [Promise!Next]_(Promise!vars)
<1>1. ASSUME NEW c \in Claims
      PROVE  /\ Standing(attempts'[c]) =
                    IF Standing(attempts[c]) = "open" THEN "uncertain" ELSE Standing(attempts[c])
             /\ Tries(attempts'[c]) = Tries(attempts[c])
             /\ Len(attempts'[c]) = Len(attempts[c])
  <2>1. RowsOK(attempts[c]) /\ attempts'[c] = Interrupted(attempts[c])
      BY DEF IInv, AttemptsOK
  <2>2. QED  BY <2>1, MarkedStanding, InterruptedRows
<1>2. \A w \in Workers, c \in Claims : Holder(w, c)' <=> Holder(w, c)  BY <1>1 DEF Holder
<1>3. Held \subseteq Claims /\ Held' \subseteq Claims  BY DEF Held
<1>4. Held' = Held  BY <1>2, <1>3, HeldIs, HeldIsNext
<1>5. Promise!Interrupt  BY <1>1, <1>4 DEF Promise!Interrupt
<1>6. QED  BY <1>5 DEF Promise!Next

\* A worker that begins an attempt tries the claim: the decision admits no standing
\* under which the promise forbids it, and nobody else can report on the claim
\* any more unless the user approved.
LEMMA BeginIsTry ==
    ASSUME IInv, IInv', NEW w \in Workers, BeginClaimAttempt(w)
    PROVE  [Promise!Next]_(Promise!vars)
<1> DEFINE c == item[w]
<1> DEFINE rows == attempts[c]
<1> DEFINE new == Begun(rows)
<1>1. /\ c \notin Tombstoned
      /\ AutomaticAttemptDecision(rows)
      /\ attempts' = [attempts EXCEPT ![c] = new]
      /\ row' = [row EXCEPT ![w] = Len(rows) + 1]
      /\ item' = item
      /\ c \in Claims /\ row[w] = 0 /\ row \in [Workers -> Nat]
    BY DEF BeginClaimAttempt, BeginAllowed, Goto, mainVars, IInv, ControlOK, LocationsOK, Processing
<1>2. RowsOK(rows)  BY <1>1 DEF IInv, AttemptsOK
<1>3. /\ RowsOK(new) /\ Len(rows) \in Nat /\ Len(new) = Len(rows) + 1
      /\ new[Len(rows) + 1].status = "in_progress"
      /\ new[Len(rows) + 1].number = IF rows = <<>> THEN 1 ELSE Latest(rows).number + 1
    BY <1>1, <1>2, BegunRows
<1>4. /\ attempts'[c] = new
      /\ \A d \in Claims : d # c => attempts'[d] = attempts[d]
      /\ [d \in Claims |-> Standing(attempts'[d])] =
             [[d \in Claims |-> Standing(attempts[d])] EXCEPT ![c] = Standing(new)]
      /\ [d \in Claims |-> Tries(attempts'[d])] =
             [[d \in Claims |-> Tries(attempts[d])] EXCEPT ![c] = Tries(new)]
    BY <1>1, OneClaimChanges
<1> HIDE DEF new
<1>5. new # <<>> /\ Latest(new) = new[Len(rows) + 1]  BY <1>3, LatestOf
<1>6. Standing(new) = "open" /\ Tries(new) = Tries(rows) + 1
  <2>1. Standing(new) = "open"  BY <1>3, <1>5, StandingIs DEF Standing
  <2>2. Tries(new) = Tries(rows) + 1  BY <1>3, <1>5 DEF Tries
  <2>3. QED  BY <2>1, <2>2
<1>7. /\ \/ Standing(rows) = "none"
         \/ Standing(rows) = "failed" /\ Tries(rows) < MaxAttempts
         \/ Standing(rows) = "approved"
      /\ c \in Held => Standing(rows) = "approved"
  <2>1. CASE rows = <<>>
    <3>1. \A v \in Workers : ~ Holder(v, c)  BY <1>2, <2>1, LatestOf DEF Holder
    <3>2. c \notin Held  BY <1>1, <3>1, HeldIs
    <3>3. QED  BY <2>1, <3>2 DEF Standing
  <2>2. CASE rows # <<>>
    <3>1. Latest(rows) = rows[Len(rows)] /\ Latest(rows).status \in Statuses
        BY <1>2, <2>2, LatestOf DEF Row
    <3>2. \/ Latest(rows).status = "failed" /\ Latest(rows).number < MaxAttempts
          \/ Latest(rows).status \in {"not_submitted", "retry_approved"}
        BY <1>1, <2>2, <3>1
        DEF AutomaticAttemptDecision, Statuses, TerminalStates, UnresolvedStates, RetryableStates
    <3>3. c \in Held => Holdable(Latest(rows))
        BY <1>1, <3>1, HeldIs DEF Holder, IInv, HeldRowsOK
    <3>4. c \in Held => Latest(rows).status # "failed"
        BY <3>3 DEF Holdable, UnresolvedStates, ManualStates
    <3>5. QED  BY <2>2, <3>2, <3>4, StandingIs DEF Standing, Tries
  <2>3. QED  BY <2>1, <2>2
<1>8. Held' = Held \cup {c}
  <2>1. row'[w] = Len(rows) + 1 /\ \A v \in Workers : v # w => row'[v] = row[v]  BY <1>1
  <2>2. Holder(w, c)'  BY <1>1, <1>3, <1>4, <2>1 DEF Holder
  <2>3. \A v \in Workers, d \in Claims : d # c => (Holder(v, d)' <=> Holder(v, d))
      BY <1>1, <1>4, <2>1 DEF Holder
  <2>4. \A d \in Claims : d \in Held' <=> d \in Held \/ d = c
      BY <1>1, <2>2, <2>3, HeldIs, HeldIsNext
  <2>5. Held \subseteq Claims /\ Held' \subseteq Claims  BY DEF Held
  <2>6. QED  BY <1>1, <2>4, <2>5
<1>9. Promise!Try(c)
    BY <1>1, <1>4, <1>6, <1>7, <1>8 DEF Promise!Try
<1>10. QED  BY <1>1, <1>9 DEF Promise!Next

\* A worker that records its row reports on the claim if the row is the latest, and
\* says nothing of the claim otherwise.
LEMMA RecordIsReport ==
    ASSUME IInv, IInv', NEW w \in Workers, row[w] # 0, NEW s \in Outcomes,
           attempts' = [attempts EXCEPT ![item[w]] = Completed(attempts[item[w]], row[w], s)],
           row' = [row EXCEPT ![w] = 0],
           \A v \in Workers : v # w => item'[v] = item[v]
    PROVE  [Promise!Next]_(Promise!vars)
<1> DEFINE c == item[w]
<1> DEFINE rows == attempts[c]
<1> DEFINE new == Completed(rows, row[w], s)
<1>1. /\ c \in Claims /\ row[w] \in 1..Len(rows) /\ Holdable(rows[row[w]])
      /\ row'[w] = 0 /\ \A v \in Workers : v # w => row'[v] = row[v]
    BY DEF IInv, ControlOK, LocationsOK, HeldRowsOK
<1>2. RowsOK(rows)  BY <1>1 DEF IInv, AttemptsOK
<1>3. /\ RowsOK(new) /\ Len(new) = Len(rows)
      /\ new[row[w]].status = s /\ new[row[w]].number = rows[row[w]].number
      /\ \A j \in 1..Len(rows) : j # row[w] => new[j] = rows[j]
    BY <1>1, <1>2, CompletedRows
<1>4. /\ attempts'[c] = new
      /\ \A d \in Claims : d # c => attempts'[d] = attempts[d]
      /\ [d \in Claims |-> Standing(attempts'[d])] =
             [[d \in Claims |-> Standing(attempts[d])] EXCEPT ![c] = Standing(new)]
      /\ [d \in Claims |-> Tries(attempts'[d])] =
             [[d \in Claims |-> Tries(attempts[d])] EXCEPT ![c] = Tries(new)]
    BY <1>1, OneClaimChanges
<1> HIDE DEF new
<1>5. /\ Len(rows) \in 1..Len(rows) /\ rows # <<>> /\ Latest(rows) = rows[Len(rows)]
      /\ new # <<>> /\ Latest(new) = new[Len(rows)]
    BY <1>1, <1>2, <1>3, LatestOf
<1>6. \A v \in Workers, d \in Claims : v # w => (Holder(v, d)' <=> Holder(v, d))
    BY <1>1, <1>3, <1>4 DEF Holder
<1>7. \A d \in Claims : ~ Holder(w, d)'  BY <1>1 DEF Holder
<1>8. Held \subseteq Claims /\ Held' \subseteq Claims  BY DEF Held
<1>9. CASE row[w] = Len(rows)
  <2>1. Holder(w, c) /\ \A d \in Claims : d # c => ~ Holder(w, d)  BY <1>9, <1>1 DEF Holder
  <2>2. \A v \in Workers : v # w => ~ Holder(v, c)
      BY <2>1 DEF Holder, IInv, HoldersDistinct
  <2>3. \A d \in Claims : d \in Held' <=> d \in Held /\ d # c
      BY <1>6, <1>7, <2>1, <2>2, HeldIs, HeldIsNext
  <2>4. Held' = Held \ {c}  BY <1>8, <2>3
  <2>5. c \in Held  BY <1>1, <2>1, HeldIs
  <2>6. Tries(new) = Tries(rows)  BY <1>3, <1>5, <1>9 DEF Tries
  <2>7. Standing(rows) \in {"open", "uncertain", "confirmed", "approved"}
    <3>1. Latest(rows).status \in {"in_progress", "unknown", "submitted_manual", "not_submitted",
                                   "retry_approved"}
        BY <1>1, <1>5, <1>9 DEF Holdable, UnresolvedStates, ManualStates
    <3>2. QED  BY <1>5, <3>1, StandingIs DEF Standing
  <2>8. Standing(new) \in {"final", "failed", "uncertain"}
    <3>1. Latest(new).status \in Outcomes  BY <1>3, <1>5, <1>9
    <3>2. QED  BY <1>5, <3>1, StandingIs DEF Standing, Outcomes
  <2>9. [d \in Claims |-> Tries(attempts'[d])] = [d \in Claims |-> Tries(attempts[d])]
      BY <1>4, <2>6
  <2>10. Promise!Report(c)
      BY <1>1, <1>4, <2>4, <2>5, <2>7, <2>8, <2>9 DEF Promise!Report
  <2>11. QED  BY <1>1, <2>10 DEF Promise!Next
<1>10. CASE row[w] # Len(rows)
  <2>1. Standing(new) = Standing(rows) /\ Tries(new) = Tries(rows)
      BY <1>2, <1>3, <1>5, <1>10, SameLatest
  <2>2. \A d \in Claims : ~ Holder(w, d)  BY <1>10 DEF Holder
  <2>3. \A d \in Claims : d \in Held' <=> d \in Held
      BY <1>6, <1>7, <2>2, HeldIs, HeldIsNext
  <2>4. Held' = Held  BY <1>8, <2>3
  <2>5. /\ [d \in Claims |-> Standing(attempts'[d])] = [d \in Claims |-> Standing(attempts[d])]
        /\ [d \in Claims |-> Tries(attempts'[d])] = [d \in Claims |-> Tries(attempts[d])]
      BY <1>4, <2>1
  <2>6. QED  BY <2>4, <2>5 DEF Promise!vars
<1>11. QED  BY <1>9, <1>10

\* A reconciliation settles the claim if the row is the latest, and does not show
\* otherwise.
LEMMA ReconcileIsReconcile ==
    ASSUME IInv, IInv', NEW c \in Claims, NEW i \in 1..Len(attempts[c]),
           NEW a \in ReconciliationActions, ReconcileAttempt(c, i, a)
    PROVE  [Promise!Next]_(Promise!vars)
<1> DEFINE rows == attempts[c]
<1> DEFINE new == Reconciled(rows, i, a)
<1>1. /\ CanReconcile(rows, i)
      /\ attempts' = [attempts EXCEPT ![c] = new]
      /\ row' = row /\ item' = item
    BY DEF ReconcileAttempt, workerVars
<1>2. RowsOK(rows)  BY DEF IInv, AttemptsOK
<1>3. /\ RowsOK(new) /\ Len(new) = Len(rows)
      /\ new[i].status = ReconciledStatus[a] /\ new[i].number = rows[i].number
      /\ \A j \in 1..Len(rows) : j # i => new[j] = rows[j]
  <2> HIDE DEF rows
  <2>1. i \in 1..Len(rows)  BY DEF rows
  <2>2. /\ RowsOK(new) /\ Len(new) = Len(rows)
        /\ new[i].action = a /\ a # "" /\ Holdable(new[i])
        /\ \A j \in 1..Len(rows) : j # i => new[j] = rows[j]
      BY <1>2, <2>1, ReconciledRows, ZenonT(60)
  <2>3. new[i].status = ReconciledStatus[a] /\ new[i].number = rows[i].number
      BY <1>2, <2>1, ReconciledRow, ZenonT(60)
  <2>4. QED  BY <2>2, <2>3
<1>4. /\ attempts'[c] = new
      /\ \A d \in Claims : d # c => attempts'[d] = attempts[d]
      /\ [d \in Claims |-> Standing(attempts'[d])] =
             [[d \in Claims |-> Standing(attempts[d])] EXCEPT ![c] = Standing(new)]
      /\ [d \in Claims |-> Tries(attempts'[d])] =
             [[d \in Claims |-> Tries(attempts[d])] EXCEPT ![c] = Tries(new)]
    BY <1>1, OneClaimChanges
<1> HIDE DEF new
<1>5. /\ Len(rows) \in 1..Len(rows) /\ rows # <<>> /\ Latest(rows) = rows[Len(rows)]
      /\ new # <<>> /\ Latest(new) = new[Len(rows)]
    BY <1>2, <1>3, LatestOf
<1>6. \A v \in Workers, d \in Claims : Holder(v, d)' <=> Holder(v, d)
    BY <1>1, <1>3, <1>4 DEF Holder
<1>7. Held' = Held
  <2>1. \A d \in Claims : d \in Held' <=> d \in Held  BY <1>6, HeldIs, HeldIsNext
  <2>2. Held \subseteq Claims /\ Held' \subseteq Claims  BY DEF Held
  <2>3. QED  BY <2>1, <2>2
<1>8. Tries(new) = Tries(rows)
    BY <1>3, <1>5 DEF Tries
<1>9. [d \in Claims |-> Tries(attempts'[d])] = [d \in Claims |-> Tries(attempts[d])]
    BY <1>4, <1>8
<1>10. CASE i = Len(rows)
  <2>1. Standing(rows) \notin {"none", "final", "confirmed"}
    <3>1. Latest(rows).status \in {"unknown", "in_progress", "failed", "not_submitted",
                                   "retry_approved"}
        BY <1>1, <1>5, <1>10 DEF CanReconcile
    <3>2. QED  BY <1>5, <3>1, StandingIs DEF Standing
  <2>2. Standing(new) \in {"confirmed", "approved"}
    <3>1. Latest(new).status \in {"submitted_manual", "not_submitted", "retry_approved"}
        BY <1>3, <1>5, <1>10 DEF ReconciledStatus, ReconciliationActions
    <3>2. QED  BY <1>5, <3>1, StandingIs DEF Standing
  <2>3. Promise!Reconcile(c)
      BY <1>4, <1>7, <1>9, <2>1, <2>2 DEF Promise!Reconcile
  <2>4. QED  BY <2>3 DEF Promise!Next
<1>11. CASE i # Len(rows)
  <2>1. Standing(new) = Standing(rows)
      BY <1>2, <1>3, <1>5, <1>11, SameLatest
  <2>2. [d \in Claims |-> Standing(attempts'[d])] = [d \in Claims |-> Standing(attempts[d])]
      BY <1>4, <2>1
  <2>3. QED  BY <1>7, <1>9, <2>2 DEF Promise!vars
<1>12. QED  BY <1>10, <1>11

\* What the legacy import leaves is what the promise starts from.
LEMMA PromiseInit == Init => Promise!Init
<1> SUFFICES ASSUME Init PROVE Promise!Init  OBVIOUS
<1> DEFINE Starts(rows) ==
        /\ Standing(rows) \in {"none", "uncertain", "final", "failed"}
        /\ Tries(rows) \in 0 .. MaxAttempts
        /\ Standing(rows) = "none" <=> Tries(rows) = 0
<1>1. \A n \in 1..MaxAttempts : n \in 0..MaxAttempts /\ n # 0  BY MaxAttemptsAssumption
<1>2. ASSUME NEW rows \in LegacyRows PROVE Starts(rows)
  <2>1. CASE rows = <<>>
      BY <2>1, MaxAttemptsAssumption DEF Standing, Tries
  <2>2. CASE rows # <<>>
    <3>1. PICK r \in [status : LegacyStatuses, number : 1..MaxAttempts, action : {""}] :
              rows = <<r>>
        BY <2>2 DEF LegacyRows
    <3>2. Latest(rows) = r  BY <3>1 DEF Latest
    <3>3. r.status \in {"submitted", "already_submitted", "rejected", "failed", "unknown"}
        BY <3>1, LegacyAssumption
    <3>4. Standing(rows) \in {"uncertain", "final", "failed"}
        BY <2>2, <3>2, <3>3, StandingIs DEF Standing
    <3>5. Tries(rows) \in 1..MaxAttempts  BY <2>2, <3>1, <3>2 DEF Tries
    <3>6. Standing(rows) # "none"  BY <3>4
    <3>7. QED  BY <1>1, <3>4, <3>5, <3>6
  <2>3. QED  BY <2>1, <2>2
<1>3. \A c \in Claims : Starts(attempts[c])  BY <1>2 DEF Init
<1>4. \A c \in Tombstoned : c \in Claims /\ Standing(attempts[c]) = "none"
    BY ClaimsAssumption DEF Init, Standing
<1>5. Held = {}  BY DEF Held, Holds, Init
<1>6. QED  BY <1>3, <1>4, <1>5 DEF Promise!Init

\* Every step of the program is a step that the promise allows, or does not show.
LEMMA PromiseStep == IInv /\ IInv' /\ [Next]_vars => [Promise!Next]_(Promise!vars)
<1> SUFFICES ASSUME IInv, IInv', [Next]_vars PROVE [Promise!Next]_(Promise!vars)  OBVIOUS
<1> DEFINE Kept == \A w \in Workers : /\ row'[w] = row[w]
                                      /\ row[w] # 0 => item'[w] = item[w]
<1>1. ASSUME NEW v \in Workers, Exits(v), UNCHANGED attempts
      PROVE  [Promise!Next]_(Promise!vars)
  <2>1. /\ row'[v] = 0
        /\ \A w \in Workers : w # v => row'[w] = row[w] /\ item'[w] = item[w]
      BY <1>1 DEF Exits, IInv, ControlOK
  <2>2. QED  BY <1>1, <2>1, DropStep
<1>2. CASE UserStep
  <2>1. CASE \E c \in Claims : \E i \in 1..Len(attempts[c]), a \in Answers :
                 ReconcileAttempt(c, i, a)
      BY <2>1, ReconcileIsReconcile, AnswersAssumption
  <2>2. CASE ForceStop
    <3>1. activeChild \in Workers /\ Exits(activeChild) /\ UNCHANGED attempts
        BY <2>2 DEF ForceStop, IInv, ControlOK, dbVars
    <3>2. QED  BY <1>1, <3>1
  <2>3. CASE \/ \E w \in Workers, selection \in SUBSET Claims : SubmitRun(w, selection)
             \/ SubmitRunRefused \/ RequestStop
    <3>1. UNCHANGED <<attempts, row, item>>
        BY <2>3 DEF SubmitRun, SubmitRunRefused, RequestStop, dbVars, workerVars
    <3>2. QED  BY <3>1, HiddenStep
  <2>4. QED  BY <1>2, <2>1, <2>2, <2>3 DEF UserStep
<1>3. ASSUME NEW w \in Workers, WorkerStep(w) PROVE [Promise!Next]_(Promise!vars)
  <2>1. CASE Startup(w)
    <3>1. attempts' = [c \in Claims |-> Interrupted(attempts[c])]  BY <2>1 DEF Startup
    <3>2. row[w] = 0  BY <2>1 DEF Startup, IInv, LocationsOK, Processing
    <3>3. Kept  BY <2>1, <3>2 DEF Startup, Exits, IInv, ControlOK
    <3>4. QED  BY <3>1, <3>3, MarkIsInterrupt
  <2>2. CASE BeginClaimAttempt(w)  BY <2>2, BeginIsTry
  <2>3. CASE CompleteClaimAttempt(w)
    <3>1. row[w] # 0 /\ outcome[w] \in Outcomes
        BY <2>3 DEF CompleteClaimAttempt, IInv, ControlOK, LocationsOK, Processing
    <3>2. /\ attempts' = [attempts EXCEPT ![item[w]] =
                             Completed(attempts[item[w]], row[w], outcome[w])]
          /\ row' = [row EXCEPT ![w] = 0]
          /\ \A v \in Workers : v # w => item'[v] = item[v]
        BY <2>3 DEF CompleteClaimAttempt, IInv, ControlOK
    <3>3. QED  BY <3>1, <3>2, RecordIsReport
  <2>4. CASE FatalError(w) /\ row[w] # 0
    <3>1. /\ attempts' = [attempts EXCEPT ![item[w]] =
                             Completed(attempts[item[w]], row[w], "unknown")]
          /\ row' = [row EXCEPT ![w] = 0]
          /\ \A v \in Workers : v # w => item'[v] = item[v]
        BY <2>4 DEF FatalError, Exits, IInv, ControlOK
    <3>2. "unknown" \in Outcomes  BY DEF Outcomes
    <3>3. QED  BY <2>4, <3>1, <3>2, RecordIsReport
  <2>5. CASE (FatalError(w) /\ row[w] = 0) \/ LoopEnds(w)
    <3>1. Exits(w) /\ UNCHANGED attempts  BY <2>5 DEF FatalError, LoopEnds, dbVars
    <3>2. QED  BY <1>1, <3>1
  <2>6. CASE \E c \in Claims : NextClaim(w, c)
    <3>1. row[w] = 0 /\ UNCHANGED <<attempts, row>>
        BY <2>6 DEF NextClaim, IInv, LocationsOK, Processing, dbVars
    <3>2. \A v \in Workers : v # w => item'[v] = item[v]
        BY <2>6 DEF NextClaim, IInv, ControlOK
    <3>3. Kept  BY <3>1, <3>2
    <3>4. QED  BY <3>1, <3>3, HiddenStep
  <2>7. CASE \/ Login(w) \/ RevalidationFails(w) \/ BeginThrows(w) \/ OpenTicketPopup(w)
             \/ FillFails(w) \/ ClickCreateTicket(w) \/ WaitForClaimOutcome(w) \/ WaitFails(w)
             \/ SaveEvidence(w) \/ CatchClaimError(w) \/ CompleteThrows(w)
             \/ ResetToTicketLauncher(w)
    <3>1. UNCHANGED <<attempts, row, item>>
        BY <2>7
        DEF Login, RevalidationFails, BeginThrows, OpenTicketPopup, FillFails, ClickCreateTicket,
            WaitForClaimOutcome, WaitFails, SaveEvidence, CatchClaimError, CompleteThrows,
            ResetToTicketLauncher, dbVars
    <3>2. QED  BY <3>1, HiddenStep
  <2>8. QED  BY <1>3, <2>1, <2>2, <2>3, <2>4, <2>5, <2>6, <2>7 DEF WorkerStep
<1>4. ASSUME NEW w \in Workers, SubmitRunStep(w) \/ ProcessGone(w) \/ WorkerDies(w)
      PROVE  [Promise!Next]_(Promise!vars)
  <2>1. CASE WorkerDies(w)
    <3>1. Exits(w) /\ UNCHANGED attempts  BY <2>1 DEF WorkerDies, dbVars
    <3>2. QED  BY <1>1, <3>1
  <2>2. CASE WorkerClosed(w)
    <3>1. /\ attempts' = [c \in Claims |-> Interrupted(attempts[c])] \/ UNCHANGED attempts
          /\ UNCHANGED <<row, item>>
        BY <2>2 DEF WorkerClosed
    <3>2. Kept  BY <3>1
    <3>3. QED  BY <3>1, <3>2, MarkIsInterrupt, HiddenStep
  <2>3. CASE SubmitRunStep(w) \/ CloseThrows(w) \/ OrphanGone(w)
    <3>1. UNCHANGED <<attempts, row, item>>
        BY <2>3
        DEF SubmitRunStep, HandshakeFails, Spawn, SpawnFails, CloseThrows, OrphanGone, dbVars
    <3>2. QED  BY <3>1, HiddenStep
  <2>4. QED  BY <1>4, <2>1, <2>2, <2>3 DEF ProcessGone
<1>5. CASE AppStart
  <2>1. /\ attempts' = [c \in Claims |-> Interrupted(attempts[c])]
        /\ UNCHANGED <<row, item>>
      BY <1>5 DEF AppStart, workerVars
  <2>2. QED  BY <2>1, MarkIsInterrupt
<1>6. CASE AppCrash \/ UNCHANGED vars
  <2>1. UNCHANGED <<attempts, row, item>>  BY <1>6 DEF AppCrash, dbVars, vars
  <2>2. QED  BY <2>1, HiddenStep
<1>7. QED  BY <1>2, <1>3, <1>4, <1>5, <1>6 DEF Next

\* Each claim behaves as if it were tried once at a time: the program implements
\* ClaimPromise, for every number of claims, workers and attempts.
THEOREM SequentialClaims == Spec => ClaimsAreSequential
<1>1. IInv /\ IInv' /\ [Next]_vars => [Promise!Next]_(Promise!vars)  BY PromiseStep
<1>2. IInv /\ [Next]_vars => IInv'  BY NextIInv
<1>3. QED
    BY <1>1, <1>2, Invariance, PromiseInit, PTL DEF Spec, ClaimsAreSequential, Promise!Spec
=============================================================================
