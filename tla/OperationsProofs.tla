--------------------------- MODULE OperationsProofs ---------------------------
(***************************************************************************)
(* Proofs about Operations: the exclusions hold for any number of calls.   *)
(*                                                                         *)
(* Each exclusion says of a place that certain tokens, and no others, are  *)
(* in the coordinator.  It is inductive only with what keeps the tokens    *)
(* and the places together: which places hold which token (PlacesOK), that *)
(* a section blocks every other section (SectionsOK), and that one update  *)
(* is under way at most (OneUpdate).                                       *)
(***************************************************************************)
EXTENDS Operations, TLAPS

-----------------------------------------------------------------------------
(* The inductive invariant.                                                *)

\* A worker that was spawned and whose end has not been seen belongs to a call
\* that waits for it.
ChildrenOK ==
    \A k \in Calls :
        child[k] \in {"starting", "alive", "closed"} => pc[k] \in {"worker", "submission"}

\* A worker's token is there from before its start until its end was seen.
WorkerTokens ==
    \A k \in Calls :
        Running(k) => \E t \in active : t.call = k /\ t.part = "worker"

\* A restore and a privacy deletion are synchronous: no other section runs.
SectionsOK ==
    \A k \in Calls : pc[k] \in {"restoring", "deleting"} => sync = k

\* The tokens in the coordinator while the assistant is open, or data is deleted.
AloneOK ==
    \A k \in Calls :
        /\ pc[k] = "assistant" => active = {Token("setup_assistant", k, "handler")}
        /\ pc[k] = "deleting" => active = {Token("privacy_deletion", k, "handler")}

\* One update is under way at most, ...
OneUpdate ==
    \A j, k \in Calls : pc[j] \in Updating /\ pc[k] \in Updating => j = k

\* ... and from its second check on it has locked an empty coordinator.
LockedOK ==
    \A k \in Calls : pc[k] \in {"marker", "replacing"} => updateLocked /\ active = {}

IInv ==
    /\ TypeOK
    /\ ChildrenOK
    /\ WorkerTokens
    /\ SectionsOK
    /\ AloneOK
    /\ OneUpdate
    /\ LockedOK

\* The places that a token, and activeChild, may belong to.
Releasable ==
    /\ \A t \in active :
          \/ t.part = "worker" /\ pc[t.call] \in {"worker", "submission", "unsettled"}
          \/ /\ t.part = "handler" /\ t.operation = "step3_live_run"
             /\ pc[t.call] \in {"preparing", "submission", "not_started", "ending", "thrown",
                                "unsettled"}
          \/ /\ t.part = "handler"
             /\ pc[t.call] \in {"restoring", "copying", "deleting", "assistant"}
    /\ activeChild # None => pc[activeChild] \in {"worker", "submission", "unsettled"}
-----------------------------------------------------------------------------
(* What the start of a section, and a begun operation, tell.               *)

\* No synchronous section of another call is halfway when one starts.
LEMMA SectionFacts ==
    ASSUME IInv, MainTurn, NEW k \in Calls
    PROVE  pc[k] \notin {"restoring", "deleting"}
  BY CallsAssumption DEF IInv, SectionsOK, MainTurn

\* begin adds one token, and succeeds only without the assistant and without
\* an update that is past its second check.
LEMMA BeginFacts ==
    ASSUME IInv, NEW operation \in OperationNames, NEW k \in Calls,
           NEW part \in {"handler", "worker"}, begin(operation, k, part)
    PROVE  /\ active' \subseteq Tokens
           /\ active \subseteq active'
           /\ Token(operation, k, part) \in active'
           /\ Token(operation, k, part).call = k
           /\ Token(operation, k, part).part = part
           /\ \A j \in Calls : pc[j] \notin {"marker", "replacing", "assistant"}
<1>1. Token(operation, k, part) \in Tokens
  BY DEF Token, Tokens
<1>2. active' = active \cup {Token(operation, k, part)}
  BY DEF begin
<1>3. active \subseteq Tokens
  BY DEF IInv, TypeOK
<1>4. \A j \in Calls : pc[j] \notin {"marker", "replacing"}
  BY DEF begin, MayBegin, IInv, LockedOK
<1>5. \A j \in Calls : pc[j] # "assistant"
  <2> SUFFICES ASSUME NEW j \in Calls, pc[j] = "assistant" PROVE FALSE
    OBVIOUS
  <2>1. active = {Token("setup_assistant", j, "handler")}
    BY DEF IInv, AloneOK
  <2>2. active # {} /\ hasActive("setup_assistant")
    BY <2>1 DEF hasActive, Token
  <2>3. QED
    BY <2>2 DEF begin, MayBegin, MainTurn, end, assertInactive, MemoryLost
<1>6. QED
  BY <1>1, <1>2, <1>3, <1>4, <1>5 DEF Token

\* end takes the tokens of one call away, and only those of one part.
LEMMA EndFacts ==
    ASSUME NEW k \in Calls, NEW part \in {"handler", "worker"}, end(k, part)
    PROVE  /\ active' \subseteq active
           /\ \A t \in active : t.call # k \/ t.part # part => t \in active'
           /\ \A j \in Calls, operation \in OperationNames :
                 j # k /\ active = {Token(operation, j, "handler")} => active' = active
           /\ active = {} => active' = {}
  BY DEF end, Token

-----------------------------------------------------------------------------
(* It is inductive.                                                        *)

\* Every step of every call, a quit, a crash and a restart keep IInv.
THEOREM Invariance == Spec => []IInv
<1>1. Init => IInv
  BY CallsAssumption
  DEF Init, IInv, TypeOK, ChildrenOK, WorkerTokens, SectionsOK, AloneOK, OneUpdate, LockedOK,
      Running, Updating, Places, Children
<1>2. IInv /\ [Next]_vars => IInv'
  <2> SUFFICES ASSUME IInv, [Next]_vars PROVE IInv'
    OBVIOUS
  <2> USE CallsAssumption, FaultsAssumption
      DEF IInv, TypeOK, ChildrenOK, WorkerTokens, SectionsOK, AloneOK, OneUpdate, LockedOK,
          Running, Updating, Places, Children, Goto
  <2>1. ASSUME NEW k \in Calls, WorkerRun(k) PROVE IInv'
    <3>1. /\ MainTurn
          /\ begin("data_worker", k, "worker")
      BY <2>1 DEF WorkerRun
    <3>2. /\ active' \subseteq Tokens
          /\ active \subseteq active'
          /\ \E t \in active' : t.call = k /\ t.part = "worker"
          /\ \A j \in Calls : pc[j] \notin {"marker", "replacing", "assistant"}
      BY <3>1, BeginFacts DEF OperationNames
    <3>3. \A j \in Calls : pc[j] \notin {"restoring", "deleting"}
      BY <3>1, SectionFacts
    <3>4. QED
      BY <2>1, <3>2, <3>3 DEF WorkerRun
  <2>2. ASSUME NEW k \in Calls, ChildStarts(k) PROVE IInv'
    BY <2>2 DEF ChildStarts, MainTurn, end, assertInactive, MemoryLost
  <2>3. ASSUME NEW k \in Calls, ChildDies(k) PROVE IInv'
    BY <2>3 DEF ChildDies, MainTurn, end, assertInactive, MemoryLost
  <2>4. ASSUME NEW k \in Calls, Finish(k) PROVE IInv'
    <3>1. end(k, "worker")
      BY <2>4 DEF Finish
    <3>2. /\ active' \subseteq active
          /\ \A t \in active : t.call # k \/ t.part # "worker" => t \in active'
          /\ \A j \in Calls, operation \in OperationNames :
                j # k /\ active = {Token(operation, j, "handler")} => active' = active
          /\ active = {} => active' = {}
      BY <3>1, EndFacts
    <3>3. QED
      BY <2>4, <3>2 DEF Finish, MainTurn, OperationNames
  <2>5. ASSUME NEW k \in Calls, SubmitRun(k) PROVE IInv'
    <3>1. /\ MainTurn
          /\ begin("step3_live_run", k, "handler")
      BY <2>5 DEF SubmitRun
    <3>2. /\ active' \subseteq Tokens
          /\ active \subseteq active'
          /\ \E t \in active' : t.call = k /\ t.part = "handler"
          /\ \A j \in Calls : pc[j] \notin {"marker", "replacing", "assistant"}
      BY <3>1, BeginFacts DEF OperationNames
    <3>3. \A j \in Calls : pc[j] \notin {"restoring", "deleting"}
      BY <3>1, SectionFacts
    <3>4. QED
      BY <2>5, <3>2, <3>3 DEF SubmitRun
  <2>6. ASSUME NEW k \in Calls, SubmitSetupThrows(k) PROVE IInv'
    <3>1. /\ MainTurn
          /\ begin("step3_live_run", k, "handler")
      BY <2>6 DEF SubmitSetupThrows
    <3>2. /\ active' \subseteq Tokens
          /\ active \subseteq active'
          /\ \E t \in active' : t.call = k /\ t.part = "handler"
          /\ \A j \in Calls : pc[j] \notin {"marker", "replacing", "assistant"}
      BY <3>1, BeginFacts DEF OperationNames
    <3>3. \A j \in Calls : pc[j] \notin {"restoring", "deleting"}
      BY <3>1, SectionFacts
    <3>4. QED
      BY <2>6, <3>2, <3>3 DEF SubmitSetupThrows
  <2>7. ASSUME NEW k \in Calls, HandshakeFails(k) PROVE IInv'
    <3>1. end(k, "handler")
      BY <2>7 DEF HandshakeFails
    <3>2. /\ active' \subseteq active
          /\ \A t \in active : t.call # k \/ t.part # "handler" => t \in active'
          /\ \A j \in Calls, operation \in OperationNames :
                j # k /\ active = {Token(operation, j, "handler")} => active' = active
          /\ active = {} => active' = {}
      BY <3>1, EndFacts
    <3>3. QED
      BY <2>7, <3>2 DEF HandshakeFails, MainTurn, OperationNames
  <2>8. ASSUME NEW k \in Calls, SpawnSubmission(k) PROVE IInv'
    <3>1. /\ MainTurn
          /\ begin("step3_live_run", k, "worker")
      BY <2>8 DEF SpawnSubmission
    <3>2. /\ active' \subseteq Tokens
          /\ active \subseteq active'
          /\ \E t \in active' : t.call = k /\ t.part = "worker"
          /\ \A j \in Calls : pc[j] \notin {"marker", "replacing", "assistant"}
      BY <3>1, BeginFacts DEF OperationNames
    <3>3. \A j \in Calls : pc[j] \notin {"restoring", "deleting"}
      BY <3>1, SectionFacts
    <3>4. QED
      BY <2>8, <3>2, <3>3 DEF SpawnSubmission
  <2>9. ASSUME NEW k \in Calls, PreparationThrows(k) PROVE IInv'
    BY <2>9 DEF PreparationThrows, MainTurn, end, assertInactive, MemoryLost
  <2>10. ASSUME NEW k \in Calls, SubmitEnds(k) PROVE IInv'
    <3>1. end(k, "handler")
      BY <2>10 DEF SubmitEnds
    <3>2. /\ active' \subseteq active
          /\ \A t \in active : t.call # k \/ t.part # "handler" => t \in active'
          /\ \A j \in Calls, operation \in OperationNames :
                j # k /\ active = {Token(operation, j, "handler")} => active' = active
          /\ active = {} => active' = {}
      BY <3>1, EndFacts
    <3>3. QED
      BY <2>10, <3>2 DEF SubmitEnds, MainTurn, OperationNames
  <2>11. ASSUME NEW k \in Calls, RestoreRequested(k) PROVE IInv'
    BY <2>11 DEF RestoreRequested, MainTurn, end, assertInactive, MemoryLost
  <2>12. ASSUME NEW k \in Calls, Restore(k) PROVE IInv'
    <3>1. /\ MainTurn
          /\ begin("backup_restore", k, "handler")
      BY <2>12 DEF Restore
    <3>2. /\ active' \subseteq Tokens
          /\ active \subseteq active'
          /\ \E t \in active' : t.call = k /\ t.part = "handler"
          /\ \A j \in Calls : pc[j] \notin {"marker", "replacing", "assistant"}
      BY <3>1, BeginFacts DEF OperationNames
    <3>3. \A j \in Calls : pc[j] \notin {"restoring", "deleting"}
      BY <3>1, SectionFacts
    <3>4. QED
      BY <2>12, <3>2, <3>3 DEF Restore
  <2>13. ASSUME NEW k \in Calls, CopyRequested(k) PROVE IInv'
    BY <2>13 DEF CopyRequested, MainTurn, end, assertInactive, MemoryLost
  <2>14. ASSUME NEW k \in Calls, Copy(k) PROVE IInv'
    <3>1. /\ MainTurn
          /\ begin("data_copy", k, "handler")
      BY <2>14 DEF Copy
    <3>2. /\ active' \subseteq Tokens
          /\ active \subseteq active'
          /\ \E t \in active' : t.call = k /\ t.part = "handler"
          /\ \A j \in Calls : pc[j] \notin {"marker", "replacing", "assistant"}
      BY <3>1, BeginFacts DEF OperationNames
    <3>3. \A j \in Calls : pc[j] \notin {"restoring", "deleting"}
      BY <3>1, SectionFacts
    <3>4. QED
      BY <2>14, <3>2, <3>3 DEF Copy
  <2>15. ASSUME NEW k \in Calls, DialogEnds(k) PROVE IInv'
    BY <2>15 DEF DialogEnds, MainTurn, end, assertInactive, MemoryLost
  <2>16. ASSUME NEW k \in Calls, DeletePrivacyData(k) PROVE IInv'
    <3>1. /\ MainTurn
          /\ begin("privacy_deletion", k, "handler")
      BY <2>16 DEF DeletePrivacyData
    <3>2. /\ active' \subseteq Tokens
          /\ active \subseteq active'
          /\ \E t \in active' : t.call = k /\ t.part = "handler"
          /\ \A j \in Calls : pc[j] \notin {"marker", "replacing", "assistant"}
      BY <3>1, BeginFacts DEF OperationNames
    <3>3. \A j \in Calls : pc[j] \notin {"restoring", "deleting"}
      BY <3>1, SectionFacts
    <3>4. active' = {Token("privacy_deletion", k, "handler")}
      BY <2>16 DEF DeletePrivacyData, assertInactive, begin
    <3>5. \A j \in Calls : ~ Running(j)
      BY <2>16 DEF DeletePrivacyData, assertInactive
    <3>6. QED
      BY <2>16, <3>2, <3>3, <3>4, <3>5 DEF DeletePrivacyData
  <2>17. ASSUME NEW k \in Calls, OpenAssistant(k) PROVE IInv'
    <3>1. /\ MainTurn
          /\ begin("setup_assistant", k, "handler")
      BY <2>17 DEF OpenAssistant
    <3>2. /\ active' \subseteq Tokens
          /\ active \subseteq active'
          /\ \E t \in active' : t.call = k /\ t.part = "handler"
          /\ \A j \in Calls : pc[j] \notin {"marker", "replacing", "assistant"}
      BY <3>1, BeginFacts DEF OperationNames
    <3>3. \A j \in Calls : pc[j] \notin {"restoring", "deleting"}
      BY <3>1, SectionFacts
    <3>4. active' = {Token("setup_assistant", k, "handler")}
      BY <2>17 DEF OpenAssistant, assertInactive, begin
    <3>5. \A j \in Calls : ~ Running(j)
      BY <2>17 DEF OpenAssistant, assertInactive
    <3>6. QED
      BY <2>17, <3>2, <3>3, <3>4, <3>5 DEF OpenAssistant
  <2>18. ASSUME NEW k \in Calls, HandlerEnds(k) PROVE IInv'
    <3>1. end(k, "handler")
      BY <2>18 DEF HandlerEnds
    <3>2. /\ active' \subseteq active
          /\ \A t \in active : t.call # k \/ t.part # "handler" => t \in active'
          /\ \A j \in Calls, operation \in OperationNames :
                j # k /\ active = {Token(operation, j, "handler")} => active' = active
          /\ active = {} => active' = {}
      BY <3>1, EndFacts
    <3>3. QED
      BY <2>18, <3>2 DEF HandlerEnds, MainTurn, OperationNames
  <2>19. ASSUME NEW k \in Calls, PrepareInstall(k) PROVE IInv'
    BY <2>19 DEF PrepareInstall, MainTurn, end, assertInactive, MemoryLost
  <2>20. ASSUME NEW k \in Calls, LockForUpdate(k) PROVE IInv'
    BY <2>20 DEF LockForUpdate, MainTurn, end, assertInactive, MemoryLost
  <2>21. ASSUME NEW k \in Calls, StartReplacement(k) PROVE IInv'
    BY <2>21 DEF StartReplacement, MainTurn, end, assertInactive, MemoryLost
  <2>22. ASSUME NEW k \in Calls, FinishReplacement(k) PROVE IInv'
    BY <2>22 DEF FinishReplacement, MainTurn, end, assertInactive, MemoryLost
  <2>23. ASSUME NEW k \in Calls, InstallFails(k) PROVE IInv'
    <3>1. CASE pc[k] = "backup"
      BY <2>23, <3>1 DEF InstallFails
    <3>2. CASE pc[k] # "backup"
      BY <2>23, <3>2 DEF InstallFails
    <3>3. QED
      BY <3>1, <3>2
  <2>24. ASSUME NEW k \in Calls, QuitPrevented(k) PROVE IInv'
    BY <2>24 DEF QuitPrevented, MainTurn, end, assertInactive, MemoryLost
  <2>25. CASE Quit
    BY <2>25 DEF Quit, MainTurn, end, assertInactive, MemoryLost
  <2>26. CASE Crash
    BY <2>26 DEF Crash, MainTurn, end, assertInactive, MemoryLost
  <2>27. CASE Start
    BY <2>27 DEF Start, MainTurn, end, assertInactive, MemoryLost
  <2>28. ASSUME NEW k \in Calls, FinishThrows(k) PROVE IInv'
    BY <2>28 DEF FinishThrows, MainTurn, end, assertInactive, MemoryLost
  <2>29. CASE UNCHANGED vars
    BY <2>29 DEF vars
  <2>30. QED
    BY <2>1, <2>2, <2>3, <2>4, <2>5, <2>6, <2>7, <2>8, <2>9, <2>10, <2>11, <2>12, <2>13, <2>14,
       <2>15, <2>16, <2>17, <2>18, <2>19, <2>20, <2>21, <2>22, <2>23, <2>24, <2>25, <2>26, <2>27,
       <2>28, <2>29
    DEF Next, WorkerStep, SubmissionStep, DataStep, UpdateStep
<1>3. QED
  BY <1>1, <1>2, PTL DEF Spec
-----------------------------------------------------------------------------
(* What follows from it.                                                   *)

\* Every variable keeps its type.
THEOREM TypeCorrect == Spec => []TypeOK
<1>1. IInv => TypeOK
  BY DEF IInv
<1>2. QED
  BY <1>1, Invariance, PTL

\* Every worker runs under a token of its own until its end was seen, for any
\* number of calls: whoever asks the coordinator sees all the workers of this
\* app, although activeChild names one at most.
THEOREM WorkersRunProtected == Spec => []WorkersAreProtected
<1>1. IInv => WorkersAreProtected
  BY DEF IInv, WorkerTokens, WorkersAreProtected
<1>2. QED
  BY <1>1, Invariance, PTL

\* A coordinator that is empty, or holds nothing but a handler's token, knows
\* of no worker: there is none.
LEMMA NoWorkerBeside ==
    ASSUME IInv, NEW operation, NEW k, active \subseteq {Token(operation, k, "handler")}
    PROVE  \A other \in Calls : ~ Running(other)
  BY DEF IInv, WorkerTokens, Token

\* The setup assistant runs beside no operation and no worker.
THEOREM AssistantRunsAlone == Spec => []SetupAssistantAlone
<1>1. ASSUME IInv PROVE SetupAssistantAlone
  <2> SUFFICES ASSUME NEW k \in Calls, pc[k] = "assistant"
               PROVE  /\ active = {Token("setup_assistant", k, "handler")}
                      /\ \A other \in Calls : ~ Running(other)
    BY DEF SetupAssistantAlone
  <2>1. active = {Token("setup_assistant", k, "handler")}
    BY <1>1 DEF IInv, AloneOK
  <2>2. QED
    BY <1>1, <2>1, NoWorkerBeside
<1>2. QED
  BY <1>1, Invariance, PTL

\* A privacy deletion runs beside no operation and no worker.
THEOREM DeletionRunsAlone == Spec => []PrivacyDeletionAlone
<1>1. ASSUME IInv PROVE PrivacyDeletionAlone
  <2> SUFFICES ASSUME NEW k \in Calls, pc[k] = "deleting"
               PROVE  /\ active = {Token("privacy_deletion", k, "handler")}
                      /\ \A other \in Calls : ~ Running(other)
    BY DEF PrivacyDeletionAlone
  <2>1. active = {Token("privacy_deletion", k, "handler")}
    BY <1>1 DEF IInv, AloneOK
  <2>2. QED
    BY <1>1, <2>1, NoWorkerBeside
<1>2. QED
  BY <1>1, Invariance, PTL

\* The executable is replaced beside no operation and no worker.
THEOREM ReplacementRunsAlone == Spec => []ReplacementExcludesOperations
<1>1. ASSUME IInv PROVE ReplacementExcludesOperations
  <2> SUFFICES ASSUME NEW k \in Calls, pc[k] \in {"marker", "replacing"}
               PROVE  /\ updateLocked
                      /\ active = {}
                      /\ \A other \in Calls : ~ Running(other)
    BY DEF ReplacementExcludesOperations
  <2>1. updateLocked /\ active = {}
    BY <1>1 DEF IInv, LockedOK
  <2>2. QED
    BY <1>1, <2>1, NoWorkerBeside
<1>2. QED
  BY <1>1, Invariance, PTL

\* The three together: what must run alone runs alone.
THEOREM ExclusionsHold == Spec => []RunsAlone
<1>1. SetupAssistantAlone /\ PrivacyDeletionAlone /\ ReplacementExcludesOperations => RunsAlone
  BY DEF RunsAlone
<1>2. QED
  BY <1>1, AssistantRunsAlone, DeletionRunsAlone, ReplacementRunsAlone, PTL

\* An orderly quit leaves no worker behind: only Quit ends the app so, and it
\* asks the coordinator.
THEOREM QuitIsClean == Spec => QuitLeavesNoWorker
<1>1. ASSUME IInv, [Next]_vars, app = "up", app' = "exited"
      PROVE  \A k \in Calls : ~ Running(k)
  <2>1. CASE Quit
    BY <1>1, <2>1 DEF Quit, assertInactive, IInv, WorkerTokens
  <2>2. CASE ~ Quit
    <3>1. app' = app \/ app' = "crashed" \/ app' = "up"
      BY <1>1, <2>2
      DEF Next, vars, WorkerStep, SubmissionStep, DataStep, UpdateStep, Crash, Start,
          WorkerRun, ChildStarts, ChildDies, Finish, SubmitRun, SubmitSetupThrows,
          HandshakeFails, SpawnSubmission, PreparationThrows, SubmitEnds, RestoreRequested,
          Restore, CopyRequested, Copy, DialogEnds, DeletePrivacyData, OpenAssistant,
          HandlerEnds, PrepareInstall, LockForUpdate, StartReplacement, FinishReplacement,
          InstallFails, QuitPrevented, FinishThrows
    <3>2. QED
      BY <1>1, <3>1
  <2>3. QED
    BY <2>1, <2>2
<1>2. IInv /\ [Next]_vars =>
        [app = "up" /\ app' = "exited" => \A k \in Calls : ~ Running(k)]_vars
  BY <1>1
<1>3. QED
  BY <1>2, Invariance, PTL DEF Spec, QuitLeavesNoWorker

-----------------------------------------------------------------------------
(* Tokens are released.                                                    *)

\* Only a submission whose start throws, and a worker whose end handler throws in
\* its log, leave tokens or activeChild: no other step lets a call end with either.
THEOREM OnlyThrowsLeakTokens == Spec => []OnlyThrowsLeak
<1>1. Init => Releasable
  BY DEF Init, Releasable
<1>2. IInv /\ Releasable /\ [Next]_vars => Releasable'
  <2> SUFFICES ASSUME IInv, Releasable, [Next]_vars PROVE Releasable'
    OBVIOUS
  <2> USE CallsAssumption DEF Releasable, IInv, TypeOK, ChildrenOK, Goto
  <2>1. ASSUME NEW k \in Calls, WorkerRun(k) PROVE Releasable'
    BY <2>1 DEF WorkerRun, begin, Token, Tokens
  <2>2. ASSUME NEW k \in Calls, ChildStarts(k) PROVE Releasable'
    BY <2>2 DEF ChildStarts
  <2>3. ASSUME NEW k \in Calls, ChildDies(k) PROVE Releasable'
    BY <2>3 DEF ChildDies
  <2>4. ASSUME NEW k \in Calls, Finish(k) PROVE Releasable'
    BY <2>4 DEF Finish, end, Tokens
  <2>5. ASSUME NEW k \in Calls, SubmitRun(k) PROVE Releasable'
    BY <2>5 DEF SubmitRun, begin, Token, Tokens
  <2>6. ASSUME NEW k \in Calls, SubmitSetupThrows(k) PROVE Releasable'
    BY <2>6 DEF SubmitSetupThrows, begin, Token, Tokens
  <2>7. ASSUME NEW k \in Calls, HandshakeFails(k) PROVE Releasable'
    BY <2>7 DEF HandshakeFails, end, Tokens
  <2>8. ASSUME NEW k \in Calls, SpawnSubmission(k) PROVE Releasable'
    BY <2>8 DEF SpawnSubmission, begin, Token, Tokens
  <2>9. ASSUME NEW k \in Calls, PreparationThrows(k) PROVE Releasable'
    BY <2>9 DEF PreparationThrows
  <2>10. ASSUME NEW k \in Calls, SubmitEnds(k) PROVE Releasable'
    BY <2>10 DEF SubmitEnds, end, Tokens
  <2>11. ASSUME NEW k \in Calls, RestoreRequested(k) PROVE Releasable'
    BY <2>11 DEF RestoreRequested, Tokens, Updating
  <2>12. ASSUME NEW k \in Calls, Restore(k) PROVE Releasable'
    BY <2>12 DEF Restore, begin, Token, Tokens
  <2>13. ASSUME NEW k \in Calls, CopyRequested(k) PROVE Releasable'
    BY <2>13 DEF CopyRequested, Tokens, Updating
  <2>14. ASSUME NEW k \in Calls, Copy(k) PROVE Releasable'
    BY <2>14 DEF Copy, begin, Token, Tokens
  <2>15. ASSUME NEW k \in Calls, DialogEnds(k) PROVE Releasable'
    BY <2>15 DEF DialogEnds, Tokens, Updating
  <2>16. ASSUME NEW k \in Calls, DeletePrivacyData(k) PROVE Releasable'
    BY <2>16 DEF DeletePrivacyData, begin, Token, Tokens
  <2>17. ASSUME NEW k \in Calls, OpenAssistant(k) PROVE Releasable'
    BY <2>17 DEF OpenAssistant, begin, Token, Tokens
  <2>18. ASSUME NEW k \in Calls, HandlerEnds(k) PROVE Releasable'
    BY <2>18 DEF HandlerEnds, end, Tokens
  <2>19. ASSUME NEW k \in Calls, PrepareInstall(k) PROVE Releasable'
    BY <2>19 DEF PrepareInstall, Tokens, Updating
  <2>20. ASSUME NEW k \in Calls, LockForUpdate(k) PROVE Releasable'
    BY <2>20 DEF LockForUpdate, Tokens, Updating
  <2>21. ASSUME NEW k \in Calls, StartReplacement(k) PROVE Releasable'
    BY <2>21 DEF StartReplacement, Tokens, Updating
  <2>22. ASSUME NEW k \in Calls, FinishReplacement(k) PROVE Releasable'
    BY <2>22 DEF FinishReplacement, Tokens, Updating
  <2>23. ASSUME NEW k \in Calls, InstallFails(k) PROVE Releasable'
    BY <2>23 DEF InstallFails, Tokens, Updating
  <2>24. ASSUME NEW k \in Calls, QuitPrevented(k) PROVE Releasable'
    BY <2>24 DEF QuitPrevented, Tokens, Updating
  <2>25. CASE Quit
    BY <2>25 DEF Quit, MemoryLost
  <2>26. CASE Crash
    BY <2>26 DEF Crash, MemoryLost
  <2>27. CASE Start
    BY <2>27 DEF Start
  <2>28. ASSUME NEW k \in Calls, FinishThrows(k) PROVE Releasable'
    BY <2>28 DEF FinishThrows, Tokens
  <2>29. CASE UNCHANGED vars
    BY <2>29 DEF vars
  <2>30. QED
    BY <2>1, <2>2, <2>3, <2>4, <2>5, <2>6, <2>7, <2>8, <2>9, <2>10, <2>11, <2>12, <2>13, <2>14,
       <2>15, <2>16, <2>17, <2>18, <2>19, <2>20, <2>21, <2>22, <2>23, <2>24, <2>25, <2>26, <2>27,
       <2>28, <2>29
    DEF Next, WorkerStep, SubmissionStep, DataStep, UpdateStep
<1>3. Releasable => OnlyThrowsLeak
  BY DEF Releasable, OnlyThrowsLeak
<1>4. QED
  BY <1>1, <1>2, <1>3, Invariance, PTL DEF Spec
=============================================================================
