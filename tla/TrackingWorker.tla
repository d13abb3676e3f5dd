--------------------------- MODULE TrackingWorker ---------------------------
(***************************************************************************)
(* The traversal of a Step 2 worker: the loop of scripts/get-tracking.js,  *)
(* the limiter it sends every lookup through, the client with its one      *)
(* retry after a refused token, the token cache, and the two circuit       *)
(* breakers.                                                               *)
(*                                                                         *)
(* The worker is sequential; what makes it hard is that a lookup waits in  *)
(* five places, each with an error of its own, that three layers retry,    *)
(* and that a stop request, polled every 100 ms, may fall anywhere.  Time  *)
(* passes in units; ages are kept only up to what is compared with them.   *)
(* What happens after the traversal is module TrackingRun.                 *)
(***************************************************************************)
EXTENDS Integers, FiniteSets

CONSTANTS
    Total,      \* shipments of the workload
    Interval,   \* the limiter's delayMs, in units
    Throttle,   \* SLM_THROTTLE_MINIMUM_WAIT_MS, in units
    Backoff,    \* the other waits before a retry, in units
    Retries,    \* maxTransientRetries
    Threshold,  \* of SystemicCircuitBreaker
    SampleSize, \* of SemanticCircuitBreaker
    Depth       \* requests whose ages are remembered

ASSUME WorkloadAssumption == Total \in Nat \ {0}
ASSUME PacingAssumption == Interval \in Nat \ {0} /\ Throttle \in Nat /\ Backoff \in Nat
ASSUME LimitsAssumption == Retries \in Nat /\ Threshold \in Nat \ {0} /\ SampleSize \in Nat \ {0}
ASSUME DepthAssumption == Depth \in Nat \ {0, 1}

Items == 1 .. Total
Latest == 1 .. Depth
Longest == IF Throttle > (Depth - 1) * Interval THEN Throttle ELSE (Depth - 1) * Interval

VARIABLES
    pc,          \* where the loop awaits
    item,        \* the shipment it is at, Total + 1 after the last
    result,      \* what became of each shipment: a terminal category or an error
    attempt,     \* of SequentialRateLimiter.execute
    refreshed,   \* of TrackingClient.getTracking
    token,       \* TokenManager.cached
    waiting,     \* what is left of a wait before a retry
    sinceStart,  \* age of lastStartedAt
    sends,       \* ages of the latest requests to the tracking resource, newest first
    throttled,   \* age of a throttling answer to the current lookup, -1 without
    requests,    \* requests to the resource for the current shipment
    streak,      \* the circuit breaker's fingerprint and count
    samples,     \* the semantic breaker's samples, and how many share its reason
    open,        \* is one of the circuits open, or did an invariant fail?
    errors,      \* the worker's counters
    checked,
    stopFile,    \* does STOP_FILE exist?
    aborted,     \* cancellation.signal
    stopped

pacing  == <<waiting, sinceStart, sends, throttled>>
lookup  == <<attempt, refreshed, requests>>
breaker == <<streak, samples, open>>
tally   == <<result, errors, checked>>
stop    == <<stopFile, aborted, stopped>>
vars    == <<pc, item, token, pacing, lookup, breaker, tally, stop>>

\* The errors that an answer may be, by the fingerprint they have.
Transient == {"throttle", "gateway"}
Failures == Transient \cup {"unauthorized", "request", "token"}
\* A misread answer is one that the token server gave to the worker's request
\* for a token: its 404 reads like the resource's.
Terminal == {"found", "cached", "not_found", "misread"}

Awaiting == {"pace", "token", "sent", "refresh", "repace", "backoff"}
Ends == {"complete", "incomplete"}

\* Ages stop where nothing tells them apart any more.
Older(age) == IF age < Longest THEN age + 1 ELSE Longest

Init ==
    /\ pc = "head" /\ item = 1 /\ token = "none"
    /\ result = [i \in Items |-> "none"]
    /\ waiting = 0
    /\ sinceStart = Longest /\ sends = [j \in Latest |-> Longest]
    /\ throttled = -1
    /\ attempt = 0 /\ refreshed = FALSE /\ requests = 0
    /\ streak = [kind |-> "none", count |-> 0]
    /\ samples = [taken |-> 0, odd |-> 0]
    /\ open = FALSE
    /\ errors = 0 /\ checked = 0
    /\ stopFile \in BOOLEAN
    /\ aborted = FALSE /\ stopped = FALSE

-----------------------------------------------------------------------------
(* The environment.                                                        *)

\* Time passes while the worker awaits something; a timer may be late.
Elapse ==
    /\ pc \in Awaiting
    /\ waiting' = IF waiting > 0 THEN waiting - 1 ELSE 0
    /\ sinceStart' = Older(sinceStart)
    /\ sends' = [j \in Latest |-> Older(sends[j])]
    /\ throttled' = IF throttled < 0 THEN throttled ELSE Older(throttled)
    /\ UNCHANGED <<pc, item, token, lookup, breaker, tally, stop>>

RequestStop ==
    /\ pc \notin Ends
    /\ stopFile' = TRUE
    /\ UNCHANGED <<pc, item, token, pacing, lookup, breaker, tally, aborted, stopped>>

\* The timer that polls STOP_FILE fires while the loop awaits.
Poll ==
    /\ pc \in Awaiting
    /\ stopFile
    /\ aborted' = TRUE
    /\ UNCHANGED <<pc, item, token, pacing, lookup, breaker, tally, stopFile, stopped>>

-----------------------------------------------------------------------------
(* The loop.                                                               *)

\* No further shipment is looked at.
LeaveLoop == pc' = "verdict"

\* The next shipment begins without the traces of this one.
NextItem ==
    /\ pc' = IF item = Total THEN "verdict" ELSE "head"
    /\ item' = item + 1
    /\ attempt' = 0 /\ refreshed' = FALSE /\ requests' = 0
    /\ throttled' = -1 /\ waiting' = 0

Record(kind) ==
    /\ result' = [result EXCEPT ![item] = kind]
    /\ checked' = checked + 1
    /\ errors' = IF kind \in Terminal THEN errors ELSE errors + 1

HeadStops ==
    /\ pc = "head"
    /\ stopFile
    /\ stopped' = TRUE
    /\ LeaveLoop
    /\ UNCHANGED <<item, token, pacing, lookup, breaker, tally, stopFile, aborted>>

\* Confirmed on time by an earlier run: counted, without a request.
HeadSkips ==
    /\ pc = "head"
    /\ ~stopFile
    /\ Record("cached")
    /\ NextItem
    /\ UNCHANGED <<token, sinceStart, sends, breaker, stop>>

HeadLooksUp ==
    /\ pc = "head"
    /\ ~stopFile
    /\ pc' = "pace"
    /\ UNCHANGED <<item, token, pacing, lookup, breaker, tally, stop>>

\* Each await of the lookup is refused once the signal is set, and the loop
\* ends without recording the shipment.
Cancel ==
    /\ pc \in Awaiting
    /\ aborted
    /\ stopped' = TRUE
    /\ LeaveLoop
    /\ UNCHANGED <<item, token, pacing, lookup, breaker, tally, stopFile, aborted>>

-----------------------------------------------------------------------------
(* SequentialRateLimiter and TrackingClient.                               *)

Paced == sinceStart >= Interval

\* Mutant of the next definition: the retry after a refused token is not paced.
StartWithoutPace ==
    /\ \/ pc = "pace" /\ Paced /\ pc' = "token"
       \/ pc = "repace" /\ pc' = "send"
    /\ ~aborted
    /\ sinceStart' = 0
    /\ UNCHANGED <<item, token, waiting, sends, throttled, lookup, breaker, tally, stop>>

\* waitForRequestStart: the interval has passed, and the start is stamped.
\* Before the first request of an attempt the token is still to be had.
Start ==
    /\ Paced
    /\ \/ pc = "pace" /\ pc' = "token"
       \/ pc = "repace" /\ pc' = "send"
    /\ ~aborted
    /\ sinceStart' = 0
    /\ UNCHANGED <<item, token, waiting, sends, throttled, lookup, breaker, tally, stop>>

\* Mutant of the next definition: the token is asked for without the signal.
TokenWithoutSignal ==
    /\ pc \in {"token", "refresh"}
    /\ token' \in {token, "fresh"} \ {"none"}
    /\ pc' = IF pc = "token" THEN "send" ELSE "repace"
    /\ UNCHANGED <<item, pacing, lookup, breaker, tally, stop>>

\* getToken: a cached token that has not expired, or a new one.  With the
\* signal set neither a token nor the resource is requested any more.
GetToken ==
    /\ pc \in {"token", "refresh"}
    /\ ~aborted
    /\ token' \in {token, "fresh"} \ {"none"}
    /\ pc' = IF pc = "token" THEN "send" ELSE "repace"
    /\ UNCHANGED <<item, pacing, lookup, breaker, tally, stop>>

\* The request leaves; nothing is awaited between token or start and this.
Send ==
    /\ pc = "send"
    /\ pc' = "sent"
    /\ requests' = requests + 1
    /\ sends' = [j \in Latest |-> IF j = 1 THEN 0 ELSE sends[j - 1]]
    /\ throttled' = -1
    /\ UNCHANGED <<item, token, waiting, sinceStart, attempt, refreshed, breaker, tally, stop>>

\* Mutant of the next definition: the refresh is allowed each time.
RefreshAgain ==
    /\ pc = "sent"
    /\ token' = "none"
    /\ pc' = "refresh"
    /\ refreshed' = FALSE
    /\ UNCHANGED <<item, pacing, attempt, requests, breaker, tally, stop>>

\* The first 401 of an attempt: the token is dropped and another one asked for.
Refresh ==
    /\ pc = "sent"
    /\ ~refreshed
    /\ ~aborted
    /\ token' = "none"
    /\ pc' = "refresh"
    /\ refreshed' = TRUE
    /\ UNCHANGED <<item, pacing, attempt, requests, breaker, tally, stop>>

\* What the client throws: an answer of the resource, or of the token server,
\* whose failures drop the token too.
Failing(kind) ==
    \/ /\ pc = "sent"
       /\ kind \in Transient \cup {"request"} \cup (IF refreshed THEN {"unauthorized"} ELSE {})
       /\ token' = IF kind = "unauthorized" THEN "none" ELSE token
    \/ /\ pc \in {"token", "refresh"}
       /\ kind \in {"token", "gateway", "throttle"}
       /\ token' = "none"

\* Mutant of the next definition: the attempts are not counted.
RetryForever(kind) ==
    /\ kind \in Transient
    /\ Failing(kind)
    /\ ~aborted
    /\ pc' = "backoff"
    /\ attempt' = attempt
    /\ waiting' = IF kind = "throttle" THEN Throttle ELSE Backoff
    /\ throttled' = IF kind = "throttle" THEN 0 ELSE throttled
    /\ UNCHANGED <<item, sinceStart, sends, refreshed, requests, breaker, tally, stop>>

\* The limiter tries transient failures again, each as a new attempt, a
\* throttled one after the longer wait.
Retry(kind) ==
    /\ kind \in Transient
    /\ attempt < Retries
    /\ Failing(kind)
    /\ ~aborted
    /\ pc' = "backoff"
    /\ attempt' = attempt + 1
    /\ waiting' = IF kind = "throttle" THEN Throttle ELSE Backoff
    /\ throttled' = IF kind = "throttle" THEN 0 ELSE throttled
    /\ UNCHANGED <<item, sinceStart, sends, refreshed, requests, breaker, tally, stop>>

\* The next attempt is another call of getTracking.
BackoffEnds ==
    /\ pc = "backoff"
    /\ waiting = 0
    /\ ~aborted
    /\ pc' = "pace"
    /\ refreshed' = FALSE
    /\ UNCHANGED <<item, token, pacing, attempt, requests, breaker, tally, stop>>

-----------------------------------------------------------------------------
(* What an answer does to the loop.                                        *)

\* SystemicCircuitBreaker.record of a failure.
Counted(kind) ==
    IF streak.kind = kind THEN [streak EXCEPT !.count = @ + 1] ELSE [kind |-> kind, count |-> 1]

NoStreak == [kind |-> "none", count |-> 0]

\* The lookup is given up: an error, and with the same one Threshold times in
\* a row the circuit opens.
Fail(kind) ==
    /\ Failing(kind)
    /\ kind \in Transient => attempt = Retries
    /\ ~aborted
    /\ Record(kind)
    /\ streak' = Counted(kind)
    /\ open' = (streak'.count >= Threshold)
    /\ IF open'
       THEN LeaveLoop /\ UNCHANGED <<item, lookup, waiting, throttled>>
       ELSE NextItem
    /\ UNCHANGED <<sinceStart, sends, samples, stop>>

\* No shipment of that number: not delivered, as far as the run is concerned.
\* classify goes by the status and the text alone, whoever answered.
NotFound ==
    /\ \/ pc = "sent" /\ Record("not_found") /\ UNCHANGED token
       \/ pc \in {"token", "refresh"} /\ Record("misread") /\ token' = "none"
    /\ ~aborted
    /\ streak' = NoStreak
    /\ NextItem
    /\ UNCHANGED <<sinceStart, sends, samples, open, stop>>

\* SemanticCircuitBreaker.record: only the first answers are samples.
Sampled(odd) ==
    IF samples.taken = SampleSize THEN samples
    ELSE [taken |-> samples.taken + 1, odd |-> samples.odd + (IF odd THEN 1 ELSE 0)]

SemanticallyOpen(s) == s.taken = SampleSize /\ s.odd = SampleSize

\* Mutant of the next definition: the end of a streak is forgotten.
FoundKeepsStreak ==
    /\ pc = "sent"
    /\ \E odd \in BOOLEAN :
          /\ samples' = Sampled(odd)
          /\ open' = SemanticallyOpen(samples')
    /\ Record("found")
    /\ IF open' THEN LeaveLoop /\ UNCHANGED <<item, lookup, waiting, throttled>> ELSE NextItem
    /\ UNCHANGED <<token, sinceStart, sends, streak, stop>>

\* An answer that can be classified; a stop request no longer matters to it.
Found ==
    /\ pc = "sent"
    /\ streak' = NoStreak
    /\ \E odd \in BOOLEAN :
          /\ samples' = Sampled(odd)
          /\ open' = SemanticallyOpen(samples')
    /\ Record("found")
    /\ IF open' THEN LeaveLoop /\ UNCHANGED <<item, lookup, waiting, throttled>> ELSE NextItem
    /\ UNCHANGED <<token, sinceStart, sends, stop>>

\* An answer whose evidence is lost or does not match its hash ends the run.
InvariantFails ==
    /\ pc = "sent"
    /\ streak' = NoStreak
    /\ Record("invariant")
    /\ open' = TRUE
    /\ LeaveLoop
    /\ UNCHANGED <<item, token, pacing, lookup, samples, stop>>

\* Mutant of the next definition: counted is not the same as answered.
VerdictByCount ==
    /\ pc = "verdict"
    /\ pc' = IF ~stopped /\ checked = Total THEN "complete" ELSE "incomplete"
    /\ UNCHANGED <<item, token, pacing, lookup, breaker, tally, stop>>

\* completedAll, from the counters.
Verdict ==
    /\ pc = "verdict"
    /\ pc' = IF ~open /\ ~stopped /\ errors = 0 /\ checked = Total THEN "complete" ELSE "incomplete"
    /\ UNCHANGED <<item, token, pacing, lookup, breaker, tally, stop>>

Lookup ==
    \/ Start \/ GetToken \/ Send \/ Refresh \/ BackoffEnds \/ NotFound \/ Found \/ InvariantFails
    \/ \E kind \in Failures : Retry(kind) \/ Fail(kind)

Worker == HeadStops \/ HeadSkips \/ HeadLooksUp \/ Cancel \/ Lookup \/ Verdict

\* A finished worker exits.
Done == pc \in Ends /\ UNCHANGED vars

Next == Elapse \/ RequestStop \/ Poll \/ Worker \/ Done

\* Requests have time-outs, waits are bounded, timers fire.
Fairness == WF_vars(Worker) /\ WF_vars(Elapse)

Spec == Init /\ [][Next]_vars /\ Fairness

-----------------------------------------------------------------------------
(* What should hold.                                                       *)

\* Each variable has values that the program can give it; one shipment costs at
\* most two requests for each attempt of the limiter (execute, getTracking).
TypeOK ==
    /\ pc \in {"head", "send", "verdict"} \cup Awaiting \cup Ends
    /\ item \in 1 .. Total + 1
    /\ result \in [Items -> {"none", "invariant"} \cup Terminal \cup Failures]
    /\ attempt \in 0 .. Retries
    /\ refreshed \in BOOLEAN
    /\ token \in {"none", "fresh"}
    /\ waiting \in Nat
    /\ sinceStart \in 0 .. Longest /\ sends \in [Latest -> 0 .. Longest]
    /\ throttled \in -1 .. Longest
    /\ requests \in 0 .. 2 * (Retries + 1)
    /\ streak \in [kind : {"none"} \cup Failures, count : 0 .. Threshold]
    /\ samples \in [taken : 0 .. SampleSize, odd : 0 .. SampleSize]
    /\ {open, stopFile, aborted, stopped} \subseteq BOOLEAN
    /\ errors \in 0 .. Total /\ checked \in 0 .. Total

\* A request comes at least j - 1 intervals after the j-th request before it,
\* through retries, refused tokens and the change of shipments.  The starts
\* keep the interval, but a request may leave its start behind while a token
\* is fetched, so that two requests need no distance, and a span of n
\* intervals may hold n + 2 of them.  A throttled lookup is not sent again
\* before the minimum wait, whichever retry it is.
\* (waitForRequestStart, beforeResourceRetry, retryDelay)
RequestsArePaced ==
    [][requests' > requests =>
           /\ \A j \in Latest : sends[j] >= (j - 1) * Interval
           /\ throttled = -1 \/ throttled >= Throttle]_vars

\* What the protocol document says: a window of j intervals never holds more
\* than j + 1 requests, because every request, a retry too, obeys the floor.
\* TLC refutes it.
RequestsKeepTheQuota ==
    [][requests' > requests => \A j \in 1 .. Depth - 1 : sends[j] >= j * Interval]_vars

\* What the limiter's comment says: with two retries, three requests at most.
\* TLC refutes it.
AttemptsBoundRequests == requests <= Retries + 1

\* A traversal is complete only if every shipment has a terminal category, no
\* circuit opened and no stop was seen: an error cannot hide behind a count.
\* That the resource gave the answer is more than this, and not so.
CompleteMeansAnswered ==
    pc = "complete" => ~open /\ ~stopped /\ \A i \in Items : result[i] \in Terminal

\* What the protocol document says of failures of the endpoint: they are
\* counted as such.  No shipment is settled by what the token server said.  TLC
\* refutes it.
AnswersAreOfTheResource == pc = "complete" => \A i \in Items : result[i] # "misread"

\* The run of failures that opens the circuit is one of consecutive lookups:
\* no answer lies between them, only shipments that needed none.
CircuitNeedsConsecutiveFailures ==
    streak.kind # "none" =>
        \E first \in Items :
            /\ result[first] = streak.kind
            /\ \A i \in first .. checked : result[i] \in {streak.kind, "cached"}
            /\ Cardinality({i \in first .. checked : result[i] = streak.kind}) = streak.count

\* Once a circuit is open or the worker has seen a stop, nothing is sent.
NothingIsSentAfterTheEnd == [][requests' > requests => ~open /\ ~stopped /\ ~aborted]_vars

\* The worker ends, whatever the service answers.
WorkerEnds == <>(pc \in Ends)
=============================================================================
