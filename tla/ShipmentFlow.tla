---------------------------- MODULE ShipmentFlow ----------------------------
(***************************************************************************)
(* A shipment from the order to its verdict.                               *)
(*                                                                         *)
(* Step 1 (scripts/import-est-history.js) asks Canada Post for the orders  *)
(* of a rolling window of days, range by range, exports them and replaces  *)
(* tracking.csv.  Step 2 (scripts/get-tracking.js) looks up the shipments  *)
(* of that file and those that earlier runs left undelivered, normalises   *)
(* what the carrier reports and judges each delivery by the delivery       *)
(* standard.  Meanwhile days pass, orders are placed and the carrier scans *)
(* parcels, posts scans late, revises its estimate, and shows or withholds *)
(* the original standard.                                                  *)
(*                                                                         *)
(* A Step 2 run is one step here: only complete runs change the verdicts   *)
(* (module TrackingRun).  An import is a step per request; what it found   *)
(* can become stale before it is written.                                  *)
(***************************************************************************)
EXTENDS Integers, Sequences, FiniteSets, SequencesExt

CONSTANTS
    Pins,          \* shipments, by tracking PIN
    Reported,      \* those that the carrier ever reports anything about
    LastDay,       \* bound on the days that pass
    Window,        \* ROLLING_SHIPMENT_HISTORY_DAYS
    MaxSegment,    \* DEFAULT_MAX_SEGMENT_DAYS
    Chunk,         \* orders per export request
    MaxScans,      \* bound on the scans of one parcel
    Promised,      \* the days that a delivery standard may lie after the order
    Estimated,     \* the days that an estimate may
    Posted,        \* the kinds of scans that occur
    NonBusiness,   \* weekends and holidays of the calendar
    CalendarEnd,   \* calendar.coverageThrough
    ClaimWindow    \* claimWindowBusinessDays

ASSUME FlowAssumption ==
    /\ IsFiniteSet(Pins) /\ Reported \subseteq Pins
    /\ {LastDay, Window, MaxSegment, Chunk, ClaimWindow, CalendarEnd} \subseteq Nat \ {0}
    /\ MaxScans \in Nat
    /\ Promised \cup Estimated \subseteq Nat
    /\ NonBusiness \subseteq Nat

None == 0
Days == 1 .. LastDay
Kinds == {"moving", "attempted", "delivered", "returned"}
Scans == [kind : Kinds, day : Days]

ASSUME PostedAssumption == Posted \subseteq Kinds

VARIABLES
    today,
    order,     \* the day each shipment was ordered, and whether its row has a valid PIN
    report,    \* what the Tracking API would answer about each shipment
    file,      \* the PINs of tracking.csv
    import,    \* the running Step 1 worker; began and lost are histories
    stored     \* the current promoted classification of each shipment

vars == <<today, order, report, file, import, stored>>

NoImport == [phase |-> "idle", pending |-> <<>>, found |-> <<>>,
             first |-> "unasked", window |-> <<1, 0>>, began |-> {}, lost |-> {}]
NeverJudged == [verdict |-> "none", standard |-> None, original |-> FALSE,
                delivery |-> None, status |-> "none", returned |-> FALSE, deadline |-> None]

Init ==
    /\ today = 1
    /\ order = [p \in Pins |-> [day |-> None, usable |-> TRUE]]
    /\ report = [p \in Pins |-> [standard |-> None, shown |-> FALSE, revised |-> None, scans |-> {}]]
    /\ file = {}
    /\ import = NoImport
    /\ stored = [p \in Pins |-> NeverJudged]

Delivered(p) == \E scan \in report[p].scans : scan.kind = "delivered"

(***************************************************************************)
(* The world outside.                                                      *)
(***************************************************************************)
DayPasses ==
    /\ today < LastDay
    /\ today' = today + 1
    /\ UNCHANGED <<order, report, file, import, stored>>

PlaceOrder(p) ==
    /\ order[p].day = None
    /\ \E usable \in IF p \in Reported THEN {TRUE} ELSE BOOLEAN :
          order' = [order EXCEPT ![p] = [day |-> today, usable |-> usable]]
    /\ \E standard \in IF p \in Reported THEN {None} \cup {today + n : n \in Promised} ELSE {None} :
          report' = [report EXCEPT ![p].standard = standard, ![p].shown = standard # None]
    /\ UNCHANGED <<today, file, import, stored>>

\* A scan may be posted one day late; no parcel is scanned before its order.
PostScan(p, kind, day) ==
    /\ order[p].day \in 1 .. day
    /\ day \in {today - 1, today}
    /\ Cardinality(report[p].scans) < MaxScans
    /\ [kind |-> kind, day |-> day] \notin report[p].scans
    /\ report' = [report EXCEPT ![p].scans = @ \cup {[kind |-> kind, day |-> day]}]
    /\ UNCHANGED <<today, order, file, import, stored>>

\* changedExpectedDate is set or moved while the parcel is under way.
Revise(p, date) ==
    /\ order[p].day # None /\ ~Delivered(p)
    /\ date # report[p].revised
    /\ report' = [report EXCEPT ![p].revised = date]
    /\ UNCHANGED <<today, order, file, import, stored>>

\* expectedDeliveryDate is optional in every answer.
ShowOrWithholdStandard(p) ==
    /\ report[p].standard # None
    /\ report' = [report EXCEPT ![p].shown = ~@]
    /\ UNCHANGED <<today, order, file, import, stored>>

World ==
    \/ DayPasses
    \/ \E p \in Pins : PlaceOrder(p)
    \/ \E p \in Reported :
          \/ ShowOrWithholdStandard(p)
          \/ \E n \in Estimated : Revise(p, order[p].day + n)
          \/ \E kind \in Posted, day \in Days : PostScan(p, kind, day)

(***************************************************************************)
(* Step 1.                                                                 *)
(***************************************************************************)
RollingRange == <<today - (Window - 1), today>>

Length(range) == range[2] - range[1] + 1

\* Mutant of the next definition: full segments only, what remains is dropped.
SplitDropsRemainder(range) ==
    [i \in 1 .. Length(range) \div MaxSegment |->
        <<range[1] + (i - 1) * MaxSegment, range[1] + i * MaxSegment - 1>>]

\* splitDateRange: segments of MaxSegment days, the last one shorter.
SplitDateRange(range) ==
    [i \in 1 .. (Length(range) + MaxSegment - 1) \div MaxSegment |->
        <<range[1] + (i - 1) * MaxSegment,
          IF range[1] + i * MaxSegment - 1 < range[2] THEN range[1] + i * MaxSegment - 1 ELSE range[2]>>]

\* bisectDateRange, of two days or more: the first half is the longer one.
BisectDateRange(range) ==
    LET half == (Length(range) + 1) \div 2
    IN <<<<range[1], range[1] + half - 1>>, <<range[1] + half, range[2]>>>>

Within(p, range) == order[p].day # None /\ order[p].day \in range[1] .. range[2]
OrdersOf(range) == {p \in Pins : Within(p, range)}

StartImport ==
    /\ import.phase = "idle"
    /\ import' = [NoImport EXCEPT !.phase = "lookup", !.window = RollingRange,
                                  !.pending = SplitDateRange(RollingRange),
                                  !.began = OrdersOf(RollingRange)]
    /\ UNCHANGED <<today, order, report, file, stored>>

\* lookupOrdersForSegment asks for a range in one date format and, when that
\* lists no orders, in the other.
Asking == import.phase = "lookup" /\ import.pending # <<>>

\* A form that is understood lists the orders of its range; the second is not asked.
RangeAnswered ==
    /\ Asking
    /\ LET range == Head(import.pending)
           new == OrdersOf(range) \ Range(import.found)
       IN /\ OrdersOf(range) # {}
          /\ \E ids \in SetToSeqs(new) :
                import' = [import EXCEPT !.pending = Tail(@), !.found = @ \o ids, !.first = "unasked"]
    /\ UNCHANGED <<today, order, report, file, stored>>

\* The first form brings no orders: an empty list, which may only mean that
\* the form was not understood, or a failure, a 409 among others.
FirstFormFails ==
    /\ Asking /\ import.first = "unasked"
    /\ \E first \in {"empty", "failed"} : import' = [import EXCEPT !.first = first]
    /\ UNCHANGED <<today, order, report, file, stored>>

\* successfulEmpty: the second form brings none either, and one of the two was
\* an empty list.  Only of two empty lists is it known that there are none.
RangeIsEmpty ==
    /\ Asking /\ import.first # "unasked"
    /\ \E second \in {"empty", "failed"} :
          /\ "empty" \in {import.first, second}
          /\ import.first = second => OrdersOf(Head(import.pending)) = {}
    /\ import' = [import EXCEPT !.pending = Tail(@), !.first = "unasked",
                    !.lost = @ \cup {p \in import.began : Within(p, Head(import.pending))}]
    /\ UNCHANGED <<today, order, report, file, stored>>

\* Both attempts were a 409: the halves are resolved first, depth first.
RangeSplit ==
    /\ Asking /\ import.first = "failed"
    /\ Length(Head(import.pending)) > 1
    /\ import' = [import EXCEPT !.pending = BisectDateRange(Head(@)) \o Tail(@), !.first = "unasked"]
    /\ UNCHANGED <<today, order, report, file, stored>>

\* Failures of another kind, a 409 for a single day, a stop, an export that fails.
ImportFails ==
    /\ import.phase # "idle"
    /\ import' = NoImport
    /\ UNCHANGED <<today, order, report, file, stored>>

\* EST_NO_ORDERS: the import completes, tracking.csv is preserved.
ImportIsEmpty ==
    /\ import.phase = "lookup" /\ import.pending = <<>> /\ import.found = <<>>
    /\ import' = NoImport
    /\ UNCHANGED <<today, order, report, file, stored>>

UsableRows(orders) == {p \in Range(orders) : order[p].usable}

\* The export requests take Chunk orders each; analyzeExportResponse refuses
\* an answer without a single usable row, and with it the import.
ChunksAreUsable ==
    \A n \in 0 .. (Len(import.found) - 1) \div Chunk :
        \E i \in DOMAIN import.found : (i - 1) \div Chunk = n /\ order[import.found[i]].usable

\* writeTrackingCsvAtomic: a backup, a temporary file, a rename.
WriteTrackingCsv ==
    /\ import.phase = "lookup" /\ import.pending = <<>> /\ import.found # <<>>
    /\ ChunksAreUsable
    /\ file' = UsableRows(import.found)
    /\ import' = NoImport
    /\ UNCHANGED <<today, order, report, stored>>

(***************************************************************************)
(* Step 2: what the Tracking API answers and how it is normalised.         *)
(***************************************************************************)
\* parseTrackingJson: the standard, the estimate and the events of an answer.
Answer(p) == [original |-> IF report[p].shown THEN report[p].standard ELSE None,
              revised  |-> report[p].revised,
              events   |-> report[p].scans]

FirstOf(date, otherwise) == IF date # None THEN date ELSE otherwise

HasEvent(answer, kind) == \E event \in answer.events : event.kind = kind

\* Mutant of the next definition: the last delivery scan counts.
LastDelivery(answer) ==
    LET days == {event.day : event \in {e \in answer.events : e.kind = "delivered"}}
    IN IF days = {} THEN None ELSE CHOOSE d \in days : \A other \in days : d >= other

\* normalizeTrackingEvents: the earliest successful delivery.
ActualDelivery(answer) ==
    LET days == {event.day : event \in {e \in answer.events : e.kind = "delivered"}}
    IN IF days = {} THEN None ELSE CHOOSE d \in days : \A other \in days : d <= other

\* deriveDeliveryStatus.
DeliveryStatus(answer) ==
    CASE HasEvent(answer, "delivered") -> "delivered"
      [] ~HasEvent(answer, "delivered") /\ HasEvent(answer, "attempted") -> "attempted"
      [] ~HasEvent(answer, "delivered") /\ ~HasEvent(answer, "attempted")
            /\ HasEvent(answer, "moving") -> "in_transit"
      [] OTHER -> "no_evidence"

\* buildCanonicalShipment and buildClassificationInput: the original of this
\* answer, the one carried by the row, the estimate.
Standard(answer, carried) ==
    FirstOf(answer.original, FirstOf(carried, answer.revised))

BusinessDay(d) == d \notin NonBusiness

\* Mutant of the next definition: the starting day is counted as well.
RemainingFromSameDay(start, count) ==
    LET remaining[d \in start .. CalendarEnd] ==
            IF d = start THEN (IF BusinessDay(d) THEN count - 1 ELSE count)
            ELSE IF BusinessDay(d) THEN remaining[d - 1] - 1 ELSE remaining[d - 1]
    IN remaining

\* The loop of walkBusinessDays: what is left to count when current is a day.
Remaining(start, count) ==
    LET remaining[d \in start .. CalendarEnd] ==
            IF d = start THEN count
            ELSE IF BusinessDay(d) THEN remaining[d - 1] - 1 ELSE remaining[d - 1]
    IN remaining

\* walkBusinessDays of a positive count: the first day on which nothing is
\* left; None when the calendar does not reach that far.
WalkBusinessDays(start, count) ==
    LET remaining == Remaining(start, count)
        ends == {d \in start .. CalendarEnd : remaining[d] = 0}
    IN IF ends = {} THEN None ELSE CHOOSE d \in ends : \A other \in ends : d <= other

\* classifyEligibility: late only with a delivery after a standard.
Verdict(delivery, standard) ==
    CASE standard = None \/ delivery = None -> "review"
      [] standard # None /\ delivery # None /\ delivery > standard -> "late"
      [] OTHER -> "on_time"

\* The record of one lookup.  Field original is a history: the standard used
\* was once an expectedDeliveryDate, not an estimate.
Classified(answer, carried, carriedOriginal) ==
    LET standard == Standard(answer, carried)
        delivery == ActualDelivery(answer)
    IN [verdict  |-> Verdict(delivery, standard),
        standard |-> standard,
        original |-> standard # None
                        /\ IF answer.original # None THEN standard = answer.original
                                                     ELSE carriedOriginal /\ standard = carried,
        delivery |-> delivery,
        status   |-> DeliveryStatus(answer),
        returned |-> HasEvent(answer, "returned"),
        deadline |-> IF standard = None THEN None ELSE WalkBusinessDays(standard, ClaimWindow)]

(***************************************************************************)
(* The workload of a run.                                                  *)
(***************************************************************************)
Judged == {p \in Pins : stored[p] # NeverJudged}

\* Mutant of the next definition: only parcels with a movement are followed.
ActiveOnlyInTransit(record) == record.status = "in_transit" /\ ~record.returned

\* isActiveUnresolvedClassification.
IsActive(record) ==
    /\ record.delivery = None /\ ~record.returned
    /\ record.status \in {"in_transit", "attempted", "no_evidence"}

\* loadCarryForwardRows.
Carried == {p \in Judged : IsActive(stored[p])}

\* Mutant of the next definition: a row of the file keeps nothing of the past.
RowsForgetStandard(p) == IF p \in Carried \ file THEN stored[p].standard ELSE None

\* 'Original Delivery Standard Date' of a row of buildTrackingWorkload.
CarriedStandard(p) == IF p \in Carried THEN stored[p].standard ELSE None

Workload == file \cup Carried

\* reusableConfirmedOnTime.
ConfirmedOnTime ==
    {p \in Workload : stored[p].verdict = "on_time" /\ stored[p].delivery <= stored[p].standard}

Lookup(p) == Classified(Answer(p), CarriedStandard(p), stored[p].original)

\* A complete run of Step 2.  A confirmed shipment is looked up all the same
\* when its row or its events no longer match; shipments without a scan may
\* be unknown to the API (shipment_not_found), which leaves their record.
CompleteRun ==
    /\ import.phase = "idle" /\ file # {}
    /\ \E reused \in SUBSET ConfirmedOnTime :
       \E missing \in SUBSET {p \in Workload \ reused : report[p].scans = {}} :
           stored' = [p \in Pins |-> IF p \in Workload \ (reused \cup missing) THEN Lookup(p) ELSE stored[p]]
    /\ UNCHANGED <<today, order, report, file, import>>

Worker ==
    \/ RangeAnswered \/ FirstFormFails \/ RangeIsEmpty \/ RangeSplit
    \/ ImportFails \/ ImportIsEmpty \/ WriteTrackingCsv

Next == World \/ StartImport \/ Worker \/ CompleteRun

Spec == Init /\ [][Next]_vars

(***************************************************************************)
(* Properties.                                                             *)
(***************************************************************************)
Verdicts == {"none", "review", "late", "on_time"}
Statuses == {"none", "no_evidence", "in_transit", "attempted", "delivered"}

\* The types of the state, and the bounds that the worker keeps: what it
\* found are distinct orders, what it asks for are ranges of days.
TypeOK ==
    /\ today \in Days
    /\ order \in [Pins -> [day : Days \cup {None}, usable : BOOLEAN]]
    /\ \A p \in Pins : report[p].shown \in BOOLEAN /\ report[p].scans \subseteq Scans
    /\ file \subseteq Pins
    /\ import.phase \in {"idle", "lookup"} /\ import.first \in {"unasked", "empty", "failed"}
    /\ \A i \in DOMAIN import.pending : Length(import.pending[i]) \in 1 .. MaxSegment
    /\ Len(import.found) = Cardinality(Range(import.found)) /\ Range(import.found) \subseteq Pins
    /\ \A p \in Pins : stored[p].verdict \in Verdicts /\ stored[p].status \in Statuses

\* tracking.csv is only ever replaced as a whole: the new file has a row for
\* every order that was in the window when the import began, unless no PIN of
\* it is valid or its range was answered by one empty list and one failure,
\* and no row for an order outside the window.
FileIsReplacedWhole ==
    [][file' # file => /\ {p \in import.began \ import.lost : order[p].usable} \subseteq file'
                       /\ file' \subseteq OrdersOf(import.window)]_vars

\* What the import says when it fails, "Canada Post could not return Shipment
\* History for part of the selected date range.  The previous tracking.csv was
\* preserved.": a file is not replaced by one without the orders of a range
\* for which a request failed.  TLC refutes it.
FailedRangesPreserveTheFile ==
    [][file' # file => {p \in import.began : order[p].usable} \subseteq file']_vars

\* While a shipment is followed, the standard it is judged by is not replaced
\* by an estimate when the API stops to give it.
StandardSurvives ==
    [][\A p \in Carried :
          stored[p].original /\ stored'[p] # stored[p] =>
              stored'[p].original /\ stored'[p].standard = stored[p].standard]_vars

\* A run that judges a shipment by its standard finds it late exactly if
\* every delivery scan is after the standard, and on time exactly if one is
\* not, whatever late scans, second deliveries and estimates came along.
VerdictFollowsStandard ==
    [][\A p \in Pins :
          stored'[p] # stored[p] /\ stored'[p].original =>
              LET deliveries == {scan.day : scan \in {s \in report[p].scans : s.kind = "delivered"}}
                  early == {d \in deliveries : d <= report[p].standard}
              IN /\ stored'[p].verdict = "late" <=> deliveries # {} /\ early = {}
                 /\ stored'[p].verdict = "on_time" <=> early # {}]_vars

\* A complete run judges every delivery that happened since the last: once a
\* run has seen a shipment, and until one sees it delivered or returned, its
\* delivery is not missed because it left tracking.csv.
NoDeliveryIsMissed ==
    [][CompleteRun =>
          \A p \in Judged :
              /\ stored[p].delivery = None /\ ~stored[p].returned
              /\ Delivered(p) /\ FirstOf(stored[p].standard, Standard(Answer(p), None)) # None
              => stored'[p].verdict \in {"late", "on_time"}]_vars

\* The claim deadline of a shipment is its ClaimWindow-th business day after
\* the standard, and only missing if the calendar ends before that day.
DeadlineIsBusinessDay ==
    \A p \in Judged :
        LET since(d) == Cardinality({e \in stored[p].standard + 1 .. d : BusinessDay(e)})
        IN stored[p].standard # None =>
               IF stored[p].deadline # None
               THEN BusinessDay(stored[p].deadline) /\ since(stored[p].deadline) = ClaimWindow
               ELSE since(CalendarEnd) < ClaimWindow
=============================================================================
