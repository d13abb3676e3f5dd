------------------------- MODULE ShipmentFlowProofs -------------------------
(***************************************************************************)
(* Proofs about ShipmentFlow, for any shipments, windows, segments, scans, *)
(* standards and calendars: what Step 1 writes, what a run of Step 2       *)
(* concludes from what the carrier reports, and which deadline it sets.    *)
(***************************************************************************)
EXTENDS ShipmentFlow, FiniteSetTheorems, SequenceTheorems, TLAPS

-----------------------------------------------------------------------------
(* Invariants.                                                             *)

Reports == [standard : Nat, shown : BOOLEAN, revised : Nat, scans : SUBSET Scans]

\* What the carrier could report; a standard is given with the order only.
WorldOK ==
    /\ today \in Days
    /\ order \in [Pins -> [day : Days \cup {None}, usable : BOOLEAN]]
    /\ report \in [Pins -> Reports]
    /\ \A p \in Pins : report[p].standard # None => order[p].day # None

\* A record says "delivered" when it has a delivery, judges nothing else, and has the
\* deadline of its standard.
RecordOK(record) ==
    /\ record.verdict \in Verdicts /\ record.standard \in Nat
    /\ record.status \in {"no_evidence", "in_transit", "attempted", "delivered"}
    /\ record.status = "delivered" => record.delivery # None
    /\ record.verdict = "on_time" => record.delivery # None
    /\ record.deadline = IF record.standard = None THEN None
                         ELSE WalkBusinessDays(record.standard, ClaimWindow)

\* A standard that was once given is the one that the carrier has.
OriginalOK(p) ==
    stored[p].original => stored[p].standard # None /\ stored[p].standard = report[p].standard

StoredOK ==
    \A p \in Pins : (stored[p] = NeverJudged \/ RecordOK(stored[p])) /\ OriginalOK(p)

Imports == [phase : {"idle", "lookup"}, pending : Seq(Int \X Int), found : Seq(Pins),
            first : {"unasked", "empty", "failed"}, window : Int \X Int,
            began : SUBSET Pins, lost : SUBSET Pins]

\* What is pending are short ranges of the window, what was found are distinct
\* orders of the window, and each order of the beginning was found, is pending or
\* was lost in a range answered by one empty list and one failure.
ImportOK ==
    /\ import \in Imports
    /\ \A i \in DOMAIN import.pending :
          /\ Length(import.pending[i]) \in 1 .. MaxSegment
          /\ import.window[1] <= import.pending[i][1] /\ import.pending[i][2] <= import.window[2]
    /\ \A i \in DOMAIN import.found : Within(import.found[i], import.window)
    /\ \A i, j \in DOMAIN import.found : import.found[i] = import.found[j] => i = j
    /\ import.phase = "lookup" => \A p \in import.began :
          \/ \E i \in DOMAIN import.found : import.found[i] = p
          \/ \E i \in DOMAIN import.pending : Within(p, import.pending[i])
          \/ p \in import.lost

FlowInv == WorldOK /\ StoredOK /\ ImportOK /\ file \subseteq Pins

-----------------------------------------------------------------------------
(* The calendar.                                                           *)

\* A set of days that starts somewhere has an earliest one.
LEMMA EarliestDay ==
    ASSUME NEW S \in SUBSET Int, S # {}, NEW start \in Int, \A d \in S : start <= d
    PROVE  \E d \in S : \A other \in S : d <= other
<1> DEFINE T == {n \in Nat : start + n \in S}
<1>1. PICK d \in S : TRUE
  OBVIOUS
<1>2. d - start \in T
  BY <1>1
<1>3. PICK n \in T : \A e \in T : ~ (<<e, n>> \in OpToRel(<, Nat))
  BY <1>2, NatLessThanWellFounded, WFMin
<1>4. \A e \in T : ~ (e < n)
  BY <1>3 DEF OpToRel
<1>5. start + n \in S /\ n \in Nat
  BY <1>3
<1>6. \A other \in S : other - start \in T
  OBVIOUS
<1> HIDE DEF T
<1>7. \A other \in S : start + n <= other
  BY <1>4, <1>5, <1>6
<1> QED
  BY <1>5, <1>7

\* The business days after a day and up to another.
Business(start, d) == {e \in start + 1 .. d : BusinessDay(e)}

Passed(start, d) == Cardinality(Business(start, d))

\* Finitely many business days lie between two days.
LEMMA PassedIsNat ==
    ASSUME NEW start \in Int, NEW d \in Int
    PROVE  IsFiniteSet(Business(start, d)) /\ Passed(start, d) \in Nat
<1>1. IsFiniteSet(start + 1 .. d) /\ Business(start, d) \in SUBSET (start + 1 .. d)
  BY FS_Interval DEF Business
<1> QED
  BY <1>1, FS_Subset, FS_CardinalityType DEF Passed

\* None lie before the start.
LEMMA NoDay ==
    ASSUME NEW start \in Int, NEW d \in Int, d <= start
    PROVE  Passed(start, d) = 0
<1>1. Business(start, d) = {}
  BY DEF Business
<1> QED
  BY <1>1, FS_EmptySet DEF Passed

\* A further day counts exactly if it is a business day.
LEMMA OneMoreDay ==
    ASSUME NEW start \in Int, NEW d \in Int, start < d
    PROVE  Passed(start, d) = IF BusinessDay(d) THEN Passed(start, d - 1) + 1
                                                ELSE Passed(start, d - 1)
<1>1. IsFiniteSet(Business(start, d - 1))
  BY PassedIsNat, d - 1 \in Int
<1>2. BusinessDay(d) => Business(start, d) = Business(start, d - 1) \cup {d}
  BY DEF Business
<1>3. ~BusinessDay(d) => Business(start, d) = Business(start, d - 1)
  <2>1. ASSUME ~BusinessDay(d), NEW e \in Business(start, d)
        PROVE  e \in Business(start, d - 1)
    <3>1. e # d
      BY <2>1 DEF Business
    <3> QED
      BY <2>1, <3>1 DEF Business
  <2> QED
    BY <2>1 DEF Business
<1>4. d \notin Business(start, d - 1)
  BY DEF Business
<1> QED
  BY <1>1, <1>2, <1>3, <1>4, FS_AddElement DEF Passed

\* The loop of walkBusinessDays is well defined: its function satisfies its own equation.
LEMMA RemainingIs ==
    ASSUME NEW start \in Int, NEW count \in Nat
    PROVE  Remaining(start, count) =
               [d \in start .. CalendarEnd |->
                   IF d = start THEN count
                   ELSE IF BusinessDay(d) THEN Remaining(start, count)[d - 1] - 1
                                          ELSE Remaining(start, count)[d - 1]]
<1> DEFINE Loop(f) == f = [d \in start .. CalendarEnd |->
                              IF d = start THEN count
                              ELSE IF BusinessDay(d) THEN f[d - 1] - 1 ELSE f[d - 1]]
           left == [d \in start .. CalendarEnd |-> count - Passed(start, d)]
<1>1. Loop(left)
  <2> SUFFICES ASSUME NEW d \in start .. CalendarEnd
               PROVE  left[d] = IF d = start THEN count
                                ELSE IF BusinessDay(d) THEN left[d - 1] - 1 ELSE left[d - 1]
    OBVIOUS
  <2>1. CASE d = start
    <3>1. Passed(start, d) = 0
      BY <2>1, NoDay
    <3> QED
      BY <2>1, <3>1
  <2>2. CASE d # start
    <3>1. d - 1 \in start .. CalendarEnd /\ start < d /\ d \in Int
      BY <2>2, FlowAssumption
    <3>2. left[d] = count - Passed(start, d) /\ left[d - 1] = count - Passed(start, d - 1)
      BY <3>1
    <3>3. Passed(start, d) \in Nat /\ Passed(start, d - 1) \in Nat
      <4>1. \A e \in Int : Passed(start, e) \in Nat
        BY PassedIsNat
      <4> QED
        BY <3>1, <4>1, d - 1 \in Int
    <3>4. Passed(start, d) = IF BusinessDay(d) THEN Passed(start, d - 1) + 1 ELSE Passed(start, d - 1)
      BY <3>1, OneMoreDay
    <3> HIDE DEF left
    <3> QED
      BY <2>2, <3>2, <3>3, <3>4
  <2> QED
    BY <2>1, <2>2
<1>2. Remaining(start, count) = CHOOSE f : Loop(f)
  BY DEF Remaining
<1> HIDE DEF Loop, left
<1>3. Loop(Remaining(start, count))
  BY <1>1, <1>2
<1> QED
  BY <1>3 DEF Loop

\* What the loop has left on a day is the count less the business days that passed.
LEMMA RemainingCounts ==
    ASSUME NEW start \in Int, NEW count \in Nat, NEW d \in start .. CalendarEnd
    PROVE  Remaining(start, count)[d] = count - Passed(start, d)
<1> DEFINE left == Remaining(start, count)
           Wrong == {e \in start .. CalendarEnd : left[e] # count - Passed(start, e)}
<1> SUFFICES ASSUME Wrong # {}
             PROVE  FALSE
  OBVIOUS
<1>1. PICK e \in Wrong : \A other \in Wrong : e <= other
  <2>1. Wrong \subseteq Int /\ \A other \in Wrong : start <= other
    BY FlowAssumption
  <2> HIDE DEF Wrong
  <2> QED
    BY <2>1, EarliestDay
<1>2. e \in start .. CalendarEnd /\ e \in Int /\ left[e] # count - Passed(start, e)
  BY <1>1, FlowAssumption
<1>3. left[e] = IF e = start THEN count
                ELSE IF BusinessDay(e) THEN left[e - 1] - 1 ELSE left[e - 1]
  <2> HIDE DEF Wrong
  <2> QED
    BY <1>2, RemainingIs
<1>4. e # start
  <2>1. Passed(start, start) = 0
    BY NoDay
  <2> HIDE DEF left, Wrong
  <2> QED
    BY <1>2, <1>3, <2>1
<1>5. e - 1 \in start .. CalendarEnd /\ start < e
  BY <1>2, <1>4, FlowAssumption
<1>6. left[e - 1] = count - Passed(start, e - 1)
  <2>1. e - 1 \notin Wrong
    BY <1>1, <1>2
  <2> QED
    BY <1>5, <2>1
<1>7. Passed(start, e) \in Nat /\ Passed(start, e - 1) \in Nat
  <2>1. \A day \in Int : Passed(start, day) \in Nat
    BY PassedIsNat
  <2> QED
    BY <1>2, <2>1, e - 1 \in Int
<1>8. Passed(start, e) = IF BusinessDay(e) THEN Passed(start, e - 1) + 1 ELSE Passed(start, e - 1)
  BY <1>2, <1>5, OneMoreDay
<1> HIDE DEF left, Wrong
<1> QED
  BY <1>2, <1>3, <1>4, <1>6, <1>7, <1>8

\* walkBusinessDays ends on the ClaimWindow-th business day after the start, and gives up
\* only when the calendar ends before that day.
THEOREM WalkEnds ==
    ASSUME NEW start \in Int
    PROVE  LET end == WalkBusinessDays(start, ClaimWindow)
           IN  \/ end \in start + 1 .. CalendarEnd /\ BusinessDay(end) /\ Passed(start, end) = ClaimWindow
               \/ end = None /\ Passed(start, CalendarEnd) < ClaimWindow
<1> DEFINE ends == {d \in start .. CalendarEnd : Remaining(start, ClaimWindow)[d] = 0}
           end == WalkBusinessDays(start, ClaimWindow)
<1>1. ClaimWindow \in Nat /\ ClaimWindow > 0 /\ CalendarEnd \in Nat
  BY FlowAssumption
<1>2. \A d \in Int : Passed(start, d) \in Nat
  BY PassedIsNat
<1>3. ends = {d \in start .. CalendarEnd : Passed(start, d) = ClaimWindow}
  <2>1. ASSUME NEW d \in start .. CalendarEnd
        PROVE  Remaining(start, ClaimWindow)[d] = 0 <=> Passed(start, d) = ClaimWindow
    <3>1. Remaining(start, ClaimWindow)[d] = ClaimWindow - Passed(start, d)
      BY <1>1, RemainingCounts
    <3>2. Passed(start, d) \in Nat
      BY <1>1, <1>2
    <3> QED
      BY <1>1, <3>1, <3>2
  <2> QED
    BY <2>1
<1>4. end = IF ends = {} THEN None ELSE CHOOSE d \in ends : \A other \in ends : d <= other
  BY DEF WalkBusinessDays
<1> HIDE DEF ends, end
<1>5. CASE ends = {}
  <2> DEFINE Past == {d \in start .. CalendarEnd : Passed(start, d) >= ClaimWindow}
  <2>1. Past = {}
    <3> SUFFICES ASSUME Past # {}
                 PROVE  FALSE
      OBVIOUS
    <3>1. PICK e \in Past : \A other \in Past : e <= other
      <4>1. Past \subseteq Int /\ \A other \in Past : start <= other
        BY <1>1
      <4> HIDE DEF Past
      <4> QED
        BY <1>1, <4>1, EarliestDay
    <3>2. e \in start .. CalendarEnd /\ e \in Int /\ Passed(start, e) >= ClaimWindow
      BY <1>1, <3>1
    <3>3. e # start
      BY <1>1, <3>2, NoDay
    <3>4. e - 1 \in start .. CalendarEnd /\ start < e
      BY <1>1, <3>2, <3>3
    <3>5. ~(Passed(start, e - 1) >= ClaimWindow)
      BY <3>1, <3>2, <3>4
    <3>6. Passed(start, e) = IF BusinessDay(e) THEN Passed(start, e - 1) + 1 ELSE Passed(start, e - 1)
      BY <3>2, <3>4, OneMoreDay
    <3>7. Passed(start, e) \in Nat /\ Passed(start, e - 1) \in Nat
      BY <1>2, <3>2, <3>4
    <3>8. Passed(start, e) = ClaimWindow
      BY <1>1, <3>2, <3>5, <3>6, <3>7
    <3>9. e \in ends
      BY <1>3, <3>2, <3>8
    <3> QED
      BY <1>5, <3>9
  <2>2. Passed(start, CalendarEnd) < ClaimWindow
    <3>1. CASE start <= CalendarEnd
      <4>1. CalendarEnd \in start .. CalendarEnd /\ CalendarEnd \notin Past
        BY <1>1, <2>1, <3>1
      <4> QED
        BY <1>1, <1>2, <4>1
    <3>2. CASE start > CalendarEnd
      <4>1. Passed(start, CalendarEnd) = 0
        BY <1>1, <3>2, NoDay
      <4> QED
        BY <1>1, <4>1
    <3> QED
      BY <1>1, <3>1, <3>2
  <2> QED
    BY <1>4, <1>5, <2>2 DEF end
<1>6. CASE ends # {}
  <2>1. end \in ends /\ \A other \in ends : end <= other
    <3>1. ends \subseteq Int /\ \A d \in ends : start <= d
      BY <1>1, <1>3
    <3>2. \E d \in ends : \A other \in ends : d <= other
      BY <1>6, <3>1, EarliestDay
    <3> QED
      BY <1>4, <1>6, <3>2
  <2>2. end \in start .. CalendarEnd /\ Passed(start, end) = ClaimWindow
    BY <1>3, <2>1
  <2>3. end # start
    BY <1>1, <2>2, NoDay
  <2>4. end - 1 \in start .. CalendarEnd /\ start < end /\ end \in Int
    BY <1>1, <2>2, <2>3
  <2>5. BusinessDay(end)
    <3> SUFFICES ASSUME ~BusinessDay(end)
                 PROVE  FALSE
      OBVIOUS
    <3>1. Passed(start, end - 1) = ClaimWindow
      BY <2>2, <2>4, OneMoreDay
    <3>2. end - 1 \in ends
      BY <1>3, <2>4, <3>1
    <3> QED
      BY <2>1, <2>4, <3>2
  <2>6. end \in start + 1 .. CalendarEnd
    BY <1>1, <2>2, <2>4
  <2> QED
    BY <2>2, <2>5, <2>6 DEF end
<1> QED
  BY <1>5, <1>6

-----------------------------------------------------------------------------
(* Ranges of days and sequences.                                           *)

\* Arithmetic of multiples.
LEMMA Multiples ==
    ASSUME NEW x \in Int, NEW y \in Int, NEW m \in Nat \ {0}
    PROVE  /\ x * m \in Int
           /\ x <= y => x * m <= y * m
           /\ (x - 1) * m = x * m - m
           /\ x * m < y * m => x < y
OBVIOUS

\* Division leaves a remainder smaller than the divisor.
LEMMA Quotient ==
    ASSUME NEW n \in Nat, NEW m \in Nat \ {0}
    PROVE  /\ n \div m \in Nat
           /\ (n \div m) * m <= n
           /\ n < (n \div m) * m + m
OBVIOUS

\* A range within a range of a wider one is within the wider one.
LEMMA WiderRange ==
    ASSUME NEW range \in Int \X Int, NEW wider \in Int \X Int,
           wider[1] <= range[1], range[2] <= wider[2]
    PROVE  /\ \A part \in Int \X Int : range[1] <= part[1] /\ part[2] <= range[2] =>
                  wider[1] <= part[1] /\ part[2] <= wider[2]
           /\ \A p \in Pins : order[p].day \in Int /\ Within(p, range) => Within(p, wider)
<1>1. \A part \in Int \X Int : range[1] <= part[1] /\ part[2] <= range[2] =>
          wider[1] <= part[1] /\ part[2] <= wider[2]
  OBVIOUS
<1>2. \A p \in Pins : order[p].day \in Int /\ Within(p, range) => Within(p, wider)
  BY DEF Within
<1> QED
  BY <1>1, <1>2

\* splitDateRange: its segments are short, lie within the range and cover every day of it.
THEOREM SplitCovers ==
    ASSUME NEW range \in Int \X Int, range[1] <= range[2]
    PROVE  /\ SplitDateRange(range) \in Seq(Int \X Int)
           /\ \A i \in DOMAIN SplitDateRange(range) :
                 LET part == SplitDateRange(range)[i] IN
                 /\ Length(part) \in 1 .. MaxSegment
                 /\ range[1] <= part[1] /\ part[2] <= range[2]
           /\ \A day \in range[1] .. range[2] : \E i \in DOMAIN SplitDateRange(range) :
                 LET part == SplitDateRange(range)[i] IN
                 part[1] <= day /\ day <= part[2]
<1> DEFINE a == range[1]
           b == range[2]
           m == MaxSegment
           q == (Length(range) + m - 1) \div m
           part(i) == <<a + (i - 1) * m, IF a + i * m - 1 < b THEN a + i * m - 1 ELSE b>>
<1>1. a \in Int /\ b \in Int /\ a <= b /\ range = <<a, b>>
  OBVIOUS
<1>2. m \in Nat \ {0}
  BY FlowAssumption
<1>3. SplitDateRange(range) = [i \in 1 .. q |-> part(i)]
  BY DEF SplitDateRange
<1>4. q \in Nat /\ q * m <= b - a + m /\ b - a < q * m
  <2>1. Length(range) + m - 1 = b - a + m /\ b - a + m \in Nat
    BY <1>1, <1>2 DEF Length
  <2> HIDE DEF a, b, m
  <2>2. q = (b - a + m) \div m
    BY <2>1
  <2> HIDE DEF q
  <2>3. q \in Nat /\ q * m <= b - a + m /\ b - a + m < q * m + m
    BY <1>2, <2>1, <2>2, Quotient
  <2>4. q * m \in Int
    BY <1>2, <2>3, Multiples
  <2> QED
    BY <1>1, <1>2, <2>3, <2>4
<1> HIDE DEF a, b, m, q
<1>5. ASSUME NEW i \in 1 .. q
      PROVE  /\ part(i) \in Int \X Int
             /\ Length(part(i)) \in 1 .. m
             /\ a <= part(i)[1] /\ part(i)[2] <= b
  <2>1. i \in Int /\ i <= q /\ q \in Int /\ 0 <= i - 1 /\ i - 1 \in Int /\ 1 <= i
    BY <1>4
  <2>2. i * m \in Int /\ i * m <= q * m /\ q * m \in Int /\ (i - 1) * m = i * m - m
    BY <1>2, <2>1, Multiples
  <2>3. m <= i * m
    <3>1. 1 * m <= i * m /\ 1 * m = m
      BY <1>2, <2>1, Multiples
    <3> QED
      BY <3>1
  <2> DEFINE im == i * m
  <2>4. part(i) = <<a + (im - m), IF a + im - 1 < b THEN a + im - 1 ELSE b>>
    BY <2>2
  <2>5. im \in Int /\ m <= im /\ im <= b - a + m
    BY <1>1, <1>2, <1>4, <2>2, <2>3
  <2> HIDE DEF im, part
  <2> QED
    BY <1>1, <1>2, <2>4, <2>5 DEF Length
<1>6. ASSUME NEW day \in a .. b
      PROVE  \E i \in 1 .. q : part(i)[1] <= day /\ day <= part(i)[2]
  <2> DEFINE k == (day - a) \div m
  <2>1. day \in Int /\ day - a \in Nat /\ day <= b
    BY <1>1
  <2>2. k \in Nat /\ k * m <= day - a /\ day - a < k * m + m
    <3> DEFINE n == day - a
    <3>1. n \in Nat
      BY <2>1
    <3> HIDE DEF n
    <3>2. n \div m \in Nat /\ (n \div m) * m <= n /\ n < (n \div m) * m + m
      BY <1>2, <3>1, Quotient
    <3> QED
      BY <3>2 DEF n
  <2> HIDE DEF k
  <2>3. k * m \in Int /\ q * m \in Int
    BY <1>2, <1>4, <2>2, Multiples
  <2>4. k < q
    <3>1. k * m < q * m
      BY <1>1, <1>4, <2>1, <2>2, <2>3
    <3> QED
      BY <1>2, <1>4, <2>2, <3>1, Multiples
  <2>5. PICK i \in 1 .. q : i = k + 1
    BY <1>4, <2>2, <2>4
  <2>6. (i - 1) * m = k * m /\ i * m = k * m + m
    <3>1. (i - 1) * m = i * m - m /\ i * m \in Int
      BY <1>2, <2>2, <2>5, i \in Int, Multiples
    <3>2. i - 1 = k
      BY <2>2, <2>5
    <3> QED
      BY <1>2, <2>3, <3>1, <3>2
  <2> DEFINE km == k * m
  <2>7. part(i) = <<a + km, IF a + (km + m) - 1 < b THEN a + (km + m) - 1 ELSE b>>
    BY <2>6
  <2>8. km \in Int /\ km <= day - a /\ day - a < km + m
    BY <2>2, <2>3
  <2> HIDE DEF km, part
  <2>9. part(i)[1] <= day /\ day <= part(i)[2]
    BY <1>1, <1>2, <2>1, <2>7, <2>8
  <2> QED
    BY <2>9
<1> HIDE DEF part
<1>7. SplitDateRange(range) \in Seq(Int \X Int) /\ DOMAIN SplitDateRange(range) = 1 .. q
  BY <1>3, <1>4, <1>5
<1> QED
  BY <1>3, <1>5, <1>6, <1>7 DEF a, b, m

\* bisectDateRange: two shorter ranges that together are the range.
LEMMA BisectCovers ==
    ASSUME NEW range \in Int \X Int, Length(range) > 1
    PROVE  LET halves == BisectDateRange(range) IN
           /\ halves \in Seq(Int \X Int) /\ Len(halves) = 2
           /\ \A i \in 1 .. 2 : /\ 1 <= Length(halves[i]) /\ Length(halves[i]) <= Length(range)
                                /\ range[1] <= halves[i][1] /\ halves[i][2] <= range[2]
           /\ halves[1][1] = range[1] /\ halves[1][2] + 1 = halves[2][1] /\ halves[2][2] = range[2]
<1> DEFINE n == Length(range)
           half == (n + 1) \div 2
<1>1. n \in Nat /\ n > 1 /\ range[2] = range[1] + n - 1 /\ range[1] \in Int
  BY DEF Length
<1>2. BisectDateRange(range) = <<<<range[1], range[1] + half - 1>>, <<range[1] + half, range[2]>>>>
  BY DEF BisectDateRange
<1> HIDE DEF n
<1>3. half \in Nat /\ 1 <= half /\ half < n
  BY <1>1
<1> HIDE DEF half
<1> QED
  BY <1>1, <1>2, <1>3 DEF Length, n

\* A set put into an order is a sequence of all its members, each once.
LEMMA OrderedSet ==
    ASSUME NEW S, IsFiniteSet(S), NEW ids \in SetToSeqs(S)
    PROVE  /\ ids \in Seq(S)
           /\ \A x \in S : \E i \in DOMAIN ids : ids[i] = x
           /\ \A i, j \in DOMAIN ids : ids[i] = ids[j] => i = j
<1> DEFINE D == 1 .. Cardinality(S)
<1>1. Cardinality(S) \in Nat
  BY FS_CardinalityType
<1>2. ids \in [D -> S] /\ \A i, j \in D : i # j => ids[i] # ids[j]
  BY DEF SetToSeqs
<1>3. ids \in Injection(D, S)
  BY <1>2 DEF Injection, IsInjective
<1>4. Cardinality(D) = Cardinality(S)
  BY <1>1, FS_Interval
<1>5. ids \in Surjection(D, S)
  BY <1>3, <1>4, FS_Injection
<1>6. \A x \in S : \E i \in D : ids[i] = x
  BY <1>5 DEF Surjection
<1> QED
  BY <1>1, <1>2, <1>6

\* The members of a sequence.
LEMMA Elements ==
    ASSUME NEW T, NEW s \in Seq(T)
    PROVE  DOMAIN s = 1 .. Len(s) /\ Len(s) \in Nat /\ \A i \in DOMAIN s : s[i] \in T
BY LenProperties

\* A sequence is its head followed by its tail.
LEMMA HeadAndTail ==
    ASSUME NEW T, NEW s \in Seq(T), s # <<>>
    PROVE  /\ Head(s) \in T /\ Head(s) = s[1] /\ 1 \in DOMAIN s
           /\ Tail(s) \in Seq(T)
           /\ \A i \in DOMAIN Tail(s) : i + 1 \in DOMAIN s /\ Tail(s)[i] = s[i + 1]
           /\ \A i \in DOMAIN s : i = 1 \/ (i - 1 \in DOMAIN Tail(s) /\ s[i] = Tail(s)[i - 1])
<1> DEFINE t == Tail(s)
<1>1. Head(s) \in T /\ Head(s) = s[1]
  BY HeadTailProperties
<1>2. t \in Seq(T) /\ Len(t) = Len(s) - 1 /\ \A i \in 1 .. Len(t) : t[i] = s[i + 1]
  BY HeadTailProperties
<1> HIDE DEF t
<1>3. Len(s) \in Nat /\ Len(s) # 0 /\ DOMAIN s = 1 .. Len(s) /\ DOMAIN t = 1 .. Len(t)
  BY <1>2, EmptySeq, LenProperties
<1>4. \A i \in DOMAIN t : i + 1 \in DOMAIN s /\ t[i] = s[i + 1]
  BY <1>2, <1>3
<1>5. ASSUME NEW i \in DOMAIN s, i # 1
      PROVE  i - 1 \in DOMAIN t /\ s[i] = t[i - 1]
  <2>1. i - 1 \in 1 .. Len(t) /\ i - 1 + 1 = i
    BY <1>2, <1>3, <1>5
  <2>2. t[i - 1] = s[i - 1 + 1]
    BY <1>2, <2>1
  <2> QED
    BY <1>3, <2>1, <2>2
<1> QED
  BY <1>1, <1>2, <1>3, <1>4, <1>5 DEF t

\* Sequence u is s followed by t.
IsJoined(u, s, t) ==
    /\ \A i \in DOMAIN s : i \in DOMAIN u /\ u[i] = s[i]
    /\ \A i \in DOMAIN t : Len(s) + i \in DOMAIN u /\ u[Len(s) + i] = t[i]
    /\ \A i \in DOMAIN u : \/ (i \in DOMAIN s /\ u[i] = s[i])
                           \/ (i - Len(s) \in DOMAIN t /\ u[i] = t[i - Len(s)])

\* Concatenation is joining.
LEMMA Joined ==
    ASSUME NEW T, NEW s \in Seq(T), NEW t \in Seq(T)
    PROVE  s \o t \in Seq(T) /\ IsJoined(s \o t, s, t)
<1> DEFINE u == s \o t
<1>1. /\ u \in Seq(T) /\ Len(u) = Len(s) + Len(t)
      /\ \A i \in 1 .. Len(s) + Len(t) : u[i] = IF i <= Len(s) THEN s[i] ELSE t[i - Len(s)]
  BY ConcatProperties
<1> HIDE DEF u
<1>2. /\ Len(s) \in Nat /\ DOMAIN s = 1 .. Len(s)
      /\ Len(t) \in Nat /\ DOMAIN t = 1 .. Len(t)
      /\ DOMAIN u = 1 .. Len(s) + Len(t)
  BY <1>1, LenProperties
<1>3. ASSUME NEW i \in DOMAIN t
      PROVE  Len(s) + i \in DOMAIN u /\ u[Len(s) + i] = t[i]
  <2>1. Len(s) + i \in 1 .. Len(s) + Len(t) /\ ~(Len(s) + i <= Len(s)) /\ Len(s) + i - Len(s) = i
    BY <1>2
  <2>2. u[Len(s) + i] = t[Len(s) + i - Len(s)]
    BY <1>1, <2>1
  <2> QED
    BY <1>2, <2>1, <2>2
<1>4. \A i \in DOMAIN s : i \in DOMAIN u /\ u[i] = s[i]
  BY <1>1, <1>2
<1>5. ASSUME NEW i \in DOMAIN u
      PROVE  \/ (i \in DOMAIN s /\ u[i] = s[i])
             \/ (i - Len(s) \in DOMAIN t /\ u[i] = t[i - Len(s)])
  BY <1>1, <1>2
<1> QED
  BY <1>1, <1>3, <1>4, <1>5 DEF u, IsJoined

\* A sequence without repetitions is as long as its set of members.
LEMMA DistinctMembers ==
    ASSUME NEW T, NEW s \in Seq(T), \A i, j \in DOMAIN s : s[i] = s[j] => i = j
    PROVE  Len(s) = Cardinality(Range(s)) /\ Range(s) \subseteq T
<1> DEFINE D == 1 .. Len(s)
<1>1. Len(s) \in Nat /\ DOMAIN s = D /\ \A i \in D : s[i] \in T
  BY Elements
<1>2. s \in [D -> Range(s)] /\ Range(s) \subseteq T
  BY <1>1 DEF Range
<1>3. ExistsBijection(D, Range(s))
  <2>1. s \in Bijection(D, Range(s))
    BY <1>1, <1>2 DEF Bijection, Injection, Surjection, IsInjective, Range
  <2> QED
    BY <2>1 DEF ExistsBijection
<1>4. IsFiniteSet(D) /\ Cardinality(D) = Len(s)
  BY <1>1, FS_Interval
<1>5. Cardinality(Range(s)) = Cardinality(D)
  BY <1>3, <1>4, FS_Bijection
<1> QED
  BY <1>2, <1>4, <1>5

-----------------------------------------------------------------------------
(* The import.                                                             *)

\* What happens outside keeps the import in order: no order moves to another day.
LEMMA ImportKept ==
    ASSUME ImportOK, UNCHANGED import, \A p \in Pins : order[p].day # None => order'[p] = order[p]
    PROVE  ImportOK'
<1>1. \A p \in Pins : \A range : Within(p, range) => Within(p, range)'
  BY DEF Within
<1>2. \A i \in DOMAIN import.found : import.found[i] \in Pins
  BY DEF ImportOK, Imports
<1>3. \A i \in DOMAIN import.found : Within(import.found[i], import.window)'
  BY <1>1, <1>2 DEF ImportOK
<1>4. \A p \in import.began, i \in DOMAIN import.pending :
          Within(p, import.pending[i]) => Within(p, import.pending[i])'
  BY <1>1 DEF ImportOK, Imports
<1> QED
  BY <1>3, <1>4 DEF ImportOK, Length

\* An import that ended has nothing pending.
LEMMA ImportDropped ==
    ASSUME import' = NoImport
    PROVE  ImportOK'
BY DEF ImportOK, Imports, NoImport

\* The segments of the window hold every order of the beginning.
LEMMA ImportBegun ==
    ASSUME WorldOK, StartImport
    PROVE  ImportOK'
<1> DEFINE range == RollingRange
           parts == SplitDateRange(range)
<1>1. range \in Int \X Int /\ range[1] <= range[2]
  BY FlowAssumption DEF WorldOK, Days, RollingRange
<1>2. /\ parts \in Seq(Int \X Int)
      /\ \A i \in DOMAIN parts : /\ Length(parts[i]) \in 1 .. MaxSegment
                                 /\ range[1] <= parts[i][1] /\ parts[i][2] <= range[2]
      /\ \A day \in range[1] .. range[2] : \E i \in DOMAIN parts : parts[i][1] <= day /\ day <= parts[i][2]
  BY <1>1, SplitCovers
<1> HIDE DEF range, parts
<1>3. import' = [phase |-> "lookup", pending |-> parts, found |-> <<>>,
                 first |-> "unasked", window |-> range, began |-> OrdersOf(range),
                 lost |-> {}] /\ order' = order
  BY DEF StartImport, NoImport, range, parts
<1>4. import' \in Imports
  BY <1>1, <1>2, <1>3 DEF Imports, OrdersOf
<1>5. ASSUME NEW p \in OrdersOf(range)
      PROVE  \E i \in DOMAIN parts : Within(p, parts[i])
  <2>1. order[p].day # None /\ order[p].day \in range[1] .. range[2] /\ order[p].day \in Int
    BY <1>1 DEF OrdersOf, Within
  <2>2. PICK i \in DOMAIN parts : parts[i][1] <= order[p].day /\ order[p].day <= parts[i][2]
    BY <1>2, <2>1
  <2>3. parts[i] \in Int \X Int
    BY <1>2
  <2> QED
    BY <2>1, <2>2, <2>3 DEF Within
<1>6. \A i \in DOMAIN import'.pending :
          /\ Length(import'.pending[i]) \in 1 .. MaxSegment
          /\ import'.window[1] <= import'.pending[i][1] /\ import'.pending[i][2] <= import'.window[2]
  BY <1>2, <1>3
<1>7. import'.began = OrdersOf(range) /\ import'.pending = parts /\ import'.found = <<>>
  BY <1>3
<1>8. DOMAIN import'.found = {}
  BY <1>7
<1>9. \A p \in import'.began : \E i \in DOMAIN import'.pending : Within(p, import.pending[i])'
  <2> TAKE p \in import'.began
  <2>1. PICK i \in DOMAIN parts : Within(p, parts[i])
    BY <1>5, <1>7
  <2>2. p \in Pins
    BY <1>7 DEF OrdersOf
  <2>3. Within(p, import'.pending[i])
    BY <2>1, <1>7
  <2>4. order'[p].day = order[p].day
    BY <1>3
  <2>5. Within(p, import.pending[i])'
    BY <1>7, <2>3, <2>4 DEF Within
  <2> QED
    BY <1>7, <2>1, <2>5
<1> QED
  BY <1>4, <1>6, <1>8, <1>9 DEF ImportOK, Length

\* An answered range is replaced by its orders, none of them found before.
LEMMA RangeFound ==
    ASSUME WorldOK, ImportOK, RangeAnswered
    PROVE  ImportOK'
<1> DEFINE pending == import.pending
           found == import.found
           range == Head(pending)
           rest == Tail(pending)
           new == {p \in OrdersOf(range) : p \notin Range(found)}
<1>1. /\ pending \in Seq(Int \X Int) /\ pending # <<>> /\ found \in Seq(Pins)
      /\ import.window \in Int \X Int /\ import.began \subseteq Pins /\ import.phase = "lookup"
  BY DEF RangeAnswered, Asking, ImportOK, Imports
<1>2. PICK ids \in SetToSeqs(new) :
          import' = [import EXCEPT !.pending = rest, !.found = found \o ids, !.first = "unasked"]
  <2>1. new = OrdersOf(range) \ Range(found)
    OBVIOUS
  <2> QED
    BY <2>1 DEF RangeAnswered
<1>3. order' = order
  BY DEF RangeAnswered
<1> HIDE DEF pending, found
<1>4. /\ ids \in Seq(new)
      /\ \A x \in new : \E i \in DOMAIN ids : ids[i] = x
      /\ \A i, j \in DOMAIN ids : ids[i] = ids[j] => i = j
  <2>1. IsFiniteSet(new)
    BY FlowAssumption, FS_Subset DEF OrdersOf
  <2> HIDE DEF new
  <2> QED
    BY <2>1, OrderedSet
<1>5. /\ range \in Int \X Int /\ range = pending[1] /\ 1 \in DOMAIN pending
      /\ rest \in Seq(Int \X Int)
      /\ \A i \in DOMAIN rest : i + 1 \in DOMAIN pending /\ rest[i] = pending[i + 1]
      /\ \A i \in DOMAIN pending : i = 1 \/ (i - 1 \in DOMAIN rest /\ pending[i] = rest[i - 1])
  BY <1>1, HeadAndTail
<1> DEFINE all == found \o ids
<1>6. /\ all \in Seq(Pins)
      /\ \A i \in DOMAIN found : i \in DOMAIN all /\ all[i] = found[i]
      /\ \A i \in DOMAIN ids : Len(found) + i \in DOMAIN all /\ all[Len(found) + i] = ids[i]
      /\ \A i \in DOMAIN all : \/ (i \in DOMAIN found /\ all[i] = found[i])
                               \/ (i - Len(found) \in DOMAIN ids /\ all[i] = ids[i - Len(found)])
  <2>1. ids \in Seq(Pins)
    BY <1>4 DEF OrdersOf
  <2>2. all \in Seq(Pins) /\ IsJoined(all, found, ids)
    BY <1>1, <2>1, Joined
  <2> QED
    BY <2>2 DEF IsJoined
<1> HIDE DEF range, rest, all
<1>7. /\ import'.pending = rest /\ import'.found = all /\ import'.window = import.window
      /\ import'.began = import.began /\ import'.lost = import.lost /\ import' \in Imports
  BY <1>2, <1>5, <1>6 DEF ImportOK, Imports, all
<1>8. \A i \in DOMAIN rest : /\ Length(rest[i]) \in 1 .. MaxSegment
                             /\ import.window[1] <= rest[i][1] /\ rest[i][2] <= import.window[2]
  BY <1>5 DEF ImportOK, pending
<1>9. \A i \in DOMAIN ids : /\ ids[i] \in Pins /\ Within(ids[i], import.window)
                            /\ \A j \in DOMAIN found : ids[i] # found[j]
  <2> TAKE i \in DOMAIN ids
  <2>1. ids[i] \in Pins /\ Within(ids[i], range) /\ ids[i] \notin Range(found)
    BY <1>4 DEF OrdersOf
  <2>2. import.window[1] <= range[1] /\ range[2] <= import.window[2]
    BY <1>5 DEF ImportOK, pending
  <2>3. order[ids[i]].day \in Int
    BY <2>1 DEF WorldOK, Days, None
  <2>4. Within(ids[i], import.window)
    BY <1>1, <1>5, <2>1, <2>2, <2>3, WiderRange
  <2> QED
    BY <2>1, <2>4 DEF Range
<1>10. \A i \in DOMAIN all : Within(all[i], import.window)
  BY <1>6, <1>9 DEF ImportOK, found
<1>11. \A i, j \in DOMAIN all : all[i] = all[j] => i = j
  <2> TAKE i, j \in DOMAIN all
  <2>1. i \in Int /\ j \in Int /\ Len(found) \in Int
    BY <1>1, <1>6
  <2>2. CASE i \in DOMAIN found /\ all[i] = found[i] /\ j \in DOMAIN found /\ all[j] = found[j]
    BY <2>2 DEF ImportOK, found
  <2>3. CASE i - Len(found) \in DOMAIN ids /\ all[i] = ids[i - Len(found)]
             /\ j - Len(found) \in DOMAIN ids /\ all[j] = ids[j - Len(found)]
    <3>1. all[i] = all[j] => i - Len(found) = j - Len(found)
      BY <1>4, <2>3
    <3> QED
      BY <2>1, <3>1
  <2>4. CASE i \in DOMAIN found /\ all[i] = found[i]
             /\ j - Len(found) \in DOMAIN ids /\ all[j] = ids[j - Len(found)]
    BY <1>9, <2>4
  <2>5. CASE j \in DOMAIN found /\ all[j] = found[j]
             /\ i - Len(found) \in DOMAIN ids /\ all[i] = ids[i - Len(found)]
    BY <1>9, <2>5
  <2> QED
    BY <1>6, <2>2, <2>3, <2>4, <2>5
<1>12. ASSUME NEW p \in import.began
       PROVE  \/ \E i \in DOMAIN all : all[i] = p
              \/ \E i \in DOMAIN rest : Within(p, rest[i])
              \/ p \in import.lost
  <2>1. CASE \E i \in DOMAIN found : found[i] = p
    BY <1>6, <2>1
  <2>2. ASSUME NEW i \in DOMAIN pending, Within(p, pending[i])
        PROVE  \/ \E k \in DOMAIN all : all[k] = p
               \/ \E k \in DOMAIN rest : Within(p, rest[k])
    <3>1. CASE i = 1
      <4>1. p \in OrdersOf(range)
        BY <1>1, <1>5, <2>2, <3>1 DEF OrdersOf
      <4>2. p \in new \/ p \in Range(found)
        BY <4>1
      <4> QED
        BY <1>4, <1>6, <4>2 DEF Range
    <3>2. CASE i # 1
      BY <1>5, <2>2, <3>2
    <3> QED
      BY <3>1, <3>2
  <2> QED
    BY <1>1, <2>1, <2>2 DEF ImportOK, found, pending
<1> QED
  BY <1>3, <1>7, <1>8, <1>10, <1>11, <1>12 DEF ImportOK, Length, Within

\* A first form without orders changes nothing but what is asked next.
LEMMA FormFailed ==
    ASSUME ImportOK, FirstFormFails
    PROVE  ImportOK'
<1>1. PICK first \in {"empty", "failed"} : import' = [import EXCEPT !.first = first]
  BY DEF FirstFormFails
<1>2. /\ import' \in Imports /\ order' = order
      /\ import'.phase = import.phase /\ import'.pending = import.pending /\ import'.found = import.found
      /\ import'.window = import.window /\ import'.began = import.began /\ import'.lost = import.lost
  BY <1>1 DEF FirstFormFails, ImportOK, Imports
<1> QED
  BY <1>2 DEF ImportOK, Length, Within

\* A range taken for empty is dropped; its orders of the beginning are noted as lost.
LEMMA RangeDropped ==
    ASSUME ImportOK, RangeIsEmpty
    PROVE  ImportOK'
<1> DEFINE pending == import.pending
           range == Head(pending)
           rest == Tail(pending)
           gone == {p \in import.began : Within(p, range)}
<1>1. /\ pending \in Seq(Int \X Int) /\ pending # <<>> /\ import.phase = "lookup"
      /\ import \in Imports /\ import.lost \subseteq Pins /\ import.began \subseteq Pins
  BY DEF RangeIsEmpty, Asking, ImportOK, Imports
<1>2. import' = [import EXCEPT !.pending = rest, !.first = "unasked", !.lost = import.lost \cup gone]
      /\ order' = order
  BY DEF RangeIsEmpty
<1> HIDE DEF pending
<1>3. /\ range = pending[1] /\ rest \in Seq(Int \X Int)
      /\ \A i \in DOMAIN rest : i + 1 \in DOMAIN pending /\ rest[i] = pending[i + 1]
      /\ \A i \in DOMAIN pending : i = 1 \/ (i - 1 \in DOMAIN rest /\ pending[i] = rest[i - 1])
  BY <1>1, HeadAndTail
<1>4. gone \subseteq Pins
  BY <1>1
<1>5. ASSUME NEW p \in import.began
      PROVE  \/ \E i \in DOMAIN import.found : import.found[i] = p
             \/ \E i \in DOMAIN rest : Within(p, rest[i])
             \/ p \in import.lost \cup gone
  <2>1. ASSUME NEW i \in DOMAIN pending, Within(p, pending[i])
        PROVE  \/ \E k \in DOMAIN rest : Within(p, rest[k])
               \/ p \in gone
    <3>1. CASE i = 1
      BY <1>3, <1>5, <2>1, <3>1
    <3>2. CASE i # 1
      BY <1>3, <2>1, <3>2
    <3> QED
      BY <3>1, <3>2
  <2> QED
    BY <1>1, <2>1 DEF ImportOK, pending
<1> HIDE DEF range, rest, gone
<1>6. /\ import'.pending = rest /\ import'.found = import.found /\ import'.window = import.window
      /\ import'.began = import.began /\ import'.lost = import.lost \cup gone
      /\ import' \in Imports
  BY <1>1, <1>2, <1>3, <1>4 DEF Imports
<1>7. \A i \in DOMAIN rest : /\ Length(rest[i]) \in 1 .. MaxSegment
                             /\ import.window[1] <= rest[i][1] /\ rest[i][2] <= import.window[2]
  BY <1>3 DEF ImportOK, pending
<1>8. /\ \A i \in DOMAIN import.found : Within(import.found[i], import.window)
      /\ \A i, j \in DOMAIN import.found : import.found[i] = import.found[j] => i = j
  BY DEF ImportOK
<1> QED
  BY <1>2, <1>5, <1>6, <1>7, <1>8 DEF ImportOK, Length, Within

\* A range that is too large is replaced by its halves.
LEMMA RangeHalved ==
    ASSUME WorldOK, ImportOK, RangeSplit
    PROVE  ImportOK'
<1> DEFINE pending == import.pending
           range == Head(pending)
           rest == Tail(pending)
           halves == BisectDateRange(range)
           all == halves \o rest
<1>1. /\ pending \in Seq(Int \X Int) /\ pending # <<>>
      /\ import.window \in Int \X Int /\ import.began \subseteq Pins /\ import.phase = "lookup"
  BY DEF RangeSplit, Asking, ImportOK, Imports
<1>2. import' = [import EXCEPT !.pending = all, !.first = "unasked"] /\ order' = order /\ Length(range) > 1
  BY DEF RangeSplit
<1> HIDE DEF pending
<1>3. /\ range \in Int \X Int /\ range = pending[1] /\ 1 \in DOMAIN pending
      /\ rest \in Seq(Int \X Int)
      /\ \A i \in DOMAIN rest : i + 1 \in DOMAIN pending /\ rest[i] = pending[i + 1]
      /\ \A i \in DOMAIN pending : i = 1 \/ (i - 1 \in DOMAIN rest /\ pending[i] = rest[i - 1])
  BY <1>1, HeadAndTail
<1> HIDE DEF range, rest
<1>4. /\ halves \in Seq(Int \X Int) /\ Len(halves) = 2
      /\ \A i \in 1 .. 2 : /\ 1 <= Length(halves[i]) /\ Length(halves[i]) <= Length(range)
                           /\ range[1] <= halves[i][1] /\ halves[i][2] <= range[2]
      /\ halves[1][1] = range[1] /\ halves[1][2] + 1 = halves[2][1] /\ halves[2][2] = range[2]
  BY <1>2, <1>3, BisectCovers
<1> HIDE DEF halves
<1>5. /\ all \in Seq(Int \X Int)
      /\ \A i \in DOMAIN halves : i \in DOMAIN all /\ all[i] = halves[i]
      /\ \A i \in DOMAIN rest : Len(halves) + i \in DOMAIN all /\ all[Len(halves) + i] = rest[i]
      /\ \A i \in DOMAIN all : \/ (i \in DOMAIN halves /\ all[i] = halves[i])
                               \/ (i - Len(halves) \in DOMAIN rest /\ all[i] = rest[i - Len(halves)])
  <2>1. all \in Seq(Int \X Int) /\ IsJoined(all, halves, rest)
    BY <1>3, <1>4, Joined
  <2> QED
    BY <2>1 DEF IsJoined
<1>6. DOMAIN halves = 1 .. 2 /\ halves[1] \in Int \X Int /\ halves[2] \in Int \X Int
  BY <1>4, Elements
<1> HIDE DEF all
<1>7. /\ import'.pending = all /\ import'.found = import.found /\ import'.window = import.window
      /\ import'.began = import.began /\ import'.lost = import.lost /\ import' \in Imports
  BY <1>2, <1>5 DEF ImportOK, Imports
<1>8. /\ Length(range) \in 1 .. MaxSegment
      /\ import.window[1] <= range[1] /\ range[2] <= import.window[2]
  BY <1>3 DEF ImportOK, pending
<1>9. \A i \in DOMAIN all : /\ Length(all[i]) \in 1 .. MaxSegment
                            /\ import.window[1] <= all[i][1] /\ all[i][2] <= import.window[2]
  <2>1. ASSUME NEW i \in 1 .. 2
        PROVE  /\ Length(halves[i]) \in 1 .. MaxSegment
               /\ import.window[1] <= halves[i][1] /\ halves[i][2] <= import.window[2]
    <3>1. halves[i] \in Int \X Int
      BY <1>6
    <3>2. /\ 1 <= Length(halves[i]) /\ Length(halves[i]) <= Length(range)
          /\ range[1] <= halves[i][1] /\ halves[i][2] <= range[2]
      BY <1>4
    <3>3. Length(halves[i]) \in Int /\ Length(range) \in Int
      BY <1>3, <3>1 DEF Length
    <3>4. Length(halves[i]) \in 1 .. MaxSegment
      BY <1>8, <3>2, <3>3, FlowAssumption
    <3> QED
      BY <1>1, <1>3, <1>8, <3>1, <3>2, <3>4, WiderRange
  <2>2. \A i \in DOMAIN rest : /\ Length(rest[i]) \in 1 .. MaxSegment
                               /\ import.window[1] <= rest[i][1] /\ rest[i][2] <= import.window[2]
    BY <1>3 DEF ImportOK, pending
  <2> QED
    BY <1>5, <1>6, <2>1, <2>2
<1>10. ASSUME NEW p \in import.began, NEW i \in DOMAIN pending, Within(p, pending[i])
      PROVE  \E k \in DOMAIN all : Within(p, all[k])
  <2>1. CASE i = 1
    <3>1. order[p].day # None /\ order[p].day \in range[1] .. range[2] /\ order[p].day \in Int
      BY <1>3, <1>10, <2>1 DEF Within
    <3>2. Within(p, halves[1]) \/ Within(p, halves[2])
      BY <1>3, <1>4, <1>6, <3>1 DEF Within
    <3> QED
      BY <1>5, <1>6, <3>2
  <2>2. CASE i # 1
    <3>1. i - 1 \in DOMAIN rest /\ Within(p, rest[i - 1])
      BY <1>3, <1>10, <2>2
    <3> QED
      BY <1>5, <3>1
  <2> QED
    BY <2>1, <2>2
<1>11. ASSUME NEW p \in import.began
       PROVE  \/ \E i \in DOMAIN import.found : import.found[i] = p
              \/ \E i \in DOMAIN all : Within(p, all[i])
              \/ p \in import.lost
  BY <1>1, <1>10 DEF ImportOK, pending
<1>12. /\ \A i \in DOMAIN import.found : Within(import.found[i], import.window)
       /\ \A i, j \in DOMAIN import.found : import.found[i] = import.found[j] => i = j
  BY DEF ImportOK
<1> QED
  BY <1>2, <1>7, <1>9, <1>11, <1>12 DEF ImportOK, Length, Within

-----------------------------------------------------------------------------
(* What a lookup concludes.                                                *)

DeliveryDays(answer) == {event.day : event \in {e \in answer.events : e.kind = "delivered"}}

\* The actual delivery is the earliest day of a delivery scan, and none without one.
LEMMA DeliveryIsEarliest ==
    ASSUME NEW answer, answer.events \subseteq Scans
    PROVE  /\ HasEvent(answer, "delivered") <=> DeliveryDays(answer) # {}
           /\ DeliveryDays(answer) = {} => ActualDelivery(answer) = None
           /\ DeliveryDays(answer) # {} =>
                  /\ ActualDelivery(answer) \in DeliveryDays(answer)
                  /\ \A d \in DeliveryDays(answer) : ActualDelivery(answer) <= d
           /\ DeliveryDays(answer) \subseteq Nat \ {None}
<1>1. DeliveryDays(answer) \subseteq Nat \ {None}
  BY DEF DeliveryDays, Scans, Days, None
<1>2. HasEvent(answer, "delivered") <=> DeliveryDays(answer) # {}
  BY DEF HasEvent, DeliveryDays
<1>3. DeliveryDays(answer) = {} => ActualDelivery(answer) = None
  BY DEF ActualDelivery, DeliveryDays
<1>4. ASSUME DeliveryDays(answer) # {}
      PROVE  /\ ActualDelivery(answer) \in DeliveryDays(answer)
             /\ \A d \in DeliveryDays(answer) : ActualDelivery(answer) <= d
  <2> DEFINE S == DeliveryDays(answer)
  <2>1. \E d \in S : \A other \in S : d <= other
    <3>1. S \in SUBSET Int /\ S # {} /\ \A d \in S : 0 <= d
      BY <1>1, <1>4
    <3> HIDE DEF S
    <3> QED
      BY <3>1, 0 \in Int, EarliestDay
  <2>2. ActualDelivery(answer) = CHOOSE d \in S : \A other \in S : d <= other
    BY <1>4 DEF ActualDelivery, DeliveryDays
  <2> HIDE DEF S
  <2> QED
    BY <2>1, <2>2 DEF S
<1> QED
  BY <1>1, <1>2, <1>3, <1>4

\* The record of a lookup is of the right form and judges the delivery by the standard it states.
LEMMA LookupIsSound ==
    ASSUME FlowInv, NEW p \in Pins
    PROVE  /\ RecordOK(Lookup(p))
           /\ Lookup(p).delivery = ActualDelivery(Answer(p))
           /\ Lookup(p).standard = Standard(Answer(p), CarriedStandard(p))
           /\ Lookup(p).verdict = Verdict(Lookup(p).delivery, Lookup(p).standard)
           /\ Lookup(p).original =>
                  Lookup(p).standard # None /\ Lookup(p).standard = report[p].standard
<1> DEFINE answer == Answer(p)
<1>1. answer.events = report[p].scans /\ answer.events \subseteq Scans
  BY DEF FlowInv, WorldOK, Reports, Answer
<1>2. /\ Lookup(p).delivery = ActualDelivery(answer)
      /\ Lookup(p).standard = Standard(answer, CarriedStandard(p))
      /\ Lookup(p).verdict = Verdict(ActualDelivery(answer), Standard(answer, CarriedStandard(p)))
      /\ Lookup(p).status = DeliveryStatus(answer)
  BY DEF Lookup, Classified
<1>3. Lookup(p).original =>
          /\ Standard(answer, CarriedStandard(p)) # None
          /\ IF answer.original # None THEN Standard(answer, CarriedStandard(p)) = answer.original
             ELSE stored[p].original /\ Standard(answer, CarriedStandard(p)) = CarriedStandard(p)
  BY DEF Lookup, Classified
<1>4. RecordOK(Lookup(p))
  <2> HIDE DEF answer
  <2>1. DeliveryStatus(answer) \in {"no_evidence", "in_transit", "attempted", "delivered"}
    BY DEF DeliveryStatus
  <2>2. DeliveryStatus(answer) = "delivered" => ActualDelivery(answer) # None
    BY <1>1, DeliveryIsEarliest DEF DeliveryStatus
  <2>3. Verdict(ActualDelivery(answer), Standard(answer, CarriedStandard(p))) = "on_time"
            => ActualDelivery(answer) # None
    BY DEF Verdict
  <2>4. Verdict(ActualDelivery(answer), Standard(answer, CarriedStandard(p))) \in Verdicts
    BY DEF Verdict, Verdicts
  <2>5. Lookup(p).standard \in Nat
    <3>1. Answer(p).original \in Nat /\ Answer(p).revised \in Nat
      BY DEF FlowInv, WorldOK, Reports, Answer, None
    <3>2. CarriedStandard(p) \in Nat
      BY DEF CarriedStandard, Carried, Judged, FlowInv, StoredOK, RecordOK, None
    <3> QED
      BY <1>2, <3>1, <3>2 DEF Standard, FirstOf, answer
  <2>6. Lookup(p).deadline = IF Lookup(p).standard = None THEN None
                             ELSE WalkBusinessDays(Lookup(p).standard, ClaimWindow)
    BY DEF Lookup, Classified
  <2> QED
    BY <1>2, <2>1, <2>2, <2>3, <2>4, <2>5, <2>6 DEF RecordOK
<1>5. ASSUME Lookup(p).original
      PROVE  Lookup(p).standard # None /\ Lookup(p).standard = report[p].standard
  <2>1. CASE answer.original # None
    BY <1>2, <1>3, <1>5, <2>1 DEF Answer
  <2>2. CASE answer.original = None
    <3>1. stored[p].original /\ Lookup(p).standard = CarriedStandard(p) /\ Lookup(p).standard # None
      BY <1>2, <1>3, <1>5, <2>2
    <3>2. CarriedStandard(p) = stored[p].standard
      BY <3>1 DEF CarriedStandard
    <3> QED
      BY <3>1, <3>2 DEF FlowInv, StoredOK, OriginalOK
  <2> QED
    BY <2>1, <2>2
<1> QED
  BY <1>2, <1>4, <1>5

\* A run that completes stores the lookup of every shipment it had to look up and nothing else.
LEMMA RunStores ==
    ASSUME CompleteRun, NEW p \in Pins
    PROVE  /\ stored'[p] \in {stored[p], Lookup(p)} /\ UNCHANGED <<today, order, report>>
           /\ /\ p \in Workload /\ report[p].scans # {}
              /\ stored[p].verdict # "on_time"
              => stored'[p] = Lookup(p)
<1>1. PICK reused \in SUBSET ConfirmedOnTime, missing \in SUBSET {s \in Workload : report[s].scans = {}} :
          stored' = [s \in Pins |-> IF s \in Workload \ (reused \cup missing) THEN Lookup(s) ELSE stored[s]]
  BY DEF CompleteRun
<1>2. stored'[p] = IF p \in Workload \ (reused \cup missing) THEN Lookup(p) ELSE stored[p]
  BY <1>1
<1>3. stored[p].verdict # "on_time" => p \notin reused
  BY <1>1 DEF ConfirmedOnTime
<1>4. report[p].scans # {} => p \notin missing
  BY <1>1
<1> QED
  BY <1>2, <1>3, <1>4 DEF CompleteRun

-----------------------------------------------------------------------------
(* The steps.                                                              *)

\* Every step keeps the form of what the carrier could report.
LEMMA WorldStep ==
    ASSUME WorldOK, [Next]_vars
    PROVE  WorldOK'
<1>1. CASE DayPasses
  BY <1>1, FlowAssumption DEF DayPasses, WorldOK, Days
<1>2. ASSUME NEW s \in Pins, PlaceOrder(s)
      PROVE  WorldOK'
  <2>1. PICK usable \in BOOLEAN : order' = [order EXCEPT ![s] = [day |-> today, usable |-> usable]]
    BY <1>2 DEF PlaceOrder
  <2>2. PICK standard \in Nat :
            report' = [report EXCEPT ![s].standard = standard, ![s].shown = standard # None]
    <3>1. {None} \cup {today + n : n \in Promised} \subseteq Nat /\ {None} \subseteq Nat
      BY FlowAssumption DEF WorldOK, Days, None
    <3>2. PICK standard \in IF s \in Reported THEN {None} \cup {today + n : n \in Promised} ELSE {None} :
              report' = [report EXCEPT ![s].standard = standard, ![s].shown = standard # None]
      BY <1>2 DEF PlaceOrder
    <3> QED
      BY <3>1, <3>2
  <2>3. report' \in [Pins -> Reports]
    BY <2>2, ZenonT(30) DEF WorldOK, Reports
  <2>4. order' \in [Pins -> [day : Days \cup {None}, usable : BOOLEAN]] /\ order'[s].day # None
    BY <2>1 DEF WorldOK, Days, None
  <2>5. \A p \in Pins \ {s} : order'[p] = order[p] /\ report'[p] = report[p]
    BY <2>1, <2>2 DEF WorldOK
  <2>6. today' = today
    BY <1>2 DEF PlaceOrder
  <2> QED
    BY <2>3, <2>4, <2>5, <2>6 DEF WorldOK
<1>3. ASSUME NEW s \in Pins, ShowOrWithholdStandard(s)
      PROVE  WorldOK'
  <2>1. report' = [report EXCEPT ![s].shown = ~report[s].shown] /\ UNCHANGED <<today, order>>
    BY <1>3 DEF ShowOrWithholdStandard
  <2>2. report' \in [Pins -> Reports] /\ \A p \in Pins : report'[p].standard = report[p].standard
    BY <2>1 DEF WorldOK, Reports
  <2> QED
    BY <2>1, <2>2 DEF WorldOK
<1>4. ASSUME NEW s \in Pins, NEW n \in Estimated, Revise(s, order[s].day + n)
      PROVE  WorldOK'
  <2>1. report' = [report EXCEPT ![s].revised = order[s].day + n] /\ UNCHANGED <<today, order>>
    BY <1>4 DEF Revise
  <2>2. order[s].day + n \in Nat
    BY FlowAssumption DEF WorldOK, Days, None
  <2>3. report' \in [Pins -> Reports] /\ \A p \in Pins : report'[p].standard = report[p].standard
    BY <2>1, <2>2 DEF WorldOK, Reports
  <2> QED
    BY <2>1, <2>3 DEF WorldOK
<1>5. ASSUME NEW s \in Pins, NEW kind \in Posted, NEW day \in Days, PostScan(s, kind, day)
      PROVE  WorldOK'
  <2>1. report' = [report EXCEPT ![s].scans = report[s].scans \cup {[kind |-> kind, day |-> day]}]
        /\ UNCHANGED <<today, order>>
    BY <1>5 DEF PostScan
  <2>2. [kind |-> kind, day |-> day] \in Scans
    BY PostedAssumption DEF Scans
  <2>3. report' \in [Pins -> Reports] /\ \A p \in Pins : report'[p].standard = report[p].standard
    BY <2>1, <2>2 DEF WorldOK, Reports
  <2> QED
    BY <2>1, <2>3 DEF WorldOK
<1>6. CASE StartImport
  BY <1>6 DEF StartImport, WorldOK
<1>7. CASE RangeAnswered \/ FirstFormFails \/ RangeIsEmpty
  BY <1>7 DEF RangeAnswered, FirstFormFails, RangeIsEmpty, WorldOK
<1>8. CASE RangeSplit
  BY <1>8 DEF RangeSplit, WorldOK
<1>9. CASE ImportFails
  BY <1>9 DEF ImportFails, WorldOK
<1>10. CASE ImportIsEmpty
  BY <1>10 DEF ImportIsEmpty, WorldOK
<1>11. CASE WriteTrackingCsv
  BY <1>11 DEF WriteTrackingCsv, WorldOK
<1>12. CASE CompleteRun
  BY <1>12 DEF CompleteRun, WorldOK
<1>13. CASE UNCHANGED vars
  BY <1>13 DEF vars, WorldOK
<1> QED
  BY <1>1, <1>2, <1>3, <1>4, <1>5, <1>6, <1>7, <1>8, <1>9, <1>10, <1>11, <1>12, <1>13, FlowAssumption
  DEF Next, World, Worker

\* Every step keeps the form of the stored records.
LEMMA StoredStep ==
    ASSUME FlowInv, [Next]_vars
    PROVE  StoredOK'
<1> USE DEF FlowInv
<1>1. CASE DayPasses
  BY <1>1 DEF DayPasses, StoredOK, OriginalOK, RecordOK
<1>2. ASSUME NEW s \in Pins, PlaceOrder(s)
      PROVE  StoredOK'
  <2>1. UNCHANGED stored /\ order[s].day = None
    BY <1>2 DEF PlaceOrder
  <2>2. \A p \in Pins \ {s} : report'[p] = report[p]
    BY <1>2 DEF PlaceOrder, WorldOK
  <2>3. ~stored[s].original
    BY <2>1 DEF WorldOK, StoredOK, OriginalOK
  <2> QED
    BY <2>1, <2>2, <2>3 DEF StoredOK, OriginalOK
<1>3. ASSUME NEW s \in Pins, ShowOrWithholdStandard(s)
      PROVE  StoredOK'
  <2>1. UNCHANGED stored /\ \A p \in Pins : report'[p].standard = report[p].standard
    BY <1>3 DEF ShowOrWithholdStandard, WorldOK, Reports
  <2> QED
    BY <2>1 DEF StoredOK, OriginalOK
<1>4. ASSUME NEW s \in Pins, NEW n \in Estimated, Revise(s, order[s].day + n)
      PROVE  StoredOK'
  <2>1. UNCHANGED stored /\ \A p \in Pins : report'[p].standard = report[p].standard
    BY <1>4 DEF Revise, WorldOK, Reports
  <2> QED
    BY <2>1 DEF StoredOK, OriginalOK
<1>5. ASSUME NEW s \in Pins, NEW kind \in Posted, NEW day \in Days, PostScan(s, kind, day)
      PROVE  StoredOK'
  <2>1. UNCHANGED stored /\ \A p \in Pins : report'[p].standard = report[p].standard
    BY <1>5 DEF PostScan, WorldOK, Reports
  <2> QED
    BY <2>1 DEF StoredOK, OriginalOK
<1>6. CASE StartImport
  BY <1>6 DEF StartImport, StoredOK, OriginalOK, RecordOK
<1>7. CASE RangeAnswered \/ FirstFormFails \/ RangeIsEmpty
  BY <1>7 DEF RangeAnswered, FirstFormFails, RangeIsEmpty, StoredOK, OriginalOK, RecordOK
<1>8. CASE RangeSplit
  BY <1>8 DEF RangeSplit, StoredOK, OriginalOK, RecordOK
<1>9. CASE ImportFails
  BY <1>9 DEF ImportFails, StoredOK, OriginalOK, RecordOK
<1>10. CASE ImportIsEmpty
  BY <1>10 DEF ImportIsEmpty, StoredOK, OriginalOK, RecordOK
<1>11. CASE WriteTrackingCsv
  BY <1>11 DEF WriteTrackingCsv, StoredOK, OriginalOK, RecordOK
<1>12. CASE CompleteRun
  <2> SUFFICES ASSUME NEW p \in Pins
               PROVE  ((stored[p] = NeverJudged \/ RecordOK(stored[p])) /\ OriginalOK(p))'
    BY DEF StoredOK
  <2>1. stored'[p] \in {stored[p], Lookup(p)} /\ UNCHANGED report
    BY <1>12, RunStores
  <2>2. CASE stored'[p] = stored[p]
    BY <2>1, <2>2 DEF StoredOK, OriginalOK, RecordOK
  <2>3. CASE stored'[p] = Lookup(p)
    BY <2>1, <2>3, LookupIsSound DEF OriginalOK, RecordOK
  <2> QED
    BY <2>1, <2>2, <2>3
<1>13. CASE UNCHANGED vars
  BY <1>13 DEF vars, StoredOK, OriginalOK, RecordOK
<1> QED
  BY <1>1, <1>2, <1>3, <1>4, <1>5, <1>6, <1>7, <1>8, <1>9, <1>10, <1>11, <1>12, <1>13, FlowAssumption
  DEF Next, World, Worker

\* Every step keeps the import in order: the world moves no order to another day.
LEMMA ImportStep ==
    ASSUME FlowInv, [Next]_vars
    PROVE  ImportOK'
<1> USE DEF FlowInv
<1>1. ASSUME NEW s \in Pins, PlaceOrder(s)
      PROVE  ImportOK'
  <2>1. UNCHANGED import /\ order[s].day = None /\ \A p \in Pins \ {s} : order'[p] = order[p]
    BY <1>1 DEF PlaceOrder, WorldOK
  <2> QED
    BY <2>1, ImportKept
<1>2. CASE StartImport
  BY <1>2, ImportBegun
<1>3. CASE RangeAnswered \/ FirstFormFails \/ RangeIsEmpty
  BY <1>3, RangeFound, FormFailed, RangeDropped
<1>4. CASE RangeSplit
  BY <1>4, RangeHalved
<1>5. CASE ImportFails \/ ImportIsEmpty \/ WriteTrackingCsv
  BY <1>5, ImportDropped DEF ImportFails, ImportIsEmpty, WriteTrackingCsv
<1>6. CASE DayPasses \/ CompleteRun \/ UNCHANGED vars
  BY <1>6, ImportKept DEF DayPasses, CompleteRun, vars
<1>7. ASSUME NEW s \in Pins, \/ ShowOrWithholdStandard(s)
                             \/ \E n \in Estimated : Revise(s, order[s].day + n)
                             \/ \E kind \in Posted, day \in Days : PostScan(s, kind, day)
      PROVE  ImportOK'
  BY <1>7, ImportKept DEF ShowOrWithholdStandard, Revise, PostScan
<1> QED
  BY <1>1, <1>2, <1>3, <1>4, <1>5, <1>6, <1>7, FlowAssumption DEF Next, World, Worker

\* Only an import that ends well replaces the file.
LEMMA OnlyImportsWrite ==
    ASSUME [Next]_vars, ~WriteTrackingCsv
    PROVE  UNCHANGED file
<1> USE DEF DayPasses, PlaceOrder, ShowOrWithholdStandard, Revise, PostScan, StartImport, RangeAnswered,
        FirstFormFails, RangeIsEmpty, RangeSplit, ImportFails, ImportIsEmpty, CompleteRun, vars
<1> QED
  BY DEF Next, World, Worker

\* The file holds what an import found.
LEMMA FileStep ==
    ASSUME FlowInv, [Next]_vars
    PROVE  file' \subseteq Pins
<1>1. CASE WriteTrackingCsv
  BY <1>1, Elements DEF WriteTrackingCsv, UsableRows, Range, FlowInv, ImportOK, Imports
<1> QED
  BY <1>1, OnlyImportsWrite DEF FlowInv

\* The invariant holds of every behaviour.
LEMMA FlowCorrect == Spec => []FlowInv
<1>1. Init => FlowInv
  <2> SUFFICES ASSUME Init
               PROVE  FlowInv
    OBVIOUS
  <2>1. WorldOK
    BY FlowAssumption DEF Init, WorldOK, Reports, Days, None
  <2>2. StoredOK
    BY DEF Init, StoredOK, OriginalOK, NeverJudged
  <2>3. ImportOK /\ file \subseteq Pins
    BY DEF Init, ImportOK, Imports, NoImport
  <2> QED
    BY <2>1, <2>2, <2>3 DEF FlowInv
<1>2. FlowInv /\ [Next]_vars => FlowInv'
  BY WorldStep, StoredStep, ImportStep, FileStep DEF FlowInv
<1> QED
  BY <1>1, <1>2, PTL DEF Spec

\* Only a run of Step 2 changes a record.
LEMMA OnlyRunsJudge ==
    ASSUME [Next]_vars, ~CompleteRun
    PROVE  UNCHANGED stored
<1> USE DEF DayPasses, PlaceOrder, ShowOrWithholdStandard, Revise, PostScan, StartImport, RangeAnswered,
        FirstFormFails, RangeIsEmpty, RangeSplit, ImportFails, ImportIsEmpty, WriteTrackingCsv, vars
<1> QED
  BY DEF Next, World, Worker

-----------------------------------------------------------------------------
(* What imports write, what records say.                                   *)

\* The types, with the bounds that the worker keeps: its requests are short and what
\* it found are distinct orders.
THEOREM TypeCorrect == Spec => []TypeOK
<1>1. FlowInv => TypeOK
  <2> SUFFICES ASSUME FlowInv
               PROVE  TypeOK
    OBVIOUS
  <2> DEFINE found == import.found
  <2>1. found \in Seq(Pins) /\ \A i, j \in DOMAIN found : found[i] = found[j] => i = j
    BY DEF FlowInv, ImportOK, Imports
  <2>2. Len(found) = Cardinality(Range(found)) /\ Range(found) \subseteq Pins
    <3> HIDE DEF found
    <3> QED
      BY <2>1, DistinctMembers
  <2>3. \A i \in DOMAIN import.pending : Length(import.pending[i]) \in 1 .. MaxSegment
    BY DEF FlowInv, ImportOK
  <2>4. \A p \in Pins : report[p].shown \in BOOLEAN /\ report[p].scans \subseteq Scans
    BY DEF FlowInv, WorldOK, Reports
  <2>5. \A p \in Pins : stored[p].verdict \in Verdicts /\ stored[p].status \in Statuses
    BY DEF FlowInv, StoredOK, RecordOK, NeverJudged, Verdicts, Statuses
  <2> QED
    BY <2>2, <2>3, <2>4, <2>5 DEF TypeOK, FlowInv, WorldOK, ImportOK, Imports
<1> QED
  BY FlowCorrect, <1>1, PTL

\* tracking.csv is replaced as a whole, with every order of the window of days, however
\* the ranges were split, halved and answered while orders were being placed, but for
\* ranges answered by one empty list and one failure.
THEOREM FileIsWhole == Spec => FileIsReplacedWhole
<1>1. ASSUME FlowInv, [Next]_vars, file' # file
      PROVE  /\ {p \in import.began \ import.lost : order[p].usable} \subseteq file'
             /\ file' \subseteq OrdersOf(import.window)
  <2>1. /\ import.phase = "lookup" /\ import.pending = <<>>
        /\ file' = {p \in Range(import.found) : order[p].usable}
    BY <1>1, OnlyImportsWrite DEF WriteTrackingCsv, UsableRows
  <2>2. import.found \in Seq(Pins) /\ DOMAIN import.pending = {}
    BY <1>1, <2>1 DEF FlowInv, ImportOK, Imports
  <2>3. import.began \ import.lost \subseteq Range(import.found)
    BY <1>1, <2>1, <2>2 DEF FlowInv, ImportOK, Range
  <2>4. Range(import.found) \subseteq OrdersOf(import.window)
    BY <1>1, <2>2, Elements DEF FlowInv, ImportOK, Range, OrdersOf
  <2> QED
    BY <2>1, <2>3, <2>4
<1>2. FlowInv /\ [Next]_vars =>
          [file' # file => /\ {p \in import.began \ import.lost : order[p].usable} \subseteq file'
                           /\ file' \subseteq OrdersOf(import.window)]_vars
  BY <1>1
<1> QED
  BY FlowCorrect, <1>2, PTL DEF Spec, FileIsReplacedWhole

\* The deadline of a claim is the ClaimWindow-th business day after the standard, for any
\* calendar, and only missing when the calendar ends before that day.
THEOREM DeadlinesAreBusinessDays == Spec => []DeadlineIsBusinessDay
<1>1. FlowInv => DeadlineIsBusinessDay
  <2> SUFFICES ASSUME FlowInv, NEW p \in Judged, stored[p].standard # None
               PROVE  IF stored[p].deadline # None
                      THEN /\ BusinessDay(stored[p].deadline)
                           /\ Passed(stored[p].standard, stored[p].deadline) = ClaimWindow
                      ELSE Passed(stored[p].standard, CalendarEnd) < ClaimWindow
    BY DEF DeadlineIsBusinessDay, Passed, Business
  <2>1. RecordOK(stored[p])
    BY DEF FlowInv, StoredOK, Judged
  <2>2. /\ stored[p].standard \in Nat
        /\ stored[p].deadline = WalkBusinessDays(stored[p].standard, ClaimWindow)
    BY <2>1 DEF RecordOK
  <2> DEFINE standard == stored[p].standard
             deadline == stored[p].deadline
  <2>3. \/ (deadline \in standard + 1 .. CalendarEnd /\ BusinessDay(deadline)
               /\ Passed(standard, deadline) = ClaimWindow)
        \/ (deadline = None /\ Passed(standard, CalendarEnd) < ClaimWindow)
    <3>1. standard \in Int
      BY <2>2
    <3> QED
      BY <2>2, <3>1, WalkEnds
  <2>4. \A d \in standard + 1 .. CalendarEnd : d # None
    BY <2>2, FlowAssumption DEF None
  <2> QED
    BY <2>3, <2>4
<1> QED
  BY FlowCorrect, <1>1, PTL

-----------------------------------------------------------------------------
(* What runs conclude.                                                     *)

\* The standard of a shipment that is followed survives answers without it.
THEOREM StandardsSurvive == Spec => StandardSurvives
<1>1. ASSUME FlowInv, [Next]_vars, NEW p \in Carried, stored[p].original, stored'[p] # stored[p]
      PROVE  stored'[p].original /\ stored'[p].standard = stored[p].standard
  <2>1. p \in Pins /\ stored[p].standard # None /\ stored[p].standard = report[p].standard
    BY <1>1 DEF Carried, Judged, FlowInv, StoredOK, OriginalOK
  <2>2. CompleteRun
    BY <1>1, OnlyRunsJudge
  <2>3. stored'[p] = Lookup(p)
    BY <1>1, <2>1, <2>2, RunStores
  <2>4. CarriedStandard(p) = stored[p].standard
    BY <1>1 DEF CarriedStandard
  <2>5. Answer(p).original \in {None, stored[p].standard}
    BY <2>1 DEF Answer
  <2>6. Standard(Answer(p), CarriedStandard(p)) = stored[p].standard
    BY <2>1, <2>4, <2>5 DEF Standard, FirstOf
  <2>7. Lookup(p).standard = stored[p].standard /\ Lookup(p).original
    BY <1>1, <2>1, <2>4, <2>5, <2>6 DEF Lookup, Classified
  <2> QED
    BY <2>3, <2>7
<1>2. FlowInv /\ [Next]_vars =>
          [\A p \in Carried : stored[p].original /\ stored'[p] # stored[p] =>
               stored'[p].original /\ stored'[p].standard = stored[p].standard]_vars
  BY <1>1
<1> QED
  BY FlowCorrect, <1>2, PTL DEF Spec, StandardSurvives

\* A shipment judged by its standard is late, or on time, exactly if its deliveries
\* say so, for any set of scans.
THEOREM VerdictsFollow == Spec => VerdictFollowsStandard
<1>1. ASSUME FlowInv, [Next]_vars, NEW p \in Pins, stored'[p] # stored[p], stored'[p].original
      PROVE  LET deliveries == {scan.day : scan \in {s \in report[p].scans : s.kind = "delivered"}}
                 early == {d \in deliveries : d <= report[p].standard}
             IN /\ stored'[p].verdict = "late" <=> deliveries # {} /\ early = {}
                /\ stored'[p].verdict = "on_time" <=> early # {}
  <2> DEFINE deliveries == DeliveryDays(Answer(p))
             delivery == ActualDelivery(Answer(p))
             standard == report[p].standard
             early == {d \in deliveries : d <= standard}
  <2>1. CompleteRun
    BY <1>1, OnlyRunsJudge
  <2>2. stored'[p] = Lookup(p)
    BY <1>1, <2>1, RunStores
  <2>3. Answer(p).events = report[p].scans /\ Answer(p).events \subseteq Scans /\ standard \in Nat
    BY <1>1 DEF FlowInv, WorldOK, Reports, Answer
  <2>4. stored'[p].verdict = Verdict(delivery, standard) /\ standard # None
    BY <1>1, <2>2, LookupIsSound
  <2>5. deliveries = {scan.day : scan \in {s \in report[p].scans : s.kind = "delivered"}}
    BY <2>3 DEF DeliveryDays
  <2>6. /\ deliveries \subseteq Nat \ {None}
        /\ deliveries = {} => delivery = None
        /\ deliveries # {} => delivery \in deliveries /\ \A d \in deliveries : delivery <= d
    BY <2>3, DeliveryIsEarliest
  <2> HIDE DEF deliveries, delivery, standard
  <2>7. /\ stored'[p].verdict = "late" <=> deliveries # {} /\ early = {}
        /\ stored'[p].verdict = "on_time" <=> early # {}
    <3>1. CASE deliveries = {}
      <4>1. early = {} /\ stored'[p].verdict = "review"
        BY <2>4, <2>6, <3>1 DEF Verdict
      <4> QED
        BY <3>1, <4>1
    <3>2. CASE deliveries # {} /\ delivery > standard
      <4>1. early = {}
        <5>1. \A d \in deliveries : ~(d <= standard)
          <6> TAKE d \in deliveries
          <6>1. d \in Nat /\ delivery \in Nat /\ delivery <= d /\ standard \in Nat
            BY <2>3, <2>6, <3>2
          <6> QED
            BY <3>2, <6>1
        <5> QED
          BY <5>1
      <4>2. stored'[p].verdict = "late"
        BY <2>4, <2>6, <3>2 DEF Verdict
      <4> HIDE DEF early
      <4> QED
        BY <3>2, <4>1, <4>2
    <3>3. CASE deliveries # {} /\ ~(delivery > standard)
      <4>1. delivery \in early
        <5>1. delivery \in deliveries /\ delivery \in Nat /\ standard \in Nat
          BY <2>3, <2>6, <3>3
        <5>2. delivery <= standard
          BY <3>3, <5>1
        <5> QED
          BY <5>1, <5>2
      <4>2. stored'[p].verdict = "on_time"
        BY <2>4, <2>6, <3>3 DEF Verdict
      <4> HIDE DEF early
      <4> QED
        BY <3>3, <4>1, <4>2
    <3> QED
      BY <3>1, <3>2, <3>3
  <2> QED
    BY <2>5, <2>7 DEF standard
<1>2. FlowInv /\ [Next]_vars =>
          [\A p \in Pins : stored'[p] # stored[p] /\ stored'[p].original =>
              LET deliveries == {scan.day : scan \in {s \in report[p].scans : s.kind = "delivered"}}
                  early == {d \in deliveries : d <= report[p].standard}
              IN /\ stored'[p].verdict = "late" <=> deliveries # {} /\ early = {}
                 /\ stored'[p].verdict = "on_time" <=> early # {}]_vars
  BY <1>1
<1> QED
  BY FlowCorrect, <1>2, PTL DEF Spec, VerdictFollowsStandard

\* A shipment that was looked up once is followed until its delivery is judged.
THEOREM DeliveriesAreJudged == Spec => NoDeliveryIsMissed
<1>1. ASSUME FlowInv, CompleteRun, NEW p \in Judged, stored[p].delivery = None, ~stored[p].returned,
             Delivered(p), FirstOf(stored[p].standard, Standard(Answer(p), None)) # None
      PROVE  stored'[p].verdict \in {"late", "on_time"}
  <2>1. p \in Pins /\ RecordOK(stored[p])
    BY <1>1 DEF Judged, FlowInv, StoredOK
  <2>2. p \in Carried
    BY <1>1, <2>1 DEF Carried, IsActive, RecordOK
  <2>3. stored'[p] = Lookup(p)
    BY <1>1, <2>1, <2>2, RunStores DEF Workload, RecordOK, Delivered
  <2>4. Lookup(p).standard # None
    <3>1. CarriedStandard(p) = stored[p].standard
      BY <2>2 DEF CarriedStandard
    <3>2. Standard(Answer(p), stored[p].standard) # None
      BY <1>1 DEF Standard, FirstOf
    <3> QED
      BY <1>1, <2>1, <3>1, <3>2, LookupIsSound
  <2>5. Lookup(p).delivery # None
    <3>1. Answer(p).events = report[p].scans /\ Answer(p).events \subseteq Scans
      BY <1>1, <2>1 DEF FlowInv, WorldOK, Reports, Answer
    <3>2. HasEvent(Answer(p), "delivered")
      BY <1>1, <3>1 DEF Delivered, HasEvent
    <3> QED
      BY <1>1, <2>1, <3>1, <3>2, DeliveryIsEarliest, LookupIsSound
  <2>6. Lookup(p).verdict \in {"late", "on_time"}
    BY <1>1, <2>1, <2>4, <2>5, LookupIsSound DEF Verdict
  <2> QED
    BY <2>3, <2>6
<1>2. FlowInv /\ [Next]_vars =>
          [CompleteRun => \A p \in Judged :
              /\ stored[p].delivery = None /\ ~stored[p].returned
              /\ Delivered(p) /\ FirstOf(stored[p].standard, Standard(Answer(p), None)) # None
              => stored'[p].verdict \in {"late", "on_time"}]_vars
  BY <1>1
<1> QED
  BY FlowCorrect, <1>2, PTL DEF Spec, NoDeliveryIsMissed
=============================================================================
