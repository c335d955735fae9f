----------------------- MODULE CumulativeSeriesProofs -----------------------
(***************************************************************************)
(* A writer that is alone with its statistic and waits for the recorder     *)
(* keeps the running totals continuous, for any hours, values, number of    *)
(* imports and restarts.  With a second writer they are not, see the run    *)
(* series_shared.                                                           *)
(***************************************************************************)
EXTENDS CumulativeSeries, WellFoundedInduction, TLAPS

Lone(w) == Writers = {w} /\ Waiting = {w}

RowSets == UNION {[S -> [state : Int, sum : Int]] : S \in SUBSET Hours}
ValueSets == SeriesSets \cup {NoRows}
Batches == [rows : RowSets, values : ValueSets, due : 0..LastHour]
Calls == [at : Places, series : ValueSets, newest : 0..LastHour, opening : Int,
          closing : Int, difference : Int, later : RowSets]

\* Rows with a value for each hour.
Tabled(rows, values) == rows \in RowSets /\ values \in ValueSets /\ DOMAIN values = DOMAIN rows

Bounded(rows) == \A h \in DOMAIN rows : rows[h].sum \in 0..h * MaxValue

Types ==
    /\ totalState \in BOOLEAN /\ torn \in BOOLEAN
    /\ Tabled(db, meant) /\ (~torn => Bounded(db))
    /\ queue \in Seq(Batches) /\ call \in [Writers -> Calls]
    /\ broken \in 0..LastHour /\ writes \in 0..MaxWrites /\ restarts \in 0..MaxRestarts

-----------------------------------------------------------------------------
(* Some rows, in a statistic whose states are totals or are not. *)

TotalBefore(rows, h) == SumAt(rows, Before(DOMAIN rows, h))

\* Row, with totalState as a parameter.
RowOf(total, own, sum) == [state |-> IF total THEN sum ELSE own, sum |-> sum]

\* The stored hours of the range are all in the series.
Covered(series, rows) ==
    \A h \in DOMAIN rows : First(series) <= h /\ h <= Last(series) => h \in DOMAIN series

After(rows, hour) == {h \in DOMAIN rows : h > hour}
Tailing(rows, hour) == [h \in After(rows, hour) |-> rows[h]]

\* The batch that moves the rows after an hour.
Moves(total, rows, hour, difference) ==
    [rows |-> [h \in After(rows, hour) |->
                  RowOf(total, rows[h].state, rows[h].sum + difference)],
     values |-> NoRows, due |-> 0]

\* How much the range of a batch gains over the rows it is written over.
Shift(batch, rows) ==
    batch.rows[Last(batch.values)].sum - TotalBefore(rows, Last(batch.values) + 1)

\* A batch that writes a range over the rows and counts on from them.
Fits(batch, total, rows) ==
    /\ batch.values \in SeriesSets /\ DOMAIN batch.rows = DOMAIN batch.values
    /\ Covered(batch.values, rows)
    /\ \A h \in DOMAIN batch.values :
        LET before == Before(DOMAIN batch.values, h)
        IN  batch.rows[h] =
                RowOf(total, batch.values[h],
                      batch.values[h] + IF before = 0
                                        THEN TotalBefore(rows, First(batch.values))
                                        ELSE batch.rows[before].sum)
    /\ batch.due = IF After(rows, Last(batch.values)) # {} /\ Shift(batch, rows) # 0
                   THEN Last(batch.values) ELSE 0

\* What an hour lacks when a difference is missing after an hour.
Missing(rows, h, hour, difference) ==
    IF hour # 0 /\ Before(DOMAIN rows, h) = hour THEN difference ELSE 0

\* The hours count onto each other, but for a difference after one of them.
CountsOn(total, rows, values, hour, difference) ==
    \A h \in DOMAIN rows :
        /\ rows[h].state = IF total THEN rows[h].sum ELSE values[h]
        /\ rows[h].sum = TotalBefore(rows, h) + values[h] - Missing(rows, h, hour, difference)

-----------------------------------------------------------------------------
(***************************************************************************)
(* Where the call is, with its batches that are queued: each is worked out  *)
(* from what is stored when it gets its turn.                               *)
(***************************************************************************)
Sound(hour, difference) ==
    ~torn => broken = hour /\ CountsOn(totalState, db, meant, hour, difference)

Resting(w) == call[w].at = "idle" /\ queue = <<>> /\ Sound(0, 0)

Reading(w) ==
    /\ call[w].at \in {"newest", "covered", "rows"} /\ queue = <<>> /\ Sound(0, 0)
    /\ call[w].series \in SeriesSets /\ Covered(call[w].series, db)
    /\ call[w].at # "newest" => call[w].newest = Last(db)
    /\ call[w].at = "rows" =>
        /\ call[w].opening = TotalBefore(db, First(call[w].series))
        /\ call[w].newest > Last(call[w].series) =>
              call[w].closing = TotalBefore(db, Last(call[w].series) + 1)

Written(w) ==
    /\ call[w].at = "idle" /\ Len(queue) = 1 /\ Sound(0, 0)
    /\ Fits(queue[1], totalState, db) /\ queue[1].due = 0

\* The range is queued or stored, the shift of the later hours comes next.
Shifting(w) ==
    /\ call[w].at \in {"later", "shift"} /\ call[w].series \in SeriesSets
    /\ After(db, Last(call[w].series)) # {}
    /\ call[w].at = "shift" => call[w].later = Tailing(db, Last(call[w].series))

WrittenInPart(w) ==
    /\ Shifting(w) /\ Len(queue) = 1 /\ Sound(0, 0)
    /\ Fits(queue[1], totalState, db) /\ queue[1].values = call[w].series
    /\ queue[1].due # 0 /\ call[w].difference = Shift(queue[1], db)

WrittenAndMoved(w) ==
    /\ call[w].at = "idle" /\ Len(queue) = 2 /\ Sound(0, 0)
    /\ Fits(queue[1], totalState, db) /\ queue[1].due # 0
    /\ queue[2] = Moves(totalState, db, queue[1].due, Shift(queue[1], db))

StoredInPart(w) ==
    /\ Shifting(w) /\ queue = <<>>
    /\ Last(call[w].series) \in DOMAIN db
    /\ Sound(Last(call[w].series), call[w].difference)

Moved(w) ==
    /\ call[w].at = "idle" /\ Len(queue) = 1
    /\ \E hour \in DOMAIN db, difference \in Int :
          /\ queue[1] = Moves(totalState, db, hour, difference)
          /\ Sound(hour, difference)

Phases(w) ==
    \/ Resting(w) \/ Reading(w) \/ Written(w) \/ WrittenInPart(w) \/ WrittenAndMoved(w)
    \/ StoredInPart(w) \/ Moved(w)

Inv(w) == Types /\ Phases(w)

-----------------------------------------------------------------------------
(* Hours. *)

LEMMA Least ==
    ASSUME NEW T \in SUBSET Nat, T # {}
    PROVE  \E n \in T : \A m \in T : n <= m
<1>1. PICK n \in T : \A m \in T : <<m, n>> \notin OpToRel(<, Nat)
  BY WFMin, NatLessThanWellFounded
<1>2. \A m \in T : ~(m < n)
  BY <1>1 DEF OpToRel
<1>3. \A m \in T : n <= m
  BY <1>2
<1> QED
  BY <1>3

\* An hour has one nearest before it, or none.
LEMMA BeforeIs ==
    ASSUME NEW S \in SUBSET Hours, NEW h \in 1..LastHour + 1
    PROVE  /\ Before(S, h) \in {0} \cup S /\ Before(S, h) < h
           /\ \A j \in S : j < h => j <= Before(S, h)
<1> DEFINE gaps == {n \in Nat : \E k \in {0} \cup S : k < h /\ n = h - k}
<1>1. S \subseteq Nat /\ \A k \in S : k > 0
  BY SeriesAssumption DEF Hours
<1>2. h \in gaps
  BY SeriesAssumption
<1>3. PICK n \in gaps : \A m \in gaps : n <= m
  BY <1>2, Least
<1>4. PICK k \in {0} \cup S : k < h /\ n = h - k
  BY <1>3
<1>5. \A j \in S : j < h => j <= k
  <2> SUFFICES ASSUME NEW j \in S, j < h PROVE j <= k
    OBVIOUS
  <2>1. j \in Int /\ k \in Int /\ h \in Int
    BY <1>1, <1>4, SeriesAssumption
  <2>2. h - j \in gaps
    BY <2>1
  <2>3. h - k <= h - j
    BY <1>3, <1>4, <2>2
  <2> QED
    BY <2>1, <2>3
<1> HIDE DEF gaps
<1> QED
  BY <1>4, <1>5 DEF Before

LEMMA BeforeUnique ==
    ASSUME NEW S \in SUBSET Hours, NEW h \in 1..LastHour + 1,
           NEW k \in {0} \cup S, k < h, \A j \in S : j < h => j <= k
    PROVE  Before(S, h) = k
<1>1. {0} \cup S \subseteq Nat
  BY SeriesAssumption DEF Hours
<1>2. /\ Before(S, h) \in {0} \cup S /\ Before(S, h) < h
      /\ \A j \in S : j < h => j <= Before(S, h)
  BY BeforeIs
<1>3. Before(S, h) \in Int /\ k \in Int
  BY <1>1, <1>2
<1>4. Before(S, h) <= k
  BY <1>1, <1>2, <1>3
<1>5. k <= Before(S, h)
  BY <1>1, <1>2, <1>3
<1> QED
  BY <1>3, <1>4, <1>5

LEMMA SeriesEnds ==
    ASSUME NEW series, DOMAIN series \in (SUBSET Hours) \ {{}}
    PROVE  /\ First(series) \in DOMAIN series /\ Last(series) \in DOMAIN series
           /\ \A h \in DOMAIN series : First(series) <= h /\ h <= Last(series)
<1>1. DOMAIN series \in SUBSET Nat /\ \A h \in DOMAIN series : 0 < h /\ h < LastHour + 1
  BY SeriesAssumption DEF Hours
<1>2. PICK first \in DOMAIN series : \A h \in DOMAIN series : first <= h
  BY <1>1, Least
<1>3. First(series) \in DOMAIN series /\ \A h \in DOMAIN series : First(series) <= h
  BY <1>2 DEF First
<1>4. /\ Last(series) \in {0} \cup DOMAIN series
      /\ \A h \in DOMAIN series : h <= Last(series)
  BY <1>1, BeforeIs, SeriesAssumption DEF Last
<1> QED
  BY <1>1, <1>3, <1>4

LEMMA LastStored ==
    ASSUME NEW rows, DOMAIN rows \in SUBSET Hours
    PROVE  /\ Last(rows) \in 0..LastHour
           /\ \A h \in DOMAIN rows : h <= Last(rows)
           /\ Last(rows) # 0 => Last(rows) \in DOMAIN rows
  BY BeforeIs, SeriesAssumption DEF Last, Hours

-----------------------------------------------------------------------------
(* Rows, values and totals. *)

LEMMA RowsAre == ASSUME NEW rows PROVE rows \in RowSets <=> AreRows(rows)
  BY DEF RowSets, AreRows

LEMMA SeriesAre ==
    ASSUME NEW values
    PROVE  values \in SeriesSets <=> /\ DOMAIN values \in (SUBSET Hours) \ {{}}
                                     /\ values \in [DOMAIN values -> 0..MaxValue]
  BY DEF SeriesSets

LEMMA ValuesAre ==
    ASSUME NEW values
    PROVE  values \in ValueSets <=> /\ DOMAIN values \subseteq Hours
                                    /\ values \in [DOMAIN values -> 0..MaxValue]
<1>1. ASSUME values \in ValueSets
      PROVE  DOMAIN values \subseteq Hours /\ values \in [DOMAIN values -> 0..MaxValue]
  BY <1>1, SeriesAre DEF ValueSets, NoRows
<1>2. ASSUME DOMAIN values \subseteq Hours, values \in [DOMAIN values -> 0..MaxValue]
      PROVE  values \in ValueSets
  <2>1. CASE DOMAIN values = {}
    BY <1>2, <2>1 DEF ValueSets, NoRows
  <2>2. CASE DOMAIN values # {}
    BY <1>2, <2>2, SeriesAre DEF ValueSets
  <2> QED
    BY <2>1, <2>2
<1> QED
  BY <1>1, <1>2

LEMMA Times ==
    ASSUME NEW a \in Nat, NEW b \in Nat, a < b
    PROVE  /\ a * MaxValue \in Nat /\ b * MaxValue \in Nat
           /\ a * MaxValue + MaxValue <= b * MaxValue
<1>1. PICK n \in Nat : b = a + 1 + n
  <2>1. b - a - 1 \in Nat /\ b = a + 1 + (b - a - 1)
    OBVIOUS
  <2> QED
    BY <2>1
<1>2. /\ a * MaxValue \in Nat /\ n * MaxValue \in Nat
      /\ (a + 1 + n) * MaxValue = a * MaxValue + MaxValue + n * MaxValue
  BY SeriesAssumption
<1> QED
  BY <1>1, <1>2, SeriesAssumption

\* The running totals from an hour on never get past what the hours before
\* them can add.
LEMMA RunningTotals ==
    ASSUME NEW S \in SUBSET Hours, NEW sums \in [S -> Int], NEW values \in [S -> 0..MaxValue],
           NEW from \in Nat, NEW opening \in 0..from * MaxValue, \A h \in S : from < h,
           \A h \in S : sums[h] = values[h] + IF Before(S, h) = 0 THEN opening
                                                                  ELSE sums[Before(S, h)]
    PROVE  \A h \in S : sums[h] \in 0..h * MaxValue
<1> DEFINE wrong == {h \in S : sums[h] \notin 0..h * MaxValue}
<1>1. SUFFICES ASSUME wrong # {} PROVE FALSE
  OBVIOUS
<1>2. wrong \in SUBSET Nat /\ \A h \in S : h \in Nat /\ h \in 1..LastHour + 1
  <2>1. \A h \in S : h \in Nat /\ h \in 1..LastHour + 1
    BY SeriesAssumption DEF Hours
  <2>2. wrong \subseteq S
    OBVIOUS
  <2> QED
    BY <2>1, <2>2
<1>3. PICK h \in wrong : \A m \in wrong : h <= m
  BY <1>1, <1>2, Least
<1> DEFINE k == Before(S, h)
<1>4. k \in {0} \cup S /\ k < h
  BY <1>2, <1>3, BeforeIs
<1> HIDE DEF k
<1>5. h \in Nat /\ k \in Nat /\ values[h] \in 0..MaxValue
  BY <1>2, <1>3, <1>4
<1>6. sums[h] = values[h] + IF k = 0 THEN opening ELSE sums[k]
  BY <1>3 DEF k
<1>7. CASE k = 0
  <2>1. from * MaxValue + MaxValue <= h * MaxValue /\ from * MaxValue \in Nat /\ h * MaxValue \in Nat
    BY <1>3, <1>5, Times
  <2>2. sums[h] = values[h] + opening
    BY <1>6, <1>7
  <2> QED
    BY <1>3, <1>5, <2>1, <2>2, SeriesAssumption
<1>8. CASE k # 0
  <2>1. sums[k] \in 0..k * MaxValue
    <3>1. k \in S /\ k \notin wrong
      BY <1>2, <1>3, <1>4, <1>8
    <3> QED
      BY <3>1
  <2>2. k * MaxValue + MaxValue <= h * MaxValue /\ k * MaxValue \in Nat /\ h * MaxValue \in Nat
    BY <1>4, <1>5, Times
  <2>3. sums[h] = values[h] + sums[k]
    BY <1>6, <1>8
  <2> QED
    BY <1>3, <1>5, <2>1, <2>2, <2>3, SeriesAssumption
<1> QED
  BY <1>7, <1>8

\* Over replaces the hours it is given and keeps the others.
LEMMA OverIs ==
    ASSUME NEW new, NEW old
    PROVE  /\ DOMAIN Over(new, old) = DOMAIN new \cup DOMAIN old
           /\ \A h \in DOMAIN new : Over(new, old)[h] = new[h]
           /\ \A h \in DOMAIN old \ DOMAIN new : Over(new, old)[h] = old[h]
  BY DEF Over

LEMMA OverRows ==
    ASSUME NEW new \in RowSets, NEW old \in RowSets
    PROVE  Over(new, old) \in RowSets
  BY RowsAre DEF AreRows, Over

LEMMA OverValues ==
    ASSUME NEW new \in ValueSets, NEW old \in ValueSets
    PROVE  Over(new, old) \in ValueSets
  BY ValuesAre DEF Over

-----------------------------------------------------------------------------
(* Rows that count on, and what a batch makes of them. *)

LEMMA TabledHours ==
    ASSUME NEW rows, NEW values, Tabled(rows, values)
    PROVE  /\ DOMAIN rows \in SUBSET Hours /\ rows \in [DOMAIN rows -> [state : Int, sum : Int]]
           /\ values \in [DOMAIN rows -> 0..MaxValue]
           /\ \A h \in DOMAIN rows : h \in Nat /\ h > 0 /\ h \in 1..LastHour + 1
<1>1. DOMAIN rows \in SUBSET Hours /\ rows \in [DOMAIN rows -> [state : Int, sum : Int]]
  BY RowsAre DEF Tabled, AreRows
<1>2. values \in [DOMAIN rows -> 0..MaxValue]
  BY ValuesAre DEF Tabled
<1> QED
  BY <1>1, <1>2, SeriesAssumption DEF Hours

LEMMA TotalsBefore ==
    ASSUME NEW rows \in RowSets, NEW h \in 1..LastHour + 1
    PROVE  /\ TotalBefore(rows, h) \in Int
           /\ Before(DOMAIN rows, h) \in Nat /\ Before(DOMAIN rows, h) < h
           /\ Bounded(rows) => TotalBefore(rows, h) \in 0..Before(DOMAIN rows, h) * MaxValue
<1>1. DOMAIN rows \in SUBSET Hours /\ rows \in [DOMAIN rows -> [state : Int, sum : Int]]
  BY RowsAre DEF AreRows
<1>2. Before(DOMAIN rows, h) \in {0} \cup DOMAIN rows /\ Before(DOMAIN rows, h) < h
  BY <1>1, BeforeIs
<1>3. DOMAIN rows \subseteq Nat
  BY <1>1, SeriesAssumption DEF Hours
<1>4. CASE Before(DOMAIN rows, h) = 0
  BY <1>2, <1>4, SeriesAssumption DEF TotalBefore, SumAt
<1>5. CASE Before(DOMAIN rows, h) # 0
  <2>1. Before(DOMAIN rows, h) \in DOMAIN rows /\ TotalBefore(rows, h) = rows[Before(DOMAIN rows, h)].sum
    BY <1>2, <1>5 DEF TotalBefore, SumAt
  <2> QED
    BY <1>1, <1>2, <1>3, <2>1 DEF Bounded
<1> QED
  BY <1>4, <1>5

\* With nothing missing, an hour adds its value to the total before it.
LEMMA CountsOnto ==
    ASSUME NEW rows, NEW values, Tabled(rows, values), NEW total,
           CountsOn(total, rows, values, 0, 0), NEW h \in DOMAIN rows
    PROVE  /\ rows[h].state = IF total THEN rows[h].sum ELSE values[h]
           /\ rows[h].sum = TotalBefore(rows, h) + values[h]
<1>1. TotalBefore(rows, h) \in Int /\ values[h] \in Int
  BY TabledHours, TotalsBefore DEF Tabled
<1>2. rows[h].sum = TotalBefore(rows, h) + values[h] - 0
  BY DEF CountsOn, Missing
<1>3. rows[h].state = IF total THEN rows[h].sum ELSE values[h]
  BY DEF CountsOn
<1> QED
  BY <1>1, <1>2, <1>3

\* Hours that count onto each other have totals within their bounds.
LEMMA CountingBounds ==
    ASSUME NEW rows, NEW values, Tabled(rows, values), NEW total,
           CountsOn(total, rows, values, 0, 0)
    PROVE  Bounded(rows)
<1> DEFINE sums == [h \in DOMAIN rows |-> rows[h].sum]
<1>1. /\ DOMAIN rows \in SUBSET Hours /\ rows \in [DOMAIN rows -> [state : Int, sum : Int]]
      /\ values \in [DOMAIN rows -> 0..MaxValue]
      /\ \A h \in DOMAIN rows : 0 < h /\ h \in 1..LastHour + 1
  BY TabledHours
<1>2. sums \in [DOMAIN rows -> Int]
  BY <1>1
<1>3. ASSUME NEW h \in DOMAIN rows
      PROVE  sums[h] = values[h] + IF Before(DOMAIN rows, h) = 0 THEN 0
                                   ELSE sums[Before(DOMAIN rows, h)]
  <2>1. Before(DOMAIN rows, h) \in {0} \cup DOMAIN rows
    BY <1>1, BeforeIs
  <2>2. TotalBefore(rows, h) = IF Before(DOMAIN rows, h) = 0 THEN 0
                               ELSE sums[Before(DOMAIN rows, h)]
    BY <2>1 DEF TotalBefore, SumAt
  <2>3. TotalBefore(rows, h) \in Int /\ values[h] \in Int
    BY <1>1, TotalsBefore DEF Tabled
  <2>4. sums[h] = TotalBefore(rows, h) + values[h]
    BY CountsOnto
  <2> QED
    BY <2>2, <2>3, <2>4
<1>4. 0 \in 0..0 * MaxValue
  BY SeriesAssumption
<1> HIDE DEF sums
<1>5. \A h \in DOMAIN rows : sums[h] \in 0..h * MaxValue
  BY <1>1, <1>2, <1>3, <1>4, RunningTotals
<1> QED
  BY <1>5 DEF sums, Bounded

LEMMA BatchRows ==
    ASSUME NEW batch \in Batches, NEW total, NEW rows, Fits(batch, total, rows)
    PROVE  /\ batch.values \in SeriesSets /\ DOMAIN batch.rows = DOMAIN batch.values
           /\ DOMAIN batch.values \in (SUBSET Hours) \ {{}}
           /\ batch.rows \in [DOMAIN batch.values -> [state : Int, sum : Int]]
           /\ batch.values \in [DOMAIN batch.values -> 0..MaxValue]
           /\ First(batch.values) \in DOMAIN batch.values /\ First(batch.values) \in 1..LastHour
           /\ Last(batch.values) \in DOMAIN batch.values /\ Last(batch.values) \in 1..LastHour
           /\ \A h \in DOMAIN batch.values : /\ First(batch.values) <= h /\ h <= Last(batch.values)
                                             /\ h \in Nat /\ h > 0 /\ h \in 1..LastHour + 1
<1>1. /\ batch.values \in SeriesSets /\ DOMAIN batch.rows = DOMAIN batch.values
      /\ batch.rows \in RowSets
  BY DEF Fits, Batches
<1>2. /\ DOMAIN batch.values \in (SUBSET Hours) \ {{}}
      /\ batch.values \in [DOMAIN batch.values -> 0..MaxValue]
  BY <1>1, SeriesAre
<1>3. batch.rows \in [DOMAIN batch.values -> [state : Int, sum : Int]]
  BY <1>1, RowsAre DEF AreRows
<1>4. \A h \in DOMAIN batch.values : h \in Nat /\ h > 0 /\ h \in 1..LastHour + 1
  BY <1>2, SeriesAssumption DEF Hours
<1>5. /\ First(batch.values) \in DOMAIN batch.values /\ Last(batch.values) \in DOMAIN batch.values
      /\ \A h \in DOMAIN batch.values : First(batch.values) <= h /\ h <= Last(batch.values)
  BY <1>2, SeriesEnds
<1>6. First(batch.values) \in 1..LastHour /\ Last(batch.values) \in 1..LastHour
  BY <1>2, <1>5 DEF Hours
<1> QED
  BY <1>1, <1>2, <1>3, <1>4, <1>5, <1>6

\* The hours of a range S, from f to l, and all the stored hours T inside it.
Spans(S, T, f, l) ==
    /\ S \in SUBSET Hours /\ T \in SUBSET Hours /\ f \in S /\ l \in S
    /\ \A h \in S : f <= h /\ h <= l
    /\ \A h \in T : f <= h /\ h <= l => h \in S

\* The nearest hours before each other once the range is stored.
LEMMA Neighbours ==
    ASSUME NEW S, NEW T, NEW f, NEW l, Spans(S, T, f, l), NEW h \in S \cup T
    PROVE  /\ h = f => Before(S, h) = 0 /\ Before(S \cup T, h) = Before(T, f)
           /\ h \in S /\ h # f => Before(S, h) \in S /\ Before(S \cup T, h) = Before(S, h)
           /\ h < f => Before(S \cup T, h) = Before(T, h)
           /\ h > l => IF Before(T, h) > l THEN Before(S \cup T, h) = Before(T, h)
                       ELSE Before(S \cup T, h) = l /\ Before(T, h) = Before(T, l + 1)
<1>0. /\ S \in SUBSET Hours /\ T \in SUBSET Hours /\ f \in S /\ l \in S
      /\ \A j \in S : f <= j /\ j <= l
      /\ \A j \in T : f <= j /\ j <= l => j \in S
  BY DEF Spans
<1>1. /\ S \in SUBSET Hours /\ T \in SUBSET Hours /\ f \in S /\ l \in S
      /\ \A j \in S : f <= j /\ j <= l
      /\ \A j \in T : f <= j /\ j <= l => j \in S
      /\ \A j \in S \cup T : j \in Nat /\ j \in 1..LastHour + 1 /\ j > 0
      /\ S \cup T \in SUBSET Hours /\ l + 1 \in 1..LastHour + 1
  BY <1>0, SeriesAssumption DEF Hours
<1>2. ASSUME h = f PROVE Before(S, h) = 0 /\ Before(S \cup T, h) = Before(T, f)
  <2>1. Before(S, h) = 0
    BY <1>1, <1>2, BeforeUnique
  <2>2. /\ Before(T, f) \in {0} \cup T /\ Before(T, f) < f
        /\ \A j \in T : j < f => j <= Before(T, f)
    BY <1>1, BeforeIs
  <2>3. \A j \in S \cup T : j < f => j <= Before(T, f)
    BY <1>1, <2>2
  <2> QED
    BY <1>1, <1>2, <2>1, <2>2, <2>3, BeforeUnique
<1>3. ASSUME h \in S, h # f PROVE Before(S, h) \in S /\ Before(S \cup T, h) = Before(S, h)
  <2> DEFINE k == Before(S, h)
  <2>1. k \in {0} \cup S /\ k < h /\ \A j \in S : j < h => j <= k
    BY <1>1, <1>3, BeforeIs
  <2> HIDE DEF k
  <2>2. f < h /\ f <= k
    BY <1>1, <1>3, <2>1
  <2>3. k \in S
    BY <1>1, <2>1, <2>2
  <2>4. ASSUME NEW j \in S \cup T, j < h PROVE j <= k
    <3>1. CASE j < f
      BY <1>1, <2>2, <2>3, <3>1
    <3>2. CASE f <= j
      <4>1. j <= l
        BY <1>1, <1>3, <2>4
      <4>2. j \in S
        BY <1>1, <3>2, <4>1
      <4> QED
        BY <2>1, <2>4, <4>2
    <3> QED
      BY <1>1, <3>1, <3>2
  <2>5. Before(S \cup T, h) = k
    BY <1>1, <2>1, <2>3, <2>4, BeforeUnique
  <2> QED
    BY <2>3, <2>5 DEF k
<1>4. ASSUME h < f PROVE Before(S \cup T, h) = Before(T, h)
  <2>1. /\ Before(T, h) \in {0} \cup T /\ Before(T, h) < h
        /\ \A j \in T : j < h => j <= Before(T, h)
    BY <1>1, BeforeIs
  <2>2. \A j \in S \cup T : j < h => j \in T
    BY <1>1, <1>4
  <2> QED
    BY <1>1, <2>1, <2>2, BeforeUnique
<1>5. ASSUME h > l PROVE IF Before(T, h) > l THEN Before(S \cup T, h) = Before(T, h)
                         ELSE Before(S \cup T, h) = l /\ Before(T, h) = Before(T, l + 1)
  <2> DEFINE k == Before(T, h)
  <2>1. k \in {0} \cup T /\ k < h /\ \A j \in T : j < h => j <= k
    BY <1>1, BeforeIs
  <2> HIDE DEF k
  <2>2. k \in Nat
    BY <1>1, <2>1
  <2>3. CASE k > l
    <3>1. \A j \in S \cup T : j < h => j <= k
      BY <1>1, <2>1, <2>2, <2>3
    <3>2. Before(S \cup T, h) = k
      BY <1>1, <2>1, <3>1, BeforeUnique
    <3> QED
      BY <2>3, <3>2 DEF k
  <2>4. CASE ~(k > l)
    <3>1. \A j \in S \cup T : j < h => j <= l
      BY <1>1, <2>1, <2>2, <2>4
    <3>2. Before(S \cup T, h) = l
      BY <1>1, <1>5, <3>1, BeforeUnique
    <3>3. k < l + 1
      BY <1>1, <2>2, <2>4
    <3>4. \A j \in T : j < l + 1 => j <= k
      BY <1>1, <1>5, <2>1
    <3>5. Before(T, l + 1) = k
      BY <1>1, <2>1, <3>3, <3>4, BeforeUnique
    <3> QED
      BY <2>4, <3>2, <3>5 DEF k
  <2> QED
    BY <2>3, <2>4
<1> QED
  BY <1>2, <1>3, <1>4, <1>5

\* What a batch leaves has a value for each hour, and no hour is lost.
LEMMA StoredTypes ==
    ASSUME NEW rows, NEW values, Tabled(rows, values), NEW batch \in Batches,
           IF batch.values = NoRows THEN DOMAIN batch.rows \subseteq DOMAIN rows
           ELSE DOMAIN batch.values = DOMAIN batch.rows
    PROVE  /\ Tabled(Over(batch.rows, rows), Over(batch.values, values))
           /\ DOMAIN Over(batch.rows, rows) = DOMAIN batch.rows \cup DOMAIN rows
<1>1. batch.rows \in RowSets /\ batch.values \in ValueSets
  BY DEF Batches
<1>2. /\ Over(batch.rows, rows) \in RowSets /\ Over(batch.values, values) \in ValueSets
      /\ DOMAIN values = DOMAIN rows
  BY <1>1, OverRows, OverValues DEF Tabled
<1>3. /\ DOMAIN Over(batch.rows, rows) = DOMAIN batch.rows \cup DOMAIN rows
      /\ DOMAIN Over(batch.values, values) = DOMAIN batch.values \cup DOMAIN rows
  BY <1>2 DEF Over
<1>4. DOMAIN NoRows = {}
  BY DEF NoRows
<1> QED
  BY <1>2, <1>3, <1>4 DEF Tabled

\* The range of a batch leaves the later rows as they are.
LEMMA AfterRange ==
    ASSUME NEW rows \in RowSets, NEW total, NEW batch \in Batches, Fits(batch, total, rows),
           NEW stored, stored = Over(batch.rows, rows), NEW l, l = Last(batch.values)
    PROVE  /\ After(stored, l) = After(rows, l) /\ Tailing(stored, l) = Tailing(rows, l)
           /\ l \in DOMAIN stored
           /\ \A h \in After(rows, l) : stored[h] = rows[h]
<1>1. /\ DOMAIN batch.rows = DOMAIN batch.values /\ l \in DOMAIN batch.rows
      /\ \A h \in DOMAIN batch.rows : h <= l /\ h \in Nat
  BY BatchRows
<1>2. DOMAIN stored = DOMAIN batch.rows \cup DOMAIN rows
  BY OverIs
<1>3. l \in Int /\ DOMAIN rows \subseteq Int
  BY <1>1, RowsAre DEF AreRows, Hours
<1>4. After(stored, l) = After(rows, l)
  BY <1>1, <1>2, <1>3 DEF After
<1>5. After(rows, l) \subseteq DOMAIN rows \ DOMAIN batch.rows
  BY <1>1, <1>3 DEF After
<1>6. \A h \in After(rows, l) : stored[h] = rows[h]
  BY <1>5 DEF Over
<1> QED
  BY <1>1, <1>2, <1>4, <1>6 DEF Tailing

\* The rows that follow a batch count on, but for what its range gained.
LEMMA StoreRange ==
    ASSUME NEW rows, NEW values, Tabled(rows, values), NEW total \in BOOLEAN,
           CountsOn(total, rows, values, 0, 0),
           NEW batch \in Batches, Fits(batch, total, rows),
           NEW stored, stored = Over(batch.rows, rows), NEW meaning, meaning = Over(batch.values, values)
    PROVE  CountsOn(total, stored, meaning, batch.due, Shift(batch, rows))
<1> DEFINE S == DOMAIN batch.values
           T == DOMAIN rows
           f == First(batch.values)
           l == Last(batch.values)
           B == batch.rows
           V == batch.values
           d == Shift(batch, rows)
           due == batch.due
<1>1. /\ S \in SUBSET Hours /\ B \in [S -> [state : Int, sum : Int]] /\ V \in [S -> 0..MaxValue]
      /\ f \in S /\ f \in 1..LastHour /\ l \in S /\ l \in 1..LastHour
      /\ \A h \in S : f <= h /\ h <= l /\ h \in Nat /\ h > 0 /\ h \in 1..LastHour + 1
      /\ DOMAIN B = S /\ DOMAIN V = S
  BY BatchRows
<1>2. /\ \A h \in T : f <= h /\ h <= l => h \in S
      /\ \A h \in S : B[h] = RowOf(total, V[h], V[h] + IF Before(S, h) = 0 THEN TotalBefore(rows, f)
                                                       ELSE B[Before(S, h)].sum)
      /\ due = IF After(rows, l) # {} /\ d # 0 THEN l ELSE 0
  BY DEF Fits, Covered
<1>3. d = B[l].sum - TotalBefore(rows, l + 1)
  BY DEF Shift
<1>4. stored = Over(B, rows) /\ meaning = Over(V, values)
  OBVIOUS
<1>5. /\ T \in SUBSET Hours /\ rows \in [T -> [state : Int, sum : Int]] /\ values \in [T -> 0..MaxValue]
      /\ \A h \in T : h \in Nat /\ h > 0 /\ h \in 1..LastHour + 1
  BY TabledHours
<1>6. \A h \in 1..LastHour + 1 : TotalBefore(rows, h) \in Int
  BY TotalsBefore DEF Tabled
<1>7. \A h \in T : /\ rows[h].state = IF total THEN rows[h].sum ELSE values[h]
                   /\ rows[h].sum = TotalBefore(rows, h) + values[h]
  BY CountsOnto
<1>8. SUFFICES CountsOn(total, stored, meaning, due, d)
  OBVIOUS
<1> DEFINE goal == CountsOn(total, stored, meaning, due, d)
<1> HIDE DEF S, T, f, l, B, V, d, due, goal
<1>9. /\ DOMAIN stored = S \cup T
      /\ \A h \in S : stored[h] = B[h] /\ meaning[h] = V[h]
      /\ \A h \in T \ S : stored[h] = rows[h] /\ meaning[h] = values[h]
  BY <1>1, <1>4, <1>5 DEF Over
<1>10. /\ f \in 1..LastHour + 1 /\ l + 1 \in 1..LastHour + 1 /\ f \in Nat /\ l \in Nat /\ l > 0
       /\ d \in Int /\ B[l].sum = TotalBefore(rows, l + 1) + d
  <2>1. f \in 1..LastHour + 1 /\ l + 1 \in 1..LastHour + 1 /\ f \in Nat /\ l \in Nat /\ l > 0
    BY <1>1, SeriesAssumption
  <2>2. B[l].sum \in Int /\ TotalBefore(rows, l + 1) \in Int
    BY <1>1, <1>6, <2>1
  <2> QED
    BY <1>3, <2>1, <2>2
<1>11. ASSUME NEW h \in S \cup T
       PROVE  /\ stored[h].state = IF total THEN stored[h].sum ELSE meaning[h]
              /\ stored[h].sum = SumAt(stored, Before(S \cup T, h)) + meaning[h]
                    - IF due # 0 /\ Before(S \cup T, h) = due THEN d ELSE 0
  <2> DEFINE new == Before(S \cup T, h)
             old == Before(T, h)
             in == Before(S, h)
  <2>1. h \in Nat /\ h \in 1..LastHour + 1
    BY <1>1, <1>5
  <2>2. /\ h = f => in = 0 /\ new = Before(T, f)
        /\ h \in S /\ h # f => in \in S /\ new = in
        /\ h < f => new = old
        /\ h > l => IF old > l THEN new = old
                    ELSE new = l /\ old = Before(T, l + 1)
    <3>1. Spans(S, T, f, l) /\ h \in S \cup T
      BY <1>1, <1>2, <1>5 DEF Spans
    <3>2. /\ h = f => Before(S, h) = 0 /\ Before(S \cup T, h) = Before(T, f)
          /\ h \in S /\ h # f => Before(S, h) \in S /\ Before(S \cup T, h) = Before(S, h)
          /\ h < f => Before(S \cup T, h) = Before(T, h)
          /\ h > l => IF Before(T, h) > l THEN Before(S \cup T, h) = Before(T, h)
                      ELSE Before(S \cup T, h) = l /\ Before(T, h) = Before(T, l + 1)
      BY ONLY <3>1, Neighbours
    <3> QED
      BY <3>2
  <2>3. /\ old \in {0} \cup T /\ old < h /\ Before(T, f) \in {0} \cup T /\ Before(T, f) < f
        /\ in < h
    BY <1>1, <1>5, <1>10, <2>1, BeforeIs
  <2>4. TotalBefore(rows, h) = SumAt(rows, old)
    BY DEF TotalBefore, T
  <2> HIDE DEF new, old, in
  <2> SUFFICES /\ stored[h].state = IF total THEN stored[h].sum ELSE meaning[h]
               /\ stored[h].sum = SumAt(stored, new) + meaning[h]
                     - IF due # 0 /\ new = due THEN d ELSE 0
    BY DEF new
  <2>5. CASE h \in S
    <3>1. B[h] = RowOf(total, V[h], V[h] + IF in = 0 THEN TotalBefore(rows, f) ELSE B[in].sum)
      BY <1>2, <2>5 DEF in
    <3>2. /\ B[h].state = IF total THEN B[h].sum ELSE V[h]
          /\ B[h].sum = V[h] + IF in = 0 THEN TotalBefore(rows, f) ELSE B[in].sum
      BY <3>1 DEF RowOf
    <3>3. stored[h] = B[h] /\ meaning[h] = V[h] /\ V[h] \in Int
      BY <1>1, <1>9, <2>5
    <3>4. CASE h = f
      <4>1. new \in {0} \cup (T \ S) /\ new # l
        <5>1. new \in {0} \cup T /\ new < f
          BY <2>2, <2>3, <3>4
        <5>2. new \in Nat
          BY <1>5, <5>1
        <5>3. \A j \in S : ~(j < f)
          BY <1>1, <1>10
        <5> QED
          BY <1>1, <1>10, <5>1, <5>2, <5>3
      <4>2. SumAt(stored, new) = TotalBefore(rows, f)
        BY <1>9, <2>2, <3>4, <4>1 DEF SumAt, TotalBefore, T
      <4>3. B[h].sum = V[h] + TotalBefore(rows, f) /\ TotalBefore(rows, f) \in Int
        BY <1>6, <1>10, <2>2, <3>2, <3>4
      <4>4. (IF due # 0 /\ new = due THEN d ELSE 0) = 0
        BY <1>2, <4>1
      <4>5. B[h].sum = SumAt(stored, new) + V[h] - 0
        BY <3>3, <4>2, <4>3
      <4> QED
        BY <3>2, <3>3, <4>4, <4>5
    <3>5. CASE h # f
      <4>1. new = in /\ new \in S /\ new < h /\ new > 0
        BY <1>1, <2>2, <2>3, <2>5, <3>5
      <4>2. new # 0 /\ new # l
        BY <1>1, <1>10, <2>1, <2>5, <4>1
      <4>3. SumAt(stored, new) = B[new].sum /\ B[new].sum \in Int
        BY <1>1, <1>9, <4>1, <4>2 DEF SumAt
      <4>4. (IF due # 0 /\ new = due THEN d ELSE 0) = 0
        BY <1>2, <4>2
      <4>5. B[h].sum = V[h] + B[new].sum
        BY <3>2, <4>1, <4>2
      <4>6. B[h].sum = SumAt(stored, new) + V[h] - 0
        BY <3>3, <4>3, <4>5
      <4> QED
        BY <3>2, <3>3, <4>4, <4>6
    <3> QED
      BY <3>4, <3>5
  <2>6. CASE h \notin S
    <3>1. /\ stored[h] = rows[h] /\ meaning[h] = values[h] /\ h \in T /\ values[h] \in Int
          /\ TotalBefore(rows, h) \in Int
          /\ rows[h].state = IF total THEN rows[h].sum ELSE values[h]
          /\ rows[h].sum = TotalBefore(rows, h) + values[h]
      BY <1>5, <1>6, <1>7, <1>9, <2>1, <2>6
    <3>2. CASE h < f \/ (h > l /\ old > l)
      <4>1. new = old /\ new \in {0} \cup (T \ S) /\ new # l
        <5>1. new = old /\ old \in {0} \cup T /\ old \in Nat
          BY <1>5, <1>10, <2>1, <2>2, <2>3, <3>2
        <5>2. old < f \/ old > l
          BY <1>10, <2>1, <2>3, <3>2, <5>1
        <5>3. \A j \in S : ~(j < f) /\ ~(j > l)
          BY <1>1, <1>10
        <5> QED
          BY <1>1, <5>1, <5>2, <5>3
      <4>2. SumAt(stored, new) = TotalBefore(rows, h)
        BY <1>9, <2>4, <4>1 DEF SumAt
      <4>3. (IF due # 0 /\ new = due THEN d ELSE 0) = 0
        BY <1>2, <4>1
      <4>4. rows[h].sum = SumAt(stored, new) + values[h] - 0
        BY <3>1, <4>2
      <4> QED
        BY <3>1, <4>3, <4>4
    <3>3. CASE h > l /\ ~(old > l)
      <4>1. new = l /\ TotalBefore(rows, h) = TotalBefore(rows, l + 1)
        BY <2>2, <2>4, <3>3 DEF TotalBefore, T
      <4>2. SumAt(stored, new) = B[l].sum
        BY <1>1, <1>9, <1>10, <4>1 DEF SumAt
      <4>3. SumAt(stored, new) = TotalBefore(rows, h) + d
        BY <1>10, <4>1, <4>2
      <4>4. After(rows, l) # {}
        BY <3>1, <3>3 DEF After, T
      <4>5. (IF due # 0 /\ new = due THEN d ELSE 0) = d
        BY <1>2, <1>10, <4>1, <4>4
      <4>6. rows[h].sum = SumAt(stored, new) + values[h] - d
        BY <1>10, <3>1, <4>3
      <4> QED
        BY <3>1, <4>5, <4>6
    <3>4. h < f \/ h > l
      BY <1>2, <1>10, <2>1, <2>6, <3>1
    <3> QED
      BY <3>2, <3>3, <3>4
  <2> QED
    BY <2>5, <2>6
<1> QED
  BY <1>9, <1>11 DEF goal, CountsOn, Missing, TotalBefore

LEMMA RangeBounds ==
    ASSUME NEW rows \in RowSets, Bounded(rows), NEW total,
           NEW batch \in Batches, Fits(batch, total, rows)
    PROVE  Bounded(Over(batch.rows, rows))
<1> DEFINE S == DOMAIN batch.values
           f == First(batch.values)
           from == Before(DOMAIN rows, f)
           opening == TotalBefore(rows, f)
           sums == [h \in S |-> batch.rows[h].sum]
           V == batch.values
<1>1. /\ S \in SUBSET Hours /\ batch.rows \in [S -> [state : Int, sum : Int]]
      /\ V \in [S -> 0..MaxValue] /\ DOMAIN batch.rows = S
      /\ f \in 1..LastHour /\ \A h \in S : f <= h /\ h \in Nat /\ h \in 1..LastHour + 1
  BY BatchRows
<1>2. f \in 1..LastHour + 1 /\ f \in Nat
  BY <1>1, SeriesAssumption
<1>3. from \in Nat /\ from < f /\ opening \in 0..from * MaxValue
  BY <1>2, TotalsBefore
<1>4. \A h \in S : from < h
  BY <1>1, <1>2, <1>3
<1>5. \A h \in S : sums[h] = V[h] + IF Before(S, h) = 0 THEN opening ELSE sums[Before(S, h)]
  <2> SUFFICES ASSUME NEW h \in S
               PROVE  sums[h] = V[h] + IF Before(S, h) = 0 THEN opening ELSE sums[Before(S, h)]
    OBVIOUS
  <2>1. batch.rows[h] = RowOf(total, V[h], V[h] + IF Before(S, h) = 0 THEN opening
                                                  ELSE batch.rows[Before(S, h)].sum)
    BY DEF Fits
  <2>2. batch.rows[h].sum = V[h] + IF Before(S, h) = 0 THEN opening
                                   ELSE batch.rows[Before(S, h)].sum
    BY <2>1 DEF RowOf
  <2>3. Before(S, h) \in {0} \cup S
    BY <1>1, BeforeIs
  <2> QED
    BY <2>2, <2>3
<1>6. sums \in [S -> Int]
  BY <1>1
<1>7. \A h \in S : sums[h] \in 0..h * MaxValue
  <2> HIDE DEF S, f, from, opening, sums, V
  <2> QED
    BY <1>1, <1>3, <1>4, <1>5, <1>6, RunningTotals
<1>8. \A h \in S : batch.rows[h].sum \in 0..h * MaxValue
  BY <1>7
<1> HIDE DEF S
<1> QED
  BY <1>1, <1>8 DEF Bounded, Over

\* Moving what is stored after an hour by the difference missing there mends
\* the totals, and leaves what an hour adds as it was.
LEMMA MoveRows ==
    ASSUME NEW rows, NEW values, Tabled(rows, values), NEW total \in BOOLEAN,
           NEW hour \in DOMAIN rows, NEW difference \in Int,
           CountsOn(total, rows, values, hour, difference),
           NEW stored, stored = Over(Moves(total, rows, hour, difference).rows, rows)
    PROVE  CountsOn(total, stored, values, 0, 0)
<1> DEFINE T == DOMAIN rows
<1>1. /\ T \in SUBSET Hours /\ rows \in [T -> [state : Int, sum : Int]]
      /\ values \in [T -> 0..MaxValue] /\ hour \in T
      /\ \A h \in T : h \in Nat /\ h > 0 /\ h \in 1..LastHour + 1
  BY TabledHours
<1>2. /\ DOMAIN stored = T
      /\ \A h \in T : stored[h] = IF h > hour
                                  THEN RowOf(total, rows[h].state, rows[h].sum + difference)
                                  ELSE rows[h]
  BY DEF Over, Moves, After
<1>3. ASSUME NEW h \in T
      PROVE  /\ rows[h].state = IF total THEN rows[h].sum ELSE values[h]
             /\ rows[h].sum = SumAt(rows, Before(T, h)) + values[h]
                    - IF hour # 0 /\ Before(T, h) = hour THEN difference ELSE 0
  BY DEF CountsOn, Missing, TotalBefore
<1> HIDE DEF T
<1>4. ASSUME NEW h \in T
      PROVE  /\ stored[h].state = IF total THEN stored[h].sum ELSE values[h]
             /\ stored[h].sum = SumAt(stored, Before(T, h)) + values[h]
  <2> DEFINE k == Before(T, h)
  <2>1. k \in {0} \cup T /\ k < h /\ \A j \in T : j < h => j <= k
    BY <1>1, BeforeIs
  <2>2. /\ rows[h].state = IF total THEN rows[h].sum ELSE values[h]
        /\ rows[h].sum = SumAt(rows, k) + values[h] - IF hour # 0 /\ k = hour THEN difference ELSE 0
    BY <1>3
  <2> HIDE DEF k
  <2> SUFFICES /\ stored[h].state = IF total THEN stored[h].sum ELSE values[h]
               /\ stored[h].sum = SumAt(stored, k) + values[h]
    BY DEF k
  <2>3. /\ k \in Nat /\ h \in Nat /\ hour \in Nat /\ hour > 0
        /\ SumAt(rows, k) \in Int /\ values[h] \in Int /\ rows[h].sum \in Int
    BY <1>1, <2>1 DEF SumAt
  <2>4. CASE h > hour
    <3>1. /\ stored[h].sum = rows[h].sum + difference
          /\ stored[h].state = IF total THEN stored[h].sum ELSE rows[h].state
      <4>1. stored[h] = RowOf(total, rows[h].state, rows[h].sum + difference)
        BY <1>2, <2>4
      <4> QED
        BY <4>1 DEF RowOf
    <3>2. k >= hour /\ k \in T
      BY <1>1, <2>1, <2>3, <2>4
    <3>3. CASE k = hour
      <4>1. SumAt(stored, k) = SumAt(rows, k)
        BY <1>2, <2>3, <3>2, <3>3 DEF SumAt
      <4>2. rows[h].sum = SumAt(rows, k) + values[h] - difference
        BY <2>2, <2>3, <3>3
      <4> QED
        BY <2>2, <2>3, <3>1, <4>1, <4>2
    <3>4. CASE k > hour
      <4>1. SumAt(stored, k) = SumAt(rows, k) + difference
        <5>1. stored[k] = RowOf(total, rows[k].state, rows[k].sum + difference)
          BY <1>2, <3>2, <3>4
        <5>2. stored[k].sum = rows[k].sum + difference /\ k # 0
          BY <2>3, <3>4, <5>1 DEF RowOf
        <5> QED
          BY <5>2 DEF SumAt
      <4>2. rows[h].sum = SumAt(rows, k) + values[h]
        BY <2>2, <2>3, <3>4
      <4> QED
        BY <2>2, <2>3, <3>1, <4>1, <4>2
    <3> QED
      BY <2>3, <3>2, <3>3, <3>4
  <2>5. CASE ~(h > hour)
    <3>1. stored[h] = rows[h]
      BY <1>2, <2>5
    <3>2. ~(k > hour) /\ k # hour
      BY <2>1, <2>3, <2>5
    <3>3. SumAt(stored, k) = SumAt(rows, k)
      BY <1>2, <2>1, <3>2 DEF SumAt
    <3>4. rows[h].sum = SumAt(rows, k) + values[h]
      BY <2>2, <2>3, <3>2
    <3> QED
      BY <2>2, <3>1, <3>3, <3>4
  <2> QED
    BY <2>4, <2>5
<1>5. \A h \in T : stored[h].sum = SumAt(stored, Before(T, h)) + values[h] - 0
  <2> SUFFICES ASSUME NEW h \in T
               PROVE  stored[h].sum = SumAt(stored, Before(T, h)) + values[h] - 0
    OBVIOUS
  <2> DEFINE k == Before(T, h)
  <2>1. k \in {0} \cup T
    BY <1>1, BeforeIs
  <2>2. \A j \in T : stored[j].sum \in Int
    <3> SUFFICES ASSUME NEW j \in T PROVE stored[j].sum \in Int
      OBVIOUS
    <3>1. rows[j].sum \in Int
      BY <1>1
    <3>2. CASE j > hour
      <4>1. stored[j] = RowOf(total, rows[j].state, rows[j].sum + difference)
        BY <1>2, <3>2
      <4>2. stored[j].sum = rows[j].sum + difference
        BY <4>1 DEF RowOf
      <4> QED
        BY <3>1, <4>2
    <3>3. CASE ~(j > hour)
      BY <1>2, <3>1, <3>3
    <3> QED
      BY <3>2, <3>3
  <2>3. SumAt(stored, k) \in Int /\ values[h] \in Int
    <3> HIDE DEF k
    <3> QED
      BY <1>1, <2>1, <2>2 DEF SumAt
  <2> QED
    BY <1>4, <2>3
<1> QED
  BY <1>2, <1>4, <1>5 DEF CountsOn, Missing, TotalBefore

\* A move is a batch that loses no hour, and leaves what an hour adds.
LEMMA MovesAre ==
    ASSUME NEW rows \in RowSets, NEW total \in BOOLEAN, NEW hour, NEW difference \in Int
    PROVE  /\ Moves(total, rows, hour, difference) \in Batches
           /\ DOMAIN Moves(total, rows, hour, difference).rows \subseteq DOMAIN rows
           /\ \A h \in DOMAIN Moves(total, rows, hour, difference).rows :
                 ~total => Moves(total, rows, hour, difference).rows[h].state = rows[h].state
<1> DEFINE moved == [h \in After(rows, hour) |->
                        RowOf(total, rows[h].state, rows[h].sum + difference)]
<1>1. DOMAIN rows \subseteq Hours /\ rows \in [DOMAIN rows -> [state : Int, sum : Int]]
  BY RowsAre DEF AreRows
<1>2. After(rows, hour) \subseteq DOMAIN rows
  BY DEF After
<1>3. moved \in [After(rows, hour) -> [state : Int, sum : Int]]
  BY <1>1, <1>2 DEF RowOf
<1>4. moved \in RowSets
  BY <1>1, <1>2, <1>3 DEF RowSets
<1>5. NoRows \in ValueSets /\ 0 \in 0..LastHour
  BY SeriesAssumption DEF ValueSets
<1> QED
  BY <1>2, <1>4, <1>5 DEF Moves, Batches, RowOf

\* The hour nearest before a range that starts after the newest is the newest.
LEMMA NewestBefore ==
    ASSUME NEW rows \in RowSets, NEW first \in 1..LastHour, Last(rows) < first
    PROVE  Before(DOMAIN rows, first) = Last(rows)
<1>1. DOMAIN rows \in SUBSET Hours /\ first \in 1..LastHour + 1
  BY RowsAre, SeriesAssumption DEF AreRows
<1>2. Last(rows) \in {0} \cup DOMAIN rows /\ \A h \in DOMAIN rows : h <= Last(rows)
  BY <1>1, LastStored
<1> QED
  BY <1>1, <1>2, BeforeUnique

LEMMA SomethingAfter ==
    ASSUME NEW rows \in RowSets, NEW hour \in 1..LastHour
    PROVE  Last(rows) > hour <=> After(rows, hour) # {}
<1>1. /\ DOMAIN rows \in SUBSET Hours /\ Last(rows) \in 0..LastHour
      /\ \A h \in DOMAIN rows : h <= Last(rows)
      /\ Last(rows) # 0 => Last(rows) \in DOMAIN rows
  BY RowsAre, LastStored DEF AreRows
<1> QED
  BY <1>1 DEF After, Hours

-----------------------------------------------------------------------------
(* The steps of the writer and of the recorder. *)

LEMMA NoCallIsOne == NoCall \in Calls
<1>1. NoRows \in RowSets
  BY RowsAre DEF AreRows, NoRows
<1> QED
  BY <1>1, SeriesAssumption DEF NoCall, Calls, ValueSets, Places

LEMMA Called ==
    ASSUME NEW w, Lone(w), Types, NEW fields \in Calls, ToCall(w, fields)
    PROVE  call' \in [Writers -> Calls] /\ call'[w] = fields
  BY DEF Lone, Types, ToCall

LEMMA Queued ==
    ASSUME NEW batch, NEW hands, hands = Append(<<>>, batch)
    PROVE  Len(hands) = 1 /\ hands[1] = batch /\ (batch \in Batches => hands \in Seq(Batches))
<1>1. hands = <<batch>>
  OBVIOUS
<1> QED
  BY <1>1

LEMMA TablesStay ==
    ASSUME Types, UNCHANGED Recorder, call' \in [Writers -> Calls], queue' \in Seq(Batches),
           writes' \in 0..MaxWrites
    PROVE  Types'
  BY DEF Types, Recorder, Tabled, Bounded

LEMMA SoundStays ==
    ASSUME UNCHANGED Recorder, NEW hour, NEW difference
    PROVE  Sound(hour, difference)' <=> Sound(hour, difference)
  BY DEF Sound, Recorder

LEMMA InitInv ==
    ASSUME NEW w, Lone(w), Init
    PROVE  Inv(w)
<1>1. Tabled(db, meant) /\ DOMAIN db = {}
  BY RowsAre DEF Init, Tabled, AreRows, ValueSets, NoRows
<1>2. Types
  <2>1. Bounded(db)
    BY <1>1 DEF Bounded
  <2>2. call \in [Writers -> Calls]
    BY NoCallIsOne DEF Init
  <2>3. queue \in Seq(Batches)
    BY DEF Init
  <2>4. totalState \in BOOLEAN /\ torn \in BOOLEAN
    BY DEF Init
  <2>5. broken \in 0..LastHour /\ writes \in 0..MaxWrites /\ restarts \in 0..MaxRestarts
    BY SeriesAssumption DEF Init
  <2> QED
    BY <1>1, <2>1, <2>2, <2>3, <2>4, <2>5 DEF Types
<1>3. Resting(w)
  BY <1>1 DEF Init, Resting, Sound, CountsOn, Lone, NoCall
<1> QED
  BY <1>2, <1>3 DEF Inv, Phases

LEMMA CallKeeps ==
    ASSUME NEW w, Lone(w), Inv(w), NEW series \in SeriesSets, Call(w, series)
    PROVE  Inv(w)'
<1>1. call[w].at = "idle" /\ queue = <<>> /\ Covers(series)
  BY DEF Call, Lone
<1>2. Types /\ Resting(w)
  BY <1>1 DEF Inv, Phases, Resting, Reading, Written, WrittenInPart, WrittenAndMoved,
              StoredInPart, Shifting, Moved
<1> DEFINE fields == [NoCall EXCEPT !.at = "newest", !.series = series]
<1>3. fields \in Calls /\ fields.at = "newest" /\ fields.series = series
  BY NoCallIsOne DEF Calls, Places, ValueSets, NoCall
<1>4. ToCall(w, fields) /\ UNCHANGED Recorder /\ UNCHANGED queue /\ writes' \in 0..MaxWrites
  BY <1>2, SeriesAssumption DEF Call, Types
<1> HIDE DEF fields
<1>5. call' \in [Writers -> Calls] /\ call'[w] = fields
  BY <1>2, <1>3, <1>4, Called
<1>6. Types'
  BY <1>2, <1>4, <1>5, TablesStay DEF Types
<1>7. Covered(series, db)
  BY <1>1 DEF Covers, Covered
<1>8. Sound(0, 0)'
  BY <1>2, <1>4, SoundStays DEF Resting
<1>9. Reading(w)'
  BY <1>1, <1>3, <1>4, <1>5, <1>7, <1>8 DEF Reading, Recorder
<1> QED
  BY <1>6, <1>9 DEF Inv, Phases

LEMMA ReadingStays ==
    ASSUME NEW w, Lone(w), Inv(w), call[w].at \in {"newest", "covered", "rows"},
           NEW fields \in Calls, ToCall(w, fields), UNCHANGED <<Recorder, queue, writes>>,
           fields.at \in {"covered", "rows"}, fields.series = call[w].series,
           fields.newest = Last(db),
           fields.at = "rows" =>
               /\ fields.opening = TotalBefore(db, First(fields.series))
               /\ fields.newest > Last(fields.series) =>
                     fields.closing = TotalBefore(db, Last(fields.series) + 1)
    PROVE  Inv(w)'
<1>1. Types /\ Reading(w)
  BY DEF Inv, Phases, Resting, Reading, Written, WrittenInPart, WrittenAndMoved,
         StoredInPart, Shifting, Moved
<1>2. call' \in [Writers -> Calls] /\ call'[w] = fields
  BY <1>1, Called
<1>3. Types'
  BY <1>1, <1>2, TablesStay DEF Types
<1>4. Sound(0, 0)'
  BY <1>1, SoundStays DEF Reading
<1>5. Reading(w)'
  BY <1>1, <1>2, <1>4 DEF Reading, Recorder
<1> QED
  BY <1>3, <1>5 DEF Inv, Phases

LEMMA RangeEnds ==
    ASSUME NEW series \in SeriesSets
    PROVE  /\ First(series) \in 1..LastHour /\ Last(series) \in 1..LastHour
           /\ First(series) <= Last(series)
           /\ First(series) \in 1..LastHour + 1 /\ Last(series) + 1 \in 1..LastHour + 1
<1>1. DOMAIN series \in (SUBSET Hours) \ {{}}
  BY SeriesAre
<1> QED
  BY <1>1, SeriesEnds, SeriesAssumption DEF Hours

LEMMA ReadNewestKeeps ==
    ASSUME NEW w, Lone(w), Inv(w), ReadNewest(w)
    PROVE  Inv(w)'
<1>1. call[w].at = "newest" /\ UNCHANGED <<Recorder, queue, writes>>
  BY DEF ReadNewest
<1>2. Types /\ Reading(w)
  BY <1>1 DEF Inv, Phases, Resting, Reading, Written, WrittenInPart, WrittenAndMoved,
              StoredInPart, Shifting, Moved
<1>3. call[w] \in Calls /\ call[w].series \in SeriesSets /\ db \in RowSets
  BY <1>2 DEF Types, Lone, Reading, Tabled
<1>4. DOMAIN db \in SUBSET Hours
  BY <1>3, RowsAre DEF AreRows
<1>5. Last(db) \in 0..LastHour
  BY <1>4, LastStored
<1> DEFINE known == [call[w] EXCEPT !.newest = Last(db)]
<1>6. CASE Appends(Last(db), First(call[w].series))
  <2> DEFINE fields == [known EXCEPT !.at = "rows", !.opening = SumAt(db, Last(db))]
  <2>1. ToCall(w, fields)
    BY <1>6 DEF ReadNewest
  <2>2. Before(DOMAIN db, First(call[w].series)) = Last(db)
    BY <1>3, <1>6, NewestBefore, RangeEnds DEF Appends
  <2>3. SumAt(db, Last(db)) = TotalBefore(db, First(call[w].series))
    BY <2>2 DEF TotalBefore
  <2>4. SumAt(db, Last(db)) \in Int
    BY <1>3, <2>3, RangeEnds, TotalsBefore
  <2>5. /\ fields \in Calls /\ fields.at = "rows" /\ fields.series = call[w].series
        /\ fields.newest = Last(db) /\ fields.opening = SumAt(db, Last(db))
    BY <1>3, <1>5, <2>4 DEF Calls, Places
  <2> HIDE DEF fields
  <2>6. ~(fields.newest > Last(fields.series))
    BY <1>3, <1>5, <1>6, <2>5, RangeEnds DEF Appends
  <2> QED
    BY <1>1, <2>1, <2>3, <2>5, <2>6, ReadingStays
<1>7. CASE ~Appends(Last(db), First(call[w].series))
  <2> DEFINE fields == [known EXCEPT !.at = "covered"]
  <2>1. ToCall(w, fields)
    BY <1>7 DEF ReadNewest
  <2>2. /\ fields \in Calls /\ fields.at = "covered" /\ fields.series = call[w].series
        /\ fields.newest = Last(db)
    BY <1>3, <1>5 DEF Calls, Places
  <2> HIDE DEF fields
  <2> QED
    BY <1>1, <2>1, <2>2, ReadingStays
<1> QED
  BY <1>6, <1>7

LEMMA ReadCoveredKeeps ==
    ASSUME NEW w, Lone(w), Inv(w), ReadCovered(w)
    PROVE  Inv(w)'
<1>1. call[w].at = "covered" /\ UNCHANGED <<Recorder, queue, writes>>
  BY DEF ReadCovered
<1>2. Types /\ Reading(w)
  BY <1>1 DEF Inv, Phases, Resting, Reading, Written, WrittenInPart, WrittenAndMoved,
              StoredInPart, Shifting, Moved
<1>3. /\ call[w] \in Calls /\ call[w].series \in SeriesSets /\ db \in RowSets
      /\ call[w].newest = Last(db)
  BY <1>1, <1>2 DEF Types, Lone, Reading, Tabled
<1> DEFINE series == call[w].series
           opening == TotalBefore(db, First(series))
           closing == TotalBefore(db, Last(series) + 1)
           fields == [call[w] EXCEPT !.at = "rows", !.opening = opening, !.closing = closing]
<1>4. ToCall(w, fields)
  BY DEF ReadCovered, WindowEnd, TotalBefore
<1>5. opening \in Int /\ closing \in Int
  BY <1>3, RangeEnds, TotalsBefore
<1>6. /\ fields \in Calls /\ fields.at = "rows" /\ fields.series = series
      /\ fields.newest = Last(db) /\ fields.opening = opening /\ fields.closing = closing
  BY <1>3, <1>5 DEF Calls, Places
<1> HIDE DEF fields
<1> QED
  BY <1>1, <1>4, <1>6, ReadingStays

LEMMA WriteRowsKeeps ==
    ASSUME NEW w, Lone(w), Inv(w), WriteRows(w)
    PROVE  Inv(w)'
<1>1. call[w].at = "rows" /\ UNCHANGED <<Recorder, writes>>
  BY DEF WriteRows
<1>2. Types /\ Reading(w)
  BY <1>1 DEF Inv, Phases, Resting, Reading, Written, WrittenInPart, WrittenAndMoved,
              StoredInPart, Shifting, Moved
<1> DEFINE series == call[w].series
           opening == call[w].opening
           after == After(db, Last(series))
<1>3. /\ call[w] \in Calls /\ series \in SeriesSets /\ db \in RowSets /\ queue = <<>>
      /\ Covered(series, db) /\ Sound(0, 0) /\ totalState \in BOOLEAN
      /\ call[w].newest = Last(db) /\ opening = TotalBefore(db, First(series))
      /\ call[w].newest > Last(series) => call[w].closing = TotalBefore(db, Last(series) + 1)
  BY <1>1, <1>2 DEF Types, Lone, Reading, Tabled
<1>4. PICK sums \in [DOMAIN series -> opening..(opening + MaxTotal)] :
        LET gain == Gain(sums[Last(series)], call[w].closing)
            due == call[w].newest > Last(series) /\ gain # 0
        IN  /\ RunsOn(sums, series, opening)
            /\ queue' = Append(queue,
                  [rows |-> [h \in DOMAIN series |-> Row(series[h], sums[h])],
                   values |-> series,
                   due |-> IF due THEN Last(series) ELSE 0])
            /\ ToCall(w, IF due
                         THEN [call[w] EXCEPT !.at = "later", !.difference = gain]
                         ELSE NoCall)
  BY DEF WriteRows
<1> DEFINE gain == Gain(sums[Last(series)], call[w].closing)
           due == call[w].newest > Last(series) /\ gain # 0
           rows == [h \in DOMAIN series |-> Row(series[h], sums[h])]
           batch == [rows |-> rows, values |-> series, due |-> IF due THEN Last(series) ELSE 0]
           fields == IF due THEN [call[w] EXCEPT !.at = "later", !.difference = gain] ELSE NoCall
<1>5. RunsOn(sums, series, opening) /\ queue' = Append(queue, batch) /\ ToCall(w, fields)
  BY <1>4
<1>6. /\ DOMAIN series \in (SUBSET Hours) \ {{}} /\ series \in [DOMAIN series -> 0..MaxValue]
      /\ Last(series) \in DOMAIN series /\ Last(series) \in 1..LastHour
      /\ opening \in Int /\ MaxTotal \in Int /\ call[w].closing \in Int
  <2>1. DOMAIN series \in (SUBSET Hours) \ {{}} /\ series \in [DOMAIN series -> 0..MaxValue]
    BY <1>3, SeriesAre
  <2>2. opening \in Int /\ call[w].closing \in Int
    BY <1>3 DEF Calls
  <2>3. MaxTotal \in Int
    BY SeriesAssumption DEF MaxTotal
  <2> QED
    BY <2>1, <2>2, <2>3, SeriesEnds, <1>3, RangeEnds
<1>7. sums \in [DOMAIN series -> Int]
  BY <1>6
<1>8. \A h \in DOMAIN series : rows[h] = RowOf(totalState, series[h], sums[h])
  BY DEF Row, RowOf
<1>9. \A h \in DOMAIN series : rows[h].sum = sums[h]
  BY DEF Row
<1>10. rows \in [DOMAIN series -> [state : Int, sum : Int]]
  <2> SUFFICES ASSUME NEW h \in DOMAIN series PROVE rows[h] \in [state : Int, sum : Int]
    OBVIOUS
  <2>1. series[h] \in Int /\ sums[h] \in Int
    BY <1>6, <1>7
  <2> QED
    BY <2>1 DEF Row
<1>11. rows \in RowSets
  BY <1>6, <1>10 DEF RowSets
<1>12. batch \in Batches
  BY <1>3, <1>6, <1>11, SeriesAssumption DEF Batches, ValueSets
<1>13. /\ DOMAIN batch.rows = DOMAIN series /\ batch.values = series /\ batch.rows = rows
       /\ batch.due = IF due THEN Last(series) ELSE 0
  OBVIOUS
<1>14. gain = sums[Last(series)] - call[w].closing /\ gain \in Int
  BY <1>6, <1>7 DEF Gain
<1> HIDE DEF batch, rows, fields, gain
<1>15. due <=> after # {} /\ Shift(batch, db) # 0
  <2>1. call[w].newest > Last(series) <=> after # {}
    BY <1>3, <1>6, SomethingAfter
  <2>2. call[w].newest > Last(series) => gain = Shift(batch, db)
    BY <1>3, <1>6, <1>9, <1>13, <1>14 DEF Shift
  <2> QED
    BY <2>1, <2>2
<1>16. due => gain = Shift(batch, db)
  BY <1>3, <1>6, <1>9, <1>13, <1>14 DEF Shift
<1> HIDE DEF due
<1>17. \A h \in DOMAIN batch.values :
          batch.rows[h] = RowOf(totalState, batch.values[h],
                                batch.values[h] + IF Before(DOMAIN batch.values, h) = 0
                                                  THEN TotalBefore(db, First(batch.values))
                                                  ELSE batch.rows[Before(DOMAIN batch.values, h)].sum)
  <2> SUFFICES ASSUME NEW h \in DOMAIN series
               PROVE  rows[h] = RowOf(totalState, series[h],
                                      series[h] + IF Before(DOMAIN series, h) = 0 THEN opening
                                                  ELSE rows[Before(DOMAIN series, h)].sum)
    BY <1>3, <1>13
  <2>1. Before(DOMAIN series, h) \in {0} \cup DOMAIN series
    <3>1. h \in 1..LastHour + 1
      BY <1>6, SeriesAssumption DEF Hours
    <3> QED
      BY <1>6, <3>1, BeforeIs
  <2>2. sums[h] = series[h] + IF Before(DOMAIN series, h) = 0 THEN opening
                              ELSE sums[Before(DOMAIN series, h)]
    BY <1>5 DEF RunsOn
  <2> QED
    BY <1>8, <1>9, <2>1, <2>2
<1>18. Fits(batch, totalState, db)
  BY <1>3, <1>13, <1>15, <1>17 DEF Fits
<1>19. /\ fields \in Calls
       /\ due => /\ fields.at = "later" /\ fields.series = series /\ fields.difference = gain
       /\ ~due => fields.at = "idle"
  <2>1. CASE due
    BY <1>3, <1>14, <2>1 DEF fields, Calls, Places
  <2>2. CASE ~due
    BY <2>2, NoCallIsOne DEF fields, NoCall
  <2> QED
    BY <2>1, <2>2
<1>20. call' \in [Writers -> Calls] /\ call'[w] = fields
  BY <1>2, <1>5, <1>19, Called
<1>21. Len(queue') = 1 /\ queue'[1] = batch /\ queue' \in Seq(Batches)
  BY <1>3, <1>5, <1>12, Queued
<1>22. Types'
  BY <1>1, <1>2, <1>20, <1>21, TablesStay DEF Types
<1>23. Sound(0, 0)' /\ UNCHANGED <<totalState, db>>
  BY <1>1, <1>3, SoundStays DEF Recorder
<1>24. Fits(queue'[1], totalState', db')
  BY <1>18, <1>21, <1>23
<1>25. CASE due
  <2>1. Shifting(w)'
    BY <1>3, <1>15, <1>19, <1>20, <1>23, <1>25 DEF Shifting
  <2>2. batch.due # 0
    BY <1>6, <1>13, <1>25
  <2>3. WrittenInPart(w)'
    BY <1>13, <1>16, <1>19, <1>20, <1>21, <1>23, <1>24, <1>25, <2>1, <2>2 DEF WrittenInPart
  <2> QED
    BY <1>22, <2>3 DEF Inv, Phases
<1>26. CASE ~due
  <2>1. Written(w)'
    BY <1>13, <1>19, <1>20, <1>21, <1>23, <1>24, <1>26 DEF Written
  <2> QED
    BY <1>22, <2>1 DEF Inv, Phases
<1> QED
  BY <1>25, <1>26

LEMMA ReadLaterKeeps ==
    ASSUME NEW w, Lone(w), Inv(w), ReadLater(w)
    PROVE  Inv(w)'
<1>1. call[w].at = "later" /\ UNCHANGED <<Recorder, queue, writes>>
  BY DEF ReadLater
<1>2. Types /\ (WrittenInPart(w) \/ StoredInPart(w)) /\ Shifting(w)
  BY <1>1 DEF Inv, Phases, Resting, Reading, Written, WrittenInPart, WrittenAndMoved,
              StoredInPart, Moved
<1> DEFINE fields == [call[w] EXCEPT !.at = "shift", !.later = Tailing(db, Last(call[w].series))]
<1>3. ToCall(w, fields)
  BY <1>2 DEF ReadLater, Shifting, After, Tailing
<1>4. call[w] \in Calls /\ db \in RowSets
  BY <1>2 DEF Types, Lone, Tabled
<1>5. Tailing(db, Last(call[w].series)) \in RowSets
  BY <1>4, RowsAre DEF Tailing, After, AreRows
<1>6. /\ fields \in Calls /\ fields.at = "shift" /\ fields.series = call[w].series
      /\ fields.difference = call[w].difference
      /\ fields.later = Tailing(db, Last(call[w].series))
  BY <1>4, <1>5 DEF Calls, Places
<1> HIDE DEF fields
<1>7. call' \in [Writers -> Calls] /\ call'[w] = fields
  BY <1>2, <1>3, <1>6, Called
<1>8. Types'
  BY <1>1, <1>2, <1>7, TablesStay DEF Types
<1>9. Shifting(w)'
  BY <1>1, <1>2, <1>6, <1>7 DEF Shifting, Recorder
<1>10. CASE WrittenInPart(w)
  <2>1. Sound(0, 0)'
    BY <1>1, <1>10, SoundStays DEF WrittenInPart
  <2>2. WrittenInPart(w)'
    BY <1>1, <1>6, <1>7, <1>9, <1>10, <2>1 DEF WrittenInPart, Recorder
  <2> QED
    BY <1>8, <2>2 DEF Inv, Phases
<1>11. CASE StoredInPart(w)
  <2>1. Sound(Last(call[w].series), call[w].difference)'
    BY <1>1, <1>6, <1>7, <1>11 DEF StoredInPart, Sound, Recorder
  <2>2. StoredInPart(w)'
    BY <1>1, <1>6, <1>7, <1>9, <1>11, <2>1 DEF StoredInPart, Recorder
  <2> QED
    BY <1>8, <2>2 DEF Inv, Phases
<1> QED
  BY <1>2, <1>10, <1>11

LEMMA Appended ==
    ASSUME NEW hands \in Seq(Batches), NEW batch \in Batches,
           NEW both, both = Append(hands, batch)
    PROVE  /\ both \in Seq(Batches) /\ Len(both) = Len(hands) + 1
           /\ both[Len(both)] = batch /\ \A i \in 1..Len(hands) : both[i] = hands[i]
<1>1. both \in Seq(Batches)
  OBVIOUS
<1>2. Len(both) = Len(hands) + 1
  OBVIOUS
<1>3. both[Len(both)] = batch
  OBVIOUS
<1>4. \A i \in 1..Len(hands) : both[i] = hands[i]
  OBVIOUS
<1> QED
  BY <1>1, <1>2, <1>3, <1>4

LEMMA TwoQueued ==
    ASSUME NEW hands \in Seq(Batches), Len(hands) = 1, NEW batch \in Batches,
           NEW both, both = Append(hands, batch)
    PROVE  both \in Seq(Batches) /\ Len(both) = 2 /\ both[1] = hands[1] /\ both[2] = batch
<1>1. /\ both \in Seq(Batches) /\ Len(both) = Len(hands) + 1
      /\ both[Len(both)] = batch /\ \A i \in 1..Len(hands) : both[i] = hands[i]
  BY Appended
<1>2. 1 \in 1..Len(hands) /\ Len(both) = 2
  BY <1>1
<1> QED
  BY <1>1, <1>2

LEMMA ShiftRowsKeeps ==
    ASSUME NEW w, Lone(w), Inv(w), ShiftRows(w)
    PROVE  Inv(w)'
<1> DEFINE l == Last(call[w].series)
           d == call[w].difference
           batch == Moves(totalState, db, l, d)
<1>1. call[w].at = "shift" /\ UNCHANGED <<Recorder, writes>> /\ ToCall(w, NoCall)
  BY DEF ShiftRows
<1>2. Types /\ (WrittenInPart(w) \/ StoredInPart(w)) /\ Shifting(w)
  BY <1>1 DEF Inv, Phases, Resting, Reading, Written, WrittenInPart, WrittenAndMoved,
              StoredInPart, Moved
<1>3. call[w].later = Tailing(db, l)
  BY <1>1, <1>2 DEF Shifting
<1>4. queue' = Append(queue, batch)
  <2>1. queue' = Append(queue,
            [rows |-> [h \in DOMAIN call[w].later |->
                          Row(call[w].later[h].state,
                              call[w].later[h].sum + call[w].difference)],
             values |-> NoRows, due |-> 0])
    BY DEF ShiftRows
  <2>2. [h \in DOMAIN call[w].later |-> Row(call[w].later[h].state, call[w].later[h].sum + d)]
          = [h \in After(db, l) |-> RowOf(totalState, db[h].state, db[h].sum + d)]
    BY <1>3 DEF Tailing, Row, RowOf
  <2> QED
    BY <2>1, <2>2 DEF Moves
<1>5. /\ d \in Int /\ db \in RowSets /\ totalState \in BOOLEAN /\ queue \in Seq(Batches)
  BY <1>2 DEF Types, Lone, Calls, Tabled
<1>6. batch \in Batches
  BY <1>5, MovesAre
<1>7. call' \in [Writers -> Calls] /\ call'[w] = NoCall /\ call'[w].at = "idle"
  BY <1>1, <1>2, NoCallIsOne, Called DEF NoCall
<1> HIDE DEF batch
<1>8. CASE WrittenInPart(w)
  <2>1. /\ Len(queue) = 1 /\ Sound(0, 0) /\ Fits(queue[1], totalState, db)
        /\ queue[1].values = call[w].series /\ queue[1].due # 0 /\ d = Shift(queue[1], db)
    BY <1>8 DEF WrittenInPart
  <2>2. queue[1].due = l
    BY <2>1 DEF Fits
  <2>3. /\ queue' \in Seq(Batches) /\ Len(queue') = 2 /\ queue'[1] = queue[1]
        /\ queue'[2] = batch
    BY <1>4, <1>5, <1>6, <2>1, TwoQueued
  <2>4. Types'
    BY <1>1, <1>2, <1>7, <2>3, TablesStay DEF Types
  <2>5. Sound(0, 0)'
    BY <1>1, <2>1, SoundStays
  <2>6. batch = Moves(totalState, db, queue[1].due, Shift(queue[1], db))
    BY <2>1, <2>2 DEF batch
  <2>7. WrittenAndMoved(w)'
    BY <1>1, <1>7, <2>1, <2>3, <2>5, <2>6 DEF WrittenAndMoved, Recorder
  <2> QED
    BY <2>4, <2>7 DEF Inv, Phases
<1>9. CASE StoredInPart(w)
  <2>1. queue = <<>> /\ l \in DOMAIN db /\ Sound(l, d)
    BY <1>9 DEF StoredInPart
  <2>2. Len(queue') = 1 /\ queue'[1] = batch /\ queue' \in Seq(Batches)
    BY <1>4, <1>6, <2>1, Queued
  <2>3. Types'
    BY <1>1, <1>2, <1>7, <2>2, TablesStay DEF Types
  <2>4. PICK hour \in DOMAIN db, difference \in Int : hour = l /\ difference = d
    BY <1>5, <2>1
  <2>5. queue'[1] = Moves(totalState, db, hour, difference)
    BY <2>2, <2>4 DEF batch
  <2>6. Sound(hour, difference)'
    BY <1>1, <2>1, <2>4, SoundStays
  <2>7. Moved(w)'
    BY <1>1, <1>7, <2>2, <2>5, <2>6 DEF Moved, Recorder
  <2> QED
    BY <2>3, <2>7 DEF Inv, Phases
<1> QED
  BY <1>2, <1>8, <1>9

LEMMA HeadAndTail ==
    ASSUME NEW hands \in Seq(Batches), hands # <<>>
    PROVE  /\ Head(hands) = hands[1] /\ hands[1] \in Batches /\ Tail(hands) \in Seq(Batches)
           /\ Len(hands) = 1 => Tail(hands) = <<>>
           /\ Len(hands) = 2 => Len(Tail(hands)) = 1 /\ Tail(hands)[1] = hands[2]
<1>1. Head(hands) = hands[1] /\ hands[1] \in Batches
  OBVIOUS
<1>2. Tail(hands) \in Seq(Batches)
  OBVIOUS
<1>3. Len(Tail(hands)) = Len(hands) - 1
  OBVIOUS
<1>4. Len(hands) = 2 => Tail(hands)[1] = hands[2]
  OBVIOUS
<1>5. ASSUME Len(hands) = 1 PROVE Tail(hands) = <<>>
  <2>1. hands = <<hands[1]>>
    BY <1>5
  <2>2. Tail(<<hands[1]>>) = <<>>
    OBVIOUS
  <2> QED
    BY <2>1, <2>2
<1> QED
  BY <1>1, <1>2, <1>3, <1>4, <1>5

\* The recorder imports a range: the totals count on up to what it gained.
LEMMA CommitRange ==
    ASSUME NEW w, Types, Commit, Sound(0, 0), Fits(queue[1], totalState, db)
    PROVE  /\ Types' /\ UNCHANGED <<totalState, torn, call>> /\ broken' = queue[1].due
           /\ ~torn => CountsOn(totalState, db', meant', queue[1].due, Shift(queue[1], db))
           /\ db' = Over(queue[1].rows, db)
<1> DEFINE batch == queue[1]
<1>1. /\ batch \in Batches /\ queue' \in Seq(Batches)
      /\ db' = Over(batch.rows, db) /\ meant' = Over(batch.values, meant)
      /\ broken' = batch.due
      /\ UNCHANGED <<totalState, call, torn, writes, restarts>>
  BY HeadAndTail DEF Commit, Types
<1>2. Tabled(db, meant) /\ totalState \in BOOLEAN /\ db \in RowSets
  BY DEF Types, Tabled
<1>3. Fits(batch, totalState, db)
  OBVIOUS
<1> HIDE DEF batch
<1>4. Tabled(db', meant')
  <2>1. DOMAIN batch.values = DOMAIN batch.rows /\ batch.values # NoRows
    <3>1. DOMAIN NoRows = {}
      BY DEF NoRows
    <3> QED
      BY <1>1, <1>3, <3>1, BatchRows
  <2> QED
    BY <1>1, <1>2, <2>1, StoredTypes
<1>5. ~torn => Bounded(db')
  BY <1>1, <1>2, <1>3, RangeBounds DEF Types
<1>6. ~torn => CountsOn(totalState, db', meant', batch.due, Shift(batch, db))
  BY <1>1, <1>2, <1>3, StoreRange DEF Sound
<1>7. batch.due \in 0..LastHour
  BY <1>1 DEF Batches
<1>8. Types'
  BY <1>1, <1>4, <1>5, <1>7 DEF Types
<1> QED
  BY <1>1, <1>6, <1>8 DEF batch

LEMMA CommitKeeps ==
    ASSUME NEW w, Lone(w), Inv(w), Commit
    PROVE  Inv(w)'
<1>1. Types /\ queue # <<>> /\ queue' = Tail(queue) /\ Len(queue) # 0
  BY DEF Commit, Inv, Types
<1>2. Phases(w)
  BY DEF Inv
<1>3. db \in RowSets /\ totalState \in BOOLEAN /\ queue \in Seq(Batches) /\ queue[1] \in Batches
  BY <1>1, HeadAndTail DEF Types, Tabled
<1>4. CASE Written(w)
  <2>1. /\ Types' /\ UNCHANGED <<totalState, torn, call>> /\ broken' = queue[1].due
        /\ ~torn => CountsOn(totalState, db', meant', queue[1].due, Shift(queue[1], db))
    BY <1>1, <1>4, CommitRange DEF Written
  <2>2. queue[1].due = 0 /\ call[w].at = "idle" /\ queue' = <<>>
    BY <1>1, <1>3, <1>4, HeadAndTail DEF Written
  <2>3. Sound(0, 0)'
    BY <2>1, <2>2 DEF Sound, CountsOn, Missing
  <2>4. Resting(w)'
    BY <2>1, <2>2, <2>3 DEF Resting
  <2> QED
    BY <2>1, <2>4 DEF Inv, Phases
<1>5. CASE WrittenInPart(w)
  <2> DEFINE l == Last(call[w].series)
  <2>1. /\ Fits(queue[1], totalState, db) /\ queue[1].values = call[w].series
        /\ call[w].difference = Shift(queue[1], db) /\ queue[1].due = l /\ Shifting(w)
        /\ Len(queue) = 1 /\ Sound(0, 0)
    BY <1>5 DEF WrittenInPart, Fits
  <2>2. /\ Types' /\ UNCHANGED <<totalState, torn, call>> /\ broken' = queue[1].due
        /\ ~torn => CountsOn(totalState, db', meant', queue[1].due, Shift(queue[1], db))
        /\ db' = Over(queue[1].rows, db)
    BY <1>1, <2>1, CommitRange
  <2>3. /\ After(db', l) = After(db, l) /\ Tailing(db', l) = Tailing(db, l) /\ l \in DOMAIN db'
    BY <1>3, <2>1, <2>2, AfterRange
  <2>4. Sound(Last(call[w].series), call[w].difference)'
    BY <2>1, <2>2 DEF Sound
  <2>5. queue' = <<>>
    BY <1>1, <1>3, <2>1, HeadAndTail
  <2>6. Shifting(w)'
    BY <2>1, <2>2, <2>3 DEF Shifting
  <2>7. StoredInPart(w)'
    BY <2>2, <2>3, <2>4, <2>5, <2>6 DEF StoredInPart
  <2> QED
    BY <2>2, <2>7 DEF Inv, Phases
<1>6. CASE WrittenAndMoved(w)
  <2> DEFINE l == Last(queue[1].values)
             d == Shift(queue[1], db)
  <2>1. /\ Fits(queue[1], totalState, db) /\ queue[1].due = l
        /\ queue[2] = Moves(totalState, db, queue[1].due, Shift(queue[1], db))
        /\ Len(queue) = 2 /\ call[w].at = "idle" /\ Sound(0, 0)
    BY <1>6 DEF WrittenAndMoved, Fits
  <2>2. /\ Types' /\ UNCHANGED <<totalState, torn, call>> /\ broken' = queue[1].due
        /\ ~torn => CountsOn(totalState, db', meant', queue[1].due, Shift(queue[1], db))
        /\ db' = Over(queue[1].rows, db)
    BY <1>1, <2>1, CommitRange
  <2>3. /\ After(db', l) = After(db, l) /\ l \in DOMAIN db'
        /\ \A h \in After(db, l) : db'[h] = db[h]
    BY <1>3, <2>1, <2>2, AfterRange
  <2>4. Len(queue') = 1 /\ queue'[1] = queue[2]
    BY <1>1, <1>3, <2>1, HeadAndTail
  <2>5. d \in Int
    <3>1. /\ queue[1].rows \in [DOMAIN queue[1].values -> [state : Int, sum : Int]]
          /\ l \in DOMAIN queue[1].values /\ queue[1].values \in SeriesSets
      BY <1>3, <2>1, BatchRows
    <3>2. TotalBefore(db, l + 1) \in Int
      BY <1>3, <3>1, RangeEnds, TotalsBefore
    <3>3. queue[1].rows[l].sum \in Int
      BY <3>1
    <3> QED
      BY <3>2, <3>3 DEF Shift
  <2>6. PICK hour \in DOMAIN db', difference \in Int : hour = l /\ difference = d
    BY <2>3, <2>5
  <2>7. queue'[1] = Moves(totalState, db', hour, difference)
    BY <2>1, <2>3, <2>4, <2>6 DEF Moves
  <2>8. Sound(hour, difference)'
    BY <2>1, <2>2, <2>6 DEF Sound
  <2>9. Moved(w)'
    BY <2>1, <2>2, <2>4, <2>7, <2>8 DEF Moved
  <2> QED
    BY <2>2, <2>9 DEF Inv, Phases
<1>7. CASE Moved(w)
  <2>1. call[w].at = "idle" /\ Len(queue) = 1
    BY <1>7 DEF Moved
  <2>2. PICK hour \in DOMAIN db, difference \in Int :
            queue[1] = Moves(totalState, db, hour, difference) /\ Sound(hour, difference)
    BY <1>7 DEF Moved
  <2> DEFINE batch == Moves(totalState, db, hour, difference)
  <2>3. batch.values = NoRows /\ batch.due = 0
    BY DEF Moves
  <2>4. batch \in Batches /\ DOMAIN batch.rows \subseteq DOMAIN db
    BY <1>3, MovesAre
  <2>5. /\ db' = Over(batch.rows, db) /\ meant' = Over(NoRows, meant) /\ broken' = 0
        /\ UNCHANGED <<totalState, call, torn, writes, restarts>> /\ queue' = <<>>
    BY <1>1, <1>3, <2>1, <2>2, <2>3, HeadAndTail DEF Commit
  <2> HIDE DEF batch
  <2>6. Tabled(db, meant)
    BY <1>1 DEF Types
  <2>7. Tabled(db', meant')
    BY <2>3, <2>4, <2>5, <2>6, StoredTypes
  <2>8. meant' = meant
    <3>1. meant \in [DOMAIN meant -> 0..MaxValue]
      BY <2>6, ValuesAre DEF Tabled
    <3> QED
      BY <2>5, <3>1 DEF Over, NoRows
  <2>9. ~torn => CountsOn(totalState, db', meant, 0, 0)
    <3> SUFFICES ASSUME ~torn PROVE CountsOn(totalState, db', meant, 0, 0)
      OBVIOUS
    <3>1. CountsOn(totalState, db, meant, hour, difference)
      BY <2>2 DEF Sound
    <3>2. db' = Over(Moves(totalState, db, hour, difference).rows, db)
      BY <2>5 DEF batch
    <3> QED
      BY <1>3, <2>6, <3>1, <3>2, MoveRows
  <2>10. ~torn => Bounded(db')
    BY <2>7, <2>8, <2>9, CountingBounds
  <2>11. Types'
    BY <1>1, <2>5, <2>7, <2>10, SeriesAssumption DEF Types
  <2>12. Sound(0, 0)'
    BY <2>5, <2>8, <2>9 DEF Sound
  <2>13. Resting(w)'
    BY <2>1, <2>5, <2>12 DEF Resting
  <2> QED
    BY <2>11, <2>13 DEF Inv, Phases
<1>8. ~Resting(w) /\ ~Reading(w) /\ ~StoredInPart(w)
  BY <1>1 DEF Resting, Reading, StoredInPart
<1> QED
  BY <1>2, <1>4, <1>5, <1>6, <1>7, <1>8 DEF Phases

LEMMA RestartKeeps ==
    ASSUME NEW w, Lone(w), Inv(w), Restart
    PROVE  Inv(w)'
<1>1. Types
  BY DEF Inv
<1>2. DOMAIN db \subseteq Nat \ {0}
  BY <1>1, RowsAre, SeriesAssumption DEF Types, Tabled, AreRows, Hours
<1>3. ~torn /\ broken = 0 => CountsOn(totalState, db, meant, 0, 0)
  <2>1. Sound(0, 0) \/ StoredInPart(w) \/ Moved(w)
    BY DEF Inv, Phases, Resting, Reading, Written, WrittenInPart, WrittenAndMoved
  <2>2. CASE Sound(0, 0)
    BY <2>2 DEF Sound
  <2>3. CASE StoredInPart(w)
    BY <1>2, <2>3 DEF StoredInPart, Sound
  <2>4. CASE Moved(w)
    BY <1>2, <2>4 DEF Moved, Sound
  <2> QED
    BY <2>1, <2>2, <2>3, <2>4
<1>4. /\ torn' = (torn \/ broken # 0) /\ queue' = <<>> /\ restarts' \in 0..MaxRestarts
      /\ call' \in [Writers -> Calls] /\ call'[w] = NoCall
      /\ UNCHANGED <<totalState, db, meant, broken, writes>>
  BY <1>1, NoCallIsOne, SeriesAssumption DEF Restart, Types, Lone
<1>5. ~torn' => ~torn /\ broken = 0
  BY <1>4
<1>6. torn' \in BOOLEAN
  BY <1>4
<1>7. Types'
  BY <1>1, <1>4, <1>5, <1>6 DEF Types
<1>8. Sound(0, 0)'
  BY <1>3, <1>4, <1>5 DEF Sound
<1>9. Resting(w)'
  BY <1>4, <1>8 DEF Resting, NoCall
<1> QED
  BY <1>7, <1>9 DEF Inv, Phases

LEMMA StutterKeeps ==
    ASSUME NEW w, Lone(w), Inv(w), UNCHANGED vars
    PROVE  Inv(w)'
<1>1. Types'
  BY DEF Inv, Types, vars
<1>2. Phases(w)'
  BY DEF Inv, Phases, vars, Resting, Reading, Written, WrittenInPart, WrittenAndMoved,
         StoredInPart, Shifting, Moved, Sound
<1> QED
  BY <1>1, <1>2 DEF Inv

-----------------------------------------------------------------------------
(* What a lone writer guarantees. *)

\* The invariant holds in every state: whatever the call and the recorder do,
\* each batch fits what is stored when its turn comes.
THEOREM LoneWriterInvariant ==
    ASSUME NEW w, Lone(w)
    PROVE  Spec => []Inv(w)
<1>1. Init => Inv(w)
  BY InitInv
<1>2. Inv(w) /\ [Next]_vars => Inv(w)'
  <2> SUFFICES ASSUME Inv(w), [Next]_vars PROVE Inv(w)'
    OBVIOUS
  <2>1. Writers = {w}
    BY DEF Lone
  <2>2. CASE \E series \in SeriesSets : Call(w, series)
    BY <2>2, CallKeeps
  <2>3. CASE ReadNewest(w)
    BY <2>3, ReadNewestKeeps
  <2>4. CASE ReadCovered(w)
    BY <2>4, ReadCoveredKeeps
  <2>5. CASE WriteRows(w)
    BY <2>5, WriteRowsKeeps
  <2>6. CASE ReadLater(w)
    BY <2>6, ReadLaterKeeps
  <2>7. CASE ShiftRows(w)
    BY <2>7, ShiftRowsKeeps
  <2>8. CASE Commit
    BY <2>8, CommitKeeps
  <2>9. CASE Restart
    BY <2>9, RestartKeeps
  <2>10. CASE UNCHANGED vars
    BY <2>10, StutterKeeps
  <2> QED
    BY <2>1, <2>2, <2>3, <2>4, <2>5, <2>6, <2>7, <2>8, <2>9, <2>10 DEF Next
<1> QED
  BY <1>1, <1>2, PTL DEF Spec

\* Every variable has its type, and while no shift was lost to a restart every
\* total stays within what the values of the hours add up to
\* (write_cumulative_series and _shift_later_totals).
THEOREM SeriesTyped ==
    ASSUME NEW w, Lone(w)
    PROVE  Spec => []TypeOK
<1>1. Inv(w) => TypeOK
  <2> SUFFICES ASSUME Types PROVE TypeOK
    BY DEF Inv
  <2>1. AreRows(db) /\ meant \in SeriesSets \cup {NoRows} /\ DOMAIN meant = DOMAIN db
    BY RowsAre DEF Types, Tabled, ValueSets
  <2>2. ~torn => \A h \in DOMAIN db : db[h].sum \in 0..MaxTotal
    <3> SUFFICES ASSUME ~torn, NEW h \in DOMAIN db PROVE db[h].sum \in 0..MaxTotal
      OBVIOUS
    <3>1. db[h].sum \in 0..h * MaxValue
      BY DEF Types, Bounded
    <3>2. h \in Nat /\ h <= LastHour
      BY <2>1, SeriesAssumption DEF AreRows, Hours
    <3>3. h * MaxValue <= LastHour * MaxValue /\ h * MaxValue \in Nat /\ LastHour * MaxValue \in Nat
      <4>1. CASE h < LastHour
        BY <3>2, <4>1, Times, SeriesAssumption
      <4>2. CASE h = LastHour
        BY <4>2, SeriesAssumption
      <4> QED
        BY <3>2, <4>1, <4>2, SeriesAssumption
    <3> QED
      BY <3>1, <3>3 DEF MaxTotal
  <2>3. \A i \in DOMAIN queue : /\ AreRows(queue[i].rows)
                                /\ queue[i].values \in SeriesSets \cup {NoRows}
                                /\ queue[i].due \in 0..LastHour
    <3> SUFFICES ASSUME NEW i \in DOMAIN queue
                 PROVE  queue[i] \in Batches
      BY RowsAre DEF Batches, ValueSets
    <3> QED
      BY DEF Types
  <2>4. \A v \in Writers :
            /\ call[v].at \in Places /\ AreRows(call[v].later)
            /\ call[v].series \in SeriesSets \cup {NoRows}
            /\ call[v].newest \in 0..LastHour
            /\ call[v].opening \in Int /\ call[v].closing \in Int
            /\ call[v].difference \in Int
    <3> SUFFICES ASSUME NEW v \in Writers
                 PROVE  call[v] \in Calls
      BY RowsAre DEF Calls, ValueSets
    <3> QED
      BY DEF Types
  <2> QED
    BY <2>1, <2>2, <2>3, <2>4 DEF Types, TypeOK
<1> QED
  BY <1>1, LoneWriterInvariant, PTL

\* The invariant says which hour, if any, does not follow from the one before.
LEMMA OneMissing ==
    ASSUME NEW w, Inv(w), ~torn
    PROVE  \E hour, difference : broken = hour /\ CountsOn(totalState, db, meant, hour, difference)
  BY DEF Inv, Phases, Resting, Reading, Written, WrittenInPart, WrittenAndMoved, StoredInPart,
         Moved, Sound

LEMMA FollowsOn ==
    ASSUME Types, NEW hour, NEW difference, CountsOn(totalState, db, meant, hour, difference),
           NEW h \in DOMAIN db, hour = 0 \/ Before(DOMAIN db, h) # hour
    PROVE  Follows(h)
<1>1. Tabled(db, meant) /\ db \in RowSets
  BY DEF Types, Tabled
<1>2. TotalBefore(db, h) \in Int /\ meant[h] \in Int
  BY <1>1, TabledHours, TotalsBefore
<1>3. db[h].sum = TotalBefore(db, h) + meant[h] - 0
  BY DEF CountsOn, Missing
<1>4. db[h].state = IF totalState THEN db[h].sum ELSE meant[h]
  BY DEF CountsOn
<1> QED
  BY <1>2, <1>3, <1>4 DEF Follows, TotalBefore

\* The rule of write_cumulative_series: whatever ranges a lone writer imports,
\* in whatever order, overlapping or not, once its imports are over each hour
\* counts its own value onto the total before it.
THEOREM LoneWriterKeepsTotals ==
    ASSUME NEW w, Lone(w)
    PROVE  Spec => []Continuous
<1>1. Inv(w) => Continuous
  <2> SUFFICES ASSUME Inv(w), Quiet, ~torn, NEW h \in DOMAIN db PROVE Follows(h)
    BY DEF Continuous
  <2>1. Types /\ Resting(w)
    BY DEF Inv, Phases, Quiet, Lone, Resting, Reading, Written, WrittenInPart,
           WrittenAndMoved, StoredInPart, Shifting, Moved
  <2>2. CountsOn(totalState, db, meant, 0, 0)
    BY <2>1 DEF Resting, Sound
  <2> QED
    BY <2>1, <2>2, FollowsOn
<1> QED
  BY <1>1, LoneWriterInvariant, PTL

\* At every moment of an import too, a reader of the statistic meets at most
\* one hour that does not count on, and only while _shift_later_totals is due.
THEOREM AtMostOneBreak ==
    ASSUME NEW w, Lone(w)
    PROVE  Spec => []OneBreak
<1>1. Inv(w) => OneBreak
  <2> SUFFICES ASSUME Inv(w), ~torn, NEW h \in DOMAIN db,
                      ~(broken # 0 /\ Before(DOMAIN db, h) = broken)
               PROVE  Follows(h)
    BY DEF OneBreak
  <2>1. PICK hour, difference :
            broken = hour /\ CountsOn(totalState, db, meant, hour, difference)
    BY OneMissing
  <2>2. hour = 0 \/ Before(DOMAIN db, h) # hour
    BY <2>1
  <2> QED
    BY <2>1, <2>2, FollowsOn DEF Inv
<1> QED
  BY <1>1, LoneWriterInvariant, PTL

\* No import takes an hour away, and moving the later hours leaves the value
\* each of them reports (_shift_later_totals), torn statistics included.
THEOREM OwnValuesStay ==
    ASSUME NEW w, Lone(w)
    PROVE  Spec => ValuesStay
<1> DEFINE Stay == \A h \in DOMAIN db :
                      /\ h \in DOMAIN db'
                      /\ ~totalState /\ db'[h].state # db[h].state
                            => h \in DOMAIN Head(queue).values
<1>1. Inv(w) /\ [Next]_vars => [Stay]_vars
  <2> SUFFICES ASSUME Inv(w), Next PROVE Stay
    OBVIOUS
  <2>1. CASE Commit
    <3>1. Types /\ queue # <<>> /\ Len(queue) # 0 /\ db' = Over(queue[1].rows, db) /\ Head(queue) = queue[1]
      BY <2>1, HeadAndTail DEF Inv, Types, Commit
    <3>2. queue[1] \in Batches /\ db \in RowSets /\ totalState \in BOOLEAN
      BY <3>1, HeadAndTail DEF Types, Tabled
    <3>3. ASSUME NEW h \in DOMAIN db
          PROVE  /\ h \in DOMAIN db'
                 /\ db'[h] = IF h \in DOMAIN queue[1].rows THEN queue[1].rows[h] ELSE db[h]
      BY <3>1 DEF Over
    <3>4. CASE Fits(queue[1], totalState, db)
      BY <3>1, <3>3, <3>4 DEF Fits
    <3>5. CASE Moved(w)
      <4>1. PICK hour \in DOMAIN db, difference \in Int :
                queue[1] = Moves(totalState, db, hour, difference)
        BY <3>5 DEF Moved
      <4>2. \A h \in DOMAIN queue[1].rows : ~totalState => queue[1].rows[h].state = db[h].state
        BY <3>2, <4>1, MovesAre
      <4> QED
        BY <3>3, <4>2
    <3>6. Fits(queue[1], totalState, db) \/ Moved(w)
      BY <3>1 DEF Inv, Phases, Resting, Reading, Written, WrittenInPart, WrittenAndMoved,
                  StoredInPart
    <3> QED
      BY <3>4, <3>5, <3>6
  <2>2. CASE UNCHANGED db
    BY <2>2
  <2>3. Commit \/ UNCHANGED db
    BY DEF Next, Call, ReadNewest, ReadCovered, WriteRows, ReadLater, ShiftRows, Restart, Recorder
  <2> QED
    BY <2>1, <2>2, <2>3
<1> QED
  BY <1>1, LoneWriterInvariant, PTL DEF Spec, ValuesStay

=============================================================================
