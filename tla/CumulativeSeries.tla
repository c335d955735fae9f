-------------------------- MODULE CumulativeSeries --------------------------
(***************************************************************************)
(* One cumulative statistic of the recorder and the writers that import     *)
(* into it (statistics.py, write_cumulative_series).  A stored hour has a   *)
(* state and a running total.  Writers read what the recorder has           *)
(* committed, and hand it batches of rows that its thread commits later, in *)
(* order: a read does not see a batch that is still queued.                 *)
(*                                                                         *)
(* Hour 0 stands for "no hour"; the total there is 0.                       *)
(***************************************************************************)
EXTENDS Integers, Sequences

CONSTANTS
    LastHour,       \* the hours are 1..LastHour
    MaxValue,       \* bound: the value of an hour
    Writers,        \* the callers of write_cumulative_series
    Waiting,        \* those that let the recorder finish before they start
    MaxWrites,      \* bound: the calls made
    MaxRestarts     \* bound: the times Home Assistant dies

ASSUME SeriesAssumption ==
    /\ LastHour \in Nat \ {0} /\ MaxValue \in Nat
    /\ Waiting \subseteq Writers
    /\ MaxWrites \in Nat /\ MaxRestarts \in Nat

VARIABLES
    totalState,     \* state_is_running_total: a cost series, not an energy one
    db,             \* the committed rows, by hour
    queue,          \* the batches waiting for the recorder's thread
    call,           \* the call each writer is in
    meant,          \* history: the value last committed for each hour
    broken,         \* history: the hour after which a shift is due, or 0
    torn,           \* history: Home Assistant died with a shift due
    writes, restarts

vars == <<totalState, db, queue, call, meant, broken, torn, writes, restarts>>

Hours == 1..LastHour
MaxTotal == LastHour * MaxValue

\* The values of some hours.
SeriesSets == UNION {[S -> 0..MaxValue] : S \in (SUBSET Hours) \ {{}}}

Places == {"idle", "newest", "covered", "rows", "later", "shift"}

\* The hour of S nearest before h, or 0.
Before(S, h) ==
    CHOOSE k \in {0} \cup S :
        /\ k < h
        /\ \A j \in S : j < h => j <= k

First(series) == CHOOSE h \in DOMAIN series : \A k \in DOMAIN series : h <= k
Last(series) == Before(DOMAIN series, LastHour + 1)

\* The running total of rows at hour h.
SumAt(rows, h) == IF h = 0 THEN 0 ELSE rows[h].sum

\* What is stored once new is written over old.
Over(new, old) ==
    [h \in DOMAIN new \cup DOMAIN old |->
        IF h \in DOMAIN new THEN new[h] ELSE old[h]]

NoRows == [h \in {} |-> 0]

NoCall == [at |-> "idle", series |-> NoRows, newest |-> 0, opening |-> 0,
           closing |-> 0, difference |-> 0, later |-> NoRows]

Init ==
    /\ totalState \in BOOLEAN
    /\ db = NoRows /\ queue = <<>> /\ meant = NoRows
    /\ call = [w \in Writers |-> NoCall]
    /\ broken = 0 /\ torn = FALSE /\ writes = 0 /\ restarts = 0

-----------------------------------------------------------------------------
(* The steps of a writer w. *)

ToCall(w, fields) == call' = [call EXCEPT ![w] = fields]

Recorder == <<totalState, db, meant, broken, torn, restarts>>

\* A call hands in every hour of its range the recorder has or will have: the
\* portal answers whole days.
Covers(series) ==
    \A h \in DOMAIN db \cup UNION {DOMAIN queue[i].rows : i \in DOMAIN queue} :
        First(series) <= h /\ h <= Last(series) => h \in DOMAIN series

Call(w, series) ==
    /\ call[w].at = "idle" /\ writes < MaxWrites
    /\ (w \in Waiting => queue = <<>>)
    /\ Covers(series)
    /\ ToCall(w, [NoCall EXCEPT !.at = "newest", !.series = series])
    /\ writes' = writes + 1
    /\ UNCHANGED <<Recorder, queue>>

\* Mutant: the total always counts on from the newest entry.
AlwaysAppends(newest, first) == TRUE

\* Nothing is stored, or all of it lies before the range.
Appends(newest, first) == newest < first

\* _newest_entry has answered.
ReadNewest(w) ==
    /\ call[w].at = "newest"
    /\ LET newest == Last(db)
           known == [call[w] EXCEPT !.newest = newest]
       IN  IF Appends(newest, First(call[w].series))
           THEN ToCall(w, [known EXCEPT !.at = "rows",
                                        !.opening = SumAt(db, newest)])
           ELSE ToCall(w, [known EXCEPT !.at = "covered"])
    /\ UNCHANGED <<Recorder, queue, writes>>

\* Mutant: the total coming out of the range is the one going into it.
ClosesAtFirst(series) == First(series)

\* The window read ends with the last hour of the range.
WindowEnd(series) == Last(series) + 1

\* _stored_between has answered for all hours up to the end of the range.
ReadCovered(w) ==
    /\ call[w].at = "covered"
    /\ LET before == Before(DOMAIN db, First(call[w].series))
           closing == Before(DOMAIN db, WindowEnd(call[w].series))
       IN  ToCall(w, [call[w] EXCEPT !.at = "rows",
                                     !.opening = SumAt(db, before),
                                     !.closing = SumAt(db, closing)])
    /\ UNCHANGED <<Recorder, queue, writes>>

\* sums are the running totals of series from opening on.
RunsOn(sums, series, opening) ==
    \A h \in DOMAIN series :
        LET before == Before(DOMAIN series, h)
        IN  sums[h] = series[h] + IF before = 0 THEN opening ELSE sums[before]

\* Mutant: state_is_running_total is not looked at.
TotalRow(own, sum) == [state |-> sum, sum |-> sum]

\* The row of an hour.
Row(own, sum) == [state |-> IF totalState THEN sum ELSE own, sum |-> sum]

\* Mutant: the total the range had before is not taken off.
GainFromZero(total, closing) == total

\* What the closing total of the range gained.
Gain(total, closing) == total - closing

\* The range is queued; entries after it are moved if its total has changed.
WriteRows(w) ==
    /\ call[w].at = "rows"
    /\ \E sums \in [DOMAIN call[w].series ->
                        call[w].opening..(call[w].opening + MaxTotal)] :
        LET series == call[w].series
            gain == Gain(sums[Last(series)], call[w].closing)
            due == call[w].newest > Last(series) /\ gain # 0
        IN  /\ RunsOn(sums, series, call[w].opening)
            /\ queue' = Append(queue,
                  [rows |-> [h \in DOMAIN series |-> Row(series[h], sums[h])],
                   values |-> series,
                   due |-> IF due THEN Last(series) ELSE 0])
            /\ ToCall(w, IF due
                         THEN [call[w] EXCEPT !.at = "later", !.difference = gain]
                         ELSE NoCall)
    /\ UNCHANGED <<Recorder, writes>>

\* _stored_between has answered for the hours after the range.
ReadLater(w) ==
    /\ call[w].at = "later"
    /\ LET after == {h \in DOMAIN db : h > Last(call[w].series)}
       IN  ToCall(w, IF after = {} THEN NoCall
                     ELSE [call[w] EXCEPT !.at = "shift",
                                          !.later = [h \in after |-> db[h]]])
    /\ UNCHANGED <<Recorder, queue, writes>>

\* The entries after the range are queued again, moved by the difference.
ShiftRows(w) ==
    /\ call[w].at = "shift"
    /\ LET moved == [h \in DOMAIN call[w].later |->
                        Row(call[w].later[h].state,
                            call[w].later[h].sum + call[w].difference)]
       IN  queue' = Append(queue, [rows |-> moved, values |-> NoRows, due |-> 0])
    /\ ToCall(w, NoCall)
    /\ UNCHANGED <<Recorder, writes>>

-----------------------------------------------------------------------------
(* The recorder. *)

\* The recorder's thread imports the oldest batch.
Commit ==
    /\ queue # <<>>
    /\ db' = Over(Head(queue).rows, db)
    /\ meant' = Over(Head(queue).values, meant)
    /\ broken' = Head(queue).due
    /\ queue' = Tail(queue)
    /\ UNCHANGED <<totalState, call, torn, writes, restarts>>

\* Home Assistant dies: calls and queued batches are gone.
Restart ==
    /\ restarts < MaxRestarts
    /\ restarts' = restarts + 1
    /\ queue' = <<>> /\ call' = [w \in Writers |-> NoCall]
    /\ torn' = (torn \/ broken # 0)
    /\ UNCHANGED <<totalState, db, meant, broken, writes>>

Next ==
    \/ \E w \in Writers :
        \/ \E series \in SeriesSets : Call(w, series)
        \/ ReadNewest(w) \/ ReadCovered(w) \/ WriteRows(w)
        \/ ReadLater(w) \/ ShiftRows(w)
    \/ Commit \/ Restart

Spec == Init /\ [][Next]_vars

-----------------------------------------------------------------------------
(* Properties. *)

\* The rows of some hours.
AreRows(rows) ==
    /\ DOMAIN rows \subseteq Hours
    /\ rows \in [DOMAIN rows -> [state : Int, sum : Int]]

\* Every variable holds a value of its kind, and no total leaves the range that
\* the values of the hours allow.
TypeOK ==
    /\ totalState \in BOOLEAN /\ torn \in BOOLEAN
    /\ AreRows(db)
    /\ ~torn => \A h \in DOMAIN db : db[h].sum \in 0..MaxTotal
    /\ \A i \in DOMAIN queue :
        /\ AreRows(queue[i].rows)
        /\ queue[i].values \in SeriesSets \cup {NoRows}
        /\ queue[i].due \in 0..LastHour
    /\ meant \in SeriesSets \cup {NoRows} /\ DOMAIN meant = DOMAIN db
    /\ \A w \in Writers :
        /\ call[w].at \in Places /\ AreRows(call[w].later)
        /\ call[w].series \in SeriesSets \cup {NoRows}
        /\ call[w].newest \in 0..LastHour
        /\ call[w].opening \in Int /\ call[w].closing \in Int
        /\ call[w].difference \in Int
    /\ broken \in 0..LastHour
    /\ writes \in 0..MaxWrites /\ restarts \in 0..MaxRestarts

\* Hour h adds its value to the total before it, and reports the right state.
Follows(h) ==
    /\ db[h].sum = SumAt(db, Before(DOMAIN db, h)) + meant[h]
    /\ db[h].state = IF totalState THEN db[h].sum ELSE meant[h]

(***************************************************************************)
(* The rule write_cumulative_series is there to keep (its docstring and     *)
(* that of _shift_later_totals): whatever ranges are imported, in whatever  *)
(* order and however often, once the imports are over each hour counts      *)
(* exactly its own value onto the total of the hour before it.              *)
(***************************************************************************)
Quiet == queue = <<>> /\ \A w \in Writers : call[w].at = "idle"

Continuous == Quiet /\ ~torn => \A h \in DOMAIN db : Follows(h)

(***************************************************************************)
(* In the middle of an import too, a reader of the statistic sees at most   *)
(* one step, at the end of the range being written again, while the shift   *)
(* of the entries after it is due.                                          *)
(***************************************************************************)
OneBreak ==
    ~torn => \A h \in DOMAIN db :
        Follows(h) \/ (broken # 0 /\ Before(DOMAIN db, h) = broken)

(***************************************************************************)
(* "Every later hour's own value is unaffected" (_shift_later_totals):      *)
(* moving a tail never changes what an hour outside the range adds, and a   *)
(* committed hour never disappears.                                         *)
(***************************************************************************)
ValuesStay ==
    [][\A h \in DOMAIN db :
        /\ h \in DOMAIN db'
        /\ ~totalState /\ db'[h].state # db[h].state
              => h \in DOMAIN Head(queue).values]_vars
=============================================================================
