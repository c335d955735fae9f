---------------------------- MODULE HistoryScan ----------------------------
(***************************************************************************)
(* The import of a history whose beginning is unknown                       *)
(* (_fetch_days_backward): chunks of days, the newest first, until the      *)
(* portal has nothing in one, or nothing in the oldest days of one.  Days   *)
(* are numbered from the first the portal has anything for.                 *)
(***************************************************************************)
EXTENDS Integers, FiniteSets, Sequences

CONSTANTS
    RANGE_FETCH_CHUNK_DAYS,            \* days of one request
    BACKFILL_MAX_CONSECUTIVE_EMPTY     \* empty days that end the scan

ASSUME ScanAssumption ==
    /\ RANGE_FETCH_CHUNK_DAYS \in Nat \ {0}
    /\ BACKFILL_MAX_CONSECUTIVE_EMPTY \in 1..RANGE_FETCH_CHUNK_DAYS

ChunkStart(end) == end - RANGE_FETCH_CHUNK_DAYS + 1
Chunk(data, end) == data \cap ChunkStart(end)..end

(* Any so many days of the chunk, one after the other.                      *)
HasGap(data, end) ==
    \E first \in ChunkStart(end)..end - BACKFILL_MAX_CONSECUTIVE_EMPTY + 1 :
        data \cap first..first + BACKFILL_MAX_CONSECUTIVE_EMPTY - 1 = {}

(* The oldest days of the chunk are all empty.                              *)
RunsOut(data, end) ==
    data \cap ChunkStart(end)..ChunkStart(end) + BACKFILL_MAX_CONSECUTIVE_EMPTY - 1 = {}

(* The chunks fetched, newest first.                                        *)
Chunks(data, newest) ==
    LET from[end \in Int] ==
            IF Chunk(data, end) = {} THEN <<>>
            ELSE IF RunsOut(data, end) THEN <<Chunk(data, end)>>
            ELSE <<Chunk(data, end)>> \o from[ChunkStart(end) - 1]
    IN from[newest]

Found(data, newest) ==
    LET chunks == Chunks(data, newest) IN UNION {chunks[i] : i \in DOMAIN chunks}

EmptyRun(data, first) == data \cap first..first + BACKFILL_MAX_CONSECUTIVE_EMPTY - 1 = {}

(* The scan brings the days with data once and in order, and leaves one out *)
(* only if so many empty days in a row lie between it and all it brings: a  *)
(* shorter gap hides nothing, wherever the chunks end                       *)
(* (coordinator.py:985-1029).                                               *)
FindsHistory(data, newest) ==
    LET chunks == Chunks(data, newest)
        found == Found(data, newest)
    IN /\ \A i, j \in DOMAIN chunks : i < j => \A d \in chunks[i], e \in chunks[j] : e < d
       /\ found \subseteq data
       /\ \A d \in {e \in data : e <= newest} \ found :
              \E first \in d + 1..newest : EmptyRun(data, first) /\ \A e \in found : first < e
=============================================================================
