\* The refresh and the backfill action write the same statistic; only the
\* refresh waits for the recorder.  No restart is needed.
CONSTANTS
    LastHour = 2
    MaxValue = 1
    Writers = {refresh, service}
    Waiting = {refresh}
    MaxWrites = 2
    MaxRestarts = 0

SPECIFICATION Spec

CHECK_DEADLOCK FALSE

INVARIANT
    Continuous
