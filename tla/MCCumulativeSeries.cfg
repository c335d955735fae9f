\* One writer that waits for the recorder, as the refresh does; four hours,
\* three imports and one restart anywhere.
CONSTANTS
    LastHour = 4
    MaxValue = 1
    Writers = {refresh}
    Waiting = {refresh}
    MaxWrites = 3
    MaxRestarts = 1

SPECIFICATION Spec

CHECK_DEADLOCK FALSE

INVARIANTS
    TypeOK
    Continuous
    OneBreak

PROPERTY
    ValuesStay
