\* Two measurements, one of which may be enabled later, four days and the real
\* grace period; the assembly date may be unknown.  One action, failure or
\* restart at any moment.
CONSTANTS
    Keys = {energy, power}
    Energy = {energy}
    AtStart = {{energy}}
    AssemblyKnown = {TRUE, FALSE}
    Grace = 3
    LastDay = 4
    Troubles = {}
    MaxEvents = 1

SPECIFICATION LiveSpec

CHECK_DEADLOCK FALSE

INVARIANTS
    TypeOK
    NoHoles
    NoFalseZero
    RecordedIsFetched

PROPERTIES
    CatchesUp
    Rebalanced
