\* A prosumer whose balanced data lags behind by a day.  Nothing else happens:
\* no failure, restart or action.
CONSTANTS
    Keys = {energy}
    Energy = {energy}
    AtStart = {{energy}}
    AssemblyKnown = {TRUE}
    Grace = 3
    LastDay = 4
    Troubles = {"lag"}
    MaxEvents = 0

SPECIFICATION LiveSpec

CHECK_DEADLOCK FALSE

PROPERTY
    Rebalanced
