\* Two meters, which can share either of two groups or have none.
CONSTANTS
    Meters = {m1, m2}
    Groups = {g1, g2}
    Supported = {g1}
    Values = {v1, v2}
    None = None
    MaxEvents = 1

SPECIFICATION LiveSpec

CHECK_DEADLOCK FALSE

INVARIANTS
    TypeOK
    SharedRaisesNone

PROPERTIES
    IssuesConverge
    FixesSettle
