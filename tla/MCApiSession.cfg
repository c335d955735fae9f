\* Two requests, two passwords and two faults of any kind.
CONSTANTS
    Requests = {r1, r2}
    Passwords = {old, new}
    None = None
    MaxFaults = 2

SPECIFICATION LiveSpec

INVARIANTS
    TypeOK
    ResendIsFresh
    OneReloginPerSession

PROPERTIES
    EveryRequestEnds
    Recovers
