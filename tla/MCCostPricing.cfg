CONSTANTS
    low = low
    high = high
    day = day
    night = night
    Keys = {consumed, power}
    Costed = {consumed}
    AtStart = {{consumed}, {power}}
    Prices = {low, high}
    NoPrice = NoPrice
    Zones = {day, night}
    Zone <- TwoZones
    LastDay = 2
    Troubles = {}
    MaxChanges = 2
    MaxEvents = 1

SPECIFICATION LiveSpec

PROPERTY Repriced

CHECK_DEADLOCK FALSE

INVARIANTS
    TypeOK
    Truthful
