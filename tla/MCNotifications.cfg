\* The account with two meters and one message: safety and the ledger.
CONSTANTS
    m1 = m1
    a = a
    b = b
    Messages = {m1}
    Meters = {a, b}
    Owner <- OneMessage
    EveryLogin = {}
    MaxDay = 3
    MaxWaiting = 1
    MaxStops = 1

SPECIFICATION Spec

INVARIANTS
    TypeOK
    SeenIsHandled
    NothingMissed
    OnlyDismissedMarked
    ScreenIsWatched

PROPERTIES
    NotifiedOnce
    KeepsLedger
