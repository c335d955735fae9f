\* One meter and one message: liveness over a restart.
CONSTANTS
    m1 = m1
    a = a
    b = b
    Messages = {m1}
    Meters = {a}
    Owner <- OneMessage
    EveryLogin = {}
    MaxDay = 2
    MaxWaiting = 1
    MaxStops = 1

SPECIFICATION LiveSpec

PROPERTIES
    PendingReadIsSent
    MessageIsNoticed
