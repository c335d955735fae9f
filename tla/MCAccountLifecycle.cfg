\* Two meters, two logins, an old and a new password.
CONSTANTS
    Entries = {e1, e2}
    Logins = {l1, l2}
    Passwords = {p1, p2}
    Objects = {o1, o2, o3, o4}
    None = None
    MaxEvents = 3

SPECIFICATION LiveSpec

CHECK_DEADLOCK FALSE

INVARIANTS
    TypeOK
    OneWatcher

PROPERTIES
    MessagesKept
    PasswordsSettle
