\* The same instance: a meter of a shared account is reloaded.
CONSTANTS
    Entries = {e1, e2}
    Logins = {l1, l2}
    Passwords = {p1, p2}
    Objects = {o1, o2, o3, o4}
    None = None
    MaxEvents = 3

SPECIFICATION Spec

CHECK_DEADLOCK FALSE

INVARIANTS
    SharedAccount
