SPECIFICATION Spec
CONSTANTS
    Keys = {k1}
    Servers = {s1}
    Hosts = {h1, h2}
    Passwords = {pw1}
    Procs = {p1, p2}
SYMMETRY Symmetry
CHECK_DEADLOCK FALSE
INVARIANTS TypeOK RowTrustworthy
PROPERTY DeletedIsFrozen
