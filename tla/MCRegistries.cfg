SPECIFICATION Spec
CONSTANTS
    Registries = {r1, r2, r3}
    Names = {n1, n2}
    Procs = {p1, p2}
CHECK_DEADLOCK FALSE
INVARIANTS TypeOK AtMostOneDefault
PROPERTIES DefaultNotLost TransactionsEnd
