SPECIFICATION Spec
CONSTANTS
    Keys = {k1, k2}
    Procs = {p1, p2}
    Failures = {"write"}
INVARIANTS TypeOK PairConsistent
PROPERTIES ImplementsKeyStore CreatedIsStored Served
