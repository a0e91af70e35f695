SPECIFICATION Spec
CONSTANTS
    Keys = {k1, k2}
    Procs = {p1}
    Failures = {"write"}
PROPERTY CreateYieldsKey
