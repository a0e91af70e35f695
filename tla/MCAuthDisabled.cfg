SPECIFICATION Spec
CONSTANTS
    Employees = {e1}
    Tokens = {t1, t2}
    Requests = {r1, r2}
    TokenTTL = 1
    MaxTime = 1
PROPERTY NoLoginWhileDisabled
