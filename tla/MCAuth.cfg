SPECIFICATION Spec
CONSTANTS
    Employees = {e1}
    Tokens = {t1, t2}
    Requests = {r1, r2}
    TokenTTL = 1
    MaxTime = 1
SYMMETRY Symmetry
VIEW View
INVARIANTS TypeOK LateRequestNotServed AuditTrail
PROPERTIES RevocationIsFinal ImplementsSessions
