SPECIFICATION Spec
CONSTANTS
    Containers = {c1, c2}
    Names = {web, api}
    Refs = {v1, v2}
    Deploys = {}
    Purges = {p1}
    Jobs <- AllJobs
SYMMETRY Symmetry
CHECK_DEADLOCK FALSE
INVARIANT PurgeVerified
