SPECIFICATION Spec
CONSTANTS
    Containers = {c1, c2, c3}
    Names = {web, api}
    Refs = {v1, v2}
    Deploys = {j1, j2}
    Purges = {j1, j2}
    Jobs <- AllJobs
SYMMETRY Symmetry
CHECK_DEADLOCK FALSE
INVARIANTS TypeOK StrictlySequential CleanDeploySucceeds CleanPurgeSucceeds SuccessIsReal
PROPERTY OnlyTargetsRemoved
