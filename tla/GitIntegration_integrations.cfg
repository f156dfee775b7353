SPECIFICATION Spec
CONSTANTS
    Integrations = {i1, i2}
    Handlers = {h1, h2}
    OwnerCommits = {c1}
    NoIntegration = NoIntegration
    OwnerModes = {"local_push", "pull_request"}
    MaxRevision = 1
    MaxPolicyVersion = 2
    MaxRestarts = 1
    MaxExports = 1
SYMMETRY Interchangeable
INVARIANTS
    TypeOK
    RowsAreTrue
    ExecutionHasOneRequest
PROPERTIES
    NothingIsLost
