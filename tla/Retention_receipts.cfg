\* A run that ended and one that resumes its session; two requests at a time.
SPECIFICATION Spec
CONSTANTS
    Runs = {r1, r2}
    First = r1
    Implementation = {r1, r2}
    Scopes = {"task"}
    Cleanups = {k1}
    Deletions = {d1}
    Handlers = {h1, h2}
    None = None
    MaxChanges = 1
SYMMETRY Interchangeable
INVARIANTS
    TypeOK
    ReceiptsAreTrue
    HoldsAreHonoured
PROPERTIES
    DeletedAfterListed
