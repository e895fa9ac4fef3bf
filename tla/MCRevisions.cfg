CONSTANTS
    None = None
    Handlers = {h1, h2}
    Specs = {x, y}
    Revs = {r1, r2, r3, r4}
    MaxRevisionHistory = 3
    MaxSnapshotRevisions = 2
    MaxVersion = 6
SPECIFICATION Spec
INVARIANTS
    TypeOK
    HistoryIsRecentLog
PROPERTY StatusOnlyToNewest
CHECK_DEADLOCK FALSE
SYMMETRY Symmetry
