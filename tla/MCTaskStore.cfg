CONSTANTS
    None = None
    Tasks = {t1, t2}
    Members = {m1, m2}
    Handlers = {h1, h2, h3}
    MaxVersion = 5
SPECIFICATION Spec
INVARIANTS
    OneWinner
PROPERTY ImplementsBoard
SYMMETRY Symmetry
CHECK_DEADLOCK FALSE
