SPECIFICATION Spec
CONSTANTS
    Clients = {c1}
    Workers = {w1, w2}
    Tracks = {t1, t2}
    Tokens = {s1, s2, s3}
    Keys = {k1}
    None = None
SYMMETRY Symmetry
CONSTRAINT FilingsOrSessions
INVARIANTS
    OneAppealPerKey
    NumberOpensAppeal
    RefreshKeepsClientIn
