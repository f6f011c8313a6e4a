SPECIFICATION Spec
CONSTANTS
    Appeals = {a1, a2}
    Workers = {w1, w2}
    Names = {n1, n2, n3}
    MaxAttachments = 1
    Faults = {"crash", "count", "delete", "lost", "remove"}
SYMMETRY Symmetry
INVARIANTS
    RowsHaveFiles
    OverrunIsBounded
    DirectoriesGoWithAppeals
