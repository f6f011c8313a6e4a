SPECIFICATION FairSpec
CONSTANTS
    Appeals = {a1, a2}
    Workers = {w1}
    Names = {n1}
    MaxAttachments = 1
    Faults = {"crash", "delete", "lost", "remove"}
PROPERTIES
    ClosedIsErased
