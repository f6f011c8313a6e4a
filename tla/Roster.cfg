SPECIFICATION RosterSpec
CONSTANTS
    Appeals = {a1}
    Experts = {e1, e2}
    Nobody = Nobody
    MaxReturnsInput <- MCMaxReturnsInput
    ReturnBound <- MCReturnBound
    Desks = {d1, d2}
    Groups = {g1, g2}
SYMMETRY Symmetry
VIEW View
INVARIANTS
    OnlyDeparturesStrand
