SPECIFICATION HandlersSpec
CONSTANTS
    Appeals = {a1}
    Experts = {e1, e2}
    Nobody = Nobody
    Applicant = Applicant
    Workers = {w1, w2}
    MaxReturnsInput <- MCMaxReturnsInput
    ReturnBound <- MCReturnBound
SYMMETRY Symmetry
VIEW View
CONSTRAINT OneRequestOrRace
PROPERTIES
    AnsweredCrisisIsFlagged
    AnswerLiftsWaiting
    
CHECK_DEADLOCK FALSE
