SPECIFICATION Spec
CONSTANTS
    Appeals = {a1}
    DaysInput <- MCDaysInput
    Cap <- MCCap
ACTION_CONSTRAINT JanitorKeepsUp
PROPERTY
    TwoDaysNotice
