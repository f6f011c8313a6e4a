SPECIFICATION FairSpec
CONSTANTS
    Appeals = {a1}
    DaysInput <- MCDaysInput
    Cap <- MCCap
INVARIANTS
    ClosedWasWarned
PROPERTIES
    NotBeforeTime
    ClosesOnlyWaiting
    NotWaitedForEver
