\* Two sensors and two choices of two seconds, made at either.
SPECIFICATION FairSpec
CONSTANTS
    Sensors = {s1, s2}
    None = None
    Choices = {2}
    Garbage <- MCGarbage
    MaxChoices = 2
INVARIANTS TypeOK TakeTurns StopsInTime WaitIsToldToTheEnd
PROPERTY WaitEnds
CHECK_DEADLOCK FALSE
