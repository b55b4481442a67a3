\* Started twice; one request is under way, handled, lost or committed when servers end.
SPECIFICATION FairSpec
CONSTANTS
    MaxStarts = 2
    MaxRequests = 1
INVARIANTS NoServerLeft SignalsStayInside NothingSkipped
PROPERTY EndsTogether
CHECK_DEADLOCK FALSE
