\* One taxi that joins first, one customer with two wishes, an operator that stops the taxi.
SPECIFICATION FairSpec
CONSTANTS
    t1 = t1 t2 = t2 c1 = c1 c2 = c2 A = A B = B
    None = None
    Sessions = {"current"}
    Taxis = {t1}
    Customers = {c1}
    Services = {A, B}
    Half = 2
    Points <- MCPoints
    Base <- MCBase
    LetterOf <- MCLetterOf
    Locations <- MCLocations
    Wishes <- MCWishes
    Home <- MCHome
    Frames = {0}
    RestFrom = 1
    Orders <- StopOrders
    MaxOrders = 2
    TaxisFirst = TRUE
    Leaving = FALSE
    MaxNow = 1
    MaxRequests = 3
    MaxUnread = 9
INVARIANTS PositionAgreement StopAgreement BoundForDestination ArrivedWhereAsked NeverAborts
PROPERTY EveryAskAnswered
CHECK_DEADLOCK FALSE
