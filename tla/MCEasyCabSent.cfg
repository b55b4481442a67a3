\* The operator sends a taxi that serves nobody somewhere.
SPECIFICATION Spec
CONSTANTS
    t1 = t1 t2 = t2 c1 = c1 c2 = c2 A = A B = B
    None = None
    Sessions = {"current"}
    Taxis = {t1}
    Customers = {c1}
    Services = {A, B}
    Half = 2
    Points <- MCPoints
    Base <- MCBase
    LetterOf <- MCLetterOf
    Locations <- MCLocations
    Wishes <- MCWishes
    Home <- MCHome
    Frames = {0}
    RestFrom = 1
    Orders <- GoToOrders
    MaxOrders = 1
    TaxisFirst = TRUE
    Leaving = FALSE
    MaxNow = 0
    MaxRequests = 3
    MaxUnread = 9
INVARIANT NeverAborts
CHECK_DEADLOCK FALSE
