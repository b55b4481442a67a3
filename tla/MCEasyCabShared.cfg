\* One taxi, two customers: the second request finds the taxi busy.
SPECIFICATION Spec
CONSTANTS
    t1 = t1 t2 = t2 c1 = c1 c2 = c2 A = A B = B
    None = None
    Sessions = {"current"}
    Taxis = {t1}
    Customers = {c1, c2}
    Services = {A, B}
    Half = 2
    Points <- MCPoints
    Base <- MCBase
    LetterOf <- MCLetterOf
    Locations <- MCLocations
    Wishes <- MCWishes
    Home <- MCHome
    Frames = {0}
    RestFrom = 1
    Orders <- NoOrders
    MaxOrders = 0
    TaxisFirst = TRUE
    Leaving = FALSE
    MaxNow = 0
    MaxRequests = 3
    MaxUnread = 9
INVARIANT ArrivedWhereAsked
CHECK_DEADLOCK FALSE
