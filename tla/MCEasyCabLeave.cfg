\* One taxi and one customer that come and go as they like.
SPECIFICATION Spec
CONSTANTS
    t1 = t1 t2 = t2 c1 = c1 c2 = c2 A = A B = B
    None = None
    Sessions = {"current"}
    Taxis = {t1}
    Customers = {c1}
    Services = {A, B}
    Half = 2
    Points <- MCPoints
    Base <- MCBase
    LetterOf <- MCLetterOf
    Locations <- MCLocations
    Wishes <- OneWish
    Home <- MCHome
    Frames = {0, 1}
    RestFrom = 1
    Orders <- NoOrders
    MaxOrders = 0
    TaxisFirst = FALSE
    Leaving = TRUE
    MaxNow = 0
    MaxRequests = 2
    MaxUnread = 1
INVARIANTS TypeOK ConnectedAgreement CarriedTogether OnboardAgreement
PROPERTY CentralServes
CHECK_DEADLOCK FALSE
