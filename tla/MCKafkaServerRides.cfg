\* One taxi, two customers (one with a location of its letter, one without), the queue, and a
\* connection that may break anywhere.
SPECIFICATION Spec
CONSTANTS
    t1 = t1 t2 = t2 c1 = c1 c2 = c2 A = A B = B base = base spot = spot
    None = None
    Sessions = {"current"}
    Taxis = {t1}
    Customers = {c1, c2}
    Services = {A, B}
    Points = {base, spot}
    Base = base
    LetterOf <- MCLetterOf
    Locations <- MCLocations
    Resumed <- MCResumed
    Inputs <- RideInputs
    MaxNow = 0
    MaxRequests = 1
    MaxUnread = 0
    Patient = TRUE
    DbMayFail = TRUE
INVARIANTS TypeOK MapFresh
PROPERTIES AssignmentAnnounced CarriageImplemented
CHECK_DEADLOCK FALSE
