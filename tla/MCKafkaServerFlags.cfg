\* One taxi and one customer: flags, counters, locations and clients of an earlier session, over
\* a database connection that may break.
SPECIFICATION Spec
CONSTANTS
    t1 = t1 t2 = t2 c1 = c1 c2 = c2 A = A B = B base = base spot = spot
    None = None
    Sessions = {"current", "stale"}
    Taxis = {t1}
    Customers = {c1}
    Services = {A, B}
    Points = {base, spot}
    Base = base
    LetterOf <- MCLetterOf
    Locations <- MCLocations
    Resumed <- MCResumed
    Inputs <- FlagInputs
    MaxNow = 1
    MaxRequests = 1
    MaxUnread = 0
    Patient = TRUE
    DbMayFail = TRUE
INVARIANT MapLagsForRegistrations
CHECK_DEADLOCK FALSE
