\* Pings may be two seconds apart and handled one second late, which uses up the three seconds.
SPECIFICATION Spec
CONSTANTS
    t1 = t1 c1 = c1
    Taxis = {t1}
    Customers = {c1}
    Pause = 2
    Lag = 1
    CheckPause = 1
    Delay = 0
    MaxNow = 6
INVARIANTS TypeOK NobodyLingers
PROPERTY OnlyNewcomersDisconnected
CHECK_DEADLOCK FALSE
