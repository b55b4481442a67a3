\* Two engines with one id; the code tries three times, two let answers be one behind.
SPECIFICATION FairSpec
CONSTANTS
    Engines = {e1, e2}
    Taxis = {t1}
    IdOf <- MCIdOf
    Tries = 2
INVARIANTS TypeOK NewTaxiOnce RefusalLeavesNoTrace
PROPERTIES RegistryImplemented AnnouncementArrives AttemptEnds ThreadEnds
CHECK_DEADLOCK FALSE
