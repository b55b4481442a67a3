\* A window of two lines gets four logs and an error.
SPECIFICATION Spec
CONSTANTS
    Digits = {"1"}
    HEIGHT = 2
    MaxLogs = 4
    MaxErrors = 1
INVARIANTS ArgumentsOfTheAction NewestLogs
CHECK_DEADLOCK FALSE
