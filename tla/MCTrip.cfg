\* The map of the code, every departure.
SPECIFICATION TripSpec
CONSTANTS
    Half = 10
    Destinations <- MCDestinations
INVARIANT OnMap
PROPERTIES ShortestPath Arrives
CHECK_DEADLOCK FALSE
