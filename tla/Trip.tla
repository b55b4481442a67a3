-------------------------------- MODULE Trip --------------------------------
(***************************************************************************)
(* A taxi left to drive: what repeated steps of EC_DE.cpp amount to.       *)
(***************************************************************************)
EXTENDS Torus

CONSTANT Destinations    \* where taxis are sent

\* Nobody checks the coordinates of a customer, so they may be off the map.
ASSUME DestinationsAssumption == Destinations \subseteq Int \X Int

VARIABLES pos, dest

trip == <<pos, dest>>

TripInit == pos \in Cells /\ dest \in Destinations

Move ==
    /\ pos # dest
    /\ pos' = step(pos, dest)
    /\ UNCHANGED dest

TripSpec == TripInit /\ [][Move]_trip /\ WF_trip(Move)

\* The number of king's moves between two cells: what no path can beat.
Moves(a, b) == IF Along(a[1], b[1]) < Along(a[2], b[2]) THEN Along(a[2], b[2]) ELSE Along(a[1], b[1])

\* A step never leaves the map, wrapping included, not even for a destination that does.
OnMap == pos \in Cells

\* Greedy steps by the sum of both axes are shortest paths of king's moves: each one brings the
\* destination exactly one move nearer, although what step() minimises is another distance.
ShortestPath == [][(dest \in Cells) => Moves(pos', dest) = Moves(pos, dest) - 1]_trip

\* Hence a taxi that is left to drive arrives, if its destination is on the map.
Arrives == dest \in Cells => <>(pos = dest)
=============================================================================
