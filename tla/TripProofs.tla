----------------------------- MODULE TripProofs -----------------------------
(***************************************************************************)
(* For a map of any size and any destinations, on the map or off it: a     *)
(* taxi stays on the map, and to a destination on the map each step is one *)
(* of a shortest path.  What has to be shown first is that step() always   *)
(* finds a direction, that is, that of the eight distances one is the      *)
(* first among the smallest, whatever the distances are; then that the     *)
(* smallest shortens both axes that are not level.                         *)
(***************************************************************************)
EXTENDS Trip, TLAPS

\* i is the first of the smallest of d's values up to n.
FirstMin(d, n, i) ==
    /\ i \in 1..n
    /\ \A j \in 1..n : IF j < i THEN d[i] < d[j] ELSE d[i] <= d[j]

\* One more value: it is the first minimum, or the old one stays.
LEMMA FirstMinGrows ==
    ASSUME NEW d \in [1..8 -> Int], NEW n \in 1..7, NEW k, k = n + 1,
           \E i \in 1..n : FirstMin(d, n, i)
    PROVE  \E i \in 1..k : FirstMin(d, k, i)
<1>1. PICK i \in 1..n : FirstMin(d, n, i)
    OBVIOUS
<1>2. n \in Nat \ {0} /\ \A j \in 1..n + 1 : j \in 1..8 /\ d[j] \in Int /\ (j \in 1..n \/ j = n + 1)
    OBVIOUS
<1>3. CASE d[n + 1] < d[i]
    <2>1. \A j \in 1..n : d[n + 1] < d[j]
        BY <1>1, <1>2, <1>3 DEF FirstMin
    <2>2. FirstMin(d, n + 1, n + 1)
        BY <1>2, <2>1 DEF FirstMin
    <2> QED BY <1>2, <2>2
<1>4. CASE d[i] <= d[n + 1]
    <2>1. FirstMin(d, n + 1, i)
        BY <1>1, <1>2, <1>4 DEF FirstMin
    <2> QED BY <1>2, <2>1
<1> QED
    BY <1>2, <1>3, <1>4

LEMMA FirstMinOfEight ==
    ASSUME NEW d \in [1..8 -> Int]
    PROVE  \E i \in 1..8 : FirstMin(d, 8, i)
<1>1. \E i \in 1..1 : FirstMin(d, 1, i)
    BY DEF FirstMin
<1>2. \E i \in 1..2 : FirstMin(d, 2, i)
    <2>1. 1 \in 1..7 /\ 2 = 1 + 1
        OBVIOUS
    <2> QED BY <1>1, <2>1, FirstMinGrows
<1>3. \E i \in 1..3 : FirstMin(d, 3, i)
    <2>1. 2 \in 1..7 /\ 3 = 2 + 1
        OBVIOUS
    <2> QED BY <1>2, <2>1, FirstMinGrows
<1>4. \E i \in 1..4 : FirstMin(d, 4, i)
    <2>1. 3 \in 1..7 /\ 4 = 3 + 1
        OBVIOUS
    <2> QED BY <1>3, <2>1, FirstMinGrows
<1>5. \E i \in 1..5 : FirstMin(d, 5, i)
    <2>1. 4 \in 1..7 /\ 5 = 4 + 1
        OBVIOUS
    <2> QED BY <1>4, <2>1, FirstMinGrows
<1>6. \E i \in 1..6 : FirstMin(d, 6, i)
    <2>1. 5 \in 1..7 /\ 6 = 5 + 1
        OBVIOUS
    <2> QED BY <1>5, <2>1, FirstMinGrows
<1>7. \E i \in 1..7 : FirstMin(d, 7, i)
    <2>1. 6 \in 1..7 /\ 7 = 6 + 1
        OBVIOUS
    <2> QED BY <1>6, <2>1, FirstMinGrows
<1> QED
    <2>1. 7 \in 1..7 /\ 8 = 7 + 1
        OBVIOUS
    <2> QED BY <1>7, <2>1, FirstMinGrows

-----------------------------------------------------------------------------
LEMMA DirectionType ==
    ASSUME NEW i \in 1..8
    PROVE  directions[i] \in (-1..1) \X (-1..1)
BY DEF directions

LEMMA Remainder ==
    ASSUME NEW n \in Int, NEW m \in Nat \ {0}
    PROVE  n % m \in 0 .. m - 1
OBVIOUS

\* Wherever a step leads is on the map.
LEMMA NextMoveOnMap ==
    ASSUME NEW p \in Cells, NEW i \in 1..8
    PROVE  NextMove(p, i) \in Cells
<1>1. Size \in Nat \ {0}
    BY HalfAssumption DEF Size
<1>2. p[1] \in Int /\ p[2] \in Int
    BY <1>1 DEF Cells
<1>3. directions[i][1] \in Int /\ directions[i][2] \in Int
    BY DirectionType
<1>4. \A n \in Int : n % Size \in 0 .. Size - 1
    BY <1>1, Remainder
<1> QED
    BY <1>2, <1>3, <1>4 DEF NextMove, Cells

LEMMA DistanceType ==
    ASSUME NEW a \in Int \X Int, NEW b \in Int \X Int
    PROVE  calculateDistance(a, b) \in Int
<1>1. Half \in Int
    BY HalfAssumption
<1>2. \A m, n \in Int : Along(m, n) \in Int
    BY <1>1 DEF Along, min, abs, mirror
<1>3. a[1] \in Int /\ a[2] \in Int /\ b[1] \in Int /\ b[2] \in Int
    OBVIOUS
<1>4. Along(a[1], b[1]) \in Int /\ Along(a[2], b[2]) \in Int
    BY <1>2, <1>3
<1> QED
    BY <1>4 DEF calculateDistance

\* step() finds a direction, and stays on the map.
LEMMA StepOnMap ==
    ASSUME NEW p \in Cells, NEW q \in Int \X Int
    PROVE  step(p, q) \in Cells
<1> DEFINE d == [i \in 1..8 |-> calculateDistance(NextMove(p, i), q)]
<1>1. Cells \subseteq Int \X Int
    BY HalfAssumption DEF Cells, Size
<1>2. d \in [1..8 -> Int]
    BY <1>1, NextMoveOnMap, DistanceType
<1>3. PICK i \in 1..8 : FirstMin(d, 8, i)
    BY <1>2, FirstMinOfEight
<1>4. \A j \in 1..8 : IF j < i THEN d[i] < d[j] ELSE d[i] <= d[j]
    BY <1>3 DEF FirstMin
<1>5. Best(p, q, i)
    BY <1>4 DEF Best
<1>6. (CHOOSE k \in 1..8 : Best(p, q, k)) \in 1..8
    BY <1>5
<1> QED
    BY <1>6, NextMoveOnMap DEF step

\* The taxi never leaves the map: step() in EC_DE.cpp, % of negative numbers included, wherever the
\* taxi is sent.
THEOREM OnMapTheorem == TripSpec => []OnMap
<1> DEFINE IInv == OnMap /\ dest \in Int \X Int
<1>1. TripInit => IInv
    BY DestinationsAssumption DEF TripInit, OnMap
<1>2. IInv /\ [Move]_trip => IInv'
    BY StepOnMap DEF OnMap, Move, trip
<1>3. IInv => OnMap
    OBVIOUS
<1> QED
    BY <1>1, <1>2, <1>3, PTL DEF TripSpec

-----------------------------------------------------------------------------
\* The remainder one cell beyond either edge of the map.
LEMMA RemainderIs ==
    ASSUME NEW n \in Int, NEW m \in Nat \ {0}, n \in -1 .. m
    PROVE  n % m = IF n = m THEN 0 ELSE IF n = -1 THEN m - 1 ELSE n
OBVIOUS

\* The coordinate e cells further along its axis, round the map if need be.
Shift(a, e) == (a + e) % Size

LEMMA ShiftIs ==
    ASSUME NEW a \in 0 .. Size - 1, NEW e \in -1..1
    PROVE  Shift(a, e) = IF a + e = Size THEN 0 ELSE IF a + e = -1 THEN Size - 1 ELSE a + e
<1>1. Size \in Nat \ {0}
    BY HalfAssumption DEF Size
<1>2. a + e \in Int /\ a + e \in -1 .. Size
    BY <1>1
<1> QED
    BY <1>1, <1>2, RemainderIs DEF Shift

\* A step along an axis changes the way to b by at most one either way round; away from b one of the
\* two directions brings it nearer, and at b there is no way left to shorten.
LEMMA AlongAxis ==
    ASSUME NEW a \in 0 .. Size - 1, NEW b \in 0 .. Size - 1
    PROVE  /\ Along(a, b) \in Nat
           /\ a = b <=> Along(a, b) = 0
           /\ \A e \in -1..1 : Along(Shift(a, e), b) \in Nat /\ Along(Shift(a, e), b) >= Along(a, b) - 1
           /\ Along(Shift(a, 0), b) = Along(a, b)
           /\ a # b => \E e \in {-1, 1} : Along(Shift(a, e), b) = Along(a, b) - 1
<1>1. Half \in Nat \ {0} /\ Size = 2 * Half
    BY HalfAssumption DEF Size
<1> DEFINE Way(m, n) == IF m <= n
                        THEN IF n - m <= Half THEN n - m ELSE Size - (n - m)
                        ELSE IF m - n <= Half THEN m - n ELSE Size - (m - n)
<1>2. \A m, n \in 0 .. Size - 1 : Along(m, n) = Way(m, n)
    BY <1>1 DEF Along, min, abs, mirror
<1>3. \A e \in -1..1 : Shift(a, e) \in 0 .. Size - 1
    BY <1>1, ShiftIs
<1>4. Along(a, b) = Way(a, b) /\ \A e \in -1..1 : Along(Shift(a, e), b) = Way(Shift(a, e), b)
    BY <1>2, <1>3
<1>5. /\ Shift(a, 0) = a
      /\ Shift(a, 1) = IF a + 1 = Size THEN 0 ELSE a + 1
      /\ Shift(a, -1) = IF a = 0 THEN Size - 1 ELSE a - 1
    <2>1. 0 \in -1..1 /\ 1 \in -1..1 /\ -1 \in -1..1
        OBVIOUS
    <2>2. /\ Shift(a, 0) = IF a + 0 = Size THEN 0 ELSE IF a + 0 = -1 THEN Size - 1 ELSE a + 0
          /\ Shift(a, 1) = IF a + 1 = Size THEN 0 ELSE IF a + 1 = -1 THEN Size - 1 ELSE a + 1
          /\ Shift(a, -1) = IF a + (-1) = Size THEN 0 ELSE IF a + (-1) = -1 THEN Size - 1 ELSE a + (-1)
        BY <2>1, ShiftIs
    <2> QED BY <1>1, <2>2
<1>6. \A e \in -1..1 : e = -1 \/ e = 0 \/ e = 1
    OBVIOUS
<1>7. Way(a, b) \in Nat /\ (a = b <=> Way(a, b) = 0)
    BY <1>1
<1>8. Way(Shift(a, 0), b) = Way(a, b)
    BY <1>5
<1>9. Way(Shift(a, 1), b) \in Nat /\ Way(Shift(a, 1), b) >= Way(a, b) - 1
    BY <1>1, <1>5
<1>10. Way(Shift(a, -1), b) \in Nat /\ Way(Shift(a, -1), b) >= Way(a, b) - 1
    BY <1>1, <1>5
<1>11. ASSUME a # b
       PROVE  Way(Shift(a, 1), b) = Way(a, b) - 1 \/ Way(Shift(a, -1), b) = Way(a, b) - 1
    BY <1>1, <1>5, <1>11
<1> HIDE DEF Way
<1>12. \A e \in -1..1 : Way(Shift(a, e), b) \in Nat /\ Way(Shift(a, e), b) >= Way(a, b) - 1
    BY <1>6, <1>7, <1>8, <1>9, <1>10
<1>13. 0 \in -1..1 /\ 1 \in -1..1 /\ -1 \in -1..1
    OBVIOUS
<1> QED
    BY <1>4, <1>7, <1>8, <1>11, <1>12, <1>13

\* The table of directions has every move but standing still.
LEMMA DirectionsAre ==
    ASSUME NEW e \in -1..1, NEW f \in -1..1, e # 0 \/ f # 0
    PROVE  \E i \in 1..8 : directions[i] = <<e, f>>
<1>1. (e = -1 \/ e = 0 \/ e = 1) /\ (f = -1 \/ f = 0 \/ f = 1)
    OBVIOUS
<1>2. /\ directions[1] = <<1, 0>> /\ directions[2] = <<1, 1>>
      /\ directions[3] = <<0, 1>> /\ directions[4] = <<-1, 1>>
      /\ directions[5] = <<-1, 0>> /\ directions[6] = <<-1, -1>>
      /\ directions[7] = <<0, -1>> /\ directions[8] = <<1, -1>>
    BY DEF directions
<1>3. \A i \in {1, 2, 3, 4, 5, 6, 7, 8} : i \in 1..8
    OBVIOUS
<1> QED
    BY <1>1, <1>2, <1>3

\* What step() takes is no worse than any other direction.
LEMMA StepBest ==
    ASSUME NEW p \in Cells, NEW q \in Int \X Int, p # q
    PROVE  \E i \in 1..8 : /\ step(p, q) = NextMove(p, i)
                           /\ \A j \in 1..8 : calculateDistance(NextMove(p, i), q)
                                                <= calculateDistance(NextMove(p, j), q)
<1> DEFINE d == [i \in 1..8 |-> calculateDistance(NextMove(p, i), q)]
<1>1. Cells \subseteq Int \X Int
    BY HalfAssumption DEF Cells, Size
<1>2. d \in [1..8 -> Int]
    BY <1>1, NextMoveOnMap, DistanceType
<1>3. PICK k \in 1..8 : FirstMin(d, 8, k)
    BY <1>2, FirstMinOfEight
<1>4. Best(p, q, k)
    BY <1>3 DEF Best, FirstMin
<1> DEFINE i == CHOOSE n \in 1..8 : Best(p, q, n)
<1>5. i \in 1..8 /\ Best(p, q, i)
    BY <1>4
<1>6. step(p, q) = NextMove(p, i)
    BY DEF step
<1> HIDE DEF i
<1>7. \A j \in 1..8 : d[i] <= d[j]
    BY <1>2, <1>5 DEF Best
<1> QED
    BY <1>5, <1>6, <1>7

\* A direction that shortens each axis not yet level and leaves a level one alone exists, and no sum of
\* distances is smaller: so the direction taken does the same, and the longer axis is one shorter.
LEMMA StepNearer ==
    ASSUME NEW p \in Cells, NEW q \in Cells, p # q
    PROVE  Moves(step(p, q), q) = Moves(p, q) - 1
<1> DEFINE x(e) == Along(Shift(p[1], e), q[1])
           y(e) == Along(Shift(p[2], e), q[2])
           dx == Along(p[1], q[1])
           dy == Along(p[2], q[2])
<1>0. Cells \subseteq Int \X Int
    BY HalfAssumption DEF Cells, Size
<1>1. PICK i \in 1..8 : /\ step(p, q) = NextMove(p, i)
                        /\ \A j \in 1..8 : calculateDistance(NextMove(p, i), q)
                                             <= calculateDistance(NextMove(p, j), q)
    BY <1>0, StepBest
<1>2. \A j \in 1..8 : /\ directions[j][1] \in -1..1 /\ directions[j][2] \in -1..1
                      /\ NextMove(p, j)[1] = Shift(p[1], directions[j][1])
                      /\ NextMove(p, j)[2] = Shift(p[2], directions[j][2])
                      /\ calculateDistance(NextMove(p, j), q) = x(directions[j][1]) + y(directions[j][2])
    BY DirectionType DEF NextMove, Shift, calculateDistance
<1>3. /\ dx \in Nat /\ (p[1] = q[1] <=> dx = 0)
      /\ \A e \in -1..1 : x(e) \in Nat /\ x(e) >= dx - 1
      /\ x(0) = dx
      /\ p[1] # q[1] => \E e \in {-1, 1} : x(e) = dx - 1
    BY AlongAxis DEF Cells
<1>4. /\ dy \in Nat /\ (p[2] = q[2] <=> dy = 0)
      /\ \A e \in -1..1 : y(e) \in Nat /\ y(e) >= dy - 1
      /\ y(0) = dy
      /\ p[2] # q[2] => \E e \in {-1, 1} : y(e) = dy - 1
    BY AlongAxis DEF Cells
<1>5. p[1] # q[1] \/ p[2] # q[2]
    BY DEF Cells
<1> DEFINE e1 == directions[i][1]
           e2 == directions[i][2]
<1>6. \A e, f \in -1..1 : (e # 0 \/ f # 0) => x(e1) + y(e2) <= x(e) + y(f)
    BY <1>1, <1>2, DirectionsAre
<1>7. Moves(step(p, q), q) = IF x(e1) < y(e2) THEN y(e2) ELSE x(e1)
    BY <1>1, <1>2 DEF Moves
<1>8. Moves(p, q) = IF dx < dy THEN dy ELSE dx
    BY DEF Moves
<1>9. e1 \in -1..1 /\ e2 \in -1..1 /\ x(e1) \in Nat /\ y(e2) \in Nat /\ x(e1) >= dx - 1 /\ y(e2) >= dy - 1
    BY <1>2, <1>3, <1>4
<1>10. 0 \in -1..1 /\ 1 \in -1..1 /\ -1 \in -1..1 /\ 1 # 0 /\ -1 # 0
    OBVIOUS
<1> HIDE DEF x, y, dx, dy, e1, e2
<1>11. CASE p[1] # q[1] /\ p[2] # q[2]
    <2>1. PICK e \in {-1, 1}, f \in {-1, 1} : x(e) = dx - 1 /\ y(f) = dy - 1
        BY <1>3, <1>4, <1>11
    <2>2. e \in -1..1 /\ f \in -1..1 /\ e # 0
        OBVIOUS
    <2>3. x(e1) + y(e2) <= x(e) + y(f)
        BY <1>6, <2>2
    <2> QED BY <1>3, <1>4, <1>7, <1>8, <1>9, <2>1, <2>3
<1>12. CASE p[1] = q[1] /\ p[2] # q[2]
    <2>1. PICK f \in {-1, 1} : y(f) = dy - 1
        BY <1>4, <1>12
    <2>2. f \in -1..1 /\ f # 0
        OBVIOUS
    <2>3. x(e1) + y(e2) <= x(0) + y(f)
        BY <1>6, <1>10, <2>2
    <2> QED BY <1>3, <1>4, <1>7, <1>8, <1>9, <1>12, <2>1, <2>3
<1>13. CASE p[1] # q[1] /\ p[2] = q[2]
    <2>1. PICK e \in {-1, 1} : x(e) = dx - 1
        BY <1>3, <1>13
    <2>2. e \in -1..1 /\ e # 0
        OBVIOUS
    <2>3. x(e1) + y(e2) <= x(e) + y(0)
        BY <1>6, <1>10, <2>2
    <2> QED BY <1>3, <1>4, <1>7, <1>8, <1>9, <1>13, <2>1, <2>3
<1> QED
    BY <1>5, <1>11, <1>12, <1>13

\* Every step of the engine towards a cell of the map, round either edge, is one king's move nearer to
\* it: greedy by the sum of both axes is never a detour, whatever the size of the map.
THEOREM ShortestPathTheorem == TripSpec => ShortestPath
<1> DEFINE IInv == OnMap /\ dest \in Int \X Int
           Nearer == dest \in Cells => Moves(pos', dest) = Moves(pos, dest) - 1
<1>1. TripInit => IInv
    BY DestinationsAssumption DEF TripInit, OnMap
<1>2. IInv /\ [Move]_trip => IInv'
    BY StepOnMap DEF OnMap, Move, trip
<1>3. IInv /\ [Move]_trip => [Nearer]_trip
    BY StepNearer DEF OnMap, Move, trip
<1> QED
    BY <1>1, <1>2, <1>3, PTL DEF TripSpec, ShortestPath
=============================================================================
