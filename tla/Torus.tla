------------------------------- MODULE Torus --------------------------------
(***************************************************************************)
(* The map is a torus and a taxi moves one cell at a time in any of eight  *)
(* directions: step, calculateDistance and mirror of EC_DE.cpp, for a map  *)
(* of 2 * Half cells a side (the code's is 20, with 10 the reference of    *)
(* mirror).                                                                *)
(***************************************************************************)
EXTENDS Integers, Sequences

CONSTANT Half    \* half the side of the map, 10 in the code

ASSUME HalfAssumption == Half \in Nat \ {0}

Size == 2 * Half

Cells == (0 .. Size - 1) \X (0 .. Size - 1)

\* Mutant: the distance to the reference instead of the mirror.
ReferenceOnly(n, reference) == reference - n

\* The mirror of n with respect to reference.
mirror(n, reference) == 2 * reference - n

abs(n) == IF n < 0 THEN -n ELSE n

min(m, n) == IF m <= n THEN m ELSE n

\* The way from one coordinate to another of the same axis, either way round.
Along(a, b) == min(abs(a - b), mirror(abs(a - b), Half))

\* Mutant: forgets that the map wraps round.
StraightDistance(a, b) == abs(a[1] - b[1]) + abs(a[2] - b[2])

calculateDistance(a, b) == Along(a[1], b[1]) + Along(a[2], b[2])

directions ==
    << <<1, 0>>, <<1, 1>>, <<0, 1>>, <<-1, 1>>, <<-1, 0>>, <<-1, -1>>, <<0, -1>>, <<1, -1>> >>

\* Mutant: does not bring the move back on the map.
UnwrappedMove(p, i) == << p[1] + directions[i][1], p[2] + directions[i][2] >>

\* C++'s % and the correction of a negative remainder are TLA+'s %.
NextMove(p, i) ==
    << (p[1] + directions[i][1]) % Size, (p[2] + directions[i][2]) % Size >>

\* The first direction of those that leave the least to go.
Best(p, q, i) ==
    \A j \in 1..8 :
        LET di == calculateDistance(NextMove(p, i), q)
            dj == calculateDistance(NextMove(p, j), q)
        IN  IF j < i THEN di < dj ELSE di <= dj

\* Where one step leads from p when the destination is q.
step(p, q) ==
    IF p = q THEN p ELSE NextMove(p, CHOOSE i \in 1..8 : Best(p, q, i))
=============================================================================
