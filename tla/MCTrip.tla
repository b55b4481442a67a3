------------------------------- MODULE MCTrip -------------------------------
(* Trips on the map of the code, 20 by 20. *)
EXTENDS Trip

\* The map is the same seen from every cell: a few destinations, corners included, stand for all
\* that are on it.  Two are off it, one by more than the map's side.
MCDestinations ==
    { <<0, 0>>, <<Size - 1, 0>>, <<Half, Half>>, <<7, 13>>, <<-1, Half>>, <<Half, 2 * Size + 5>> }
=============================================================================
