---------------------------- MODULE MCOpportunities ----------------------------
(* Opportunities on a small instance: places are interchangeable.          *)
EXTENDS Opportunities, TLC

(* Every program window is named like the first title.                     *)
ProgramNames == [q \in Programs |-> CHOOSE t \in Titles : TRUE]

PlaceSymmetry == Permutations(Places)
===============================================================================
