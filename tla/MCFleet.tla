------------------------------- MODULE MCFleet -------------------------------
(***************************************************************************)
(* Instances of Fleet for TLC: two vehicles, two drivers and two jobs.     *)
(***************************************************************************)
EXTENDS Fleet, TLC

Symmetry == Permutations(Vehicles) \cup Permutations(Drivers) \cup Permutations(Jobs)
              \cup Permutations(Names) \cup Permutations(Previews) \cup Permutations(Confirms)
==============================================================================
