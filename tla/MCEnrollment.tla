----------------------------- MODULE MCEnrollment -----------------------------
(***************************************************************************)
(* Instance of Enrollment for TLC: three enrollments of two students in    *)
(* two shifts.                                                             *)
(***************************************************************************)
EXTENDS Enrollment, TLC

Symmetry == Permutations(Students) \cup Permutations(Shifts)
              \cup Permutations(Ids) \cup Permutations(Names) \cup Permutations(Routes)
===============================================================================
