---------------------------- MODULE MCGeofenceAlerts ----------------------------
(***************************************************************************)
(* Instance of GeofenceAlerts for TLC: two students, whom each of three    *)
(* fixes may find at either of two stops, or not at all.                   *)
(***************************************************************************)
EXTENDS GeofenceAlerts, TLC

CONSTANTS s1, s2, a, b, f1, f2, f3, approaching, passing

MCZone ==
  approaching :> (s1 :> "near" @@ s2 :> "far") @@
  passing :> (s1 :> "between" @@ s2 :> "near")

(* Students are alike, and so are fixes before a place is chosen for them. *)
Alike == Permutations(Students) \union Permutations(Fixes)
===============================================================================
