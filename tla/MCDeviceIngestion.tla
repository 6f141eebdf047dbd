--------------------------- MODULE MCDeviceIngestion ---------------------------
(***************************************************************************)
(* Instance of DeviceIngestion for TLC: two connections of one tracker.     *)
(***************************************************************************)
EXTENDS DeviceIngestion

Report(id, time, fixed, located) ==
  [id |-> id, time |-> time, fixed |-> fixed, located |-> located]

(* An early and a late fix; the late one lies in the future at time 0.     *)
TwoReports == {Report(1, 1, TRUE, TRUE), Report(2, 2, TRUE, TRUE)}

(* A report without the GPS-fixed bit and one without valid coordinates.   *)
PoorReports == {Report(1, 1, FALSE, TRUE), Report(2, 1, TRUE, FALSE)}
===============================================================================
