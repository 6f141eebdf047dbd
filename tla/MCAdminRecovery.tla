--------------------------- MODULE MCAdminRecovery ---------------------------
(***************************************************************************)
(* Instance of AdminRecovery for TLC: three codes over an hour of three    *)
(* ticks, the first of them sent in the first tick or later.               *)
(***************************************************************************)
EXTENDS AdminRecovery
==============================================================================
