------------------------------ MODULE TrackerLog ------------------------------
(***************************************************************************)
(* What position ingestion promises, without sockets, transactions or      *)
(* processes: a report is recorded once and never lost, the latest fix of  *)
(* a tracker only moves to a newer report, and a report is confirmed to    *)
(* the tracker only when it is already recorded.  DeviceIngestion          *)
(* implements this module (see MCDeviceIngestion).                         *)
(***************************************************************************)
EXTENDS Naturals

CONSTANTS
  Imeis,    \* the trackers
  Reports,  \* the position reports a tracker may send
  NoFix     \* "no latest fix yet"

VARIABLES
  log,        \* the recorded reports, as <<imei, report>>
  latest,     \* the latest fix of each tracker
  confirmed   \* the reports whose receipt the tracker was told of

vars == <<log, latest, confirmed>>

Init ==
  /\ log = {}
  /\ latest = [i \in Imeis |-> NoFix]
  /\ confirmed = {}

Newer(r, fix) == fix = NoFix \/ (fix # NoFix /\ r.time > fix.time)

(* A report is recorded; it becomes the latest fix or leaves that alone. *)
Record(i, r) ==
  /\ log' = log \union {<<i, r>>}
  /\ \/ UNCHANGED latest
     \/ /\ Newer(r, latest[i])
        /\ latest' = [latest EXCEPT ![i] = r]
  /\ UNCHANGED confirmed

Confirm(i, r) ==
  /\ <<i, r>> \in log
  /\ confirmed' = confirmed \union {<<i, r>>}
  /\ UNCHANGED <<log, latest>>

Next == \E i \in Imeis, r \in Reports : Record(i, r) \/ Confirm(i, r)

Spec == Init /\ [][Next]_vars
===============================================================================
