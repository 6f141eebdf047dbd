----------------------------- MODULE Fleet_proofs -----------------------------
(***************************************************************************)
(* Theorems about Fleet for any number of vehicles, drivers, jobs, names,  *)
(* previews and confirmations.                                             *)
(***************************************************************************)
EXTENDS Fleet, TLAPS

-----------------------------------------------------------------------------
(* The inductive invariant.  Jobs and drivers refer to vehicles that exist *)
(* and a vehicle has one driver at most; a preview that is confirmed or    *)
(* imported has left the map, and one confirmation holds it.               *)

Placed ==
  /\ \A j \in Jobs : job[j] # None => vehicle[job[j].vehicle] # None
  /\ \A v \in Vehicles : vehicle[v] = None => Assigned(v) = {}

OneDriver == \A v \in Vehicles : \A d, e \in Assigned(v) : d = e

FleetInv ==
  /\ vehicle \in [Vehicles -> VehicleRows \cup {None}]
  /\ driver \in [Drivers -> DriverRows \cup {None}]
  /\ job \in [Jobs -> JobRows \cup {None}]
  /\ expense \in [Jobs -> ExpenseRows \cup {None}]
  /\ touched \subseteq Vehicles
  /\ Placed /\ OneDriver /\ DriftOnlyByImport

ImportInv ==
  /\ preview \in [Previews -> {"none", "decoding", "held", "expired", "gone"}]
  /\ confirming \in [Confirms -> Previews \cup {None}]
  /\ imports \in [Previews -> {0, 1}]
  /\ \A p \in Previews : imports[p] = 1 => preview[p] = "gone"
  /\ \A k \in Confirms : confirming[k] # None =>
       /\ preview[confirming[k]] = "gone" /\ imports[confirming[k]] = 0
       /\ \A l \in Confirms \ {k} : confirming[l] # confirming[k]

-----------------------------------------------------------------------------
(* Imports                                                                 *)

(* The steps of an import keep its invariant.                              *)
LEMMA ImportSteps == ImportInv /\ (Importing \/ UNCHANGED importVars) => ImportInv'
<1> SUFFICES ASSUME ImportInv, Importing \/ UNCHANGED importVars PROVE ImportInv'
  OBVIOUS
<1> USE DEF ImportInv
<1>0. /\ Pruned \in [Previews -> {"none", "decoding", "held", "expired", "gone"}]
      /\ \A p \in Previews : preview[p] = "gone" => Pruned[p] = "gone"
  BY DEF Pruned
<1>1. ASSUME NEW p \in Previews, BeginPreview(p) \/ FinishPreview(p) \/ ExpirePreview(p)
      PROVE  ImportInv'
  <2>1. /\ preview' \in [Previews -> {"none", "decoding", "held", "expired", "gone"}]
        /\ \A r \in Previews : preview[r] = "gone" => preview'[r] = "gone"
        /\ UNCHANGED <<confirming, imports>>
    BY <1>0, <1>1 DEF BeginPreview, FinishPreview, ExpirePreview
  <2> QED BY <2>1, NoneAssumption
<1>2. ASSUME NEW k \in Confirms, NEW p \in Previews, BeginConfirm(k, p) PROVE ImportInv'
  <2>1. /\ preview[p] = "held" /\ confirming[k] = None
        /\ confirming' = [confirming EXCEPT ![k] = p] /\ imports' = imports
        /\ preview' = [Pruned EXCEPT ![p] = "gone"]
    BY <1>2 DEF BeginConfirm, Taken
  <2>2. \A l \in Confirms : confirming[l] # p
    BY <2>1, NoneAssumption
  <2>3. imports[p] = 0
    BY <2>1
  <2>4. /\ preview' \in [Previews -> {"none", "decoding", "held", "expired", "gone"}]
        /\ \A r \in Previews : preview[r] = "gone" => preview'[r] = "gone"
        /\ preview'[p] = "gone"
    BY <1>0, <2>1
  <2> QED BY <2>1, <2>2, <2>3, <2>4, NoneAssumption
<1>3. ASSUME NEW k \in Confirms, ApplyImport(k) PROVE ImportInv'
  <2> DEFINE p == confirming[k]
  <2>1. /\ p \in Previews /\ imports[p] = 0 /\ preview[p] = "gone" /\ preview' = preview
        /\ \A l \in Confirms \ {k} : confirming[l] # p
        /\ confirming' = [confirming EXCEPT ![k] = None]
        /\ imports' = [imports EXCEPT ![p] = imports[p] + 1]
    BY <1>3 DEF ApplyImport
  <2> HIDE DEF p
  <2>2. imports' \in [Previews -> {0, 1}] /\ \A r \in Previews \ {p} : imports'[r] = imports[r]
    BY <2>1
  <2> QED BY <2>1, <2>2
<1>4. ASSUME NEW k \in Confirms, FailImport(k) PROVE ImportInv'
  BY <1>4 DEF FailImport
<1>5. ASSUME RefuseConfirm PROVE ImportInv'
  BY <1>0, <1>5, NoneAssumption DEF RefuseConfirm
<1>6. ASSUME Restart PROVE ImportInv'
  BY <1>6 DEF Restart
<1>7. CASE UNCHANGED importVars
  BY <1>7 DEF importVars
<1> QED BY <1>1, <1>2, <1>3, <1>4, <1>5, <1>6, <1>7 DEF Importing

(* The other steps leave the import alone.                                 *)
LEMMA NextImport == ImportInv /\ [Next]_vars => ImportInv'
<1>1. Administration => UNCHANGED importVars
  BY DEF Administration, SaveVehicle, SaveVehicleAndDriver, RemoveVehicle, SaveDriver, SaveMaintenance
<1> QED BY <1>1, ImportSteps DEF Next, vars

(* No import goes on at first.                                             *)
LEMMA InitImport == Init => ImportInv
BY DEF Init, ImportInv

(* A preview is imported once, however its confirmations overlap.          *)
THEOREM ImportedAtMostOnce == Spec => []ImportedOnce
<1>1. ImportInv => ImportedOnce
  BY DEF ImportInv, ImportedOnce
<1> QED BY <1>1, InitImport, NextImport, PTL DEF Spec

-----------------------------------------------------------------------------
(* Vehicles and drivers                                                    *)

(* What a step does to one driver, or to the vehicles, shows in the        *)
(* drivers assigned to each vehicle.                                       *)
LEMMA AssignedAfter ==
  ASSUME NEW d \in Drivers, driver \in [Drivers -> DriverRows \cup {None}],
         NEW row \in DriverRows, driver' = [driver EXCEPT ![d] = row]
  PROVE  /\ \A v \in Vehicles : Assigned(v)' =
              (Assigned(v) \ {d}) \cup (IF row.vehicle = v THEN {d} ELSE {})
         /\ \A e \in Drivers \ {d} : driver'[e] = driver[e]
         /\ driver'[d] = row
BY NoneAssumption DEF Assigned

(* Vehicles whose row keeps its existence and the driver it shows stay in  *)
(* sync if their drivers do not change.                                    *)
LEMMA SyncKept ==
  ASSUME FleetInv, NEW v \in Vehicles, v \in touched => v \in touched',
         vehicle'[v] # None => vehicle[v] # None /\ vehicle'[v].shown = vehicle[v].shown,
         Assigned(v)' = Assigned(v), \A d \in Assigned(v) : driver'[d].name = driver[d].name
  PROVE  v \notin touched' /\ vehicle'[v] # None => InSync(v)'
BY DEF FleetInv, DriftOnlyByImport, InSync

(* A vehicle saved without its driver keeps its name.                      *)
LEMMA SaveVehicleInv ==
  ASSUME FleetInv, NEW v \in Vehicles, NEW status \in Statuses, SaveVehicle(v, status)
  PROVE  FleetInv'
<1> USE DEF FleetInv
<1> DEFINE row == [shown |-> IF vehicle[v] = None THEN None ELSE vehicle[v].shown, status |-> status]
<1>1. row \in VehicleRows /\ row # None /\ row.shown = IF vehicle[v] = None THEN None ELSE vehicle[v].shown
  BY NoneAssumption DEF VehicleRows
<1>2. vehicle' = [vehicle EXCEPT ![v] = row] /\ UNCHANGED <<driver, job, expense, touched>>
  BY DEF SaveVehicle
<1> HIDE DEF row
<1>3. vehicle' \in [Vehicles -> VehicleRows \cup {None}] /\ \A w \in Vehicles : Assigned(w)' = Assigned(w)
  BY <1>1, <1>2 DEF Assigned
<1>4. Placed' /\ OneDriver'
  BY <1>1, <1>2, <1>3 DEF Placed, OneDriver
<1>5. ASSUME NEW w \in Vehicles \ touched', vehicle'[w] # None PROVE InSync(w)'
  <2>1. CASE w = v /\ vehicle[v] = None
    BY <2>1, <1>1, <1>2, <1>3 DEF InSync, Placed
  <2>2. CASE w # v \/ vehicle[v] # None
    BY <2>2, <1>1, <1>2, <1>3, <1>5, SyncKept
  <2> QED BY <2>1, <2>2
<1> QED BY <1>2, <1>3, <1>4, <1>5 DEF DriftOnlyByImport

(* A vehicle saved with a driver takes and gives back its place.           *)
LEMMA SaveVehicleAndDriverInv ==
  ASSUME FleetInv, NEW v \in Vehicles, NEW c \in Names \cup {None}, NEW status \in Statuses,
         NEW d \in Drivers, SaveVehicleAndDriver(v, c, status, d)
  PROVE  FleetInv'
<1> USE DEF FleetInv
<1> DEFINE row == [shown |-> c, status |-> status]
<1>1. row \in VehicleRows /\ row # None /\ row.shown = c
  BY NoneAssumption DEF VehicleRows
<1>2. /\ vehicle' = [vehicle EXCEPT ![v] = row] /\ driver' = Synced(v, c, d)
      /\ touched' = touched \ {v} /\ UNCHANGED <<job, expense>>
  BY DEF SaveVehicleAndDriver
<1> HIDE DEF row
<1>3. vehicle' \in [Vehicles -> VehicleRows \cup {None}] /\ vehicle'[v] = row
      /\ \A w \in Vehicles \ {v} : vehicle'[w] = vehicle[w]
  BY <1>1, <1>2
<1>4. /\ driver' \in [Drivers -> DriverRows \cup {None}]
      /\ \A w \in Vehicles \ {v} : Assigned(w)' = Assigned(w)
                                  /\ \A e \in Assigned(w) : driver'[e].name = driver[e].name
      /\ \A e, f \in Assigned(v)' : e = f
      /\ \A e \in Assigned(v)' : driver'[e].name = c
      /\ Assigned(v)' = {} => c = None
  <2>1. CASE Assigned(v) # {}
    <3>1. driver' = [e \in Drivers |-> IF e \in Assigned(v) THEN [driver[e] EXCEPT !.name = c] ELSE driver[e]]
      BY <1>2, <2>1 DEF Synced
    <3>2. \A e \in Assigned(v) : /\ driver'[e] \in DriverRows /\ driver'[e].vehicle = v
                                 /\ driver'[e].name = c /\ driver'[e] # None /\ e \in Drivers
      BY <3>1, NoneAssumption DEF Assigned, DriverRows
    <3>3. \A e \in Drivers \ Assigned(v) : driver'[e] = driver[e]
      BY <3>1
    <3>4. \A w \in Vehicles : Assigned(w)' = Assigned(w)
      BY <3>2, <3>3 DEF Assigned
    <3>5. driver' \in [Drivers -> DriverRows \cup {None}]
      BY <3>1, <3>2, <3>3
    <3>6. \A w \in Vehicles \ {v} : \A e \in Assigned(w) : e \in Drivers \ Assigned(v)
      BY DEF Assigned
    <3> QED BY <2>1, <3>2, <3>3, <3>4, <3>5, <3>6 DEF OneDriver
  <2>2. CASE Assigned(v) = {} /\ c = None
    <3>1. driver' = driver /\ \A w \in Vehicles : Assigned(w)' = Assigned(w)
      BY <1>2, <2>2 DEF Synced, Assigned
    <3> QED BY <2>2, <3>1
  <2>3. CASE Assigned(v) = {} /\ c # None
    <3> DEFINE new == [name |-> c, vehicle |-> v]
    <3>1. new \in DriverRows /\ new.vehicle = v /\ new.name = c
      BY DEF DriverRows
    <3>2. driver' = [driver EXCEPT ![d] = new] /\ driver[d] = None
      BY <1>2, <2>3 DEF Synced, SaveVehicleAndDriver
    <3> HIDE DEF new
    <3>3. \A w \in Vehicles : d \notin Assigned(w) /\ Assigned(w) \subseteq Drivers
      BY <3>2 DEF Assigned
    <3>a. /\ \A w \in Vehicles : Assigned(w)' =
                 (Assigned(w) \ {d}) \cup (IF new.vehicle = w THEN {d} ELSE {})
          /\ driver'[d] = new /\ \A e \in Drivers \ {d} : driver'[e] = driver[e]
      BY <3>1, <3>2, AssignedAfter
    <3>4. /\ Assigned(v)' = {d} /\ driver'[d] = new
          /\ \A w \in Vehicles \ {v} : Assigned(w)' = Assigned(w)
          /\ \A e \in Drivers \ {d} : driver'[e] = driver[e]
      BY <2>3, <3>1, <3>3, <3>a
    <3>5. driver' \in [Drivers -> DriverRows \cup {None}]
      BY <3>1, <3>2
    <3> QED BY <3>1, <3>3, <3>4, <3>5
  <2> QED BY <2>1, <2>2, <2>3
<1>5. Placed' /\ OneDriver'
  BY <1>1, <1>2, <1>3, <1>4 DEF Placed, OneDriver
<1>6. ASSUME NEW w \in Vehicles \ touched', vehicle'[w] # None PROVE InSync(w)'
  <2>1. CASE w = v
    BY <2>1, <1>1, <1>3, <1>4 DEF InSync
  <2>2. CASE w # v
    BY <2>2, <1>2, <1>3, <1>4, <1>6, SyncKept
  <2> QED BY <2>1, <2>2
<1> QED BY <1>2, <1>3, <1>4, <1>5, <1>6 DEF DriftOnlyByImport

(* A removed vehicle leaves no driver behind.                              *)
LEMMA RemoveVehicleInv == ASSUME FleetInv, NEW v \in Vehicles, RemoveVehicle(v) PROVE FleetInv'
<1> USE DEF FleetInv
<1>1. /\ vehicle' = [vehicle EXCEPT ![v] = None] /\ touched' = touched \ {v}
      /\ driver' = [d \in Drivers |->
           IF d \in Assigned(v) THEN [driver[d] EXCEPT !.vehicle = None] ELSE driver[d]]
      /\ UNCHANGED <<job, expense>>
  BY DEF RemoveVehicle
<1>2. \A d \in Assigned(v) : driver'[d] \in DriverRows /\ driver'[d].vehicle = None /\ d \in Drivers
  BY <1>1 DEF Assigned, DriverRows
<1>3. \A d \in Drivers \ Assigned(v) : driver'[d] = driver[d]
  BY <1>1
<1>4. driver' \in [Drivers -> DriverRows \cup {None}]
  BY <1>1, <1>2, <1>3
<1>5. Assigned(v)' = {} /\ \A w \in Vehicles \ {v} : Assigned(w)' = Assigned(w)
  BY <1>2, <1>3, NoneAssumption DEF Assigned
<1>6. \A w \in Vehicles \ {v} : \A d \in Assigned(w) : driver'[d] = driver[d]
  BY <1>3 DEF Assigned
<1>7. vehicle'[v] = None /\ \A w \in Vehicles \ {v} : vehicle'[w] = vehicle[w]
  BY <1>1
<1>8. Placed'
  <2>1. ASSUME NEW j \in Jobs, job[j] # None PROVE vehicle'[job[j].vehicle] # None
    <3>1. job[j].vehicle \in Vehicles /\ job[j].vehicle # v /\ vehicle[job[j].vehicle] # None
      BY <2>1 DEF RemoveVehicle, Placed, JobRows
    <3> QED BY <3>1, <1>7
  <2> QED BY <2>1, <1>1, <1>5, <1>7 DEF Placed
<1>9. OneDriver'
  BY <1>5 DEF OneDriver
<1>10. ASSUME NEW w \in Vehicles \ touched', vehicle'[w] # None PROVE InSync(w)'
  <2>1. w # v
    BY <1>7, <1>10
  <2> QED BY <2>1, <1>1, <1>5, <1>6, <1>7, <1>10, SyncKept
<1> QED BY <1>1, <1>4, <1>8, <1>9, <1>10 DEF DriftOnlyByImport

(* A driver is given a name and a vehicle or none, after vehicle u or none.*)
Moves(d, c, v, u) ==
  /\ driver' \in [Drivers -> DriverRows \cup {None}] /\ OneDriver'
  /\ v # None => vehicle[v] # None /\ Assigned(v)' = {d} /\ driver'[d].name = c
  /\ u \in Vehicles /\ u # v => Assigned(u)' = {}
  /\ \A w \in Vehicles \ {v, u} :
       Assigned(w)' = Assigned(w) /\ \A e \in Assigned(w) : driver'[e].name = driver[e].name

(* A driver's row and the vehicle's column change together.                *)
LEMMA DriverPlaced ==
  ASSUME FleetInv, NEW d \in Drivers, NEW c \in Names \cup {None}, NEW v \in Vehicles \cup {None},
         NEW u \in Vehicles \cup {None}, NEW row \in DriverRows, u = VehicleOf(d),
         Assignable(d, v), row.name = c, row.vehicle = v, driver' = [driver EXCEPT ![d] = row]
  PROVE  Moves(d, c, v, u)
<1> USE DEF FleetInv
<1>1. /\ \A w \in Vehicles : Assigned(w)' =
             (Assigned(w) \ {d}) \cup (IF row.vehicle = w THEN {d} ELSE {})
      /\ \A e \in Drivers \ {d} : driver'[e] = driver[e]
      /\ driver'[d] = row
  BY AssignedAfter
<1>2. /\ \A w \in Vehicles : Assigned(w)' = (Assigned(w) \ {d}) \cup (IF v = w THEN {d} ELSE {})
      /\ \A e \in Drivers \ {d} : driver'[e] = driver[e]
      /\ driver'[d] = row
  BY <1>1
<1>3. v # None => vehicle[v] # None /\ Assigned(v) \subseteq {d}
  BY DEF Assignable
<1>4. \A w \in Vehicles : d \in Assigned(w) <=> u = w
  BY NoneAssumption DEF Assigned, VehicleOf
<1>5. OneDriver'
  <2>1. ASSUME NEW w \in Vehicles, NEW e \in Assigned(w)', NEW f \in Assigned(w)' PROVE e = f
    <3>1. CASE w = v
      BY <2>1, <3>1, <1>2, <1>3, NoneAssumption
    <3>2. CASE w # v
      BY <2>1, <3>2, <1>2 DEF OneDriver
    <3> QED BY <3>1, <3>2
  <2> QED BY <2>1 DEF OneDriver
<1>6. u \in Vehicles /\ u # v => Assigned(u)' = {}
  BY <1>2, <1>4 DEF OneDriver
<1>7. \A w \in Vehicles \ {v, u} :
        Assigned(w)' = Assigned(w) /\ \A e \in Assigned(w) : e \in Drivers \ {d}
  BY <1>2, <1>4 DEF Assigned
<1>8. driver' \in [Drivers -> DriverRows \cup {None}]
  BY <1>1
<1>9. v # None => Assigned(v)' = {d}
  BY <1>2, <1>3, NoneAssumption
<1> QED BY <1>1, <1>2, <1>3, <1>5, <1>6, <1>7, <1>8, <1>9 DEF Moves

(* A saved driver moves from one vehicle to the other.                     *)
LEMMA SaveDriverInv ==
  ASSUME FleetInv, NEW d \in Drivers, NEW c \in Names \cup {None}, NEW v \in Vehicles \cup {None},
         SaveDriver(d, c, v)
  PROVE  FleetInv'
<1> USE DEF FleetInv
<1>0. PICK u \in Vehicles \cup {None} : u = VehicleOf(d)
  BY DEF VehicleOf, DriverRows
<1>1. /\ vehicle' = [w \in Vehicles |->
           IF w = v THEN [vehicle[w] EXCEPT !.shown = c]
           ELSE IF w = u THEN [vehicle[w] EXCEPT !.shown = None]
           ELSE vehicle[w]]
      /\ touched' = touched \ {v, u} /\ UNCHANGED <<job, expense>>
  BY <1>0 DEF SaveDriver
<1>2. Moves(d, c, v, u)
  <2>1. Assignable(d, v) /\ driver' = [driver EXCEPT ![d] = [name |-> c, vehicle |-> v]]
    BY DEF SaveDriver
  <2> DEFINE row == [name |-> c, vehicle |-> v]
  <2>2. row \in DriverRows /\ row.name = c /\ row.vehicle = v /\ driver' = [driver EXCEPT ![d] = row]
    BY <2>1 DEF DriverRows
  <2> HIDE DEF row
  <2> QED BY <1>0, <2>1, <2>2, DriverPlaced, Zenon
<1>3. u \in Vehicles => vehicle[u] # None
  BY <1>0, NoneAssumption DEF VehicleOf, Placed, Assigned
<1>4. ASSUME NEW w \in Vehicles
      PROVE  /\ vehicle'[w] \in VehicleRows \cup {None} /\ (vehicle'[w] = None <=> vehicle[w] = None)
             /\ vehicle[w] # None =>
                  vehicle'[w].shown = IF w = v THEN c ELSE IF w = u THEN None ELSE vehicle[w].shown
  <2>1. CASE w = v \/ w = u
    <3>1. vehicle[w] \in VehicleRows
      BY <2>1, <1>2, <1>3, NoneAssumption DEF Moves
    <3>2. vehicle'[w] = [vehicle[w] EXCEPT !.shown = IF w = v THEN c ELSE None]
      BY <2>1, <1>1
    <3>3. vehicle'[w] \in VehicleRows /\ vehicle'[w].shown = IF w = v THEN c ELSE None
      BY <3>1, <3>2 DEF VehicleRows
    <3> QED BY <2>1, <3>1, <3>3, NoneAssumption
  <2>2. CASE w # v /\ w # u
    BY <2>2, <1>1
  <2> QED BY <2>1, <2>2
<1>5. vehicle' \in [Vehicles -> VehicleRows \cup {None}]
  <2>1. vehicle' = [w \in Vehicles |-> vehicle'[w]]
    BY <1>1
  <2> QED BY <2>1, <1>4
<1>6. Placed'
  <2>1. ASSUME NEW j \in Jobs, job[j] # None PROVE vehicle'[job[j].vehicle] # None
    <3>1. job[j].vehicle \in Vehicles /\ vehicle[job[j].vehicle] # None
      BY <2>1 DEF Placed, JobRows
    <3> QED BY <3>1, <1>4
  <2>2. ASSUME NEW w \in Vehicles, vehicle'[w] = None PROVE Assigned(w)' = {}
    <3>1. w # v /\ w # u /\ vehicle[w] = None
      BY <2>2, <1>2, <1>3, <1>4, NoneAssumption DEF Moves
    <3> QED BY <3>1, <1>2 DEF Placed, Moves
  <2> QED BY <2>1, <2>2, <1>1 DEF Placed
<1>7. ASSUME NEW w \in Vehicles \ touched', vehicle'[w] # None PROVE InSync(w)'
  <2>1. CASE w = v
    BY <2>1, <1>2, <1>4, <1>7, NoneAssumption DEF InSync, Moves
  <2>2. CASE w = u /\ u # v
    BY <2>2, <1>2, <1>4, <1>7 DEF InSync, Moves
  <2>3. CASE w # v /\ w # u
    BY <2>3, <1>1, <1>2, <1>4, <1>7, SyncKept DEF Moves
  <2> QED BY <2>1, <2>2, <2>3
<1> QED BY <1>1, <1>2, <1>5, <1>6, <1>7 DEF DriftOnlyByImport, Moves

(* A job leaves the vehicles it concerns in maintenance as long as a job   *)
(* is in progress there, and no longer.                                    *)
LEMMA Settled ==
  ASSUME FleetInv, NEW j \in Jobs, NEW v \in Vehicles, NEW status \in JobStatuses,
         NEW amount \in Amounts, SaveMaintenance(j, v, status, amount)
  PROVE  /\ vehicle' \in [Vehicles -> VehicleRows \cup {None}]
         /\ Concerned(j, v) \subseteq Vehicles
         /\ \A w \in Vehicles : /\ vehicle'[w] = None <=> vehicle[w] = None
                                /\ vehicle[w] # None => vehicle'[w].shown = vehicle[w].shown
         /\ \A w \in Concerned(j, v) : vehicle'[w].status = "MAINTENANCE" <=> InProgress(job', w)
<1> USE DEF FleetInv
<1>1. Concerned(j, v) \subseteq Vehicles /\ \A w \in Concerned(j, v) : vehicle[w] \in VehicleRows
  BY DEF Concerned, SaveMaintenance, Placed, JobRows
<1>2. ASSUME NEW w \in Vehicles
      PROVE  /\ vehicle'[w] \in VehicleRows \cup {None} /\ (vehicle'[w] = None <=> vehicle[w] = None)
             /\ vehicle[w] # None => vehicle'[w].shown = vehicle[w].shown
             /\ w \in Concerned(j, v) => (vehicle'[w].status = "MAINTENANCE" <=> InProgress(job', w))
  <2>1. vehicle'[w] =
          IF w \notin Concerned(j, v) THEN vehicle[w]
          ELSE IF InProgress(job', w) THEN [vehicle[w] EXCEPT !.status = "MAINTENANCE"]
          ELSE IF vehicle[w].status = "MAINTENANCE" THEN [vehicle[w] EXCEPT !.status = "RUNNING"]
          ELSE vehicle[w]
    BY DEF SaveMaintenance
  <2>2. CASE w \notin Concerned(j, v)
    BY <2>1, <2>2
  <2>3. CASE w \in Concerned(j, v) /\ InProgress(job', w)
    <3>1. vehicle'[w] = [vehicle[w] EXCEPT !.status = "MAINTENANCE"] /\ vehicle[w] \in VehicleRows
      BY <2>1, <2>3, <1>1
    <3>2. vehicle'[w] \in VehicleRows /\ vehicle'[w].status = "MAINTENANCE"
          /\ vehicle'[w].shown = vehicle[w].shown
      BY <3>1 DEF VehicleRows, Statuses
    <3> QED BY <2>3, <3>1, <3>2, NoneAssumption
  <2>4. CASE w \in Concerned(j, v) /\ ~InProgress(job', w) /\ vehicle[w].status = "MAINTENANCE"
    <3>1. vehicle'[w] = [vehicle[w] EXCEPT !.status = "RUNNING"] /\ vehicle[w] \in VehicleRows
      BY <2>1, <2>4, <1>1
    <3>2. vehicle'[w] \in VehicleRows /\ vehicle'[w].status = "RUNNING"
          /\ vehicle'[w].shown = vehicle[w].shown
      BY <3>1 DEF VehicleRows, Statuses
    <3> QED BY <2>4, <3>1, <3>2, NoneAssumption
  <2>5. CASE w \in Concerned(j, v) /\ ~InProgress(job', w) /\ vehicle[w].status # "MAINTENANCE"
    BY <2>1, <2>5, <1>1
  <2> QED BY <2>2, <2>3, <2>4, <2>5
<1>3. vehicle' \in [Vehicles -> VehicleRows \cup {None}]
  <2>1. vehicle' = [w \in Vehicles |-> vehicle'[w]]
    BY DEF SaveMaintenance
  <2> QED BY <2>1, <1>2
<1> QED BY <1>1, <1>2, <1>3

(* A saved job settles the status of the vehicles it concerns.             *)
LEMMA SaveMaintenanceInv ==
  ASSUME FleetInv, NEW j \in Jobs, NEW v \in Vehicles, NEW status \in JobStatuses,
         NEW amount \in Amounts, SaveMaintenance(j, v, status, amount)
  PROVE  FleetInv'
<1> USE DEF FleetInv
<1> DEFINE row == [vehicle |-> v, status |-> status, amount |-> amount]
           cost == IF status = "COMPLETED" /\ amount > 0 THEN [vehicle |-> v, amount |-> amount] ELSE None
<1>1. row \in JobRows /\ row.vehicle = v /\ cost \in ExpenseRows \cup {None}
  BY DEF JobRows, ExpenseRows
<1>2. /\ job' = [job EXCEPT ![j] = row] /\ expense' = [expense EXCEPT ![j] = cost]
      /\ UNCHANGED <<driver, touched>> /\ vehicle[v] # None
  BY DEF SaveMaintenance
<1> HIDE DEF row, cost
<1>3. /\ vehicle' \in [Vehicles -> VehicleRows \cup {None}]
      /\ \A w \in Vehicles : /\ vehicle'[w] = None <=> vehicle[w] = None
                             /\ vehicle[w] # None => vehicle'[w].shown = vehicle[w].shown
  BY Settled
<1>4. \A w \in Vehicles : Assigned(w)' = Assigned(w)
  BY <1>2 DEF Assigned
<1>5. Placed'
  <2>1. ASSUME NEW i \in Jobs, job'[i] # None PROVE vehicle'[job'[i].vehicle] # None
    <3>1. CASE i = j
      BY <3>1, <1>1, <1>2, <1>3
    <3>2. CASE i # j
      <4>1. job'[i] = job[i] /\ job[i].vehicle \in Vehicles /\ vehicle[job[i].vehicle] # None
        BY <2>1, <3>2, <1>2 DEF Placed, JobRows
      <4> QED BY <4>1, <1>3
    <3> QED BY <3>1, <3>2
  <2> QED BY <2>1, <1>3, <1>4 DEF Placed
<1>6. OneDriver'
  BY <1>4 DEF OneDriver
<1>7. ASSUME NEW w \in Vehicles \ touched', vehicle'[w] # None PROVE InSync(w)'
  BY <1>2, <1>3, <1>4, <1>7, SyncKept
<1>8. job' \in [Jobs -> JobRows \cup {None}] /\ expense' \in [Jobs -> ExpenseRows \cup {None}]
  BY <1>1, <1>2
<1> QED BY <1>2, <1>3, <1>5, <1>6, <1>7, <1>8 DEF DriftOnlyByImport

(* An import writes one row and marks what it may have put out of step.    *)
LEMMA UpsertInv == ASSUME FleetInv, Upsert PROVE FleetInv'
<1> USE DEF FleetInv
<1>1. ASSUME NEW v \in Vehicles, NEW c \in Names \cup {None}, NEW status \in Statuses,
             UpsertVehicle(v, c, status)
      PROVE  FleetInv'
  <2> DEFINE row == [shown |-> c, status |-> status]
  <2>1. row \in VehicleRows /\ row # None
    BY NoneAssumption DEF VehicleRows
  <2>2. /\ vehicle' = [vehicle EXCEPT ![v] = row] /\ touched' = touched \cup {v}
        /\ UNCHANGED <<driver, job, expense>>
    BY <1>1 DEF UpsertVehicle
  <2> HIDE DEF row
  <2>3. \A w \in Vehicles : Assigned(w)' = Assigned(w)
    BY <2>2 DEF Assigned
  <2>4. Placed' /\ OneDriver'
    BY <2>1, <2>2, <2>3 DEF Placed, OneDriver
  <2>5. ASSUME NEW w \in Vehicles \ touched', vehicle'[w] # None PROVE InSync(w)'
    BY <2>2, <2>3, <2>5, SyncKept
  <2> QED BY <2>1, <2>2, <2>4, <2>5 DEF DriftOnlyByImport
<1>2. ASSUME NEW d \in Drivers, NEW c \in Names, NEW v \in Vehicles \cup {None}, UpsertDriver(d, c, v)
      PROVE  FleetInv'
  <2>0. PICK u \in Vehicles \cup {None} : u = VehicleOf(d)
    BY DEF VehicleOf, DriverRows
  <2>1. /\ Assignable(d, v) /\ driver' = [driver EXCEPT ![d] = [name |-> c, vehicle |-> v]]
        /\ touched' = touched \cup ({v, u} \ {None}) /\ UNCHANGED <<vehicle, job, expense>>
    BY <2>0, <1>2 DEF UpsertDriver
  <2>2. Moves(d, c, v, u)
    <3> DEFINE row == [name |-> c, vehicle |-> v]
    <3>1. row \in DriverRows /\ row.name = c /\ row.vehicle = v /\ driver' = [driver EXCEPT ![d] = row]
      BY <2>1 DEF DriverRows
    <3> HIDE DEF row
    <3> QED BY <2>0, <2>1, <3>1, DriverPlaced, Zenon
  <2>4. Placed'
    <3>1. ASSUME NEW w \in Vehicles, vehicle'[w] = None PROVE Assigned(w)' = {}
      BY <3>1, <2>1, <2>2, NoneAssumption DEF Placed, Moves
    <3> QED BY <3>1, <2>1 DEF Placed
  <2>5. ASSUME NEW w \in Vehicles \ touched', vehicle'[w] # None PROVE InSync(w)'
    <3>1. w # v /\ w # u
      BY <2>1, NoneAssumption
    <3> QED BY <3>1, <2>1, <2>2, <2>5, SyncKept DEF Moves
  <2> QED BY <2>1, <2>2, <2>4, <2>5 DEF DriftOnlyByImport, Moves
<1> QED BY <1>1, <1>2 DEF Upsert

(* An empty fleet is in order.                                             *)
LEMMA InitFleet == Init => FleetInv
BY NoneAssumption DEF Init, FleetInv, Placed, OneDriver, DriftOnlyByImport, Assigned

(* Every step keeps the fleet in order.                                    *)
LEMMA NextFleet == FleetInv /\ [Next]_vars => FleetInv'
<1> SUFFICES ASSUME FleetInv, [Next]_vars PROVE FleetInv'
  OBVIOUS
<1>1. CASE Administration
  BY <1>1, SaveVehicleInv, SaveVehicleAndDriverInv, RemoveVehicleInv, SaveDriverInv,
     SaveMaintenanceInv DEF Administration
<1>2. CASE \E k \in Confirms : ApplyImport(k)
  BY <1>2, UpsertInv DEF ApplyImport
<1>3. CASE UNCHANGED fleetVars
  BY <1>3 DEF fleetVars, FleetInv, Placed, OneDriver, DriftOnlyByImport, InSync, Assigned
<1> QED BY <1>1, <1>2, <1>3
        DEF Next, Importing, BeginPreview, FinishPreview, ExpirePreview, BeginConfirm, FailImport,
            RefuseConfirm, Restart, vars

(* The variables keep their types.                                         *)
THEOREM TypeCorrect == Spec => []TypeOK
<1>1. FleetInv /\ ImportInv => TypeOK
  <2>1. \A f \in [Previews -> {0, 1}] : f \in [Previews -> Nat]
    OBVIOUS
  <2> QED BY <2>1 DEF FleetInv, ImportInv, TypeOK
<1> QED BY <1>1, InitFleet, NextFleet, InitImport, NextImport, PTL DEF Spec

(* The driver a vehicle shows is the driver it has, whatever the           *)
(* administrators save and in which order, until an import writes one of   *)
(* the two.                                                                *)
THEOREM InSyncUntilImport == Spec => []DriftOnlyByImport
<1>1. FleetInv => DriftOnlyByImport
  BY DEF FleetInv
<1> QED BY <1>1, InitFleet, NextFleet, PTL DEF Spec

(* Only saving a job changes it, which settles every vehicle concerned.    *)
LEMMA StatusStep ==
  FleetInv /\ [Next]_vars => [\A j \in Jobs : job'[j] # job[j] => SaveSettles(j)]_vars
<1> SUFFICES ASSUME FleetInv, [Next]_vars, NEW j \in Jobs, job'[j] # job[j] PROVE SaveSettles(j)
  OBVIOUS
<1>1. PICK i \in Jobs, v \in Vehicles, status \in JobStatuses, amount \in Amounts :
        SaveMaintenance(i, v, status, amount)
  BY DEF Next, Administration, Importing, SaveVehicle, SaveVehicleAndDriver, RemoveVehicle,
         SaveDriver, BeginPreview, FinishPreview, ExpirePreview, BeginConfirm, ApplyImport, Upsert,
         UpsertVehicle, UpsertDriver, FailImport, RefuseConfirm, Restart, vars, fleetVars
<1>2. i = j /\ job'[j].vehicle = v
  BY <1>1 DEF SaveMaintenance, FleetInv
<1>3. \A w \in Concerned(i, v) : vehicle'[w].status = "MAINTENANCE" <=> InProgress(job', w)
  BY <1>1, Settled
<1> QED BY <1>2, <1>3 DEF Concerned, SaveSettles

(* A saved job leaves the vehicles it concerns, also the one it was moved  *)
(* from, in maintenance exactly as long as a job is in progress there.     *)
THEOREM StatusFollows == Spec => StatusFollowsJobs
<1> QED BY StatusStep, InitFleet, NextFleet, PTL DEF Spec, StatusFollowsJobs
=============================================================================
