-------------------------------- MODULE Fleet --------------------------------
(***************************************************************************)
(* Vehicles, their drivers and their maintenance (VehiclesService and the  *)
(* driver and maintenance operations of ManagementService), with the       *)
(* import of spreadsheets into them (DataTransferService).                 *)
(*                                                                         *)
(* Every operation on the data is one transaction, hence one step.  An     *)
(* import takes several: the file is decoded, the preview waits in memory  *)
(* for its confirmation, and the rows are written while other requests     *)
(* run.  An imported file is a row of one dataset; the datasets of routes  *)
(* and stops are left out, and so are the phones of the drivers.           *)
(***************************************************************************)
EXTENDS Naturals, FiniteSets

CONSTANTS Vehicles, Drivers, Jobs,   \* ids, of Jobs in the table maintenance
          Names,        \* of drivers
          Amounts,      \* costs of a job, in poisha
          Previews,     \* imports ever previewed: a bound
          Confirms,     \* confirmations that may be under way at once
          MaxPreviews,  \* MAX_PREVIEWS
          None          \* NULL or the empty text, no row

ASSUME ConstantsAssumption == Amounts \subseteq Nat /\ MaxPreviews \in Nat \ {0}

VARIABLES
  vehicle,     \* vehicles: the driver shown and the status
  driver,      \* drivers: the name and the assigned vehicle
  job,         \* maintenance: vehicle, status, amount
  expense,     \* rows of the ledger linked to a job
  preview,     \* where an import is, up to its confirmation
  confirming,  \* confirmations in their transaction: the import
  imports,     \* history: how often an import was written
  touched      \* history: vehicles an import wrote since their driver was synced

fleetVars == <<vehicle, driver, job, expense, touched>>
importVars == <<preview, confirming, imports>>
vars == <<fleetVars, importVars>>

Statuses == {"RUNNING", "MAINTENANCE", "INACTIVE"}
JobStatuses == {"PLANNED", "IN_PROGRESS", "COMPLETED"}
VehicleRows == [shown : Names \cup {None}, status : Statuses]
DriverRows == [name : Names \cup {None}, vehicle : Vehicles \cup {None}]
JobRows == [vehicle : Vehicles, status : JobStatuses, amount : Amounts]
ExpenseRows == [vehicle : Vehicles, amount : Amounts]

ASSUME NoneAssumption ==
  /\ None \notin Vehicles \cup Names \cup Previews
  /\ None \notin VehicleRows \cup DriverRows \cup JobRows \cup ExpenseRows

Init ==
  /\ vehicle = [v \in Vehicles |-> None]
  /\ driver = [d \in Drivers |-> None]
  /\ job = [j \in Jobs |-> None]
  /\ expense = [j \in Jobs |-> None]
  /\ preview = [p \in Previews |-> "none"]
  /\ confirming = [k \in Confirms |-> None]
  /\ imports = [p \in Previews |-> 0]
  /\ touched = {}

Assigned(v) == {d \in Drivers : driver[d] # None /\ driver[d].vehicle = v}

-----------------------------------------------------------------------------
(* Vehicles                                                                *)

(* Mutation: a name for a vehicle that has a driver goes to the vehicle.   *)
SyncedIfUnassigned(v, c, d) ==
  IF Assigned(v) # {} THEN driver
  ELSE IF c = None THEN driver
  ELSE [driver EXCEPT ![d] = [name |-> c, vehicle |-> v]]
(* The drivers after vehicle v was given a driver's name: the assigned     *)
(* driver takes it, or a new driver d is made for it.                      *)
Synced(v, c, d) ==
  IF Assigned(v) # {}
  THEN [e \in Drivers |-> IF e \in Assigned(v) THEN [driver[e] EXCEPT !.name = c] ELSE driver[e]]
  ELSE IF c = None THEN driver
  ELSE [driver EXCEPT ![d] = [name |-> c, vehicle |-> v]]

(* A vehicle is saved with a driver's name, d the driver made if need be.  *)
SaveVehicleAndDriver(v, c, status, d) ==
  /\ driver[d] = None \/ c = None \/ Assigned(v) # {}
  /\ vehicle' = [vehicle EXCEPT ![v] = [shown |-> c, status |-> status]]
  /\ driver' = Synced(v, c, d)
  /\ touched' = touched \ {v}
  /\ UNCHANGED <<job, expense, importVars>>

(* A vehicle is saved without one.                                         *)
SaveVehicle(v, status) ==
  /\ vehicle' = [vehicle EXCEPT ![v] =
       [shown |-> IF vehicle[v] = None THEN None ELSE vehicle[v].shown, status |-> status]]
  /\ UNCHANGED <<driver, job, expense, touched, importVars>>

(* Jobs and expenses refer to their vehicle; drivers lose theirs.          *)
RemoveVehicle(v) ==
  /\ vehicle[v] # None
  /\ \A j \in Jobs : job[j] # None => job[j].vehicle # v
  /\ vehicle' = [vehicle EXCEPT ![v] = None]
  /\ driver' = [d \in Drivers |->
       IF d \in Assigned(v) THEN [driver[d] EXCEPT !.vehicle = None] ELSE driver[d]]
  /\ touched' = touched \ {v}
  /\ UNCHANGED <<job, expense, importVars>>

-----------------------------------------------------------------------------
(* Drivers                                                                 *)

(* A vehicle has one driver at most (UNIQUE), and exists.                  *)
Assignable(d, v) ==
  IF v = None THEN TRUE ELSE vehicle[v] # None /\ Assigned(v) \subseteq {d}

VehicleOf(d) == IF driver[d] = None THEN None ELSE driver[d].vehicle

(* A driver is given a name, or keeps the empty one.                       *)
SaveDriver(d, c, v) ==
  /\ Assignable(d, v)
  /\ c \in Names \/ (driver[d] # None /\ driver[d].name = c)
  /\ driver' = [driver EXCEPT ![d] = [name |-> c, vehicle |-> v]]
  /\ vehicle' = [w \in Vehicles |->
       IF w = v THEN [vehicle[w] EXCEPT !.shown = c]
       ELSE IF w = VehicleOf(d) THEN [vehicle[w] EXCEPT !.shown = None]
       ELSE vehicle[w]]
  /\ touched' = touched \ {v, VehicleOf(d)}
  /\ UNCHANGED <<job, expense, importVars>>

-----------------------------------------------------------------------------
(* Maintenance                                                             *)

InProgress(jobs, v) ==
  \E j \in Jobs : jobs[j] # None /\ jobs[j].vehicle = v /\ jobs[j].status = "IN_PROGRESS"

(* Mutation: only the vehicle the job is for now is looked at.             *)
ConcernedNow(j, v) == {v}
(* The vehicles a save of job j for vehicle v concerns.                    *)
Concerned(j, v) == {v} \cup (IF job[j] = None THEN {} ELSE {job[j].vehicle})

SaveMaintenance(j, v, status, amount) ==
  /\ vehicle[v] # None
  /\ job' = [job EXCEPT ![j] = [vehicle |-> v, status |-> status, amount |-> amount]]
  /\ expense' = [expense EXCEPT ![j] =
       IF status = "COMPLETED" /\ amount > 0 THEN [vehicle |-> v, amount |-> amount] ELSE None]
  /\ vehicle' = [w \in Vehicles |->
       IF w \notin Concerned(j, v) THEN vehicle[w]
       ELSE IF InProgress(job', w) THEN [vehicle[w] EXCEPT !.status = "MAINTENANCE"]
       ELSE IF vehicle[w].status = "MAINTENANCE" THEN [vehicle[w] EXCEPT !.status = "RUNNING"]
       ELSE vehicle[w]]
  /\ UNCHANGED <<driver, touched, importVars>>

-----------------------------------------------------------------------------
(* Imports                                                                 *)

(* Previews that have expired leave the map with the next call.            *)
Pruned == [p \in Previews |-> IF preview[p] = "expired" THEN "gone" ELSE preview[p]]
InMap == {p \in Previews : preview[p] \in {"held", "expired"}}

(* Decoding the file takes a while.                                        *)
BeginPreview(p) ==
  /\ preview[p] = "none"
  /\ preview' = [Pruned EXCEPT ![p] = "decoding"]
  /\ UNCHANGED <<fleetVars, confirming, imports>>

(* The map takes another preview.                                          *)
HasRoom == Cardinality(InMap) < MaxPreviews

(* The rows are held for the confirmation, or refused.                     *)
FinishPreview(p) ==
  /\ preview[p] = "decoding"
  /\ \/ HasRoom /\ preview' = [preview EXCEPT ![p] = "held"]
     \/ preview' = [preview EXCEPT ![p] = "gone"]
  /\ UNCHANGED <<fleetVars, confirming, imports>>

ExpirePreview(p) ==
  /\ preview[p] = "held"
  /\ preview' = [preview EXCEPT ![p] = "expired"]
  /\ UNCHANGED <<fleetVars, confirming, imports>>

(* Mutation: a confirmed preview stays in the map until it expires.        *)
TakenNot(p) == Pruned
(* The map without the preview that is confirmed.                          *)
Taken(p) == [Pruned EXCEPT ![p] = "gone"]

BeginConfirm(k, p) ==
  /\ confirming[k] = None
  /\ preview[p] = "held"
  /\ preview' = Taken(p)
  /\ confirming' = [confirming EXCEPT ![k] = p]
  /\ UNCHANGED <<fleetVars, imports>>

(* A call with a token that is not held only prunes.                       *)
RefuseConfirm ==
  /\ preview' = Pruned
  /\ UNCHANGED <<fleetVars, confirming, imports>>

(* The statements write what the file says, and nothing else.              *)
UpsertVehicle(v, c, status) ==
  /\ vehicle' = [vehicle EXCEPT ![v] = [shown |-> c, status |-> status]]
  /\ touched' = touched \cup {v}
  /\ UNCHANGED <<driver, job, expense>>

UpsertDriver(d, c, v) ==
  /\ Assignable(d, v)
  /\ driver' = [driver EXCEPT ![d] = [name |-> c, vehicle |-> v]]
  /\ touched' = touched \cup ({v, VehicleOf(d)} \ {None})
  /\ UNCHANGED <<vehicle, job, expense>>

Upsert ==
  \/ \E v \in Vehicles, c \in Names \cup {None}, s \in Statuses : UpsertVehicle(v, c, s)
  \/ \E d \in Drivers, c \in Names, v \in Vehicles \cup {None} : UpsertDriver(d, c, v)

ApplyImport(k) ==
  /\ confirming[k] # None
  /\ Upsert
  /\ imports' = [imports EXCEPT ![confirming[k]] = @ + 1]
  /\ confirming' = [confirming EXCEPT ![k] = None]
  /\ UNCHANGED preview

(* A row violates a constraint or the database fails: nothing is written.  *)
FailImport(k) ==
  /\ confirming[k] # None
  /\ confirming' = [confirming EXCEPT ![k] = None]
  /\ UNCHANGED <<fleetVars, preview, imports>>

(* The previews are in the memory of the process.                          *)
Restart ==
  /\ preview' = [p \in Previews |-> IF preview[p] = "none" THEN "none" ELSE "gone"]
  /\ confirming' = [k \in Confirms |-> None]
  /\ UNCHANGED <<fleetVars, imports>>

-----------------------------------------------------------------------------
Administration ==
  \/ \E v \in Vehicles, s \in Statuses :
       \/ SaveVehicle(v, s)
       \/ \E c \in Names \cup {None}, d \in Drivers : SaveVehicleAndDriver(v, c, s, d)
  \/ \E v \in Vehicles : RemoveVehicle(v)
  \/ \E d \in Drivers, c \in Names \cup {None}, v \in Vehicles \cup {None} : SaveDriver(d, c, v)
  \/ \E j \in Jobs, v \in Vehicles, s \in JobStatuses, a \in Amounts : SaveMaintenance(j, v, s, a)

Importing ==
  \/ \E p \in Previews : BeginPreview(p) \/ FinishPreview(p) \/ ExpirePreview(p)
  \/ \E k \in Confirms, p \in Previews : BeginConfirm(k, p)
  \/ \E k \in Confirms : ApplyImport(k) \/ FailImport(k)
  \/ RefuseConfirm
  \/ Restart

Next == Administration \/ Importing

Spec == Init /\ [][Next]_vars

-----------------------------------------------------------------------------
TypeOK ==
  /\ vehicle \in [Vehicles -> VehicleRows \cup {None}]
  /\ driver \in [Drivers -> DriverRows \cup {None}]
  /\ job \in [Jobs -> JobRows \cup {None}]
  /\ expense \in [Jobs -> ExpenseRows \cup {None}]
  /\ preview \in [Previews -> {"none", "decoding", "held", "expired", "gone"}]
  /\ confirming \in [Confirms -> Previews \cup {None}]
  /\ imports \in [Previews -> Nat]
  /\ touched \subseteq Vehicles

(* The vehicle shows the driver assigned to it, and nobody without one.    *)
InSync(v) ==
  /\ \A d \in Assigned(v) : vehicle[v].shown = driver[d].name
  /\ Assigned(v) = {} => vehicle[v].shown = None

(* The two drift apart by imports only: whatever the administrators save   *)
(* under vehicles and under drivers, in any order, keeps the two in sync.  *)
DriftOnlyByImport == \A v \in Vehicles \ touched : vehicle[v] # None => InSync(v)

(* A saved job leaves every vehicle it concerns, the one it was moved away *)
(* from too, in MAINTENANCE as long as a job is in progress there and not  *)
(* longer.                                                                 *)
SaveSettles(j) ==
  \A v \in {job'[j].vehicle} \cup (IF job[j] = None THEN {} ELSE {job[j].vehicle}) :
    vehicle'[v].status = "MAINTENANCE" <=> InProgress(job', v)

StatusFollowsJobs == [][\A j \in Jobs : job'[j] # job[j] => SaveSettles(j)]_vars

(* A preview is imported once: confirmations that overlap, the second sent *)
(* while the first is being written, do not write it again over what has   *)
(* been changed since.                                                     *)
ImportedOnce == \A p \in Previews : imports[p] <= 1

=============================================================================
