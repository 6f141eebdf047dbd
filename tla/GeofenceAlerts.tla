----------------------------- MODULE GeofenceAlerts -----------------------------
(***************************************************************************)
(* Pickup alerts: GeofenceCoordinator evaluates every committed fix of a   *)
(* vehicle against the stops of its riders, in a detached promise of its   *)
(* own (the hook of LocationsService).  Evaluations of several fixes       *)
(* overlap: each reads the riders, then, stop by stop, decides in a        *)
(* SERIALIZABLE transaction whether the bus has entered the pickup zone,   *)
(* and only after its COMMIT creates the notifications, one by one.        *)
(***************************************************************************)
EXTENDS Naturals, Sequences, FiniteSets

CONSTANTS
  Students,     \* subscriptions
  Stops,        \* a pickup point on the trip of a shift and a day
  Fixes,        \* committed fixes of the vehicle, each evaluated once
  Places,       \* positions of the vehicle
  Zone,         \* Zone[place][stop]: "near" (within the enter radius), "far"
                \* (beyond the exit radius) or "between"
  None,         \* "no value"
  MaxRetries,   \* repetitions of a transaction after SQLSTATE 40001, 3
  MaxFaults     \* bound on failing statements and crashes

Zones == {"near", "between", "far"}

ASSUME ConstantsOK ==
  /\ Zone \in [Places -> [Stops -> Zones]]
  /\ MaxRetries \in Nat /\ MaxFaults \in Nat
  /\ None \notin Stops

VARIABLES
  states,       \* table geofence_trip_states: inside, entries
  evals,        \* the evaluation of each fix
  alerts,       \* table notifications: pickup alerts of each student at each stop
  faults,       \* failures so far
  passed,       \* history: the zones of committed evaluations of each stop
  due,          \* history: whom and where an alert was decided for
  cut           \* history: whose alert a failure or a crash cut off, and where

history == <<faults, passed, due, cut>>
vars    == <<states, evals, alerts, history>>

(* A student with the stop that one evaluation read for it: the next may   *)
(* read another, an admin can move an active student during the trip.      *)
Assignments == [student : Students, stop : Stops]

(* riders are still to be evaluated, left still to be notified.            *)
New == [phase |-> "none", place |-> None, riders |-> {}, stop |-> None, seen |-> None,
        stale |-> FALSE, attempt |-> 0, left |-> {}]
Ended == [New EXCEPT !.phase = "ended"]

Init ==
  /\ states = [s \in Stops |-> [inside |-> FALSE, entries |-> 0]]
  /\ evals = [f \in Fixes |-> New]
  /\ alerts = [x \in Assignments |-> 0]
  /\ faults = 0
  /\ passed = [s \in Stops |-> <<>>]
  /\ due = {}
  /\ cut = {}

Fault == faults < MaxFaults /\ faults' = faults + 1
Alive(f) == evals[f].phase \notin {"none", "ended"}
Set(f, e) == evals' = [evals EXCEPT ![f] = e]

(* An evaluation goes on with these riders, or is over.                    *)
Remaining(e, riders) ==
  IF riders = {} THEN Ended
  ELSE [New EXCEPT !.phase = "next", !.place = e.place, !.riders = riders]

(* The riders of an evaluation at a stop                                   *)
At(f, s) == {x \in evals[f].riders : x.stop = s}

-------------------------------------------------------------------------------
(* emitPositionEvaluation for a committed fix.  The query for the riders   *)
(* (ACTIVE on the vehicle's route and day, in their time window, with a    *)
(* pickup point) may find any students, each with one stop, whatever the   *)
(* evaluation before found: services, their stops and the settings change  *)
(* at any time.                                                            *)
Evaluate(f, place) ==
  /\ evals[f].phase = "none"
  /\ \E found \in SUBSET Students : \E stopId \in [found -> Stops] :
       Set(f, Remaining([New EXCEPT !.place = place],
                        {[student |-> x, stop |-> stopId[x]] : x \in found}))
  /\ UNCHANGED <<states, alerts, history>>

-------------------------------------------------------------------------------
(* The transaction of evaluateStop, for one group of riders after another  *)

TxRead(f, s) ==
  /\ evals[f].phase = "next"
  /\ At(f, s) # {} /\ evals[f].stop \in {None, s}
  /\ Set(f, [evals[f] EXCEPT !.phase = "decide", !.stop = s, !.seen = states[s], !.stale = FALSE])
  /\ UNCHANGED <<states, alerts, history>>

(* Mutation: no hysteresis, the bus leaves where it entered.               *)
AwayAtOnce(zone) == zone # "near"

Away(zone) == zone = "far"

Enters(row, zone) == ~row.inside /\ zone = "near"
Exits(row, zone)  == row.inside /\ Away(zone)

Moved(row, zone) ==
  [inside  |-> IF row.inside THEN ~Exits(row, zone) ELSE Enters(row, zone),
   entries |-> IF Enters(row, zone) THEN row.entries + 1 ELSE row.entries]

(* shouldNotify: the first entry of the trip                               *)
Alerts(row, zone) == Enters(row, zone) /\ row.entries = 0

(* Mutation: READ COMMITTED, without a lock on the row.                    *)
ConflictsNever(f) == FALSE

(* Another evaluation changed the row: SQLSTATE 40001.                     *)
Conflicts(f) == evals[f].stale

(* COMMIT; transactions that have read the row before will conflict.       *)
Commits(f, e) ==
  LET s    == evals[f].stop
      zone == Zone[evals[f].place][s]
      row  == Moved(evals[f].seen, zone)
  IN /\ evals[f].phase = "decide" /\ ~Conflicts(f)
     /\ states' = [states EXCEPT ![s] = row]
     /\ passed' = [passed EXCEPT ![s] = Append(@, zone)]
     /\ due' = IF Alerts(evals[f].seen, zone) THEN due \union At(f, s) ELSE due
     /\ evals' = [g \in Fixes |->
          IF g = f THEN e
          ELSE [evals[g] EXCEPT !.stale = @ \/ (evals[g].phase = "decide" /\ evals[g].stop = s)]]
     /\ UNCHANGED alerts

Turn(f) == Remaining(evals[f], {x \in evals[f].riders : x.stop # evals[f].stop})

TxCommit(f) ==
  /\ LET s == evals[f].stop
     IN Commits(f, IF Alerts(evals[f].seen, Zone[evals[f].place][s])
                   THEN [evals[f] EXCEPT !.phase = "notify", !.left = At(f, s),
                                         !.seen = None, !.attempt = 0]
                   ELSE Turn(f))
  /\ UNCHANGED <<faults, cut>>

(* The answer to COMMIT is lost: evaluate throws, nobody is notified.      *)
TxCommitUnknown(f) ==
  /\ Commits(f, Ended) /\ Fault
  /\ cut' = cut \union (due' \ due)

Again(f) == evals[f].attempt < MaxRetries

TxRetry(f) ==
  /\ evals[f].phase = "decide"
  /\ Set(f, IF Again(f)
            THEN [evals[f] EXCEPT !.phase = "next", !.seen = None, !.stale = FALSE,
                                  !.attempt = @ + 1]
            ELSE Ended)
  /\ UNCHANGED <<states, alerts, history>>

-------------------------------------------------------------------------------
(* After the transaction                                                   *)

NotifyFirst(f, x) == Turn(f)          \* mutation: one guardian per stop

(* The next of the group, or the next stop                                 *)
Notified(f, x) ==
  IF evals[f].left = {x} THEN Turn(f)
  ELSE [evals[f] EXCEPT !.left = @ \ {x}]

Created(x) == alerts' = [alerts EXCEPT ![x] = @ + 1]

Notify(f, x) ==
  /\ evals[f].phase = "notify" /\ x \in evals[f].left
  /\ Created(x)
  /\ Set(f, Notified(f, x))
  /\ UNCHANGED <<states, history>>

(* create throws, with or without a COMMIT: the evaluation is over.        *)
NotifyFails(f, x) ==
  /\ evals[f].phase = "notify" /\ x \in evals[f].left /\ Fault
  /\ Created(x) \/ UNCHANGED alerts
  /\ cut' = cut \union evals[f].left
  /\ Set(f, Ended)
  /\ UNCHANGED <<states, passed, due>>

(* Any other statement fails; emitPositionEvaluation logs it.              *)
EvaluationFails(f) ==
  /\ evals[f].phase \in {"next", "decide"} /\ Fault
  /\ Set(f, Ended)
  /\ UNCHANGED <<states, alerts, passed, due, cut>>

Crash ==
  /\ Fault
  /\ evals' = [f \in Fixes |-> IF Alive(f) THEN Ended ELSE evals[f]]
  /\ cut' = cut \union UNION {evals[f].left : f \in Fixes}
  /\ UNCHANGED <<states, alerts, passed, due>>

-------------------------------------------------------------------------------
Step(f) ==
  \/ \E place \in Places : Evaluate(f, place)
  \/ \E s \in Stops : TxRead(f, s)
  \/ TxCommit(f) \/ TxCommitUnknown(f) \/ TxRetry(f)
  \/ \E x \in Assignments : Notify(f, x) \/ NotifyFails(f, x)
  \/ EvaluationFails(f)

Next == Crash \/ \E f \in Fixes : Step(f)

Spec == Init /\ [][Next]_vars

-------------------------------------------------------------------------------
(* Properties                                                              *)

Rows == [inside : BOOLEAN, entries : Nat]

Evaluations ==
  [phase : {"none", "next", "decide", "notify", "ended"}, place : Places \union {None},
   riders : SUBSET Assignments, stop : Stops \union {None}, seen : Rows \union {None},
   stale : BOOLEAN, attempt : 0..MaxRetries, left : SUBSET Assignments]

TypeOK ==
  /\ states \in [Stops -> Rows]
  /\ evals \in [Fixes -> Evaluations]
  /\ alerts \in [Assignments -> Nat]
  /\ faults \in 0..MaxFaults
  /\ passed \in [Stops -> Seq(Zones)]
  /\ due \subseteq Assignments /\ cut \subseteq Assignments

(* A guardian gets one pickup alert per student and pickup point of a      *)
(* trip, however often the bus comes by, however many evaluations overlap, *)
(* whatever is repeated and whenever students change their stops.  (One    *)
(* who is moved during the trip is alerted at the new stop again: its row  *)
(* is fresh.)                                                              *)
AlertedOnce == \A x \in Assignments : alerts[x] <= 1

(* No evaluation overwrites another: the bus is inside exactly if it was   *)
(* near the stop and not far from it since, over all committed evaluations *)
(* in their order; and each entry is counted.                              *)
Was(s, i) == \E j \in 1..i : passed[s][j] = "near" /\ \A k \in j..i : passed[s][k] # "far"

StateFollowsFixes ==
  \A s \in Stops :
    LET n == Len(passed[s])
    IN /\ states[s].inside <=> Was(s, n)
       /\ states[s].entries = Cardinality({i \in 1..n : Was(s, i) /\ ~Was(s, i - 1)})

Awaited == UNION {evals[f].left : f \in Fixes}

(* Everyone an alert was decided for gets it, at that stop, unless a       *)
(* failure or a crash fell between the decision and the notification.      *)
LostAlertsExplained == \A x \in due : alerts[x] > 0 \/ x \in Awaited \union cut

===============================================================================
