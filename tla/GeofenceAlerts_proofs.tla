------------------------- MODULE GeofenceAlerts_proofs -------------------------
(***************************************************************************)
(* Theorems about GeofenceAlerts for any number of students, stops, fixes, *)
(* retries and failures.                                                   *)
(***************************************************************************)
EXTENDS GeofenceAlerts, FiniteSetTheorems, TLAPS

-------------------------------------------------------------------------------
(* The inductive invariant.  A transaction that does not conflict has read *)
(* the current row; a student who waits for an alert at a stop waits in    *)
(* one evaluation, has none there yet, and the stop's row already counts   *)
(* the entry, so that no other evaluation decides to alert there again.    *)

Snapshots ==
  \A f \in Fixes :
    /\ evals[f].phase \in {"next", "decide", "notify"} => evals[f].place \in Places
    /\ evals[f].phase = "decide" =>
         /\ evals[f].stop \in Stops /\ evals[f].seen \in Rows
         /\ ~evals[f].stale => evals[f].seen = states[evals[f].stop]

Counted ==
  \A x \in Assignments : alerts[x] > 0 => states[x.stop].entries > 0

Waiting ==
  \A f \in Fixes : \A x \in evals[f].left :
    /\ evals[f].phase = "notify"
    /\ alerts[x] = 0 /\ states[x.stop].entries > 0
    /\ \A g \in Fixes \ {f} : x \notin evals[g].left

Inv == TypeOK /\ Snapshots /\ Counted /\ Waiting /\ AlertedOnce

-------------------------------------------------------------------------------
(* Lemmas                                                                  *)

(* The initial evaluations are well formed, and so is what remains of one. *)
LEMMA Formed ==
  /\ New \in Evaluations /\ Ended \in Evaluations
  /\ New.phase = "none" /\ New.left = {} /\ Ended.phase = "ended" /\ Ended.left = {}
  /\ \A e \in Evaluations, riders \in SUBSET Assignments :
       /\ Remaining(e, riders) \in Evaluations
       /\ Remaining(e, riders).left = {}
       /\ \/ Remaining(e, riders).phase = "ended"
          \/ Remaining(e, riders).phase = "next" /\ Remaining(e, riders).place = e.place
<1>1. New \in Evaluations /\ New.phase = "none" /\ New.left = {}
  BY ConstantsOK DEF ConstantsOK, New, Evaluations
<1>2. Ended \in Evaluations /\ Ended.phase = "ended" /\ Ended.left = {}
  BY <1>1 DEF Ended, Evaluations
<1>3. ASSUME NEW e \in Evaluations, NEW riders \in SUBSET Assignments
      PROVE  /\ Remaining(e, riders) \in Evaluations
             /\ Remaining(e, riders).left = {}
             /\ \/ Remaining(e, riders).phase = "ended"
                \/ Remaining(e, riders).phase = "next" /\ Remaining(e, riders).place = e.place
  <2>1. CASE riders = {}
    BY <2>1, <1>2 DEF Remaining
  <2>2. CASE riders # {}
    <3> DEFINE n == [New EXCEPT !.phase = "next", !.place = e.place, !.riders = riders]
    <3>1. n \in Evaluations /\ n.left = {} /\ n.phase = "next" /\ n.place = e.place
      BY <1>1 DEF Evaluations
    <3> QED BY <2>2, <3>1 DEF Remaining
  <2> QED BY <2>1, <2>2
<1> QED BY <1>1, <1>2, <1>3

(* Set changes one evaluation.                                             *)
LEMMA Setting ==
  ASSUME TypeOK, NEW f \in Fixes, NEW e \in Evaluations, Set(f, e)
  PROVE  /\ evals' \in [Fixes -> Evaluations] /\ evals'[f] = e
         /\ \A g \in Fixes \ {f} : evals'[g] = evals[g]
BY DEF TypeOK, Set

(* A step keeps the invariant if it only changes one evaluation, which     *)
(* then awaits nobody it did not await before, and no row.                 *)
LEMMA OneEvaluation ==
  ASSUME Inv, NEW f \in Fixes, NEW e \in Evaluations, Set(f, e), UNCHANGED <<states, alerts>>,
         e.left \subseteq evals[f].left, e.left # {} => e.phase = "notify",
         e.phase \in {"next", "decide", "notify"} => e.place \in Places,
         e.phase = "decide" =>
           /\ e.stop \in Stops /\ e.seen \in Rows
           /\ ~e.stale => e.seen = states[e.stop]
  PROVE  Snapshots' /\ Counted' /\ Waiting' /\ AlertedOnce'
<1>1. evals'[f] = e /\ \A g \in Fixes \ {f} : evals'[g] = evals[g]
  BY Setting DEF Inv
<1>2. Snapshots'
  BY <1>1 DEF Inv, Snapshots
<1>3. Counted' /\ AlertedOnce'
  BY DEF Inv, Counted, AlertedOnce
<1>4. Waiting'
  BY <1>1 DEF Inv, Waiting
<1> QED BY <1>2, <1>3, <1>4

(* A row that follows another counts at least as many entries, and more    *)
(* than none if the students are alerted.                                  *)
LEMMA EntriesGrow ==
  ASSUME NEW row \in Rows, NEW zone
  PROVE  /\ Moved(row, zone) \in Rows
         /\ Moved(row, zone).entries >= row.entries
         /\ Alerts(row, zone) => row.entries = 0 /\ Moved(row, zone).entries > 0
<1>1. row.inside \in BOOLEAN /\ row.entries \in Nat
  BY DEF Rows
<1>2. (IF row.inside THEN ~Exits(row, zone) ELSE Enters(row, zone)) \in BOOLEAN
  BY <1>1 DEF Exits, Enters
<1>3. (IF Enters(row, zone) THEN row.entries + 1 ELSE row.entries) \in Nat
  BY <1>1
<1>4. Moved(row, zone) \in Rows
  BY <1>2, <1>3, Zenon DEF Moved, Rows
<1>5. Moved(row, zone).entries = IF Enters(row, zone) THEN row.entries + 1 ELSE row.entries
  BY DEF Moved
<1>6. Moved(row, zone).entries >= row.entries
  BY <1>1, <1>5
<1>7. Alerts(row, zone) => row.entries = 0 /\ Moved(row, zone).entries > 0
  BY <1>1, <1>5 DEF Alerts
<1> QED BY <1>4, <1>6, <1>7

(* COMMIT, for an evaluation that goes on as e: e awaits nobody, or all    *)
(* students of the stop when the alert was decided.                        *)
LEMMA Committing ==
  ASSUME Inv, NEW f \in Fixes, NEW e \in Evaluations, Commits(f, e),
         e.phase \in {"next", "ended", "notify"}, e.phase # "ended" => e.place \in Places,
         e.left # {} =>
           /\ e.phase = "notify" /\ e.left = At(f, evals[f].stop)
           /\ Alerts(evals[f].seen, Zone[evals[f].place][evals[f].stop])
  PROVE  /\ states' \in [Stops -> Rows] /\ evals' \in [Fixes -> Evaluations]
         /\ passed' \in [Stops -> Seq(Zones)] /\ due' \subseteq Assignments /\ alerts' = alerts
         /\ Snapshots' /\ Counted' /\ Waiting' /\ AlertedOnce'
<1> DEFINE s == evals[f].stop
           zone == Zone[evals[f].place][s]
           row == Moved(evals[f].seen, zone)
<1>1. /\ s \in Stops /\ evals[f].place \in Places /\ evals[f].seen \in Rows
      /\ evals[f].seen = states[s]
  BY DEF Inv, Snapshots, Commits, Conflicts
<1>2. zone \in Zones
  BY <1>1, ConstantsOK DEF ConstantsOK
<1>3. row \in Rows /\ row.entries >= states[s].entries
      /\ (Alerts(states[s], zone) => states[s].entries = 0 /\ row.entries > 0)
  BY <1>1, EntriesGrow
<1> HIDE DEF row, zone, s
<1>4. /\ states' = [states EXCEPT ![s] = row]
      /\ passed' = [passed EXCEPT ![s] = Append(@, zone)]
      /\ due' = IF Alerts(states[s], zone) THEN due \union At(f, s) ELSE due
      /\ evals' = [g \in Fixes |->
           IF g = f THEN e
           ELSE [evals[g] EXCEPT !.stale = @ \/ (evals[g].phase = "decide" /\ evals[g].stop = s)]]
      /\ alerts' = alerts
  BY <1>1 DEF Commits, s, zone, row
<1>5. states' \in [Stops -> Rows] /\ states'[s] = row
      /\ \A t \in Stops : states'[t].entries >= states[t].entries
                          /\ states[t].entries \in Nat /\ states'[t].entries \in Nat
  BY <1>1, <1>3, <1>4 DEF Inv, TypeOK, Rows
<1>6. passed' \in [Stops -> Seq(Zones)]
  <2>1. Append(passed[s], zone) \in Seq(Zones)
    BY <1>1, <1>2 DEF Inv, TypeOK
  <2> QED BY <2>1, <1>4 DEF Inv, TypeOK
<1>7. due' \subseteq Assignments
  BY <1>4 DEF Inv, TypeOK, At, Evaluations
<1>8. /\ evals' \in [Fixes -> Evaluations] /\ evals'[f] = e
      /\ \A g \in Fixes \ {f} :
           /\ evals'[g].phase = evals[g].phase /\ evals'[g].place = evals[g].place
           /\ evals'[g].stop = evals[g].stop /\ evals'[g].seen = evals[g].seen
           /\ evals'[g].left = evals[g].left
           /\ ~evals'[g].stale =>
                ~evals[g].stale /\ ~(evals[g].phase = "decide" /\ evals[g].stop = s)
  <2>1. \A g \in Fixes : evals[g] \in Evaluations
    BY DEF Inv, TypeOK
  <2>2. \A g \in Fixes \ {f} :
          evals'[g] = [evals[g] EXCEPT !.stale = @ \/ (evals[g].phase = "decide" /\ evals[g].stop = s)]
    BY <1>4
  <2>3. ASSUME NEW g \in Fixes \ {f}
        PROVE  /\ evals'[g] \in Evaluations
               /\ evals'[g].phase = evals[g].phase /\ evals'[g].place = evals[g].place
               /\ evals'[g].stop = evals[g].stop /\ evals'[g].seen = evals[g].seen
               /\ evals'[g].left = evals[g].left
               /\ ~evals'[g].stale =>
                    ~evals[g].stale /\ ~(evals[g].phase = "decide" /\ evals[g].stop = s)
    <3> DEFINE st == evals[g].stale \/ (evals[g].phase = "decide" /\ evals[g].stop = s)
    <3>1. st \in BOOLEAN
      BY <2>1 DEF Evaluations
    <3>2. evals'[g] = [evals[g] EXCEPT !.stale = st]
      BY <2>2
    <3>3. ~st => ~evals[g].stale /\ ~(evals[g].phase = "decide" /\ evals[g].stop = s)
      BY Zenon
    <3> HIDE DEF st
    <3>4. evals[g] \in Evaluations
      BY <2>1
    <3> QED BY <3>1, <3>2, <3>3, <3>4 DEF Evaluations
  <2>4. evals'[f] = e
    BY <1>4
  <2> QED BY <1>4, <2>3, <2>4
<1>9. Snapshots'
  <2>1. ASSUME NEW g \in Fixes \ {f}, evals'[g].phase = "decide", ~evals'[g].stale
        PROVE  evals'[g].seen = states'[evals'[g].stop]
    <3>1. evals[g].phase = "decide" /\ ~evals[g].stale /\ evals[g].stop # s
      BY <2>1, <1>8
    <3>2. evals[g].stop \in Stops /\ evals[g].seen = states[evals[g].stop]
      BY <3>1 DEF Inv, Snapshots
    <3>3. states'[evals[g].stop] = states[evals[g].stop]
      BY <3>1, <3>2, <1>4 DEF Inv, TypeOK
    <3> QED BY <3>2, <3>3, <1>8
  <2>2. evals'[f].phase # "decide" /\ (evals'[f].phase # "ended" => evals'[f].place \in Places)
    BY <1>8
  <2>3. ASSUME NEW g \in Fixes \ {f}
        PROVE  /\ evals'[g].phase \in {"next", "decide", "notify"} => evals'[g].place \in Places
               /\ evals'[g].phase = "decide" =>
                    evals'[g].stop \in Stops /\ evals'[g].seen \in Rows
    BY <1>8 DEF Inv, Snapshots
  <2> QED BY <2>1, <2>2, <2>3 DEF Snapshots
<1>10. Counted' /\ AlertedOnce'
  BY <1>4, <1>5 DEF Inv, Counted, AlertedOnce, Assignments
<1>11. Waiting'
  <2>1. ASSUME NEW g \in Fixes \ {f}, NEW x \in evals'[g].left
        PROVE  /\ evals'[g].phase = "notify"
               /\ alerts'[x] = 0 /\ states'[x.stop].entries > 0
               /\ x \notin evals'[f].left
               /\ \A h \in Fixes \ {f, g} : x \notin evals'[h].left
    <3>1. x \in evals[g].left /\ x \in Assignments
      BY <1>8 DEF Inv, TypeOK, Evaluations
    <3>2. x.stop \in Stops
      BY <3>1 DEF Assignments
    <3>3. evals[g].phase = "notify" /\ alerts[x] = 0 /\ states[x.stop].entries > 0
          /\ \A h \in Fixes \ {f, g} : x \notin evals[h].left
      BY <3>1 DEF Inv, Waiting
    <3>4. x \notin e.left
      BY <3>3, <1>1, <1>3 DEF At, s, zone
    <3> QED BY <3>2, <3>3, <3>4, <1>4, <1>5, <1>8
  <2>2. ASSUME NEW x \in evals'[f].left
        PROVE  /\ evals'[f].phase = "notify"
               /\ alerts'[x] = 0 /\ states'[x.stop].entries > 0
    <3>1. /\ x \in e.left /\ e.phase = "notify" /\ x \in Assignments /\ x.stop = s
          /\ Alerts(states[s], zone)
      BY <1>1, <1>8 DEF Inv, TypeOK, Evaluations, At, s, zone
    <3>2. states[s].entries = 0 /\ row.entries > 0
      BY <3>1, <1>3
    <3>3. alerts[x] = 0
      <4>1. alerts[x] \in Nat /\ (alerts[x] > 0 => states[s].entries > 0)
        BY <3>1 DEF Inv, TypeOK, Counted
      <4> QED BY <4>1, <3>2
    <3> QED BY <3>1, <3>2, <3>3, <1>4, <1>5, <1>8
  <2> QED BY <2>1, <2>2, <1>8 DEF Waiting
<1> QED BY <1>4, <1>5, <1>6, <1>7, <1>8, <1>9, <1>10, <1>11

-------------------------------------------------------------------------------
(* The initial state                                                       *)

(* The invariant holds at first.                                           *)
LEMMA InitInv == Init => Inv
<1> SUFFICES ASSUME Init PROVE Inv
  OBVIOUS
<1>1. TypeOK
  <2>1. <<>> \in Seq(Zones)
    OBVIOUS
  <2> QED BY <2>1, Formed, ConstantsOK DEF Init, TypeOK, Rows, ConstantsOK
<1>2. Snapshots /\ Waiting
  BY Formed DEF Init, Snapshots, Waiting
<1>3. Counted /\ AlertedOnce
  BY DEF Init, Counted, AlertedOnce
<1> QED BY <1>1, <1>2, <1>3 DEF Inv

-------------------------------------------------------------------------------
(* Every step keeps the invariant.                                         *)
LEMMA NextInv == Inv /\ [Next]_vars => Inv'
<1> SUFFICES ASSUME Inv, [Next]_vars PROVE Inv'
  OBVIOUS
<1> USE DEF Inv
<1>0. \A f \in Fixes : evals[f] \in Evaluations
  BY DEF TypeOK
<1>1. ASSUME NEW f \in Fixes, NEW place \in Places, Evaluate(f, place) PROVE Inv'
  <2>1. PICK riders \in SUBSET Assignments : Set(f, Remaining([New EXCEPT !.place = place], riders))
    <3>1. PICK found \in SUBSET Students :
            \E stopId \in [found -> Stops] :
              Set(f, Remaining([New EXCEPT !.place = place],
                               {[student |-> x, stop |-> stopId[x]] : x \in found}))
      BY <1>1 DEF Evaluate
    <3>2. PICK stopId \in [found -> Stops] :
            Set(f, Remaining([New EXCEPT !.place = place],
                             {[student |-> x, stop |-> stopId[x]] : x \in found}))
      BY <3>1
    <3>3. {[student |-> x, stop |-> stopId[x]] : x \in found} \subseteq Assignments
      BY DEF Assignments
    <3> QED BY <3>2, <3>3
  <2>2. [New EXCEPT !.place = place] \in Evaluations
        /\ [New EXCEPT !.place = place].place = place
    BY Formed DEF Evaluations, New
  <2> DEFINE e == Remaining([New EXCEPT !.place = place], riders)
  <2>3. e \in Evaluations /\ e.left = {}
        /\ (e.phase = "ended" \/ (e.phase = "next" /\ e.place = place))
    BY <2>2, Formed
  <2> HIDE DEF e
  <2>4. Set(f, e) /\ UNCHANGED <<states, alerts, history>>
    BY <1>1, <2>1 DEF Evaluate, e
  <2>5. TypeOK'
    BY <2>3, <2>4, Setting DEF TypeOK, history
  <2> QED BY <2>3, <2>4, <2>5, OneEvaluation
<1>2. ASSUME NEW f \in Fixes, NEW s \in Stops, TxRead(f, s) PROVE Inv'
  <2> DEFINE e == [evals[f] EXCEPT !.phase = "decide", !.stop = s, !.seen = states[s], !.stale = FALSE]
  <2>1. e \in Evaluations /\ e.left = evals[f].left /\ e.phase = "decide" /\ e.stop = s
        /\ e.seen = states[s] /\ e.seen \in Rows /\ e.place = evals[f].place
    BY <1>0 DEF TypeOK, Evaluations
  <2>2. evals[f].left = {} /\ evals[f].place \in Places
    BY <1>2 DEF TxRead, Waiting, Snapshots
  <2> HIDE DEF e
  <2>3. Set(f, e) /\ UNCHANGED <<states, alerts, history>>
    BY <1>2 DEF TxRead, e
  <2>4. TypeOK'
    BY <2>1, <2>3, Setting DEF TypeOK, history
  <2> QED BY <2>1, <2>2, <2>3, <2>4, OneEvaluation
<1>3. ASSUME NEW f \in Fixes, TxCommit(f) PROVE Inv'
  <2> DEFINE s == evals[f].stop
             e == IF Alerts(evals[f].seen, Zone[evals[f].place][s])
                  THEN [evals[f] EXCEPT !.phase = "notify", !.left = At(f, s),
                                        !.seen = None, !.attempt = 0]
                  ELSE Turn(f)
  <2>1. Commits(f, e) /\ UNCHANGED <<faults, cut>>
    BY <1>3 DEF TxCommit
  <2>2. evals[f].phase = "decide" /\ evals[f].place \in Places /\ evals[f].left = {}
    BY <2>1 DEF Commits, Snapshots, Waiting
  <2>3. At(f, s) \subseteq Assignments /\ {x \in evals[f].riders : x.stop # s} \in SUBSET Assignments
    BY <1>0 DEF At, Evaluations
  <2>4. CASE Alerts(evals[f].seen, Zone[evals[f].place][s])
    <3> DEFINE n == [evals[f] EXCEPT !.phase = "notify", !.left = At(f, s), !.seen = None,
                                     !.attempt = 0]
    <3>0. n \in Evaluations /\ n.phase = "notify" /\ n.left = At(f, s) /\ n.place = evals[f].place
      <4>1. 0 \in 0..MaxRetries /\ At(f, s) \in SUBSET Assignments
        BY <2>3, ConstantsOK DEF ConstantsOK
      <4>2. evals[f] \in Evaluations
        BY <1>0
      <4> HIDE DEF s
      <4> QED BY <4>1, <4>2 DEF Evaluations
    <3>1. e \in Evaluations /\ e.phase = "notify" /\ e.left = At(f, s)
          /\ e.place = evals[f].place
      BY <2>4, <3>0
    <3> HIDE DEF e
    <3> QED BY <3>1, <2>1, <2>2, <2>4, Committing DEF TypeOK
  <2>5. CASE ~Alerts(evals[f].seen, Zone[evals[f].place][s])
    <3>1. e \in Evaluations /\ e.left = {}
          /\ (e.phase = "ended" \/ (e.phase = "next" /\ e.place = evals[f].place))
      BY <2>5, <1>0, <2>3, Formed DEF Turn
    <3> HIDE DEF e
    <3> QED BY <3>1, <2>1, <2>2, Committing DEF TypeOK
  <2> QED BY <2>4, <2>5
<1>4. ASSUME NEW f \in Fixes, TxCommitUnknown(f) PROVE Inv'
  <2>1. Commits(f, Ended) /\ Fault /\ cut' = cut \union (due' \ due)
    BY <1>4 DEF TxCommitUnknown
  <2>2. /\ states' \in [Stops -> Rows] /\ evals' \in [Fixes -> Evaluations]
        /\ passed' \in [Stops -> Seq(Zones)] /\ due' \subseteq Assignments /\ alerts' = alerts
        /\ Snapshots' /\ Counted' /\ Waiting' /\ AlertedOnce'
    BY <2>1, Formed, Committing
  <2>3. TypeOK'
    BY <2>1, <2>2, ConstantsOK DEF TypeOK, Fault, ConstantsOK
  <2> QED BY <2>2, <2>3
<1>5. ASSUME NEW f \in Fixes, TxRetry(f) PROVE Inv'
  <2> DEFINE n == [evals[f] EXCEPT !.phase = "next", !.seen = None, !.stale = FALSE,
                                   !.attempt = @ + 1]
             e == IF Again(f) THEN n ELSE Ended
  <2>1. evals[f].phase = "decide" /\ Set(f, e) /\ UNCHANGED <<states, alerts, history>>
    BY <1>5 DEF TxRetry
  <2>2. evals[f].left = {} /\ evals[f].place \in Places
    BY <2>1 DEF Waiting, Snapshots
  <2>3. e \in Evaluations /\ e.left = {}
        /\ (e.phase = "ended" \/ (e.phase = "next" /\ e.place = evals[f].place))
    <3>1. ASSUME Again(f)
          PROVE  n \in Evaluations /\ n.left = {} /\ n.phase = "next" /\ n.place = evals[f].place
      <4>1. evals[f].attempt + 1 \in 0..MaxRetries
        BY <3>1, <1>0, ConstantsOK DEF Again, Evaluations, ConstantsOK
      <4> QED BY <4>1, <1>0, <2>2 DEF Evaluations
    <3> QED BY <3>1, Formed
  <2> HIDE DEF e
  <2>4. TypeOK'
    BY <2>1, <2>3, Setting DEF TypeOK, history
  <2> QED BY <2>1, <2>2, <2>3, <2>4, OneEvaluation
<1>6. ASSUME NEW f \in Fixes, NEW x \in Assignments, Notify(f, x) PROVE Inv'
  <2>1. /\ evals[f].phase = "notify" /\ x \in evals[f].left /\ Created(x)
        /\ Set(f, Notified(f, x)) /\ UNCHANGED <<states, history>>
    BY <1>6 DEF Notify
  <2> DEFINE e == Notified(f, x)
  <2>2. e \in Evaluations /\ e.left = evals[f].left \ {x}
        /\ (e.left # {} => e.phase = "notify")
        /\ (e.phase = "ended" \/ (e.phase \in {"next", "notify"} /\ e.place = evals[f].place))
    <3>1. CASE evals[f].left = {x}
      BY <3>1, <1>0, Formed DEF Notified, Turn, Evaluations
    <3>2. CASE evals[f].left # {x}
      BY <3>2, <2>1, <1>0 DEF Notified, Evaluations
    <3> QED BY <3>1, <3>2
  <2> HIDE DEF e
  <2>3. /\ evals' \in [Fixes -> Evaluations] /\ evals'[f] = e
        /\ \A g \in Fixes \ {f} : evals'[g] = evals[g]
    BY <2>1, <2>2, Setting DEF e
  <2>4. alerts[x] = 0 /\ alerts' = [alerts EXCEPT ![x] = 1]
        /\ states[x.stop].entries > 0 /\ \A g \in Fixes \ {f} : x \notin evals[g].left
    <3>1. /\ alerts[x] = 0 /\ states[x.stop].entries > 0
          /\ \A g \in Fixes \ {f} : x \notin evals[g].left
      BY <2>1 DEF Waiting
    <3>2. alerts' = [alerts EXCEPT ![x] = alerts[x] + 1]
      BY <2>1 DEF Created
    <3> QED BY <3>1, <3>2
  <2>5. TypeOK'
    BY <2>1, <2>3, <2>4 DEF TypeOK, history
  <2>6. Snapshots'
    <3>1. states' = states
      BY <2>1
    <3>2. e.phase # "decide" /\ (e.phase # "ended" => e.place \in Places)
      BY <2>1, <2>2 DEF Snapshots, Evaluations
    <3> QED BY <3>1, <3>2, <2>3 DEF Snapshots
  <2>7. Counted' /\ AlertedOnce'
    BY <2>1, <2>4 DEF Counted, AlertedOnce, TypeOK
  <2>8. Waiting'
    <3>1. \A g \in Fixes : evals'[g].left \subseteq evals[g].left \ {x}
      BY <2>2, <2>3, <2>4
    <3>2. \A g \in Fixes : evals'[g].left # {} => evals'[g].phase = "notify"
      BY <2>2, <2>3 DEF Waiting
    <3>3. \A y \in Assignments \ {x} : alerts'[y] = alerts[y]
      BY <2>4 DEF TypeOK
    <3>4. \A g \in Fixes : evals[g].left \subseteq Assignments
      BY <1>0 DEF Evaluations
    <3> QED BY <2>1, <3>1, <3>2, <3>3, <3>4 DEF Waiting
  <2> QED BY <2>5, <2>6, <2>7, <2>8
<1>7. ASSUME NEW f \in Fixes, NEW x \in Assignments, NotifyFails(f, x) PROVE Inv'
  <2>1. /\ x \in evals[f].left /\ (Created(x) \/ UNCHANGED alerts)
        /\ Fault /\ cut' = cut \union evals[f].left
        /\ Set(f, Ended) /\ UNCHANGED <<states, passed, due>>
    BY <1>7 DEF NotifyFails
  <2>2. /\ evals' \in [Fixes -> Evaluations] /\ evals'[f] = Ended
        /\ \A g \in Fixes \ {f} : evals'[g] = evals[g]
    BY <2>1, Formed, Setting
  <2>3. /\ alerts[x] = 0 /\ states[x.stop].entries > 0
        /\ \A g \in Fixes \ {f} : x \notin evals[g].left
    BY <2>1 DEF Waiting
  <2>4. /\ alerts' \in [Assignments -> Nat] /\ alerts'[x] \in {0, 1}
        /\ \A y \in Assignments \ {x} : alerts'[y] = alerts[y]
    <3>1. alerts \in [Assignments -> Nat]
      BY DEF TypeOK
    <3>2. CASE Created(x)
      <4>1. alerts' = [alerts EXCEPT ![x] = alerts[x] + 1]
        BY <3>2 DEF Created
      <4> QED BY <2>3, <3>1, <4>1
    <3>3. CASE UNCHANGED alerts
      BY <2>3, <3>1, <3>3
    <3> QED BY <2>1, <3>2, <3>3
  <2>5. TypeOK'
    BY <1>0, <2>1, <2>2, <2>4, ConstantsOK DEF TypeOK, Fault, ConstantsOK, Evaluations
  <2>6. Snapshots'
    BY <2>1, <2>2, Formed DEF Snapshots
  <2>7. Counted' /\ AlertedOnce'
    BY <2>1, <2>3, <2>4 DEF Counted, AlertedOnce
  <2>8. Waiting'
    <3>1. \A g \in Fixes : evals'[g].left \subseteq evals[g].left \ {x}
      BY <2>2, <2>3, Formed
    <3>2. \A g \in Fixes : evals'[g].left # {} => evals'[g].phase = "notify"
      BY <2>2, Formed DEF Waiting
    <3>4. \A g \in Fixes : evals[g].left \subseteq Assignments
      BY <1>0 DEF Evaluations
    <3> QED BY <2>1, <2>4, <3>1, <3>2, <3>4 DEF Waiting
  <2> QED BY <2>5, <2>6, <2>7, <2>8
<1>8. ASSUME NEW f \in Fixes, EvaluationFails(f) PROVE Inv'
  <2>1. Set(f, Ended) /\ Fault /\ UNCHANGED <<states, alerts, passed, due, cut>>
    BY <1>8 DEF EvaluationFails
  <2>2. TypeOK'
    BY <2>1, Formed, Setting, ConstantsOK DEF TypeOK, Fault, ConstantsOK
  <2> QED BY <2>1, <2>2, Formed, OneEvaluation
<1>9. CASE Crash
  <2>1. /\ evals' = [f \in Fixes |-> IF Alive(f) THEN Ended ELSE evals[f]]
        /\ cut' = cut \union UNION {evals[f].left : f \in Fixes}
        /\ Fault /\ UNCHANGED <<states, alerts, passed, due>>
    BY <1>9 DEF Crash
  <2>2. UNION {evals[f].left : f \in Fixes} \subseteq Assignments
    BY <1>0 DEF Evaluations
  <2>3. TypeOK'
    BY <2>1, <2>2, Formed, ConstantsOK DEF TypeOK, Fault, ConstantsOK
  <2>4. \A f \in Fixes : evals'[f].left = {} /\ evals'[f].phase \in {"none", "ended"}
    BY <2>1, <1>0, Formed DEF Alive, Waiting
  <2>5. Snapshots' /\ Waiting'
    BY <2>4 DEF Snapshots, Waiting
  <2> QED BY <2>1, <2>3, <2>5 DEF Counted, AlertedOnce
<1>10. CASE UNCHANGED vars
  BY <1>10 DEF vars, history, TypeOK, Snapshots, Counted, Waiting, AlertedOnce
<1> QED BY <1>1, <1>2, <1>3, <1>4, <1>5, <1>6, <1>7, <1>8, <1>9, <1>10 DEF Next, Step

-------------------------------------------------------------------------------
(* Alerts that were decided                                                *)

(* Nothing is lost if the alerts stay and what was awaited still is, or    *)
(* has been created or cut off.                                            *)
LEMMA NothingLost ==
  ASSUME Inv, LostAlertsExplained, alerts' \in [Assignments -> Nat], due' \subseteq Assignments,
         \A x \in Assignments : alerts'[x] >= alerts[x],
         cut \subseteq cut',
         \A x \in Awaited \union (due' \ due) : alerts'[x] > 0 \/ x \in Awaited' \union cut'
  PROVE  LostAlertsExplained'
<1>1. ASSUME NEW x \in due' PROVE alerts'[x] > 0 \/ x \in Awaited' \union cut'
  <2>1. CASE x \in due /\ alerts[x] > 0
    <3>1. alerts[x] \in Nat /\ alerts'[x] \in Nat /\ alerts'[x] >= alerts[x]
      BY DEF Inv, TypeOK
    <3> QED BY <2>1, <3>1
  <2>2. CASE x \in due /\ x \in Awaited \union cut
    BY <2>2
  <2>3. CASE x \notin due
    BY <2>3
  <2> QED BY <2>1, <2>2, <2>3 DEF LostAlertsExplained
<1> QED BY <1>1 DEF LostAlertsExplained

(* A step of one evaluation disturbs only those this evaluation awaited.   *)
LEMMA AwaitedOthers ==
  ASSUME Inv, NEW f \in Fixes, evals' \in [Fixes -> Evaluations],
         \A g \in Fixes \ {f} : evals'[g].left = evals[g].left
  PROVE  Awaited \subseteq Awaited' \union evals[f].left /\ evals'[f].left \subseteq Awaited'
BY DEF Awaited

(* No step loses an alert it does not account for.                         *)
LEMMA NextExplained == Inv /\ LostAlertsExplained /\ [Next]_vars => LostAlertsExplained'
<1> SUFFICES ASSUME Inv, LostAlertsExplained, [Next]_vars PROVE LostAlertsExplained'
  OBVIOUS
<1>0. Inv' /\ \A f \in Fixes : evals[f] \in Evaluations /\ evals'[f] \in Evaluations
  BY NextInv DEF Inv, TypeOK
<1>1. ASSUME NEW f \in Fixes, UNCHANGED <<alerts, due, cut>>, evals[f].phase # "notify",
             \A g \in Fixes \ {f} : evals'[g] = evals[g]
      PROVE  LostAlertsExplained'
  <2>1. evals[f].left = {}
    BY <1>1 DEF Inv, Waiting
  <2>2. Awaited \subseteq Awaited'
    BY <2>1, <1>0, <1>1, AwaitedOthers DEF Inv, TypeOK
  <2> QED BY <1>0, <1>1, <2>2 DEF LostAlertsExplained
<1>2. ASSUME NEW f \in Fixes, NEW place \in Places, Evaluate(f, place) PROVE LostAlertsExplained'
  BY <1>1, <1>2 DEF Evaluate, Set, history, Inv, TypeOK
<1>3. ASSUME NEW f \in Fixes, NEW s \in Stops, TxRead(f, s) PROVE LostAlertsExplained'
  BY <1>1, <1>3 DEF TxRead, Set, history, Inv, TypeOK
<1>4. ASSUME NEW f \in Fixes, TxRetry(f) PROVE LostAlertsExplained'
  BY <1>1, <1>4 DEF TxRetry, Set, history, Inv, TypeOK
<1>5. ASSUME NEW f \in Fixes, EvaluationFails(f) PROVE LostAlertsExplained'
  BY <1>1, <1>5 DEF EvaluationFails, Set, Inv, TypeOK
<1>6. ASSUME NEW f \in Fixes, NEW e, Commits(f, e),
             due' \ due \subseteq e.left \union cut', cut \subseteq cut'
      PROVE  LostAlertsExplained'
  <2>1. /\ evals[f].left = {} /\ evals'[f] = e /\ alerts' = alerts
        /\ \A g \in Fixes \ {f} : evals'[g].left = evals[g].left
    <3>1. /\ evals[f].phase = "decide" /\ alerts' = alerts
          /\ evals' = [g \in Fixes |->
               IF g = f THEN e
               ELSE [evals[g] EXCEPT !.stale =
                       @ \/ (evals[g].phase = "decide" /\ evals[g].stop = evals[f].stop)]]
      BY <1>6 DEF Commits
    <3>2. \A g \in Fixes \ {f} : evals'[g].left = evals[g].left
      BY <3>1, <1>0 DEF Evaluations
    <3> QED BY <3>1, <3>2 DEF Inv, Waiting
  <2>2. Awaited \subseteq Awaited' /\ e.left \subseteq Awaited'
    BY <2>1, <1>0, AwaitedOthers DEF Inv, TypeOK
  <2> QED BY <1>0, <1>6, <2>1, <2>2 DEF LostAlertsExplained
<1>7. ASSUME NEW f \in Fixes, TxCommit(f) PROVE LostAlertsExplained'
  <2> DEFINE s == evals[f].stop
             decided == Alerts(evals[f].seen, Zone[evals[f].place][s])
             n == [evals[f] EXCEPT !.phase = "notify", !.left = At(f, s), !.seen = None,
                                   !.attempt = 0]
             e == IF decided THEN n ELSE Turn(f)
  <2>1. Commits(f, e) /\ cut' = cut
    BY <1>7 DEF TxCommit
  <2>2. due' = IF decided THEN due \union At(f, s) ELSE due
    BY <2>1 DEF Commits
  <2>3. n.left = At(f, s)
    BY <1>0 DEF Evaluations
  <2>4. due' \ due \subseteq e.left \union cut'
    BY <2>2, <2>3
  <2> QED BY <1>6, <2>1, <2>4
<1>8. ASSUME NEW f \in Fixes, TxCommitUnknown(f) PROVE LostAlertsExplained'
  <2>1. Commits(f, Ended) /\ cut' = cut \union (due' \ due)
    BY <1>8 DEF TxCommitUnknown
  <2> QED BY <1>6, <2>1
<1>9. ASSUME NEW f \in Fixes, NEW x \in Assignments, Notify(f, x) PROVE LostAlertsExplained'
  <2>1. /\ x \in evals[f].left /\ alerts' = [alerts EXCEPT ![x] = alerts[x] + 1]
        /\ UNCHANGED <<due, cut>> /\ evals' = [evals EXCEPT ![f] = Notified(f, x)]
    BY <1>9 DEF Notify, Created, Set, history
  <2>2. /\ alerts \in [Assignments -> Nat] /\ alerts' \in [Assignments -> Nat] /\ alerts'[x] > 0
        /\ \A y \in Assignments : alerts'[y] >= alerts[y]
    BY <2>1 DEF Inv, TypeOK
  <2>3. evals[f].left \subseteq evals'[f].left \union {x}
    <3>1. evals'[f] = Notified(f, x)
      BY <2>1 DEF Inv, TypeOK
    <3>2. CASE evals[f].left = {x}
      BY <3>2
    <3>3. CASE evals[f].left # {x}
      BY <3>1, <3>3, <1>0 DEF Notified, Evaluations
    <3> QED BY <3>2, <3>3
  <2>4. Awaited \subseteq Awaited' \union {x}
    <3>1. \A g \in Fixes \ {f} : evals'[g].left = evals[g].left
      BY <2>1 DEF Inv, TypeOK
    <3> QED BY <3>1, <2>3, <1>0, AwaitedOthers DEF Inv, TypeOK
  <2>5. due' \subseteq Assignments /\ cut \subseteq cut' /\ due' \ due = {}
    BY <2>1, <1>0 DEF Inv, TypeOK
  <2> QED BY <2>2, <2>4, <2>5, NothingLost
<1>10. ASSUME NEW f \in Fixes, NEW x \in Assignments, NotifyFails(f, x) PROVE LostAlertsExplained'
  <2>1. /\ Created(x) \/ UNCHANGED alerts
        /\ cut' = cut \union evals[f].left /\ UNCHANGED due
        /\ evals' = [evals EXCEPT ![f] = Ended]
    BY <1>10 DEF NotifyFails, Set
  <2>2. alerts' \in [Assignments -> Nat] /\ \A y \in Assignments : alerts'[y] >= alerts[y]
    <3>1. alerts \in [Assignments -> Nat]
      BY DEF Inv, TypeOK
    <3>2. CASE alerts' = [alerts EXCEPT ![x] = alerts[x] + 1]
      BY <3>1, <3>2
    <3>3. CASE UNCHANGED alerts
      BY <3>1, <3>3
    <3> QED BY <2>1, <3>2, <3>3 DEF Created
  <2>3. Awaited \subseteq Awaited' \union cut'
    <3>1. \A g \in Fixes \ {f} : evals'[g].left = evals[g].left
      BY <2>1 DEF Inv, TypeOK
    <3> QED BY <3>1, <2>1, <1>0, AwaitedOthers DEF Inv, TypeOK
  <2>4. due' \subseteq Assignments /\ cut \subseteq cut' /\ due' \ due = {}
    BY <2>1, <1>0 DEF Inv, TypeOK
  <2> QED BY <2>2, <2>3, <2>4, NothingLost
<1>11. CASE Crash
  <2>1. cut' = cut \union Awaited /\ UNCHANGED <<alerts, due>>
    BY <1>11 DEF Crash, Awaited
  <2> QED BY <2>1 DEF LostAlertsExplained
<1>12. CASE UNCHANGED vars
  BY <1>12 DEF vars, history, LostAlertsExplained, Awaited
<1> QED BY <1>2, <1>3, <1>4, <1>5, <1>7, <1>8, <1>9, <1>10, <1>11, <1>12 DEF Next, Step

-------------------------------------------------------------------------------
(* Rows and evaluations                                                    *)

(* The committed evaluations of a stop at which the bus came in.           *)
Entered(s) == {i \in 1..Len(passed[s]) : Was(s, i) /\ ~Was(s, i - 1)}

(* One more evaluation says nothing new of those before it.                *)
LEMMA OneMore ==
  ASSUME NEW s, NEW zone, passed[s] \in Seq(Zones), passed'[s] = Append(passed[s], zone),
         NEW n, n = Len(passed[s])
  PROVE  /\ n \in Nat /\ Len(passed'[s]) = n + 1
         /\ \A i \in 0..n : Was(s, i)' <=> Was(s, i)
         /\ Was(s, n + 1)' <=> zone = "near" \/ (Was(s, n) /\ zone # "far")
<1>1. /\ n \in Nat /\ Len(passed'[s]) = n + 1 /\ passed'[s][n + 1] = zone
      /\ \A i \in 1..n : passed'[s][i] = passed[s][i]
  OBVIOUS
<1>2. ASSUME NEW i \in 0..n PROVE Was(s, i)' <=> Was(s, i)
  <2>1. \A j \in 1..i : j \in 1..n /\ \A k \in j..i : k \in 1..n
    BY <1>1
  <2>2. /\ \A j \in 1..i : passed'[s][j] = passed[s][j]
        /\ \A j \in 1..i : \A k \in j..i : passed'[s][k] = passed[s][k]
    BY <1>1, <2>1
  <2>3. \A j \in 1..i : (passed'[s][j] = "near" /\ \A k \in j..i : passed'[s][k] # "far")
                     <=> (passed[s][j] = "near" /\ \A k \in j..i : passed[s][k] # "far")
    BY <2>2
  <2> QED BY <2>3, Zenon DEF Was
<1>3. Was(s, n + 1)' <=> zone = "near" \/ (Was(s, n) /\ zone # "far")
  <2>1. ASSUME zone = "near" PROVE Was(s, n + 1)'
    <3>1. n + 1 \in 1..(n + 1) /\ \A k \in (n + 1)..(n + 1) : k = n + 1
      BY <1>1
    <3>2. passed'[s][n + 1] = "near" /\ \A k \in (n + 1)..(n + 1) : passed'[s][k] # "far"
      BY <1>1, <2>1, <3>1
    <3> QED BY <3>1, <3>2 DEF Was
  <2>2. ASSUME Was(s, n), zone # "far" PROVE Was(s, n + 1)'
    <3>1. PICK j \in 1..n : passed[s][j] = "near" /\ \A k \in j..n : passed[s][k] # "far"
      BY <2>2 DEF Was
    <3>2. j \in 1..(n + 1) /\ \A k \in j..(n + 1) : k = n + 1 \/ (k \in j..n /\ k \in 1..n)
      BY <1>1
    <3>3. passed'[s][j] = "near" /\ \A k \in j..(n + 1) : passed'[s][k] # "far"
      BY <1>1, <2>2, <3>1, <3>2
    <3> QED BY <3>2, <3>3 DEF Was
  <2>3. ASSUME Was(s, n + 1)', zone # "near" PROVE Was(s, n) /\ zone # "far"
    <3>1. PICK j \in 1..(n + 1) : /\ passed'[s][j] = "near"
                                  /\ \A k \in j..(n + 1) : passed'[s][k] # "far"
      BY <2>3 DEF Was
    <3>2. j \in 1..n /\ n + 1 \in j..(n + 1) /\ \A k \in j..n : k \in 1..n /\ k \in j..(n + 1)
      BY <1>1, <2>3, <3>1
    <3>3. zone # "far" /\ passed[s][j] = "near" /\ \A k \in j..n : passed[s][k] # "far"
      BY <1>1, <3>1, <3>2
    <3> QED BY <3>2, <3>3 DEF Was
  <2> QED BY <2>1, <2>2, <2>3
<1> QED BY <1>1, <1>2, <1>3

(* It is an entry if the bus is inside after it and was not before.        *)
LEMMA OneEntry ==
  ASSUME NEW s, NEW zone, passed[s] \in Seq(Zones), passed'[s] = Append(passed[s], zone),
         NEW n, n = Len(passed[s])
  PROVE  /\ Cardinality(Entered(s)) \in Nat
         /\ Cardinality(Entered(s)') =
              Cardinality(Entered(s)) + IF Was(s, n + 1)' /\ ~Was(s, n) THEN 1 ELSE 0
<1>1. /\ n \in Nat /\ Len(passed'[s]) = n + 1
      /\ \A i \in 0..n : Was(s, i)' <=> Was(s, i)
  BY OneMore
<1>2. IsFiniteSet(Entered(s)) /\ n + 1 \notin Entered(s)
  <2>1. IsFiniteSet(1..n)
    BY <1>1, FS_Interval
  <2>2. Entered(s) \subseteq 1..n
    BY DEF Entered
  <2> QED BY <1>1, <2>1, <2>2, FS_Subset
<1>3. \A i : i \in Entered(s)' <=>
        i \in Entered(s) \/ (i = n + 1 /\ Was(s, n + 1)' /\ ~Was(s, n))
  <2>1. \A i \in 1..n : i \in 0..n /\ i - 1 \in 0..n
    BY <1>1
  <2>2. n \in 0..n /\ (n + 1) - 1 = n
    BY <1>1
  <2>3. \A i : i \in 1..(n + 1) <=> i \in 1..n \/ i = n + 1
    BY <1>1
  <2>4. \A i : i \in Entered(s)' <=> i \in 1..(n + 1) /\ Was(s, i)' /\ ~Was(s, i - 1)'
    BY <1>1 DEF Entered
  <2>5. \A i : i \in Entered(s) <=> i \in 1..n /\ Was(s, i) /\ ~Was(s, i - 1)
    BY DEF Entered
  <2>6. ~Was(s, (n + 1) - 1)' <=> ~Was(s, n)
    BY <1>1, <2>2
  <2>7. n + 1 \notin 1..n
    BY <1>1
  <2> QED BY <1>1, <2>1, <2>3, <2>4, <2>5, <2>6, <2>7
<1>4. Cardinality(Entered(s)) \in Nat
  BY <1>2, FS_CardinalityType
<1>5. CASE Was(s, n + 1)' /\ ~Was(s, n)
  <2>1. Entered(s)' = Entered(s) \union {n + 1}
    BY <1>3, <1>5
  <2> QED BY <1>2, <1>4, <1>5, <2>1, FS_AddElement
<1>6. CASE ~(Was(s, n + 1)' /\ ~Was(s, n))
  <2>1. Entered(s)' = Entered(s)
    BY <1>3, <1>6
  <2> QED BY <1>4, <1>6, <2>1
<1> QED BY <1>4, <1>5, <1>6

(* The row says what the committed evaluations of the stop say.            *)
Follows(s) ==
  /\ states[s].inside <=> Was(s, Len(passed[s]))
  /\ states[s].entries = Cardinality(Entered(s))

(* The property, stop by stop.                                             *)
LEMMA EveryStop == StateFollowsFixes <=> \A s \in Stops : Follows(s)
BY DEF StateFollowsFixes, Follows, Entered

(* The same, after a step.                                                 *)
LEMMA EveryStopNext == StateFollowsFixes' <=> \A s \in Stops : Follows(s)'
<1>1. StateFollowsFixes' <=> (\A s \in Stops : Follows(s))'
  BY EveryStop, PTL
<1> QED BY <1>1

(* A COMMIT writes the row that the stop's evaluations, with its own, ask  *)
(* for, because the row it has read is the present one.                    *)
LEMMA CommitFollows ==
  ASSUME Inv, \A t \in Stops : Follows(t), NEW f \in Fixes, NEW e, Commits(f, e),
         NEW t \in Stops
  PROVE  Follows(t)'
<1>1. PICK s \in Stops, zone \in Zones :
        s = evals[f].stop /\ zone = Zone[evals[f].place][s] /\ evals[f].seen = states[s]
  BY ConstantsOK DEF Inv, Snapshots, Commits, Conflicts, ConstantsOK
<1>2. states[s] \in Rows /\ passed[s] \in Seq(Zones)
  BY DEF Inv, TypeOK
<1>3. PICK n \in Nat : n = Len(passed[s])
  BY <1>2
<1> DEFINE row == Moved(states[s], zone)
<1>4. /\ states' = [states EXCEPT ![s] = row]
      /\ passed' = [passed EXCEPT ![s] = Append(passed[s], zone)]
  BY <1>1 DEF Commits
<1>5. row.inside = IF states[s].inside THEN zone # "far" ELSE zone = "near"
  BY <1>2 DEF Moved, Exits, Enters, Away, Rows
<1>6. row.entries = states[s].entries + IF ~states[s].inside /\ zone = "near" THEN 1 ELSE 0
  BY <1>2 DEF Moved, Enters, Rows
<1> HIDE DEF row
<1>7. CASE t # s
  <2>1. states'[t] = states[t] /\ passed'[t] = passed[t]
    BY <1>4, <1>7 DEF Inv, TypeOK
  <2>2. \A i : Was(t, i)' <=> Was(t, i)
    BY <2>1 DEF Was
  <2>3. Entered(t)' = Entered(t)
    BY <2>1, <2>2 DEF Entered
  <2> QED BY <2>1, <2>2, <2>3 DEF Follows
<1>8. CASE t = s
  <2>1. states'[s] = row /\ passed'[s] = Append(passed[s], zone)
    BY <1>4 DEF Inv, TypeOK
  <2>2. /\ Len(passed'[s]) = n + 1
        /\ Was(s, n + 1)' <=> zone = "near" \/ (Was(s, n) /\ zone # "far")
    BY <1>2, <1>3, <2>1, OneMore
  <2>3. Cardinality(Entered(s)') =
          Cardinality(Entered(s)) + IF Was(s, n + 1)' /\ ~Was(s, n) THEN 1 ELSE 0
    BY <1>2, <1>3, <2>1, OneEntry
  <2>4. (states[s].inside <=> Was(s, n)) /\ states[s].entries = Cardinality(Entered(s))
    BY <1>3 DEF Follows
  <2>5. states'[s].inside <=> Was(s, n + 1)'
    BY <1>5, <2>1, <2>2, <2>4
  <2>6. states'[s].entries = Cardinality(Entered(s)')
    BY <1>6, <2>1, <2>2, <2>3, <2>4
  <2> QED BY <1>8, <2>2, <2>5, <2>6 DEF Follows
<1> QED BY <1>7, <1>8

(* Every step keeps the rows and the evaluations together.                 *)
LEMMA NextFollows == Inv /\ StateFollowsFixes /\ [Next]_vars => StateFollowsFixes'
<1> SUFFICES ASSUME Inv, StateFollowsFixes, [Next]_vars PROVE StateFollowsFixes'
  OBVIOUS
<1>1. CASE UNCHANGED <<states, passed>>
  BY <1>1 DEF StateFollowsFixes, Was
<1>2. CASE Crash
  BY <1>1, <1>2 DEF Crash
<1>3. ASSUME NEW f \in Fixes, Step(f) PROVE StateFollowsFixes'
  <2>1. CASE TxCommit(f) \/ TxCommitUnknown(f)
    <3>1. PICK e : Commits(f, e)
      BY <2>1 DEF TxCommit, TxCommitUnknown
    <3>2. (\A s \in Stops : Follows(s)) => \A s \in Stops : Follows(s)'
      BY <3>1, CommitFollows
    <3> QED BY <3>2, EveryStop, EveryStopNext
  <2>2. CASE ~(TxCommit(f) \/ TxCommitUnknown(f))
    BY <1>1, <1>3, <2>2 DEF Step, Evaluate, TxRead, TxRetry, Notify, NotifyFails, EvaluationFails,
       history
  <2> QED BY <2>1, <2>2
<1>4. CASE UNCHANGED vars
  BY <1>1, <1>4 DEF vars, history
<1> QED BY <1>2, <1>3, <1>4 DEF Next

-------------------------------------------------------------------------------
(* Theorems                                                                *)

(* The invariant holds in every state.                                     *)
LEMMA SpecInv == Spec => []Inv
BY InitInv, NextInv, PTL DEF Spec

(* Every variable keeps its type.                                          *)
THEOREM TypeCorrect == Spec => []TypeOK
BY SpecInv, PTL DEF Inv

(* A guardian gets at most one pickup alert per student and pickup point   *)
(* of a trip, however many evaluations of fixes overlap, fail and repeat,  *)
(* and whatever stop each of them finds the student at.                    *)
THEOREM AlertedAtMostOnce == Spec => []AlertedOnce
BY SpecInv, PTL DEF Inv

(* Whoever an alert was decided for has it, waits for it, or lost it to a  *)
(* failure or a crash between the decision and the notification.           *)
THEOREM AlertsLostOnlyByFailure == Spec => []LostAlertsExplained
<1>1. Init => LostAlertsExplained
  BY DEF Init, LostAlertsExplained
<1> QED BY <1>1, SpecInv, NextExplained, PTL DEF Spec

(* However evaluations overlap, the row of a stop is the outcome of all    *)
(* that committed, one after the other: none is lost or counted twice.     *)
THEOREM StatesFollowFixes == Spec => []StateFollowsFixes
<1>1. Init => StateFollowsFixes
  <2> SUFFICES ASSUME Init, NEW s \in Stops PROVE Follows(s)
    BY EveryStop
  <2>1. Len(passed[s]) = 0 /\ ~states[s].inside /\ states[s].entries = 0
    BY DEF Init
  <2>2. 1..0 = {}
    OBVIOUS
  <2>3. ~Was(s, 0) /\ Entered(s) = {}
    BY <2>1, <2>2 DEF Was, Entered
  <2> QED BY <2>1, <2>3, FS_EmptySet DEF Follows
<1> QED BY <1>1, SpecInv, NextFollows, PTL DEF Spec

===============================================================================
