---------------------- MODULE NotificationDelivery_proofs ----------------------
(***************************************************************************)
(* Theorems about NotificationDelivery for any number of guardians, chats, *)
(* notifications and failures and any limits: its types, and that what the *)
(* table and the chats hold is explained by the failures that happened.    *)
(***************************************************************************)
EXTENDS NotificationDelivery, TLAPS

-------------------------------------------------------------------------------
(* The inductive invariant.  The worker holds a row that is SENDING; a row *)
(* that is SENDING without it was left behind by a failure, which pays for *)
(* one more attempt and one more arrival.                                  *)

WorkerRows ==
  [phase : {"idle", "claim", "check", "request", "mark"},
   id : Ids \union {None}, left : 0..Batch, tries : 0..(MaxTries - 1),
   outcome : Outcomes \union {None}, moved : BOOLEAN]

Types ==
  /\ linked \in [Guardians -> Chats \union {None}]
  /\ notified \subseteq Ids
  /\ deliveries \in [Ids -> Deliveries \union {None}]
  /\ worker \in WorkerRows
  /\ faults \in 0..MaxFaults
  /\ reached \in [Ids -> Nat] /\ lost \in [Ids -> Nat] /\ abandoned \in [Ids -> Nat]

Holding ==
  IF worker.phase \in {"check", "request", "mark"}
  THEN worker.id \in Ids /\ Has(worker.id, "SENDING")
  ELSE worker.id = None

Answered(id) ==
  \/ Has(id, "SENT")
  \/ worker.phase = "mark" /\ worker.id = id /\ worker.outcome = "SENT"

Arrivals(id) ==
  /\ abandoned[id] <= faults
  /\ IF Answered(id)
     THEN 0 < reached[id] /\ reached[id] <= 1 + lost[id] + abandoned[id]
     ELSE reached[id] <= lost[id] + abandoned[id]

Attempts(id) ==
  Queued(id) =>
    /\ id \in notified
    /\ deliveries[id].attempts <= MaxAttempts + abandoned[id]
    /\ Has(id, "SENDING") /\ worker.id # id =>
         deliveries[id].attempts < MaxAttempts + abandoned[id]

Current == worker.phase = "request" /\ ~worker.moved => StillLinked(worker.id)

Inv ==
  /\ Types /\ Holding /\ Current
  /\ \A id \in Ids : Arrivals(id) /\ Attempts(id)

(* The queue is empty at first.                                            *)
LEMMA InitInv == Init => Inv
BY ConstantsOK, NoneAssumption
DEF Init, Idle, Inv, Types, WorkerRows, Holding, Current, Arrivals, Attempts, Answered, Queued, Has

(* A row of the table.                                                     *)
LEMMA Row ==
  ASSUME Types, NEW id \in Ids, Queued(id)
  PROVE  /\ deliveries[id] \in Deliveries
         /\ deliveries[id].attempts \in Nat /\ deliveries[id].guardian \in Guardians
BY ConstantsOK DEF Types, Queued, Deliveries

(* A failure is counted, and only while there is room for it.              *)
LEMMA FaultType == Types /\ Fault => faults' \in 0..MaxFaults /\ faults' = faults + 1
BY ConstantsOK DEF Types, Fault

-------------------------------------------------------------------------------
(* Steps that write no row                                                 *)

(* A guardian moves to another chat, or leaves it.                         *)
LEMMA LinkSteps ==
  ASSUME Inv, NEW g \in Guardians, NEW c \in Chats \union {None},
         linked' = [linked EXCEPT ![g] = c],
         worker' = [worker EXCEPT !.moved = @ \/ JobOf(g)],
         UNCHANGED <<notified, deliveries, history>>
  PROVE  Inv'
<1>1. Types'
  <2>1. (worker.moved \/ JobOf(g)) \in BOOLEAN
    BY DEF Inv, Types, JobOf
  <2> QED BY <2>1 DEF Inv, Types, WorkerRows, history
<1>2. /\ worker'.phase = worker.phase /\ worker'.id = worker.id
      /\ worker'.outcome = worker.outcome
      /\ worker'.moved = (worker.moved \/ JobOf(g))
  BY DEF Inv, Types
<1>3. Holding' /\ \A id \in Ids : Arrivals(id)' /\ Attempts(id)'
  BY <1>2 DEF Inv, Holding, Arrivals, Attempts, Answered, Queued, Has, history
<1>4. Current'
  <2> SUFFICES ASSUME worker.phase = "request", ~worker.moved, ~JobOf(g)
               PROVE  StillLinked(worker.id)'
    BY <1>2 DEF Current
  <2>1. worker.id \in Ids /\ deliveries[worker.id].guardian # g /\ StillLinked(worker.id)
    BY DEF Inv, Holding, Current, JobOf
  <2>2. deliveries[worker.id].guardian \in Guardians
    BY <2>1, Row DEF Inv, Holding, Has
  <2> QED BY <1>2, <2>1, <2>2 DEF StillLinked, Inv, Types
<1> QED BY <1>1, <1>3, <1>4 DEF Inv

(* What the worker does next.                                              *)
LEMMA Stops ==
  Idle \in WorkerRows /\ Idle.phase = "idle" /\ Idle.id = None /\ Idle.outcome = None
<1>1. 0 \in 0..Batch /\ 0 \in 0..(MaxTries - 1)
  BY ConstantsOK
<1> QED BY <1>1 DEF Idle, WorkerRows

(* The worker between two claims.                                          *)
LEMMA Rests ==
  ASSUME NEW n \in 0..Batch
  PROVE  [Idle EXCEPT !.phase = "claim", !.left = n] \in WorkerRows
BY Stops DEF WorkerRows

(* The worker goes on to mark its delivery.                                *)
LEMMA Decides ==
  ASSUME Types, NEW o \in Outcomes, Outcome(o)
  PROVE  /\ worker' \in WorkerRows /\ worker'.phase = "mark" /\ worker'.id = worker.id
         /\ worker'.outcome = o /\ worker'.moved = FALSE
<1>1. 0 \in 0..(MaxTries - 1)
  BY ConstantsOK
<1> QED BY <1>1 DEF Outcome, Types, WorkerRows

(* A request is repeated, or given up after the last try.                  *)
LEMMA TriesAgain ==
  ASSUME Types, Again
  PROVE  /\ worker' \in WorkerRows /\ worker'.id = worker.id
         /\ \/ /\ worker'.phase = worker.phase /\ worker'.outcome = worker.outcome
               /\ worker'.moved = worker.moved
            \/ /\ worker'.phase = "mark" /\ worker'.outcome = "RETRY" /\ worker'.moved = FALSE
<1>1. CASE worker.tries + 1 < MaxTries
  <2>1. worker' = [worker EXCEPT !.tries = worker.tries + 1] /\ worker.tries + 1 \in 0..(MaxTries - 1)
    BY <1>1, ConstantsOK DEF Again, Types, WorkerRows
  <2> QED BY <2>1 DEF Types, WorkerRows
<1>2. CASE ~(worker.tries + 1 < MaxTries)
  <2>1. Outcome("RETRY") /\ "RETRY" \in Outcomes
    BY <1>2 DEF Again, Outcomes
  <2> QED BY <2>1, Decides
<1> QED BY <1>1, <1>2

(* The worker goes on to another phase with the row it holds, or rests.    *)
LEMMA WorkerSteps ==
  ASSUME Inv, UNCHANGED <<tables, reached, lost, abandoned>>,
         (faults' = faults \/ Fault),
         worker' \in WorkerRows,
         worker'.id = worker.id,
         (worker'.phase \in {"check", "request", "mark"}) <=>
           worker.phase \in {"check", "request", "mark"},
         worker.phase # "mark", worker'.phase = "mark" => worker'.outcome # "SENT",
         worker'.phase = "request" /\ ~worker'.moved => StillLinked(worker.id)
  PROVE  Inv'
<1>1. faults' \in 0..MaxFaults /\ faults <= faults'
  BY FaultType, ConstantsOK DEF Inv, Types
<1>2. Types'
  BY <1>1 DEF Inv, Types, tables
<1>3. Holding' /\ Current'
  BY DEF Inv, Holding, Current, StillLinked, Has, Queued, tables
<1>4. ASSUME NEW id \in Ids PROVE Arrivals(id)' /\ Attempts(id)'
  <2>1. Answered(id)' <=> Answered(id)
    BY DEF Answered, Has, Queued, tables
  <2>2. faults \in Nat /\ faults' \in Nat /\ abandoned[id] \in Nat
    BY <1>1, ConstantsOK DEF Inv, Types
  <2> QED BY <1>1, <2>1, <2>2 DEF Inv, Arrivals, Attempts, Has, Queued, tables
<1> QED BY <1>2, <1>3, <1>4 DEF Inv

-------------------------------------------------------------------------------
(* Steps that write a row                                                  *)

(* A row is written, and others stay.                                      *)
Written(id, row) ==
  /\ row \in Deliveries
  /\ deliveries' = [deliveries EXCEPT ![id] = row]

(* What a written row says of its delivery.                                *)
LEMMA RowWritten ==
  ASSUME Types, NEW id \in Ids, NEW row, Written(id, row)
  PROVE  /\ deliveries' \in [Ids -> Deliveries \union {None}]
         /\ deliveries'[id] = row /\ Queued(id)'
         /\ \A s : Has(id, s)' <=> row.status = s
         /\ \A other \in Ids \ {id} :
              /\ deliveries'[other] = deliveries[other]
              /\ Queued(other)' <=> Queued(other)
              /\ \A s : Has(other, s)' <=> Has(other, s)
<1>1. /\ deliveries' \in [Ids -> Deliveries \union {None}]
      /\ deliveries'[id] = row /\ row # None
      /\ \A other \in Ids \ {id} : deliveries'[other] = deliveries[other]
  BY NoneAssumption DEF Types, Written
<1> QED BY <1>1 DEF Queued, Has

(* What other rows promise does not depend on a row that is written while  *)
(* the worker holds it, or nothing.                                        *)
LEMMA Others ==
  ASSUME Inv, NEW id \in Ids, NEW row, Written(id, row), notified \subseteq notified',
         worker.id \in {id, None}, worker'.id \in {id, None},
         faults' \in 0..MaxFaults, faults <= faults',
         NEW other \in Ids \ {id},
         reached'[other] = reached[other], lost'[other] = lost[other],
         abandoned'[other] = abandoned[other]
  PROVE  Arrivals(other)' /\ Attempts(other)'
<1>1. worker.id # other /\ worker'.id # other
  BY ConstantsOK
<1>2. Arrivals(other) /\ Attempts(other) /\ Types
  BY DEF Inv
<1>3. /\ deliveries'[other] = deliveries[other] /\ (Queued(other)' <=> Queued(other))
      /\ \A s : Has(other, s)' <=> Has(other, s)
  BY <1>2, RowWritten
<1>4. Answered(other)' <=> Answered(other)
  BY <1>1, <1>3 DEF Answered
<1>5. Attempts(other)'
  BY <1>1, <1>2, <1>3 DEF Attempts
<1>6. Arrivals(other)'
  <2>1. abandoned[other] \in Nat /\ faults \in Nat /\ faults' \in Nat
    BY <1>2, ConstantsOK DEF Types
  <2> QED BY <1>2, <1>4, <2>1 DEF Arrivals
<1> QED BY <1>5, <1>6

(* A new notification is queued with no arrival.                           *)
LEMMA CreateInv ==
  ASSUME Inv, NEW id \in Ids, NEW g \in Guardians, Create(id, g)
  PROVE  Inv'
<1>1. /\ id \notin notified /\ notified' = notified \union {id}
      /\ UNCHANGED <<linked, worker, history>>
  BY DEF Create
<1>2. ~Queued(id) /\ Arrivals(id) /\ Types
  BY <1>1 DEF Inv, Attempts
<1>3. CASE linked[g] = None
  <2>1. deliveries' = deliveries
    BY <1>3 DEF Create
  <2> QED BY <1>1, <2>1 DEF history, Inv, Types, Holding, Current, StillLinked, Arrivals,
             Answered, Attempts, Queued, Has
<1>4. CASE linked[g] # None
  <2> DEFINE row == [guardian |-> g, chat |-> linked[g], status |-> "PENDING",
                     attempts |-> 0, due |-> TRUE, leased |-> FALSE]
  <2>1. row \in Deliveries
    BY <1>2, <1>4, ConstantsOK DEF Types, Deliveries, Statuses
  <2>2. row.status = "PENDING" /\ row.attempts = 0
    OBVIOUS
  <2>3. deliveries' = [deliveries EXCEPT ![id] = row]
    BY <1>4 DEF Create
  <2> HIDE DEF row
  <2>4. Written(id, row)
    BY <2>1, <2>3 DEF Written
  <2>5. /\ deliveries' \in [Ids -> Deliveries \union {None}]
        /\ deliveries'[id] = row /\ Queued(id)'
        /\ \A s : Has(id, s)' <=> row.status = s
        /\ \A other \in Ids \ {id} :
             /\ deliveries'[other] = deliveries[other]
             /\ Queued(other)' <=> Queued(other)
             /\ \A s : Has(other, s)' <=> Has(other, s)
    BY <1>2, <2>4, RowWritten
  <2>6. worker.phase \in {"check", "request", "mark"} => worker.id \in Ids \ {id}
    BY <1>2 DEF Inv, Holding, Has
  <2>7. Types'
    BY <1>1, <1>2, <2>5 DEF Types, history
  <2>8. Holding' /\ Current'
    BY <1>1, <2>5, <2>6 DEF Inv, Holding, Current, StillLinked
  <2>9. ASSUME NEW other \in Ids PROVE Arrivals(other)' /\ Attempts(other)'
    <3>1. CASE other = id
      <4>1. ~Answered(id) /\ ~Answered(id)'
        BY <1>1, <1>2, <2>2, <2>5, <2>6 DEF Answered, Has
      <4>2. Arrivals(id)'
        BY <1>1, <1>2, <4>1 DEF Arrivals, history
      <4>3. Attempts(id)'
        <5>1. abandoned[id] \in Nat
          BY <1>2 DEF Types
        <5> QED BY <1>1, <2>2, <2>5, <5>1, ConstantsOK DEF Attempts, history
      <4> QED BY <3>1, <4>2, <4>3
    <3>2. CASE other # id
      <4>1. Arrivals(other) /\ Attempts(other)
        BY DEF Inv
      <4>2. Answered(other)' <=> Answered(other)
        BY <1>1, <2>5, <3>2 DEF Answered
      <4> QED BY <1>1, <2>5, <3>2, <4>1, <4>2 DEF Arrivals, Attempts, history
    <3> QED BY <3>1, <3>2
  <2> QED BY <2>7, <2>8, <2>9 DEF Inv
<1> QED BY <1>3, <1>4

(* Time passes for a row: its status and its attempts stay.                *)
LEMMA TimeSteps ==
  ASSUME Inv, NEW id \in Ids, BecomesDue(id) \/ LeaseExpires(id)
  PROVE  Inv'
<1>1. Queued(id) /\ Types
  BY DEF BecomesDue, LeaseExpires, Has, Inv
<1>2. deliveries[id] \in Deliveries
  BY <1>1, Row
<1>3. PICK row : /\ row \in {[deliveries[id] EXCEPT !.due = TRUE], [deliveries[id] EXCEPT !.leased = FALSE]}
                 /\ deliveries' = [deliveries EXCEPT ![id] = row]
                 /\ UNCHANGED <<linked, notified, worker, history>>
  BY DEF BecomesDue, LeaseExpires
<1>4. /\ row \in Deliveries /\ row.status = deliveries[id].status
      /\ row.attempts = deliveries[id].attempts
      /\ row.guardian = deliveries[id].guardian /\ row.chat = deliveries[id].chat
  BY <1>2, <1>3 DEF Deliveries
<1>5. Written(id, row)
  BY <1>3, <1>4 DEF Written
<1>6. /\ deliveries' \in [Ids -> Deliveries \union {None}]
      /\ \A x \in Ids : /\ Queued(x)' <=> Queued(x)
                        /\ \A s : Has(x, s)' <=> Has(x, s)
                        /\ deliveries'[x].attempts = deliveries[x].attempts
                        /\ deliveries'[x].guardian = deliveries[x].guardian
                        /\ deliveries'[x].chat = deliveries[x].chat
  BY <1>1, <1>4, <1>5, RowWritten DEF Has
<1>7. Types' /\ Holding' /\ Current'
  BY <1>1, <1>3, <1>6 DEF Inv, Types, Holding, Current, StillLinked, history
<1>8. ASSUME NEW x \in Ids PROVE Arrivals(x)' /\ Attempts(x)'
  <2>1. Answered(x)' <=> Answered(x)
    BY <1>3, <1>6 DEF Answered
  <2> QED BY <1>3, <1>6, <2>1 DEF Inv, Arrivals, Attempts, history
<1> QED BY <1>7, <1>8 DEF Inv

(* A claim, whether the worker learns of it or not.                        *)
LEMMA ClaimSteps ==
  ASSUME Inv, NEW id \in Ids, Claim(id) \/ ClaimUnknown(id)
  PROVE  Inv'
<1> DEFINE row == [deliveries[id] EXCEPT !.status = "SENDING", !.attempts = @ + 1,
                                         !.due = TRUE, !.leased = TRUE]
<1>1. /\ worker.phase = "claim" /\ worker.left > 0 /\ Claimable(id)
      /\ deliveries' = [deliveries EXCEPT ![id] = row]
      /\ UNCHANGED <<linked, notified, reached, lost>>
  <2>1. Claimed(id) /\ UNCHANGED <<linked, notified, reached, lost>>
    BY DEF Claim, ClaimUnknown, history
  <2> QED BY <2>1 DEF Claimed
<1>2. /\ Types /\ Queued(id) /\ worker.id = None /\ ~Answered(id)
      /\ Arrivals(id) /\ Attempts(id)
  BY <1>1 DEF Inv, Holding, Claimable, Has, Answered
<1>3. deliveries[id] \in Deliveries /\ deliveries[id].attempts \in Nat
  BY <1>2, Row
<1>4. deliveries[id].attempts < MaxAttempts + abandoned[id]
  <2>1. worker.id # id /\ abandoned[id] \in Nat
    BY <1>2, ConstantsOK DEF Types
  <2>2. CASE Has(id, "SENDING")
    BY <1>2, <2>1, <2>2 DEF Attempts
  <2>3. CASE deliveries[id].attempts < MaxAttempts
    BY <1>3, <2>1, <2>3, ConstantsOK
  <2> QED BY <1>1, <2>2, <2>3 DEF Claimable
<1>5. abandoned[id] \in Nat /\ faults \in 0..MaxFaults /\ abandoned[id] <= faults
  BY <1>2 DEF Types, Arrivals
<1>6. deliveries[id].attempts + 1 \in 0..(MaxAttempts + MaxFaults)
  BY <1>3, <1>4, <1>5, ConstantsOK
<1>7. row \in Deliveries /\ row.status = "SENDING" /\ row.attempts = deliveries[id].attempts + 1
  BY <1>3, <1>6 DEF Deliveries, Statuses
<1> HIDE DEF row
<1>8. Written(id, row)
  BY <1>1, <1>7 DEF Written
<1>9. /\ deliveries' \in [Ids -> Deliveries \union {None}]
      /\ deliveries'[id] = row /\ Queued(id)' /\ \A s : Has(id, s)' <=> row.status = s
  BY <1>2, <1>8, RowWritten
<1>10. ASSUME Claim(id) PROVE Inv'
  <2>1. UNCHANGED history /\ worker' = [Idle EXCEPT !.phase = "check", !.id = id, !.left = worker.left - 1]
    BY <1>10 DEF Claim
  <2>2. /\ worker'.phase = "check" /\ worker'.id = id
        /\ worker.left - 1 \in 0..Batch /\ 0 \in 0..(MaxTries - 1)
    BY <1>1, <1>2, <2>1, ConstantsOK DEF Idle, Types, WorkerRows
  <2>3. worker' \in WorkerRows
    BY <2>1, <2>2 DEF Idle, WorkerRows
  <2>4. Types'
    BY <1>1, <1>2, <1>9, <2>1, <2>3 DEF Types, history
  <2>5. Holding' /\ Current'
    BY <1>7, <1>9, <2>2 DEF Holding, Current
  <2>6. Arrivals(id)' /\ Attempts(id)'
    <3>1. ~Answered(id)'
      BY <1>7, <1>9, <2>2 DEF Answered
    <3>2. Attempts(id)'
      BY <1>1, <1>2, <1>3, <1>4, <1>5, <1>7, <1>9, <2>1, <2>2, ConstantsOK DEF Attempts, history
    <3> QED BY <1>1, <1>2, <2>1, <3>1, <3>2 DEF Arrivals, history
  <2>7. ASSUME NEW other \in Ids \ {id} PROVE Arrivals(other)' /\ Attempts(other)'
    BY <1>1, <1>2, <1>8, <2>1, <2>2, <2>4, Others, ConstantsOK DEF history, Types
  <2> QED BY <2>4, <2>5, <2>6, <2>7 DEF Inv
<1>11. ASSUME ClaimUnknown(id) PROVE Inv'
  <2>1. /\ worker' = Idle /\ abandoned' = [abandoned EXCEPT ![id] = @ + 1]
        /\ faults' \in 0..MaxFaults /\ faults' = faults + 1
    BY <1>2, <1>11, FaultType DEF ClaimUnknown
  <2>2. worker'.phase = "idle" /\ worker'.id = None /\ abandoned'[id] = abandoned[id] + 1
    BY <1>2, <2>1 DEF Idle, Types
  <2>3. Types'
    <3>1. worker' \in WorkerRows /\ abandoned' \in [Ids -> Nat]
      BY <1>2, <1>5, <2>1, Stops DEF Types
    <3> QED BY <1>1, <1>2, <1>9, <2>1, <3>1 DEF Types
  <2>4. Holding' /\ Current'
    BY <2>2 DEF Holding, Current
  <2>5. Arrivals(id)' /\ Attempts(id)'
    <3>1. ~Answered(id)'
      BY <1>7, <1>9, <2>2 DEF Answered
    <3>2. Attempts(id)'
      BY <1>1, <1>2, <1>3, <1>4, <1>5, <1>7, <1>9, <2>2, ConstantsOK DEF Attempts
    <3>3. reached[id] \in Nat /\ lost[id] \in Nat
      BY <1>2 DEF Types
    <3> QED BY <1>1, <1>2, <1>5, <2>1, <2>2, <3>1, <3>2, <3>3 DEF Arrivals
  <2>6. ASSUME NEW other \in Ids \ {id} PROVE Arrivals(other)' /\ Attempts(other)'
    <3>1. abandoned'[other] = abandoned[other] /\ faults <= faults'
      BY <1>2, <1>5, <2>1 DEF Types
    <3> QED BY <1>1, <1>2, <1>8, <2>1, <2>2, <3>1, Others
  <2> QED BY <2>3, <2>4, <2>5, <2>6 DEF Inv
<1> QED BY <1>10, <1>11

(* The row the worker holds, while it holds it.                            *)
LEMMA Held ==
  ASSUME Inv, worker.phase \in {"check", "request", "mark"}
  PROVE  /\ worker.id \in Ids /\ worker.id # None /\ Has(worker.id, "SENDING") /\ Queued(worker.id)
         /\ Types /\ Arrivals(worker.id) /\ Attempts(worker.id)
         /\ ~Has(worker.id, "SENT")
BY ConstantsOK DEF Inv, Holding, Has

(* A message arrives.                                                      *)
LEMMA ArrivalSteps ==
  ASSUME Inv, RequestSucceeds \/ RequestAnswerLost
  PROVE  Inv'
<1>0. worker.phase = "request"
  BY DEF RequestSucceeds, RequestAnswerLost
<1> PICK id \in Ids : id = worker.id
  BY <1>0, Held
<1>1. worker.phase = "request" /\ reached' = [reached EXCEPT ![id] = reached[id] + 1]
  BY DEF RequestSucceeds, RequestAnswerLost, Arrives
<1>2. /\ id \in Ids /\ id # None /\ Has(id, "SENDING") /\ ~Has(id, "SENT") /\ ~Answered(id)
      /\ Types /\ Arrivals(id) /\ Attempts(id)
  BY <1>1, Held DEF Answered
<1>3. UNCHANGED <<tables, abandoned>>
  BY DEF RequestSucceeds, RequestAnswerLost
<1>4. /\ worker'.id = id /\ worker'.phase \in {"request", "mark"}
      /\ worker'.phase = "request" => worker'.moved = worker.moved
      /\ worker' \in WorkerRows
  <2>1. CASE RequestSucceeds
    BY <1>2, <2>1, Decides DEF RequestSucceeds, Outcomes
  <2>2. CASE RequestAnswerLost
    BY <1>1, <1>2, <2>2, TriesAgain DEF RequestAnswerLost
  <2> QED BY <2>1, <2>2
<1>6. /\ faults' \in 0..MaxFaults /\ faults <= faults'
      /\ lost' \in [Ids -> Nat]
      /\ \A x \in Ids \ {id} : lost'[x] = lost[x]
  <2>1. CASE RequestSucceeds
    BY <1>2, <2>1, ConstantsOK DEF RequestSucceeds, Types
  <2>2. CASE RequestAnswerLost
    BY <1>2, <2>2, FaultType, ConstantsOK DEF RequestAnswerLost, Types
  <2> QED BY <2>1, <2>2
<1>7. /\ reached' \in [Ids -> Nat] /\ reached'[id] = reached[id] + 1
      /\ \A x \in Ids \ {id} : reached'[x] = reached[x]
  BY <1>1, <1>2 DEF Types
<1>8. Types'
  BY <1>2, <1>3, <1>4, <1>6, <1>7 DEF Types, tables
<1>9. Holding'
  BY <1>2, <1>3, <1>4 DEF Holding, Has, Queued, tables
<1>10. Current'
  BY <1>1, <1>3, <1>4 DEF Inv, Current, StillLinked, tables
<1>11. ASSUME NEW x \in Ids PROVE Attempts(x)'
  BY <1>3, <1>4 DEF Inv, Attempts, Queued, Has, tables
<1>12. Arrivals(id)'
  <2>1. /\ reached[id] \in Nat /\ lost[id] \in Nat /\ abandoned[id] \in Nat
        /\ faults \in Nat /\ faults' \in Nat
        /\ reached[id] <= lost[id] + abandoned[id] /\ abandoned[id] <= faults
    BY <1>2, <1>6, ConstantsOK DEF Types, Arrivals
  <2>2. CASE RequestSucceeds
    <3>1. Answered(id)' /\ lost' = lost
      BY <1>2, <2>2, Decides DEF RequestSucceeds, Outcomes, Answered
    <3> QED BY <1>3, <1>6, <1>7, <2>1, <3>1 DEF Arrivals
  <2>3. CASE RequestAnswerLost
    <3>1. lost'[id] = lost[id] + 1
      BY <1>2, <2>3 DEF RequestAnswerLost, Types
    <3>2. worker'.phase = "mark" => worker'.outcome = "RETRY"
      BY <1>1, <1>2, <2>3, TriesAgain DEF RequestAnswerLost
    <3>3. ~Answered(id)'
      BY <1>2, <1>3, <3>2 DEF Answered, Has, Queued, tables
    <3> QED BY <1>3, <1>6, <1>7, <2>1, <3>1, <3>3 DEF Arrivals
  <2> QED BY <2>2, <2>3
<1>13. ASSUME NEW x \in Ids \ {id} PROVE Arrivals(x)'
  <2>1. Answered(x)' <=> Answered(x)
    BY <1>2, <1>3, <1>4, <1>13 DEF Answered, Has, Queued, tables
  <2>2. abandoned[x] \in Nat /\ faults \in Nat /\ faults' \in Nat /\ Arrivals(x)
    BY <1>2, <1>6, ConstantsOK DEF Types, Inv
  <2> QED BY <1>3, <1>6, <1>7, <2>1, <2>2 DEF Arrivals
<1> QED BY <1>8, <1>9, <1>10, <1>11, <1>12, <1>13 DEF Inv

(* The row is marked with the outcome.                                     *)
LEMMA MarkSteps ==
  ASSUME Inv, Mark \/ MarkUnknown
  PROVE  Inv'
<1>0. worker.phase = "mark"
  BY DEF Mark, MarkUnknown, Write
<1> PICK id \in Ids : id = worker.id
  BY <1>0, Held
<1> DEFINE row == [Marked(id, worker.outcome) EXCEPT !.leased = FALSE]
<1>1. /\ worker.phase = "mark" /\ UNCHANGED <<linked, notified, reached, lost, abandoned>>
      /\ worker' \in {Idle, [Idle EXCEPT !.phase = "claim", !.left = worker.left]}
      /\ (faults' = faults \/ Fault)
  BY DEF Mark, MarkUnknown, Write, history
<1>2. /\ id \in Ids /\ Has(id, "SENDING") /\ Queued(id) /\ ~Has(id, "SENT")
      /\ Types /\ Arrivals(id) /\ Attempts(id)
  BY <1>1, Held
<1>3. deliveries' = [deliveries EXCEPT ![id] = row]
  BY <1>2 DEF Mark, MarkUnknown, Write
<1>4. deliveries[id] \in Deliveries /\ deliveries[id].attempts \in Nat
  BY <1>2, Row
<1>5. /\ row \in Deliveries /\ row.attempts = deliveries[id].attempts /\ row.status # "SENDING"
      /\ row.status = "SENT" <=> worker.outcome = "SENT"
  <2>1. (deliveries[id].attempts >= MaxAttempts) \in BOOLEAN
    OBVIOUS
  <2>2. CASE worker.outcome = "SENT"
    BY <1>4, <2>2 DEF Marked, Deliveries, Statuses
  <2>3. CASE worker.outcome = "SKIPPED"
    BY <1>4, <2>3 DEF Marked, Deliveries, Statuses
  <2>4. CASE worker.outcome \notin {"SENT", "SKIPPED"}
    <3>1. Marked(id, worker.outcome) = [deliveries[id] EXCEPT !.status = "FAILED",
            !.due = deliveries[id].attempts >= MaxAttempts]
      BY <2>4 DEF Marked
    <3> QED BY <1>4, <2>1, <2>4, <3>1 DEF Deliveries, Statuses
  <2> QED BY <2>2, <2>3, <2>4
<1> HIDE DEF row
<1>6. Written(id, row)
  BY <1>3, <1>5 DEF Written
<1>7. /\ deliveries' \in [Ids -> Deliveries \union {None}]
      /\ deliveries'[id] = row /\ Queued(id)' /\ \A s : Has(id, s)' <=> row.status = s
  BY <1>2, <1>6, RowWritten
<1>8. worker'.phase \in {"idle", "claim"} /\ worker'.id = None /\ worker' \in WorkerRows
  <2>1. worker.left \in 0..Batch
    BY <1>2 DEF Types, WorkerRows
  <2>2. CASE worker' = Idle
    BY <2>2, Stops
  <2>3. CASE worker' = [Idle EXCEPT !.phase = "claim", !.left = worker.left]
    BY <1>2, <2>1, <2>3, Rests DEF Idle
  <2> QED BY <1>1, <2>2, <2>3
<1>9. faults' \in 0..MaxFaults /\ faults <= faults'
  BY <1>1, <1>2, FaultType, ConstantsOK DEF Types
<1>10. Types'
  BY <1>1, <1>2, <1>7, <1>8, <1>9 DEF Types
<1>11. Holding' /\ Current'
  BY <1>8 DEF Holding, Current
<1>12. Attempts(id)'
  BY <1>1, <1>2, <1>5, <1>7 DEF Attempts
<1>13. Arrivals(id)'
  <2>1. Answered(id)' <=> Answered(id)
    BY <1>1, <1>2, <1>5, <1>7, <1>8 DEF Answered
  <2>2. abandoned[id] \in Nat /\ faults \in Nat /\ faults' \in Nat
    BY <1>2, <1>9, ConstantsOK DEF Types
  <2> QED BY <1>1, <1>2, <1>9, <2>1, <2>2 DEF Arrivals
<1>14. ASSUME NEW x \in Ids \ {id} PROVE Arrivals(x)' /\ Attempts(x)'
  BY <1>1, <1>2, <1>6, <1>8, <1>9, Others
<1> QED BY <1>10, <1>11, <1>12, <1>13, <1>14 DEF Inv

(* A claim is left behind.                                                 *)
LEMMA AbandonSteps ==
  ASSUME Inv, Fault, Abandon
  PROVE  Inv'
<1>2. worker.phase \in {"check", "request", "mark"}
  BY DEF Abandon, Inv, Holding
<1> PICK id \in Ids : id = worker.id
  BY <1>2, Held
<1>1. /\ id # None /\ worker' = Idle /\ abandoned' = [abandoned EXCEPT ![id] = abandoned[id] + 1]
      /\ UNCHANGED <<tables, reached, lost>>
  BY DEF Abandon
<1>3. id \in Ids /\ Has(id, "SENDING") /\ ~Has(id, "SENT") /\ Types /\ Arrivals(id) /\ Attempts(id)
  BY <1>2, Held
<1>4. worker'.phase = "idle" /\ worker'.id = None
  BY <1>1 DEF Idle
<1>5. faults' \in 0..MaxFaults /\ faults' = faults + 1 /\ faults \in Nat
  BY <1>3, FaultType DEF Types
<1>6. /\ abandoned' \in [Ids -> Nat] /\ abandoned'[id] = abandoned[id] + 1
      /\ \A x \in Ids \ {id} : abandoned'[x] = abandoned[x]
  BY <1>1, <1>3 DEF Types
<1>7. Types'
  <2>1. worker' \in WorkerRows
    BY <1>1, Stops
  <2> QED BY <1>1, <1>3, <1>5, <1>6, <2>1 DEF Types, tables
<1>8. Holding' /\ Current'
  BY <1>4 DEF Holding, Current
<1>9. \A x \in Ids : /\ deliveries'[x] = deliveries[x] /\ (Queued(x)' <=> Queued(x))
                     /\ \A s : Has(x, s)' <=> Has(x, s)
  BY <1>1 DEF Queued, Has, tables
<1>10. Attempts(id)'
  <2>1. Queued(id)
    BY <1>3 DEF Has
  <2>2. deliveries[id].attempts \in Nat /\ abandoned[id] \in Nat
    BY <1>3, <2>1, Row DEF Types
  <2> QED BY <1>1, <1>3, <1>6, <1>9, <2>1, <2>2, ConstantsOK DEF Attempts, tables
<1>11. Arrivals(id)'
  <2>1. reached[id] \in Nat /\ lost[id] \in Nat /\ abandoned[id] \in Nat
    BY <1>3 DEF Types
  <2>2. ~Answered(id)'
    BY <1>3, <1>4, <1>9 DEF Answered
  <2>3. reached[id] <= 1 + lost[id] + abandoned[id]
    BY <1>3, <2>1 DEF Arrivals
  <2> QED BY <1>1, <1>3, <1>5, <1>6, <2>1, <2>2, <2>3 DEF Arrivals
<1>12. ASSUME NEW x \in Ids \ {id} PROVE Arrivals(x)' /\ Attempts(x)'
  <2>1. Answered(x)' <=> Answered(x)
    BY <1>4, <1>9, <1>12 DEF Answered
  <2>2. worker'.id # x /\ worker.id # x
    BY <1>4, ConstantsOK
  <2>3. Arrivals(x) /\ Attempts(x) /\ abandoned[x] \in Nat
    BY <1>3 DEF Inv, Types
  <2>4. Attempts(x)'
    BY <1>1, <1>6, <1>9, <2>2, <2>3 DEF Attempts, tables
  <2> QED BY <1>1, <1>5, <1>6, <2>1, <2>3, <2>4 DEF Arrivals
<1> QED BY <1>7, <1>8, <1>10, <1>11, <1>12 DEF Inv

-------------------------------------------------------------------------------
(* All steps                                                               *)

(* The steps of a pass in which nothing arrives and no row is written.     *)
LEMMA PassSteps ==
  ASSUME Inv, \/ StartPass \/ EndPass \/ ClaimFails \/ CheckRecipient \/ CheckFails
              \/ RequestNotSent \/ RequestRefused
  PROVE  Inv'
<1> DEFINE Held3 == {"check", "request", "mark"}
<1>1. UNCHANGED <<tables, reached, lost, abandoned>> /\ (faults' = faults \/ Fault)
  BY DEF StartPass, EndPass, ClaimFails, CheckRecipient, CheckFails, RequestNotSent,
         RequestRefused, history
<1>2. Types /\ (worker.phase \notin Held3 => worker.id = None)
  BY DEF Inv, Holding
<1> SUFFICES /\ worker' \in WorkerRows /\ worker'.id = worker.id
             /\ worker.phase # "mark" /\ (worker'.phase = "mark" => worker'.outcome # "SENT")
             /\ (worker'.phase \in Held3) <=> (worker.phase \in Held3)
             /\ worker'.phase = "request" /\ ~worker'.moved => StillLinked(worker.id)
  BY <1>1, WorkerSteps
<1>3. CASE StartPass
  <2>1. worker' = [Idle EXCEPT !.phase = "claim", !.left = Batch] /\ Batch \in 0..Batch
    BY <1>3, ConstantsOK DEF StartPass
  <2>2. worker' \in WorkerRows /\ worker'.phase = "claim" /\ worker'.id = None /\ worker'.outcome = None
    BY <2>1, Rests DEF Idle
  <2> QED BY <1>2, <1>3, <2>2 DEF StartPass
<1>4. CASE EndPass \/ ClaimFails
  <2>1. worker' = Idle /\ worker.phase = "claim"
    BY <1>4 DEF EndPass, ClaimFails
  <2> QED BY <1>2, <2>1, Stops
<1>5. CASE CheckRecipient
  <2>1. CASE StillLinked(worker.id)
    <3>1. worker' = [worker EXCEPT !.phase = "request"] /\ worker.phase = "check"
      BY <1>5, <2>1 DEF CheckRecipient
    <3> QED BY <1>2, <2>1, <3>1 DEF Types, WorkerRows
  <2>2. CASE ~StillLinked(worker.id)
    <3>1. Outcome("SKIPPED") /\ worker.phase = "check" /\ "SKIPPED" \in Outcomes
      BY <1>5, <2>2 DEF CheckRecipient, Outcomes
    <3> QED BY <1>2, <3>1, Decides
  <2> QED BY <2>1, <2>2
<1>6. CASE CheckFails
  <2>1. Outcome("RETRY") /\ worker.phase = "check" /\ "RETRY" \in Outcomes
    BY <1>6 DEF CheckFails, Outcomes
  <2> QED BY <1>2, <2>1, Decides
<1>7. CASE RequestNotSent
  <2>1. Again /\ worker.phase = "request"
    BY <1>7 DEF RequestNotSent
  <2> QED BY <1>2, <2>1, TriesAgain DEF Inv, Current
<1>8. CASE RequestRefused
  <2>1. PICK o \in {"SKIPPED", "RETRY"} : Outcome(o)
    BY <1>8 DEF RequestRefused
  <2>2. o \in Outcomes /\ o # "SENT" /\ worker.phase = "request"
    BY <1>8 DEF RequestRefused, Outcomes
  <2> QED BY <1>2, <2>1, <2>2, Decides
<1> QED BY <1>3, <1>4, <1>5, <1>6, <1>7, <1>8

(* Every step keeps the invariant.                                         *)
LEMMA NextInv == Inv /\ [Next]_vars => Inv'
<1> SUFFICES ASSUME Inv, [Next]_vars PROVE Inv'
  OBVIOUS
<1>1. ASSUME NEW g \in Guardians, NEW chat \in Chats, Link(g, chat) PROVE Inv'
  BY <1>1, LinkSteps DEF Link, Links!Link
<1>2. ASSUME NEW g \in Guardians, Unlink(g) PROVE Inv'
  BY <1>2, LinkSteps DEF Unlink, Links!Unlink
<1>3. ASSUME NEW id \in Ids, NEW g \in Guardians, Create(id, g) PROVE Inv'
  BY <1>3, CreateInv
<1>4. CASE Time
  BY <1>4, TimeSteps DEF Time
<1>5. ASSUME NEW id \in Ids, Claim(id) \/ ClaimUnknown(id) PROVE Inv'
  BY <1>5, ClaimSteps
<1>6. CASE RequestSucceeds \/ RequestAnswerLost
  BY <1>6, ArrivalSteps
<1>7. CASE Mark \/ MarkUnknown
  BY <1>7, MarkSteps
<1>8. CASE MarkFails \/ Crash
  BY <1>8, AbandonSteps DEF MarkFails, Crash
<1>9. CASE \/ StartPass \/ EndPass \/ ClaimFails \/ CheckRecipient \/ CheckFails
           \/ RequestNotSent \/ RequestRefused
  BY <1>9, PassSteps
<1>10. CASE UNCHANGED vars
  BY <1>10 DEF vars, tables, history, Inv, Types, Holding, Current, StillLinked, Arrivals,
        Answered, Attempts, Queued, Has
<1> QED BY <1>1, <1>2, <1>3, <1>4, <1>5, <1>6, <1>7, <1>8, <1>9, <1>10
        DEF Next, Environment, Pass

-------------------------------------------------------------------------------
(* Theorems                                                                *)

(* Every variable keeps its type; in particular a delivery is attempted at *)
(* most MaxAttempts times, and once more for each failure.                 *)
THEOREM TypeCorrect == Spec => []TypeOK
<1>1. Inv => TypeOK
  BY DEF Inv, Types, WorkerRows, TypeOK
<1> QED BY <1>1, InitInv, NextInv, PTL DEF Spec

(* A message arrives twice only if an answer was lost or a claim left.     *)
THEOREM Duplicates == Spec => []DuplicatesExplained
<1>1. Inv => DuplicatesExplained
  <2> SUFFICES ASSUME Inv, NEW id \in Ids PROVE reached[id] <= 1 + lost[id] + abandoned[id]
    BY DEF DuplicatesExplained
  <2>1. reached[id] \in Nat /\ lost[id] \in Nat /\ abandoned[id] \in Nat
    BY DEF Inv, Types
  <2> QED BY <2>1 DEF Inv, Arrivals
<1> QED BY <1>1, InitInv, NextInv, PTL DEF Spec

(* What a status says about the arrival of its message is true.            *)
THEOREM StatusIsTrue == Spec => []StatusTellsTruth
<1>1. Inv => StatusTellsTruth
  <2> SUFFICES ASSUME Inv, NEW id \in Ids, Queued(id), ~Has(id, "SENDING")
               PROVE  IF Has(id, "SENT") THEN reached[id] > 0
                      ELSE reached[id] <= lost[id] + abandoned[id]
    BY DEF StatusTellsTruth, Has
  <2>1. Answered(id) <=> Has(id, "SENT")
    BY DEF Inv, Holding, Answered
  <2> QED BY <2>1 DEF Inv, Arrivals
<1> QED BY <1>1, InitInv, NextInv, PTL DEF Spec

(* An arrival in a chat that was left needs a change during the request.   *)
LEMMA StepRace ==
  Inv /\ [Next]_vars =>
    [\A id \in Ids :
       /\ reached'[id] # reached[id]
       /\ linked[deliveries[id].guardian] # deliveries[id].chat
       => worker.moved]_vars
<1> SUFFICES ASSUME Inv, Next, NEW id \in Ids, reached'[id] # reached[id],
                    linked[deliveries[id].guardian] # deliveries[id].chat
             PROVE  worker.moved
  OBVIOUS
<1>1. worker.phase = "request" /\ reached' = [reached EXCEPT ![worker.id] = @ + 1]
  BY DEF Next, Environment, Time, Pass, Link, Unlink, Create, BecomesDue, LeaseExpires, StartPass,
     EndPass, ClaimFails, Claim, ClaimUnknown, CheckRecipient, CheckFails, RequestSucceeds,
     RequestAnswerLost, RequestNotSent, RequestRefused, Mark, MarkUnknown, MarkFails, Crash,
     Abandon, Arrives, history
<1>2. id = worker.id
  BY <1>1 DEF Inv, Types
<1> QED BY <1>1, <1>2 DEF Inv, Current, StillLinked

(* A message reaches a chat that was left only by a race with its request. *)
THEOREM RaceOnly == Spec => ObsoleteChatOnlyByRace
BY InitInv, NextInv, StepRace, PTL DEF Spec, ObsoleteChatOnlyByRace
================================================================================
