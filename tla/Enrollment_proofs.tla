-------------------------- MODULE Enrollment_proofs --------------------------
(***************************************************************************)
(* Theorems about Enrollment for any number of students, requests, shifts  *)
(* and routes.                                                             *)
(***************************************************************************)
EXTENDS Enrollment, TLAPS

-----------------------------------------------------------------------------
(* The inductive invariant.  A service comes from a request, a schedule    *)
(* lists services in operation, an archived student has a name (so that    *)
(* nobody takes it for a new one), and a request waits for a shift that is *)
(* configured.                                                             *)

Linked ==
  /\ \A q \in Ids : Served(q) => Made(q)
  /\ \A x \in schedule : Active(x[2])

ArchivedNamed == \A s \in archived : name[s] # None

PendingConfigured == \A q \in Ids : Pending(q) => requests[q].shift \in configured

Inv ==
  /\ TypeOK /\ Linked /\ ArchivedNamed /\ PendingConfigured
  /\ OneClaimPerShift /\ ArchivedIsIdle /\ NamesAgree

-----------------------------------------------------------------------------
(* Lemmas                                                                  *)

(* Whoever claims a shift was told that it is available, or claimed it     *)
(* before: the claims stay one per shift.                                  *)
LEMMA ClaimsKept ==
  ASSUME OneClaimPerShift, NEW q \in Ids,
         \A p \in Ids \ {q} : Made(p)' => Made(p) /\ requests'[p].student = requests[p].student,
         \A p \in Ids \ {q}, shift \in Shifts : Claims(p, shift)' => Claims(p, shift),
         Made(q)' => requests'[q].student \in Students
                     /\ \A shift \in Shifts : Claims(q, shift)' =>
                          \/ Available(requests'[q].student, shift, q)
                          \/ Made(q) /\ requests'[q].student = requests[q].student /\ Claims(q, shift)
  PROVE  OneClaimPerShift'
<1> SUFFICES ASSUME NEW s \in Students, NEW shift \in Shifts, NEW a \in Of(s)', NEW b \in Of(s)',
                    Claims(a, shift)', Claims(b, shift)', a # b
             PROVE  FALSE
  BY DEF OneClaimPerShift
<1>1. ASSUME NEW p \in Of(s)', p # q PROVE p \in Of(s)
  BY <1>1 DEF Of
<1>2. ASSUME NEW p \in Of(s)', p # q, Claims(p, shift)', q \in Of(s)', Claims(q, shift)' PROVE FALSE
  <2>1. p \in Of(s) /\ Claims(p, shift) /\ requests'[q].student = s /\ Made(q)'
    BY <1>1, <1>2 DEF Of
  <2>2. CASE Available(s, shift, q)
    BY <2>1, <2>2, <1>2 DEF Available, Claims
  <2>3. CASE Made(q) /\ s = requests[q].student /\ Claims(q, shift)
    <3>1. q \in Of(s)
      BY <2>3 DEF Of
    <3> QED BY <2>1, <2>3, <3>1, <1>2 DEF OneClaimPerShift
  <2> QED BY <2>1, <2>2, <2>3, <1>2
<1>3. CASE a = q
  BY <1>2, <1>3
<1>4. CASE b = q
  BY <1>2, <1>4
<1>5. CASE a # q /\ b # q
  <2>1. a \in Of(s) /\ b \in Of(s) /\ Claims(a, shift) /\ Claims(b, shift)
    BY <1>1, <1>5 DEF Of
  <2> QED BY <2>1 DEF OneClaimPerShift
<1> QED BY <1>3, <1>4, <1>5

(* The student found by name or newly made is not archived, and one that   *)
(* has no name yet has no requests.                                        *)
LEMMA Resolved ==
  ASSUME Inv, NEW s \in Students, NEW n \in Names, Resolves(s, n)
  PROVE  s \notin archived /\ \A q \in Of(s) : name[s] = n
<1>1. s \notin archived
  BY DEF Inv, Resolves, ArchivedNamed
<1>2. ASSUME NEW q \in Of(s) PROVE name[s] # None
  BY NoneAssumption DEF Inv, NamesAgree, Of, Made, TypeOK, Requests
<1> QED BY <1>1, <1>2 DEF Resolves

(* A request is entered for a student, with a service or without.          *)
LEMMA Entering ==
  ASSUME Inv, NEW q \in Ids, NEW s \in Students, NEW n \in Names, NEW request \in Requests,
         NEW service \in Services \cup {None},
         ~Made(q), Resolves(s, n), request.student = s, request.name = n,
         request.shift \in configured,
         service # None => service.shift = request.shift /\ service.name = n,
         (request.status = "PENDING" \/ (service # None /\ service.status = "ACTIVE"))
           => Available(s, request.shift, q),
         name' = [name EXCEPT ![s] = n],
         requests' = [requests EXCEPT ![q] = request],
         services' = [services EXCEPT ![q] = service],
         UNCHANGED <<archived, configured, schedule>>
  PROVE  Inv'
<1>1. TypeOK'
  BY DEF Inv, TypeOK
<1>2. /\ requests'[q] = request /\ services'[q] = service /\ Made(q)' /\ ~Served(q) /\ name'[s] = n
      /\ \A p \in Ids \ {q} : requests'[p] = requests[p] /\ services'[p] = services[p]
      /\ \A t \in Students \ {s} : name'[t] = name[t]
  BY NoneAssumption DEF Inv, TypeOK, Made, Linked
<1>3. \A p \in Ids \ {q} : /\ Made(p)' = Made(p) /\ Served(p)' = Served(p)
                           /\ Pending(p)' = Pending(p) /\ Active(p)' = Active(p)
                           /\ \A shift \in Shifts : Claims(p, shift)' = Claims(p, shift)
  BY <1>2 DEF Made, Served, Pending, Active, Claims
<1>4. s \notin archived /\ \A p \in Of(s) : name[s] = n
  BY Resolved
<1>5. Linked'
  <2>1. \A x \in schedule : x[2] \in Ids /\ x[2] # q
    BY <1>2 DEF Inv, Linked, TypeOK, Active
  <2> QED BY <1>2, <1>3, <2>1 DEF Inv, Linked
<1>6. ArchivedNamed' /\ PendingConfigured'
  BY <1>2, <1>3, <1>4 DEF Inv, ArchivedNamed, PendingConfigured, TypeOK
<1>7. OneClaimPerShift'
  <2>1. ASSUME NEW shift \in Shifts, Claims(q, shift)' PROVE Available(s, shift, q)
    BY <2>1, <1>2 DEF Claims, Pending, Active, Served
  <2> QED BY <1>2, <1>3, <2>1, ClaimsKept DEF Inv
<1>8. ArchivedIsIdle'
  BY <1>2, <1>3, <1>4 DEF Inv, ArchivedIsIdle, Of
<1>9. NamesAgree'
  <2>1. ASSUME NEW t \in Students, NEW p \in Of(t)'
        PROVE  requests'[p].name = name'[t] /\ (Served(p)' => services'[p].name = name'[t])
    <3>1. CASE p = q
      BY <1>2, <2>1, <3>1 DEF Of, Served
    <3>2. CASE p # q
      <4>1. p \in Of(t) /\ p \in Ids
        BY <1>2, <1>3, <2>1, <3>2 DEF Of
      <4>2. name'[t] = name[t]
        BY <1>2, <1>4, <4>1
      <4> QED BY <4>1, <4>2, <3>2, <1>2, <1>3 DEF Inv, NamesAgree
    <3> QED BY <3>1, <3>2
  <2> QED BY <2>1 DEF NamesAgree
<1> QED BY <1>1, <1>5, <1>6, <1>7, <1>8, <1>9 DEF Inv

(* A step that enters no request, renames nobody and neither starts a      *)
(* service nor asks for anything keeps the claims and the names.           *)
LEMMA Leaving ==
  ASSUME Inv, TypeOK', UNCHANGED name,
         \A q \in Ids :
           /\ Made(q)' = Made(q) /\ Served(q)' = Served(q)
           /\ Made(q) => requests'[q].student = requests[q].student
                         /\ requests'[q].name = requests[q].name
                         /\ requests'[q].shift = requests[q].shift
           /\ Served(q) => services'[q].shift = services[q].shift
                           /\ services'[q].name = services[q].name
           /\ (Pending(q)' => Pending(q)) /\ (Active(q)' => Active(q))
  PROVE  /\ OneClaimPerShift' /\ NamesAgree' /\ \A q \in Ids : Served(q)' => Made(q)'
         /\ \A s \in Students : Of(s)' = Of(s)
<1>1. \A s \in Students : Of(s)' = Of(s)
  BY DEF Of
<1>2. \A q \in Ids, shift \in Shifts : Claims(q, shift)' => Claims(q, shift)
  BY DEF Claims, Active, Pending
<1>3. OneClaimPerShift'
  BY <1>1, <1>2 DEF Inv, OneClaimPerShift, Of
<1>4. NamesAgree'
  BY <1>1 DEF Inv, NamesAgree, Of
<1>5. \A q \in Ids : Served(q)' => Made(q)'
  BY DEF Inv, Linked
<1> QED BY <1>1, <1>3, <1>4, <1>5

-----------------------------------------------------------------------------
(* The operations on one request                                           *)

(* The approval of a request makes its claim a service.                    *)
LEMMA ApproveInv == ASSUME Inv, NEW q \in Ids, Approve(q) PROVE Inv'
<1> USE DEF Inv
<1>1. /\ Made(q) /\ requests[q] \in Requests /\ requests[q].student \notin archived
      /\ requests[q].shift \in configured
  BY NoneAssumption DEF Approve, Pending, Made, TypeOK, ArchivedIsIdle, Of, Requests
<1> DEFINE r == [requests[q] EXCEPT !.status = "APPROVED"]
           new == NewService(requests[q], "ACTIVE")
<1>2. r \in Requests /\ r.status = "APPROVED" /\ r.student = requests[q].student
      /\ r.name = requests[q].name /\ r.shift = requests[q].shift
  BY <1>1 DEF Requests
<1>3. new \in Services /\ new.status = "ACTIVE" /\ new.shift = requests[q].shift
      /\ new.name = requests[q].name
  BY <1>1 DEF NewService, Requests, Services
<1>4. requests' = [requests EXCEPT ![q] = r] /\ services' = [services EXCEPT ![q] = new]
      /\ UNCHANGED <<name, archived, configured, schedule>>
  BY DEF Approve
<1> HIDE DEF r, new
<1>5. TypeOK'
  BY <1>2, <1>3, <1>4 DEF TypeOK
<1>6. /\ requests'[q] = r /\ services'[q] = new
      /\ \A p \in Ids \ {q} : requests'[p] = requests[p] /\ services'[p] = services[p]
  BY <1>4 DEF TypeOK
<1>7. Made(q)' /\ Served(q)' /\ ~Pending(q)' /\ Active(q)'
  BY <1>2, <1>3, <1>6, NoneAssumption DEF Made, Served, Pending, Active
<1>8. \A p \in Ids \ {q} : /\ Made(p)' = Made(p) /\ Served(p)' = Served(p)
                           /\ Pending(p)' = Pending(p) /\ Active(p)' = Active(p)
                           /\ \A shift \in Shifts : Claims(p, shift)' = Claims(p, shift)
  BY <1>6 DEF Made, Served, Pending, Active, Claims
<1>9. \A s \in Students : Of(s)' = Of(s)
  BY <1>1, <1>2, <1>6, <1>7, <1>8 DEF Of
<1>10. Linked' /\ ArchivedNamed' /\ PendingConfigured'
  <2>1. \A x \in schedule' : Active(x[2])'
    BY <1>4, <1>7, <1>8 DEF Linked, TypeOK
  <2> QED BY <2>1, <1>4, <1>6, <1>7, <1>8 DEF Linked, ArchivedNamed, PendingConfigured
<1>11. OneClaimPerShift'
  <2>1. \A shift \in Shifts : Claims(q, shift)' => Available(requests'[q].student, shift, q)
    BY <1>2, <1>3, <1>6, <1>7 DEF Claims, Approve
  <2>2. requests'[q].student \in Students
    BY <1>1, <1>2, <1>6 DEF Requests
  <2> QED BY <2>1, <2>2, <1>6, <1>8, ClaimsKept
<1>12. ArchivedIsIdle'
  <2>1. \A s \in archived : q \notin Of(s)
    BY <1>1 DEF Of
  <2>2. \A s \in archived : s \in Students
    BY DEF TypeOK
  <2>3. \A s \in Students : Of(s) \subseteq Ids
    BY DEF Of
  <2> QED BY <2>1, <2>2, <2>3, <1>4, <1>8, <1>9 DEF ArchivedIsIdle
<1>13. NamesAgree'
  <2>1. \A s \in Students : Of(s) \subseteq Ids
    BY DEF Of
  <2> QED BY <2>1, <1>2, <1>3, <1>4, <1>6, <1>8, <1>9 DEF NamesAgree
<1> QED BY <1>5, <1>10, <1>11, <1>12, <1>13

(* A rejection only gives a claim up.                                      *)
LEMMA RejectInv == ASSUME Inv, NEW q \in Ids, Reject(q) PROVE Inv'
<1> USE DEF Inv
<1>1. Made(q) /\ requests[q] \in Requests
  BY DEF Reject, Pending, Made, TypeOK
<1> DEFINE r == [requests[q] EXCEPT !.status = "REJECTED"]
<1>2. r \in Requests /\ r.status = "REJECTED" /\ r.student = requests[q].student
      /\ r.name = requests[q].name /\ r.shift = requests[q].shift
  BY <1>1 DEF Requests
<1>3. requests' = [requests EXCEPT ![q] = r]
      /\ UNCHANGED <<name, archived, services, configured, schedule>>
  BY DEF Reject
<1> HIDE DEF r
<1>4. TypeOK'
  BY <1>2, <1>3 DEF TypeOK
<1>5. /\ requests'[q] = r /\ \A p \in Ids \ {q} : requests'[p] = requests[p]
  BY <1>3 DEF TypeOK
<1>6. \A p \in Ids :
        /\ Made(p)' = Made(p) /\ Served(p)' = Served(p) /\ Active(p)' = Active(p)
        /\ Pending(p)' => Pending(p)
        /\ Made(p) => requests'[p].student = requests[p].student
                      /\ requests'[p].name = requests[p].name
                      /\ requests'[p].shift = requests[p].shift
  BY <1>1, <1>2, <1>3, <1>5, NoneAssumption DEF Made, Served, Pending, Active
<1>7. OneClaimPerShift' /\ NamesAgree' /\ \A s \in Students : Of(s)' = Of(s)
  BY <1>3, <1>4, <1>6, Leaving
<1>8. Linked' /\ ArchivedNamed' /\ PendingConfigured'
  <2>1. \A x \in schedule' : Active(x[2])'
    BY <1>3, <1>6 DEF Linked, TypeOK
  <2> QED BY <2>1, <1>3, <1>6 DEF Linked, ArchivedNamed, PendingConfigured, Pending
<1>9. ArchivedIsIdle'
  BY <1>3, <1>6, <1>7 DEF ArchivedIsIdle, TypeOK, Of
<1> QED BY <1>4, <1>7, <1>8, <1>9

(* The name of the student is changed throughout, the shift of one service *)
(* if nobody else claims the new one.                                      *)
LEMMA UpdateInv ==
  ASSUME Inv, NEW q \in Ids, NEW n \in Names, NEW shift \in Shifts, NEW r \in Routes,
         Update(q, n, shift, r)
  PROVE  Inv'
<1> USE DEF Inv
<1> DEFINE s == requests[q].student
<1>1. /\ Made(q) /\ Served(q) /\ s \in Students /\ s \notin archived /\ q \in Of(s)
      /\ UNCHANGED <<archived, configured, schedule>>
  BY DEF Update, Linked, TypeOK, Requests, Of, Made
<1>2. ASSUME NEW p \in Ids
      PROVE  /\ requests'[p] \in Requests \cup {None} /\ (Made(p)' <=> Made(p))
             /\ Made(p) => /\ requests'[p].student = requests[p].student
                           /\ requests'[p].shift = requests[p].shift
                           /\ requests'[p].status = requests[p].status
                           /\ requests'[p].name = IF p \in Of(s) THEN n ELSE requests[p].name
  <2>1. requests'[p] = IF p \in Of(s) THEN [requests[p] EXCEPT !.name = n] ELSE requests[p]
    BY DEF Update, RequestsRenamed
  <2>2. CASE p \in Of(s)
    <3>1. requests[p] \in Requests
      BY <2>2 DEF Of, Made, TypeOK
    <3>2. requests'[p] \in Requests
      BY <2>1, <2>2, <3>1 DEF Requests
    <3> QED BY <2>1, <2>2, <3>1, <3>2, NoneAssumption DEF Made, Requests
  <2>3. CASE p \notin Of(s)
    BY <2>1, <2>3 DEF TypeOK, Made
  <2> QED BY <2>2, <2>3
<1>3. ASSUME NEW p \in Ids
      PROVE  /\ services'[p] \in Services \cup {None} /\ (Served(p)' <=> Served(p))
             /\ Served(p) => /\ services'[p].status = services[p].status
                             /\ services'[p].shift = IF p = q THEN shift ELSE services[p].shift
                             /\ services'[p].name = IF p \in Of(s) THEN n ELSE services[p].name
  <2>1. services'[p] =
          IF p = q THEN [services[p] EXCEPT !.name = n, !.shift = shift, !.route = r]
          ELSE IF p \in Of(s) /\ Served(p) THEN [services[p] EXCEPT !.name = n]
          ELSE services[p]
    BY DEF Update
  <2>2. CASE p = q
    <3>1. services[p] \in Services
      BY <2>2, <1>1 DEF Served, TypeOK
    <3>2. services'[p] \in Services
      BY <2>1, <2>2, <3>1 DEF Services
    <3> QED BY <2>1, <2>2, <3>1, <3>2, <1>1, NoneAssumption DEF Served, Services
  <2>3. CASE p # q /\ p \in Of(s) /\ Served(p)
    <3>1. services[p] \in Services
      BY <2>3 DEF Served, TypeOK
    <3>2. services'[p] \in Services
      BY <2>1, <2>3, <3>1 DEF Services
    <3> QED BY <2>1, <2>3, <3>1, <3>2, NoneAssumption DEF Served, Services
  <2>4. CASE p # q /\ ~(p \in Of(s) /\ Served(p))
    BY <2>1, <2>4 DEF TypeOK, Served
  <2> QED BY <2>2, <2>3, <2>4
<1>4. TypeOK'
  <2>1. requests' = [p \in Ids |-> requests'[p]] /\ services' = [p \in Ids |-> services'[p]]
    BY DEF Update, RequestsRenamed, TypeOK
  <2>2. requests' \in [Ids -> Requests \cup {None}] /\ services' \in [Ids -> Services \cup {None}]
    BY <2>1, <1>2, <1>3
  <2>3. name' \in [Students -> Names \cup {None}]
    BY <1>1 DEF Update, TypeOK
  <2> QED BY <1>1, <2>2, <2>3 DEF TypeOK
<1>5. \A p \in Ids : (Pending(p)' <=> Pending(p)) /\ (Active(p)' <=> Active(p))
  BY <1>2, <1>3 DEF Pending, Active
<1>6. \A t \in Students : Of(t)' = Of(t)
  BY <1>2 DEF Of
<1>7. name'[s] = n /\ \A t \in Students \ {s} : name'[t] = name[t]
  BY <1>1 DEF Update, TypeOK
<1> HIDE DEF s
<1>8. Linked'
  <2>1. \A x \in schedule' : Active(x[2])'
    BY <1>1, <1>5 DEF Linked, TypeOK
  <2> QED BY <2>1, <1>2, <1>3 DEF Linked
<1>9. ArchivedNamed' /\ PendingConfigured'
  BY <1>1, <1>2, <1>5, <1>7 DEF ArchivedNamed, PendingConfigured, Pending, TypeOK
<1>10. OneClaimPerShift'
  <2>1. ASSUME NEW p \in Ids \ {q}, NEW x \in Shifts, Claims(p, x)' PROVE Claims(p, x)
    BY <2>1, <1>2, <1>3, <1>5 DEF Claims, Pending, Active
  <2>2. ASSUME NEW x \in Shifts, Claims(q, x)' PROVE Available(s, x, q) \/ Claims(q, x)
    <3>1. CASE Pending(q)' /\ requests'[q].shift = x
      BY <3>1, <1>2, <1>5 DEF Claims, Pending
    <3>2. CASE Active(q)' /\ services'[q].shift = x
      BY <3>2, <1>1, <1>3, <1>5 DEF Update, s
    <3> QED BY <2>2, <3>1, <3>2 DEF Claims
  <2> QED BY <2>1, <2>2, <1>1, <1>2, ClaimsKept DEF s
<1>11. ArchivedIsIdle'
  BY <1>1, <1>5, <1>6 DEF ArchivedIsIdle, TypeOK, Of
<1>12. NamesAgree'
  <2>1. ASSUME NEW t \in Students, NEW p \in Of(t)
        PROVE  requests'[p].name = name'[t] /\ (Served(p)' => services'[p].name = name'[t])
    <3>1. p \in Ids /\ Made(p) /\ (p \in Of(s) <=> t = s)
      BY DEF Of
    <3> QED BY <3>1, <1>2, <1>3, <1>7 DEF NamesAgree
  <2> QED BY <2>1, <1>6 DEF NamesAgree
<1> QED BY <1>4, <1>8, <1>9, <1>10, <1>11, <1>12

(* Services are billed or stopped, and students are archived who have      *)
(* nothing open any more, or restored.                                     *)
LEMMA Winding ==
  ASSUME Inv, UNCHANGED <<name, requests, configured>>,
         services' \in [Ids -> Services \cup {None}], archived' \subseteq Students,
         schedule' \subseteq schedule, \A x \in schedule' : Active(x[2])',
         \A q \in Ids :
           /\ Served(q)' = Served(q) /\ (Active(q)' => Active(q))
           /\ Served(q) => services'[q].shift = services[q].shift
                           /\ services'[q].name = services[q].name,
         \A s \in archived' \ archived :
           Of(s) # {} /\ \A q \in Of(s) : ~Active(q)' /\ ~Pending(q)
  PROVE  Inv'
<1> USE DEF Inv
<1>1. TypeOK'
  BY DEF TypeOK
<1>2. \A q \in Ids : Made(q)' = Made(q) /\ Pending(q)' = Pending(q)
  BY DEF Made, Pending
<1>3. OneClaimPerShift' /\ NamesAgree' /\ \A s \in Students : Of(s)' = Of(s)
  BY <1>1, <1>2, Leaving
<1>4. Linked' /\ PendingConfigured'
  BY <1>2 DEF Linked, PendingConfigured
<1>5. ASSUME NEW s \in Students, Of(s) # {} PROVE name[s] # None
  BY <1>5, NoneAssumption DEF NamesAgree, Of, Made, TypeOK, Requests
<1>6. ArchivedNamed'
  BY <1>5 DEF ArchivedNamed, TypeOK
<1>7. ArchivedIsIdle'
  <2>1. ASSUME NEW s \in archived', NEW q \in Of(s) PROVE ~Active(q)' /\ ~Pending(q)'
    BY <1>2 DEF ArchivedIsIdle, Of
  <2>2. ASSUME NEW s \in archived', NEW q \in Of(s), NEW r \in Routes PROVE <<r, q>> \notin schedule'
    BY <2>1
  <2> QED BY <2>1, <2>2, <1>3 DEF ArchivedIsIdle
<1> QED BY <1>1, <1>3, <1>4, <1>6, <1>7

(* Billing touches no claim.                                               *)
LEMMA BillInv == ASSUME Inv, NEW q \in Ids, Bill(q) PROVE Inv'
<1> USE DEF Inv
<1>1. services[q] \in Services
  BY DEF Bill, Active, Served, TypeOK
<1> DEFINE v == [services[q] EXCEPT !.billed = TRUE]
<1>2. v \in Services /\ v.status = services[q].status /\ v.shift = services[q].shift
      /\ v.name = services[q].name
  BY <1>1 DEF Services
<1>3. services' = [services EXCEPT ![q] = v]
      /\ UNCHANGED <<name, archived, requests, configured, schedule>>
  BY DEF Bill
<1> HIDE DEF v
<1>4. \A p \in Ids : /\ Served(p)' = Served(p) /\ Active(p)' = Active(p)
                     /\ Served(p) => services'[p].shift = services[p].shift
                                     /\ services'[p].name = services[p].name
  BY <1>1, <1>2, <1>3, NoneAssumption DEF TypeOK, Served, Active
<1>5. \A x \in schedule' : Active(x[2])'
  BY <1>3, <1>4 DEF Linked, TypeOK
<1>6. services' \in [Ids -> Services \cup {None}] /\ archived' \subseteq Students
  BY <1>2, <1>3 DEF TypeOK
<1> QED BY <1>3, <1>4, <1>5, <1>6, Winding

(* A stopped service leaves the schedules of its route.                    *)
LEMMA StopInv == ASSUME Inv, NEW q \in Ids, Stop(q) PROVE Inv'
<1> USE DEF Inv
<1>1. services[q] \in Services
  BY DEF Stop, Active, Served, TypeOK
<1>2. PICK b \in {services[q].billed, TRUE} :
        services' = [services EXCEPT ![q].status = "STOPPED", ![q].billed = b]
  BY DEF Stop
<1> DEFINE v == [services[q] EXCEPT !.status = "STOPPED", !.billed = b]
<1>3. v \in Services /\ v.status = "STOPPED" /\ v.shift = services[q].shift
      /\ v.name = services[q].name
  BY <1>1 DEF Services
<1>4. services' = [services EXCEPT ![q] = v] /\ schedule' = Unscheduled({q})
      /\ UNCHANGED <<name, archived, requests, configured>>
  BY <1>2 DEF Stop, TypeOK
<1> HIDE DEF v
<1>5. \A p \in Ids : /\ Served(p)' = Served(p) /\ (Active(p)' => Active(p))
                     /\ (p # q => Active(p)' = Active(p))
                     /\ Served(p) => services'[p].shift = services[p].shift
                                     /\ services'[p].name = services[p].name
  BY <1>1, <1>3, <1>4, NoneAssumption DEF TypeOK, Served, Active
<1>6. schedule' \subseteq schedule /\ \A x \in schedule' : Active(x[2])'
  BY <1>4, <1>5 DEF Linked, TypeOK, Unscheduled
<1>7. services' \in [Ids -> Services \cup {None}] /\ archived' \subseteq Students
  BY <1>3, <1>4 DEF TypeOK
<1> QED BY <1>4, <1>5, <1>6, <1>7, Winding

-----------------------------------------------------------------------------
(* The operations on students, shifts and schedules                        *)

(* Archiving ends all a student has.                                       *)
LEMMA ArchiveInv == ASSUME Inv, NEW s \in Students, Archive(s) PROVE Inv'
<1> USE DEF Inv
<1> DEFINE stopped == {q \in Of(s) : Active(q)}
<1>1. /\ services' = [q \in Ids |->
           IF q \in stopped THEN [services[q] EXCEPT !.status = "STOPPED", !.billed = TRUE]
           ELSE services[q]]
      /\ schedule' = Unscheduled(stopped) /\ archived' = archived \cup {s}
      /\ UNCHANGED <<name, requests, configured>>
  BY DEF Archive
<1>2. ASSUME NEW q \in Ids
      PROVE  /\ services'[q] \in Services \cup {None} /\ Served(q)' = Served(q)
             /\ (Active(q)' <=> Active(q) /\ q \notin stopped)
             /\ Served(q) => services'[q].shift = services[q].shift
                             /\ services'[q].name = services[q].name
  <2>1. CASE q \in stopped
    <3>1. services[q] \in Services
      BY <2>1 DEF Active, Served, TypeOK
    <3> DEFINE v == [services[q] EXCEPT !.status = "STOPPED", !.billed = TRUE]
    <3>2. v \in Services /\ v.status = "STOPPED" /\ v.shift = services[q].shift
          /\ v.name = services[q].name
      BY <3>1 DEF Services
    <3>3. services'[q] = v
      BY <2>1, <1>1
    <3> HIDE DEF v
    <3> QED BY <2>1, <3>1, <3>2, <3>3, NoneAssumption DEF Served, Active
  <2>2. CASE q \notin stopped
    <3>1. services'[q] = services[q]
      BY <1>1, <2>2
    <3> QED BY <2>2, <3>1 DEF Served, Active, TypeOK
  <2> QED BY <2>1, <2>2
<1>3. services' \in [Ids -> Services \cup {None}]
  <2>1. services' = [q \in Ids |-> services'[q]]
    BY <1>1
  <2> QED BY <2>1, <1>2
<1>4. schedule' \subseteq schedule /\ \A x \in schedule' : Active(x[2])'
  BY <1>1, <1>2 DEF Linked, TypeOK, Unscheduled
<1>5. Of(s) # {} /\ \A q \in Of(s) : ~Active(q)' /\ ~Pending(q)
  <2>1. \A q \in Of(s) : q \in Ids
    BY DEF Of
  <2> QED BY <2>1, <1>2 DEF Archive, MayArchive
<1> HIDE DEF stopped
<1>6. archived' \subseteq Students
  BY <1>1 DEF TypeOK
<1> QED BY <1>1, <1>2, <1>3, <1>4, <1>5, <1>6, Winding

(* A restored student comes back with nothing.                             *)
LEMMA RestoreInv == ASSUME Inv, NEW s \in Students, Restore(s) PROVE Inv'
<1> USE DEF Inv
<1>1. \A q \in Ids : Served(q)' = Served(q) /\ Active(q)' = Active(q)
  BY DEF Restore, Served, Active
<1>2. \A x \in schedule' : Active(x[2])'
  BY <1>1 DEF Restore, Linked, TypeOK
<1>3. /\ archived' \subseteq archived /\ services' \in [Ids -> Services \cup {None}]
      /\ UNCHANGED <<name, requests, services, configured, schedule>> /\ archived' \subseteq Students
  BY DEF Restore, TypeOK
<1> QED BY <1>1, <1>2, <1>3, Winding

(* Shifts in use stay configured.                                          *)
LEMMA ConfigureInv == ASSUME Inv, NEW shifts \in SUBSET Shifts, Configure(shifts) PROVE Inv'
<1> USE DEF Inv
<1>1. UNCHANGED <<name, archived, requests, services, schedule>> /\ configured' = shifts
  BY DEF Configure
<1>2. TypeOK' /\ Linked' /\ ArchivedNamed' /\ OneClaimPerShift' /\ ArchivedIsIdle' /\ NamesAgree'
  BY <1>1 DEF TypeOK, Linked, ArchivedNamed, OneClaimPerShift, ArchivedIsIdle, NamesAgree, Claims,
              Of, Made, Served, Pending, Active
<1>3. PendingConfigured'
  BY <1>1 DEF Configure, PendingConfigured, Used, Pending, Made
<1> QED BY <1>2, <1>3

(* A schedule takes active services of its route.                          *)
LEMMA SetScheduleInv ==
  ASSUME Inv, NEW r \in Routes, NEW Q \in SUBSET Ids, SetSchedule(r, Q) PROVE Inv'
<1> USE DEF Inv
<1>1. UNCHANGED <<name, archived, requests, services, configured>>
      /\ schedule' = {x \in schedule : x[1] # r} \cup ({r} \X Q)
  BY DEF SetSchedule
<1>2. \A q \in Ids : /\ Made(q)' = Made(q) /\ Served(q)' = Served(q)
                     /\ Pending(q)' = Pending(q) /\ Active(q)' = Active(q)
  BY <1>1 DEF Made, Served, Pending, Active
<1>3. TypeOK'
  BY <1>1 DEF TypeOK
<1>4. OneClaimPerShift' /\ NamesAgree' /\ \A s \in Students : Of(s)' = Of(s)
  BY <1>1, <1>2, <1>3, Leaving
<1>5. Linked'
  <2>1. ASSUME NEW x \in schedule' PROVE Active(x[2])'
    <3>1. CASE x \in schedule
      BY <3>1, <1>2 DEF Linked, TypeOK
    <3>2. CASE x \in {r} \X Q
      BY <3>2, <1>2 DEF SetSchedule
    <3> QED BY <1>1, <3>1, <3>2
  <2> QED BY <2>1, <1>2 DEF Linked
<1>6. ArchivedNamed' /\ PendingConfigured'
  BY <1>1, <1>2 DEF ArchivedNamed, PendingConfigured
<1>7. ArchivedIsIdle'
  <2>1. ASSUME NEW s \in archived, NEW q \in Of(s)
        PROVE  ~Active(q)' /\ ~Pending(q)' /\ \A t \in Routes : <<t, q>> \notin schedule'
    <3>1. ~Active(q) /\ ~Pending(q) /\ q \in Ids
      BY DEF ArchivedIsIdle, Of
    <3>2. ~Active(q)' /\ ~Pending(q)'
      BY <3>1, <1>2
    <3>3. ASSUME NEW t \in Routes, <<t, q>> \in schedule' PROVE FALSE
      BY <3>2, <3>3, <1>5 DEF Linked
    <3> QED BY <3>2, <3>3
  <2> QED BY <2>1, <1>1, <1>4 DEF ArchivedIsIdle, TypeOK
<1> QED BY <1>3, <1>4, <1>5, <1>6, <1>7

-----------------------------------------------------------------------------
(* Nobody claims a shift at first.                                         *)
LEMMA InitInv == Init => Inv
BY DEF Init, Inv, TypeOK, Linked, ArchivedNamed, PendingConfigured, OneClaimPerShift,
       ArchivedIsIdle, NamesAgree, Of, Made, Served, Pending

(* Every step keeps the invariant.                                         *)
LEMMA NextInv == Inv /\ [Next]_vars => Inv'
<1> SUFFICES ASSUME Inv, [Next]_vars PROVE Inv'
  OBVIOUS
<1>1. CASE Entry
  <2>1. PICK q \in Ids, s \in Students, n \in Names, shift \in Shifts, r \in Routes :
          Request(q, s, n, shift, r) \/ \E status \in {"ACTIVE", "STOPPED"} : Enroll(q, s, n, shift, r, status)
    BY <1>1 DEF Entry
  <2>2. CASE Request(q, s, n, shift, r)
    <3> DEFINE request == [status |-> "PENDING", student |-> s, shift |-> shift, route |-> r, name |-> n]
    <3>1. request \in Requests /\ request.student = s /\ request.name = n /\ request.shift = shift
          /\ requests' = [requests EXCEPT ![q] = request]
      BY <2>2 DEF Request, Requests
    <3>2. services' = [services EXCEPT ![q] = None]
      BY <2>2 DEF Inv, Linked, Served, Request, TypeOK
    <3> HIDE DEF request
    <3> QED BY <2>2, <3>1, <3>2, Entering DEF Request
  <2>3. ASSUME NEW status \in {"ACTIVE", "STOPPED"}, Enroll(q, s, n, shift, r, status) PROVE Inv'
    <3> DEFINE request == [status |-> "APPROVED", student |-> s, shift |-> shift, route |-> r, name |-> n]
               service == NewService(request, status)
    <3>1. request \in Requests /\ request.student = s /\ request.name = n /\ request.shift = shift
          /\ request.status # "PENDING" /\ requests' = [requests EXCEPT ![q] = request]
      BY <2>3 DEF Enroll, Requests
    <3>2. service \in Services /\ service.shift = shift /\ service.name = n /\ service.status = status
      BY DEF Services, NewService
    <3>3. services' = [services EXCEPT ![q] = service]
      BY <2>3 DEF Enroll
    <3>4. /\ ~Made(q) /\ Resolves(s, n) /\ shift \in configured
          /\ (status = "ACTIVE" => Available(s, shift, q))
          /\ name' = [name EXCEPT ![s] = n] /\ UNCHANGED <<archived, configured, schedule>>
      BY <2>3 DEF Enroll
    <3> HIDE DEF request, service
    <3> QED BY <3>1, <3>2, <3>3, <3>4, Entering
  <2> QED BY <2>1, <2>2, <2>3
<1>2. CASE Change
  BY <1>2, ApproveInv, RejectInv, BillInv, StopInv, UpdateInv DEF Change
<1>3. CASE Administration
  BY <1>3, ArchiveInv, RestoreInv, ConfigureInv, SetScheduleInv DEF Administration
<1>4. CASE UNCHANGED vars
  BY <1>4 DEF vars, Inv, TypeOK, Linked, ArchivedNamed, PendingConfigured, OneClaimPerShift,
              ArchivedIsIdle, NamesAgree, Claims, Of, Made, Served, Pending, Active
<1> QED BY <1>1, <1>2, <1>3, <1>4 DEF Next

(* The variables keep their types.                                         *)
THEOREM TypeCorrect == Spec => []TypeOK
<1> QED BY InitInv, NextInv, PTL DEF Spec, Inv

(* A student claims a shift once, by whichever of request, approval, entry *)
(* by an admin or edit.                                                    *)
THEOREM OneClaim == Spec => []OneClaimPerShift
<1> QED BY InitInv, NextInv, PTL DEF Spec, Inv

(* Archiving a student leaves nothing of it in operation, and nothing      *)
(* starts again before it is restored.                                     *)
THEOREM ArchivedStaysIdle == Spec => []ArchivedIsIdle
<1> QED BY InitInv, NextInv, PTL DEF Spec, Inv

(* The copies of a name agree with the profile.                            *)
THEOREM NamesStayEqual == Spec => []NamesAgree
<1> QED BY InitInv, NextInv, PTL DEF Spec, Inv

(* Until its review a request can be approved: the checks of the approval  *)
(* only repeat what no other operation lets go wrong.                      *)
THEOREM ApprovableUntilReview == Spec => []PendingStaysApprovable
<1>1. Inv => PendingStaysApprovable
  <2> SUFFICES ASSUME Inv, NEW q \in Ids, Pending(q)
               PROVE  /\ requests[q].student \notin archived
                      /\ requests[q].shift \in configured
                      /\ Available(requests[q].student, requests[q].shift, q)
    BY DEF PendingStaysApprovable
  <2> USE DEF Inv
  <2> DEFINE s == requests[q].student
             shift == requests[q].shift
  <2>1. s \in Students /\ shift \in Shifts /\ q \in Of(s) /\ Claims(q, shift)
    BY DEF TypeOK, Requests, Pending, Made, Of, Claims
  <2>2. s \notin archived /\ shift \in configured
    BY <2>1 DEF ArchivedIsIdle, PendingConfigured
  <2>3. \A p \in Of(s) \ {q} : ~Claims(p, shift)
    BY <2>1 DEF OneClaimPerShift
  <2> HIDE DEF s, shift
  <2>4. Available(s, shift, q)
    BY <2>3 DEF Available, Claims
  <2> QED BY <2>2, <2>4 DEF s, shift
<1> QED BY <1>1, InitInv, NextInv, PTL DEF Spec
=============================================================================
