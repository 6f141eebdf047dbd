----------------------------- MODULE Enrollment -----------------------------
(***************************************************************************)
(* Enrollment of the students of one guardian in transport shifts: the     *)
(* requests of the guardian and their review (transport.service.ts), the   *)
(* enrollments an admin enters, edits, stops and archives, the shifts the  *)
(* business has configured and the schedules of the routes                 *)
(* (management.service.ts).                                                *)
(*                                                                         *)
(* Each operation is one SERIALIZABLE transaction, hence one step; one     *)
(* that meets a condition of the code that refuses it changes nothing and  *)
(* is a step that is not enabled.  Money is the subject of Payments: here  *)
(* a service only has a bill or has none.  A service belongs to the one    *)
(* request it comes from and has its identity.  Names are names up to case *)
(* and outer spaces, which is how an existing student is recognized.       *)
(***************************************************************************)
EXTENDS Naturals, FiniteSets

CONSTANTS Students,   \* student_profiles the guardian may come to have
          Names, Shifts, Routes,
          Ids,        \* requests ever made: a bound
          None

VARIABLES
  name,        \* Student -> name of the profile, None before there is one
  archived,    \* profiles with archivedAt
  requests,    \* service_requests
  services,    \* subscriptions, by the request they come from
  configured,  \* ids in the setting transportShifts
  schedule     \* route_schedules: pairs of a route and a service

vars == <<name, archived, requests, services, configured, schedule>>

Requests == [status : {"PENDING", "APPROVED", "REJECTED"},
             student : Students, shift : Shifts, route : Routes, name : Names]
Services == [status : {"ACTIVE", "STOPPED"},
             shift : Shifts, route : Routes, name : Names, billed : BOOLEAN]

ASSUME NoneAssumption == None \notin Names \cup Requests \cup Services

Init ==
  /\ name = [s \in Students |-> None]
  /\ archived = {}
  /\ requests = [q \in Ids |-> None]
  /\ services = [q \in Ids |-> None]
  /\ configured = Shifts
  /\ schedule = {}

Made(q) == requests[q] # None
Served(q) == services[q] # None
Pending(q) == Made(q) /\ requests[q].status = "PENDING"
Active(q) == Served(q) /\ services[q].status = "ACTIVE"
Of(s) == {q \in Ids : Made(q) /\ requests[q].student = s}

(* Mutation: only services in operation claim a shift.                     *)
AvailableIfNotActive(s, shift, q) ==
  \A p \in Of(s) \ {q} : ~(Active(p) /\ services[p].shift = shift)
(* No other request or service of the student claims the shift.            *)
Available(s, shift, q) ==
  \A p \in Of(s) \ {q} :
    /\ ~(Active(p) /\ services[p].shift = shift)
    /\ ~(Pending(p) /\ requests[p].shift = shift)

(* The student of an enrollment: one the guardian has, selected by id, or  *)
(* by name when none of its services or requests is open, which allows no  *)
(* more; or a new one, if no student bears the name.                       *)
Resolves(s, n) ==
  \/ name[s] = n /\ s \notin archived
  \/ name[s] = None /\ \A t \in Students : name[t] # n

NewService(request, status) ==
  [status |-> status, shift |-> request.shift, route |-> request.route,
   name |-> request.name, billed |-> FALSE]

-----------------------------------------------------------------------------
(* The guardian asks for a shift.                                          *)
Request(q, s, n, shift, r) ==
  /\ ~Made(q)
  /\ Resolves(s, n)
  /\ shift \in configured
  /\ Available(s, shift, q)
  /\ name' = [name EXCEPT ![s] = n]
  /\ requests' = [requests EXCEPT ![q] =
       [status |-> "PENDING", student |-> s, shift |-> shift, route |-> r, name |-> n]]
  /\ UNCHANGED <<archived, services, configured, schedule>>

(* An admin decides; approving checks the claim and the shift once more.   *)
Approve(q) ==
  /\ Pending(q)
  /\ Available(requests[q].student, requests[q].shift, q)
  /\ requests[q].shift \in configured
  /\ requests' = [requests EXCEPT ![q].status = "APPROVED"]
  /\ services' = [services EXCEPT ![q] = NewService(requests[q], "ACTIVE")]
  /\ UNCHANGED <<name, archived, configured, schedule>>

Reject(q) ==
  /\ Pending(q)
  /\ requests' = [requests EXCEPT ![q].status = "REJECTED"]
  /\ UNCHANGED <<name, archived, services, configured, schedule>>

-----------------------------------------------------------------------------
(* An admin enters an enrollment, possibly of a service that has ended.    *)
Enroll(q, s, n, shift, r, status) ==
  /\ ~Made(q)
  /\ Resolves(s, n)
  /\ shift \in configured
  /\ status = "ACTIVE" => Available(s, shift, q)
  /\ name' = [name EXCEPT ![s] = n]
  /\ LET request == [status |-> "APPROVED", student |-> s, shift |-> shift,
                     route |-> r, name |-> n]
     IN /\ requests' = [requests EXCEPT ![q] = request]
        /\ services' = [services EXCEPT ![q] = NewService(request, status)]
  /\ UNCHANGED <<archived, configured, schedule>>

(* Mutation: the requests of a student keep the name they were made with.  *)
RequestsKeepNames(s, n) == requests
(* A new name goes to every request of the student.                        *)
RequestsRenamed(s, n) ==
  [p \in Ids |-> IF p \in Of(s) THEN [requests[p] EXCEPT !.name = n] ELSE requests[p]]

(* An admin edits an enrollment.  Only a service in operation without a    *)
(* bill may move to another shift; the name belongs to the student.        *)
Update(q, n, shift, r) ==
  LET s == requests[q].student
  IN /\ Served(q)
     /\ s \notin archived
     /\ shift \in configured
     /\ shift # services[q].shift => Active(q) /\ ~services[q].billed
     /\ Active(q) => Available(s, shift, q)
     /\ name' = [name EXCEPT ![s] = n]
     /\ requests' = RequestsRenamed(s, n)
     /\ services' = [p \in Ids |->
          IF p = q THEN [services[p] EXCEPT !.name = n, !.shift = shift, !.route = r]
          ELSE IF p \in Of(s) /\ Served(p) THEN [services[p] EXCEPT !.name = n]
          ELSE services[p]]
     /\ UNCHANGED <<archived, configured, schedule>>

(* A bill is generated for a service in operation.                         *)
Bill(q) ==
  /\ Active(q)
  /\ services' = [services EXCEPT ![q].billed = TRUE]
  /\ UNCHANGED <<name, archived, requests, configured, schedule>>

Unscheduled(Q) == {x \in schedule : x[2] \notin Q}

(* A service is stopped, directly or by approving a request to stop, with  *)
(* a bill unless it had none and the final fee is zero.                    *)
Stop(q) ==
  /\ Active(q)
  /\ \E billed \in {services[q].billed, TRUE} :
       services' = [services EXCEPT ![q].status = "STOPPED", ![q].billed = billed]
  /\ schedule' = Unscheduled({q})
  /\ UNCHANGED <<name, archived, requests, configured>>

(* Mutation: a student is archived with its requests still open.           *)
MayArchiveAny(s) == s \notin archived
(* Pending requests have to be reviewed first.                             *)
MayArchive(s) == s \notin archived /\ \A q \in Of(s) : ~Pending(q)

(* Archiving stops every service of the student, with a bill each.         *)
Archive(s) ==
  /\ \E q \in Of(s) : Served(q)
  /\ MayArchive(s)
  /\ archived' = archived \cup {s}
  /\ LET stopped == {q \in Of(s) : Active(q)}
     IN /\ services' = [q \in Ids |->
             IF q \in stopped
             THEN [services[q] EXCEPT !.status = "STOPPED", !.billed = TRUE]
             ELSE services[q]]
        /\ schedule' = Unscheduled(stopped)
  /\ UNCHANGED <<name, requests, configured>>

Restore(s) ==
  /\ s \in archived
  /\ archived' = archived \ {s}
  /\ UNCHANGED <<name, requests, services, configured, schedule>>

-----------------------------------------------------------------------------
(* Mutation: the shifts of requests are not looked at.                     *)
UsedByServices == {services[q].shift : q \in {p \in Ids : Served(p)}}
(* The shifts some service or request refers to, whatever its status.      *)
Used == {services[q].shift : q \in {p \in Ids : Served(p)}}
          \cup {requests[q].shift : q \in {p \in Ids : Made(p)}}

(* The configured shifts are replaced, those in use stay.                  *)
Configure(shifts) ==
  /\ shifts # {} /\ Used \subseteq shifts
  /\ configured' = shifts
  /\ UNCHANGED <<name, archived, requests, services, schedule>>

(* The schedule of a route is replaced; it lists services on this route.   *)
SetSchedule(r, Q) ==
  /\ \A q \in Q : Active(q) /\ services[q].route = r
  /\ schedule' = {x \in schedule : x[1] # r} \cup ({r} \X Q)
  /\ UNCHANGED <<name, archived, requests, services, configured>>

-----------------------------------------------------------------------------
Entry == \E q \in Ids, s \in Students, n \in Names, shift \in Shifts, r \in Routes :
  \/ Request(q, s, n, shift, r)
  \/ \E status \in {"ACTIVE", "STOPPED"} : Enroll(q, s, n, shift, r, status)

Change == \E q \in Ids :
  \/ Approve(q) \/ Reject(q) \/ Bill(q) \/ Stop(q)
  \/ \E n \in Names, shift \in Shifts, r \in Routes : Update(q, n, shift, r)

Administration ==
  \/ \E s \in Students : Archive(s) \/ Restore(s)
  \/ \E shifts \in SUBSET Shifts : Configure(shifts)
  \/ \E r \in Routes, Q \in SUBSET Ids : SetSchedule(r, Q)

Next == Entry \/ Change \/ Administration

Spec == Init /\ [][Next]_vars

-----------------------------------------------------------------------------
TypeOK ==
  /\ name \in [Students -> Names \cup {None}]
  /\ archived \subseteq Students
  /\ requests \in [Ids -> Requests \cup {None}]
  /\ services \in [Ids -> Services \cup {None}]
  /\ configured \subseteq Shifts
  /\ schedule \subseteq Routes \X Ids

(* A student has one pending request or active service in a shift, not     *)
(* both and not two (docs/MANAGEMENT_API.md:170), by whichever of request, *)
(* approval, entry by an admin or edit it got there.                       *)
Claims(q, shift) ==
  \/ Pending(q) /\ requests[q].shift = shift
  \/ Active(q) /\ services[q].shift = shift

OneClaimPerShift ==
  \A s \in Students, shift \in Shifts : \A p, q \in Of(s) :
    Claims(p, shift) /\ Claims(q, shift) => p = q

(* An archived student takes no part: it has no service in operation, no   *)
(* request that could start one, and no place in the schedule of a route.  *)
ArchivedIsIdle ==
  \A s \in archived : \A q \in Of(s) :
    ~Active(q) /\ ~Pending(q) /\ \A r \in Routes : <<r, q>> \notin schedule

(* A request that waits for its review can be approved: its student has    *)
(* not been archived, its shift has not been removed, and nobody else took *)
(* the shift meanwhile.                                                    *)
PendingStaysApprovable ==
  \A q \in Ids : Pending(q) =>
    /\ requests[q].student \notin archived
    /\ requests[q].shift \in configured
    /\ Available(requests[q].student, requests[q].shift, q)

(* The copies of a student's name in its requests and services agree with  *)
(* the profile, across renames before and after an approval.               *)
NamesAgree ==
  \A s \in Students : \A q \in Of(s) :
    requests[q].name = name[s] /\ (Served(q) => services[q].name = name[s])

=============================================================================
