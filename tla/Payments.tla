------------------------------- MODULE Payments -------------------------------
(***************************************************************************)
(* Monthly bills, payment submissions and the guardians' advance balance   *)
(* (PaymentsService), with the operations of TransportService and          *)
(* ManagementService that end a service and settle its last bill.  Every   *)
(* operation is one serializable database transaction, so one step; what   *)
(* the model explores is the order in which guardians and admins call them *)
(* across the months.                                                      *)
(***************************************************************************)
EXTENDS Integers, FiniteSets, Functions

CONSTANTS
  Guardians, Students, Subs,   \* users, student_profiles, subscriptions
  GuardianOf, StudentOf,       \* the owners of a subscription
  Ids,           \* payment_submissions the guardians may create
  Methods,       \* payment methods with an account ("CREDIT" is not one)
  Numbers,       \* receiving numbers
  Txns,          \* external transaction IDs, up to letter case
  None,          \* SQL NULL, the empty transaction ID, no row
  Fares,         \* monthly fares, in poisha
  Fees,          \* final monthly fees an admin may set
  Amounts,       \* external transfers a guardian may report
  MaxMonth,      \* bound: the last month of a behaviour
  MaxBalance     \* the largest value of the balance column (INTEGER)

Months == 1..MaxMonth
Bills  == Subs \X Months

ASSUME ConstantsOK ==
  /\ GuardianOf \in [Subs -> Guardians] /\ StudentOf \in [Subs -> Students]
  /\ Fares \subseteq Nat \ {0} /\ Amounts \subseteq Nat \ {0} /\ Fees \subseteq Nat
  /\ MaxMonth \in Nat \ {0} /\ MaxBalance \in Nat
  /\ None \notin Nat /\ None \notin Txns /\ "CREDIT" \notin Methods

ASSUME FiniteAssumption == IsFiniteSet(Subs) /\ IsFiniteSet(Ids)

(* Rows of the tables subscriptions, bills and payment_submissions.        *)
SubRows == [status : {"ACTIVE", "STOPPED"}, start : Months, fare : Fares,
            fee : Nat \union {None}, stop : Months \union {None}]
BillRows == [amount : Nat, status : {"UNPAID", "PAID", "WAIVED"}]
SubmissionRows ==
  [bill : Bills, method : Methods \union {"CREDIT"}, txn : Txns \union {None},
   amount : Nat, credit : Nat, status : {"PENDING", "APPROVED", "REJECTED"}]

ASSUME NoneAssumption == None \notin SubRows \union BillRows \union SubmissionRows

VARIABLES
  month,        \* dhakaMonth(), the current month
  subs,         \* subscriptions: status, start month, stop month, fee, fare
  stopRequests, \* subscriptions with a PENDING stop request
  archived,     \* student profiles with archivedAt set
  bills,        \* bills, by subscription and month
  submissions,  \* payment_submissions
  balance,      \* guardian_credit_accounts
  entries,      \* guardian_credit_entries
  recipients,   \* payment_account_history
  inForce       \* history variable: the fares a subscription had in a month

serviceVars == <<subs, stopRequests, archived, inForce>>
moneyVars   == <<bills, submissions, balance, entries, recipients>>
vars        == <<month, serviceVars, moneyVars>>

Init ==
  /\ month = 1
  /\ subs = [s \in Subs |-> None]
  /\ stopRequests = {}
  /\ archived = {}
  /\ bills = [b \in Bills |-> None]
  /\ submissions = [id \in Ids |-> None]
  /\ balance = [g \in Guardians |-> 0]
  /\ entries = {}
  /\ recipients = {}
  /\ inForce = [s \in Subs |-> [m \in Months |-> {}]]

Exists(s)  == subs[s] # None
Active(s)  == Exists(s) /\ subs[s].status = "ACTIVE"
Stopped(s) == Exists(s) /\ subs[s].status = "STOPPED"

Guardian(b) == GuardianOf[b[1]]
Issued(b)   == bills[b] # None
Bill(amount, status) == [amount |-> amount, status |-> status]

Submitted(id)  == submissions[id] # None
Has(id, state) == Submitted(id) /\ submissions[id].status = state
HasPending(b)  == \E id \in Ids : Has(id, "PENDING") /\ submissions[id].bill = b

-------------------------------------------------------------------------------
(* Time and services                                                       *)

NextMonth ==
  /\ month < MaxMonth
  /\ month' = month + 1
  /\ inForce' = [s \in Subs |->
       IF Exists(s) THEN [inForce[s] EXCEPT ![month + 1] = {subs[s].fare}] ELSE inForce[s]]
  /\ UNCHANGED <<subs, stopRequests, archived, moneyVars>>

(* reviewRequest approves an enrollment, saveStudent creates one, even one *)
(* that is already stopped.                                                *)
Subscribe(s, fare, status) ==
  /\ ~Exists(s) /\ StudentOf[s] \notin archived
  /\ subs' = [subs EXCEPT ![s] =
       [status |-> status, start |-> month, fare |-> fare, fee |-> None,
        stop |-> IF status = "STOPPED" THEN month ELSE None]]
  /\ inForce' = [inForce EXCEPT ![s][month] = {fare}]
  /\ UNCHANGED <<month, stopRequests, archived, moneyVars>>

EarlierMonthsBilled(s) == \A m \in subs[s].start..(month - 1) : Issued(<<s, m>>)

CanEditFareAnyTime(s, fare) ==     \* mutation: unbilled months are not looked at
  /\ Active(s) /\ fare # subs[s].fare
  /\ StudentOf[s] \notin archived

CanEditFare(s, fare) ==
  /\ Active(s) /\ fare # subs[s].fare
  /\ StudentOf[s] \notin archived
  /\ EarlierMonthsBilled(s)

EditFare(s, fare) ==
  /\ CanEditFare(s, fare)
  /\ subs' = [subs EXCEPT ![s].fare = fare]
  /\ inForce' = [inForce EXCEPT ![s][month] = @ \union {fare}]
  /\ UNCHANGED <<month, stopRequests, archived, moneyVars>>

RequestStop(s) ==
  /\ Active(s) /\ s \notin stopRequests
  /\ stopRequests' = stopRequests \union {s}
  /\ UNCHANGED <<month, subs, archived, inForce, moneyVars>>

RejectStop(s) ==
  /\ s \in stopRequests
  /\ stopRequests' = stopRequests \ {s}
  /\ UNCHANGED <<month, subs, archived, inForce, moneyVars>>

(* Mutation: a bill under review, or a paid one, is adjusted like any other. *)
CanSettleAny(s, fee) == Active(s)

CanSettlePaid(s, fee) ==           \* mutation: a paid bill is adjusted
  LET b == <<s, month>> IN Active(s) /\ ~HasPending(b)

CanSettle(s, fee) ==
  LET b == <<s, month>>
  IN /\ Active(s)
     /\ ~HasPending(b)
     /\ Issued(b) /\ bills[b].amount # fee => bills[b].status # "PAID"

Settled(s, fee) ==
  [subs[s] EXCEPT !.status = "STOPPED", !.stop = month, !.fee = fee]

(* The bill of the stop month: none, created, unchanged or adjusted.       *)
FinalBill(b, fee) ==
  IF Issued(b)
  THEN IF bills[b].amount = fee
       THEN bills[b]
       ELSE Bill(fee, IF fee = 0 THEN "WAIVED" ELSE "UNPAID")
  ELSE IF fee = 0 THEN None ELSE Bill(fee, "UNPAID")

(* The settlement both ways to stop a service make.                        *)
Settle(s, fee) ==
  /\ CanSettle(s, fee)
  /\ subs' = [subs EXCEPT ![s] = Settled(s, fee)]
  /\ bills' = [bills EXCEPT ![<<s, month>>] = FinalBill(<<s, month>>, fee)]
  /\ stopRequests' = stopRequests \ {s}
  /\ UNCHANGED <<month, archived, inForce, submissions, balance, entries, recipients>>

ApproveStop(s, fee) == s \in stopRequests /\ Settle(s, fee)

(* The admin needs no request; a pending one counts as approved.           *)
StopStudentService(s, fee) == Settle(s, fee)

(* archiveStudent ends every active service at the amount of its bill.     *)
ArchivedFee(s) ==
  IF Issued(<<s, month>>) THEN bills[<<s, month>>].amount ELSE subs[s].fare

Archive(st) ==
  LET ended == {s \in Subs : StudentOf[s] = st /\ Active(s)}
  IN /\ st \notin archived
     /\ \E s \in Subs : StudentOf[s] = st /\ Exists(s)
     /\ archived' = archived \union {st}
     /\ subs' = [s \in Subs |-> IF s \in ended THEN Settled(s, ArchivedFee(s)) ELSE subs[s]]
     /\ bills' = [b \in Bills |->
          IF b[1] \in ended /\ b[2] = month /\ ~Issued(b)
          THEN Bill(subs[b[1]].fare, "UNPAID") ELSE bills[b]]
     /\ stopRequests' = {s \in stopRequests : StudentOf[s] # st}
     /\ UNCHANGED <<month, inForce, submissions, balance, entries, recipients>>

Restore(st) ==
  /\ st \in archived
  /\ archived' = archived \ {st}
  /\ UNCHANGED <<month, subs, stopRequests, inForce, moneyVars>>

-------------------------------------------------------------------------------
(* Bills                                                                   *)

Billable(s, m) ==
  /\ Exists(s) /\ subs[s].start <= m
  /\ subs[s].stop = None \/ (subs[s].stop # None /\ subs[s].stop >= m)

MonthlyCharge(s, m) == subs[s].fare   \* mutation: the final fee is not looked at

Charge(s, m) ==
  IF subs[s].stop = m /\ subs[s].fee # None THEN subs[s].fee ELSE subs[s].fare

GenerateBills(m) ==
  /\ m <= month
  /\ bills' = [b \in Bills |->
       IF b[2] = m /\ Billable(b[1], m) /\ Charge(b[1], m) # 0 /\ ~Issued(b)
       THEN Bill(Charge(b[1], m), "UNPAID") ELSE bills[b]]
  /\ UNCHANGED <<month, serviceVars, submissions, balance, entries, recipients>>

-------------------------------------------------------------------------------
(* The advance balance                                                     *)

(* Mutation: the UPDATE is not conditional on the balance.                 *)
CanChangeUnchecked(g, amount) == TRUE

(* "balance + amount >= 0", the CHECK of the column and its width.         *)
CanChange(g, amount) == balance[g] + amount \in 0..MaxBalance

(* A change of zero does nothing and leaves no journal entry.              *)
changeCredit(b, id, kind, amount) ==
  LET g == Guardian(b)
  IN IF amount = 0
     THEN UNCHANGED <<balance, entries>>
     ELSE /\ CanChange(g, amount)
          /\ balance' = [balance EXCEPT ![g] = @ + amount]
          /\ entries' = entries \union
               {[guardian |-> g, submission |-> id, kind |-> kind, amount |-> amount]}

-------------------------------------------------------------------------------
(* Payments                                                                *)

SetAccount(method, number) ==
  /\ recipients' = recipients \union {<<method, number>>}
  /\ UNCHANGED <<month, serviceVars, bills, submissions, balance, entries>>

FreeAlways(id, method, txn) == TRUE   \* mutation: no unique index on the IDs

(* The unique index reserved_transaction, without the row of id itself.    *)
FreeTxn(id, method, txn) ==
  txn = None \/ \A other \in Ids \ {id} :
    Submitted(other) /\ submissions[other].method = method /\ submissions[other].txn = txn
      => Has(other, "REJECTED")

Insert(id, b, method, txn, amount, credit, status) ==
  /\ ~Submitted(id)
  /\ submissions' = [submissions EXCEPT ![id] =
       [bill |-> b, method |-> method, txn |-> txn, amount |-> amount,
        credit |-> credit, status |-> status]]

PayableTwice(b) == Issued(b) /\ ~HasPending(b) /\ bills[b].status # "WAIVED"   \* mutation

Payable(b) == Issued(b) /\ bills[b].status = "UNPAID" /\ ~HasPending(b)

(* A transfer without a transaction ID carries a picture as evidence.      *)
Submit(id, b, number, method, txn, amount, credit) ==
  /\ Payable(b)
  /\ credit < bills[b].amount /\ amount + credit >= bills[b].amount
  /\ <<method, number>> \in recipients
  /\ FreeTxn(id, method, txn)
  /\ Insert(id, b, method, txn, amount, credit, "PENDING")
  /\ changeCredit(b, id, "RESERVED", -credit)
  /\ UNCHANGED <<month, serviceVars, bills, recipients>>

PayWithCredit(id, b) ==
  /\ Payable(b)
  /\ Insert(id, b, "CREDIT", None, 0, bills[b].amount, "APPROVED")
  /\ changeCredit(b, id, "CREDIT_PAYMENT", -bills[b].amount)
  /\ bills' = [bills EXCEPT ![b].status = "PAID"]
  /\ UNCHANGED <<month, serviceVars, recipients>>

(* A guardian corrects the evidence while the submission waits.            *)
UpdateEvidence(id, txn) ==
  /\ Has(id, "PENDING")
  /\ FreeTxn(id, submissions[id].method, txn)
  /\ submissions' = [submissions EXCEPT ![id].txn = txn]
  /\ UNCHANGED <<month, serviceVars, bills, balance, entries, recipients>>

Extra(id) ==
  LET s == submissions[id] IN s.amount + s.credit - bills[s.bill].amount

Approve(id) ==
  LET b == submissions[id].bill
  IN /\ Has(id, "PENDING")
     /\ bills[b].status = "UNPAID"
     /\ bills' = [bills EXCEPT ![b].status = "PAID"]
     /\ IF Extra(id) > 0
        THEN changeCredit(b, id, "OVERPAYMENT", Extra(id))
        ELSE UNCHANGED <<balance, entries>>
     /\ submissions' = [submissions EXCEPT ![id].status = "APPROVED"]
     /\ UNCHANGED <<month, serviceVars, recipients>>

RejectKeepingCredit(id) ==         \* mutation: the reserved advance is not returned
  /\ Has(id, "PENDING")
  /\ submissions' = [submissions EXCEPT ![id].status = "REJECTED"]
  /\ UNCHANGED <<month, serviceVars, bills, balance, entries, recipients>>

Reject(id) ==
  /\ Has(id, "PENDING")
  /\ changeCredit(submissions[id].bill, id, "RETURNED", submissions[id].credit)
  /\ submissions' = [submissions EXCEPT ![id].status = "REJECTED"]
  /\ UNCHANGED <<month, serviceVars, bills, recipients>>

-------------------------------------------------------------------------------
Service ==
  \/ NextMonth
  \/ \E s \in Subs, fare \in Fares :
       EditFare(s, fare) \/ \E status \in {"ACTIVE", "STOPPED"} : Subscribe(s, fare, status)
  \/ \E s \in Subs : RequestStop(s) \/ RejectStop(s)
  \/ \E s \in Subs, fee \in Fees : ApproveStop(s, fee) \/ StopStudentService(s, fee)
  \/ \E st \in Students : Archive(st) \/ Restore(st)

Payment ==
  \/ \E m \in Months : GenerateBills(m)
  \/ \E method \in Methods, number \in Numbers : SetAccount(method, number)
  \/ \E id \in Ids, b \in Bills : PayWithCredit(id, b)
  \/ \E id \in Ids, b \in Bills, method \in Methods, number \in Numbers,
        txn \in Txns \union {None}, amount \in Amounts, credit \in 0..MaxBalance :
       Submit(id, b, number, method, txn, amount, credit)
  \/ \E id \in Ids, txn \in Txns \union {None} : UpdateEvidence(id, txn)
  \/ \E id \in Ids : Approve(id) \/ Reject(id)

Next == Service \/ Payment

Spec == Init /\ [][Next]_vars

-------------------------------------------------------------------------------
(* Properties                                                              *)

TypeOK ==
  /\ month \in Months
  /\ subs \in [Subs -> {None} \union SubRows]
  /\ stopRequests \subseteq Subs
  /\ archived \subseteq Students
  /\ bills \in [Bills -> {None} \union BillRows]
  /\ submissions \in [Ids -> {None} \union SubmissionRows]
  /\ balance \in [Guardians -> 0..MaxBalance]
  /\ entries \subseteq [guardian : Guardians, submission : Ids, amount : Int,
       kind : {"RESERVED", "RETURNED", "OVERPAYMENT", "CREDIT_PAYMENT"}]
  /\ recipients \subseteq Methods \X Numbers
  /\ inForce \in [Subs -> [Months -> SUBSET Fares]]

(* The account of a guardian: what the approved transfers brought in, what *)
(* the paid bills took, and what waiting submissions hold of the advance.  *)
Of(g, state) == {id \in Ids : Has(id, state) /\ Guardian(submissions[id].bill) = g}
Paid(g) == {b \in Bills : Guardian(b) = g /\ Issued(b) /\ bills[b].status = "PAID"}

Received(g) == SumFunction([id \in Of(g, "APPROVED") |-> submissions[id].amount])
Spent(g)    == SumFunction([b \in Paid(g) |-> bills[b].amount])
Reserved(g) == SumFunction([id \in Of(g, "PENDING") |-> submissions[id].credit])

(* Nothing a guardian has paid in is lost or counted twice: the external   *)
(* transfers an admin approved are the bills paid, the advance reserved by *)
(* submissions under review, and the balance (README.md:119-124).          *)
MoneyConserved ==
  \A g \in Guardians : Received(g) = Spent(g) + Reserved(g) + balance[g]

(* A bill is paid exactly when one submission for it was approved, never   *)
(* two of them, and that one covers the amount of the bill.                *)
Covers(id) == submissions[id].amount + submissions[id].credit >= bills[submissions[id].bill].amount

ApprovedFor(b) == {id \in Ids : Has(id, "APPROVED") /\ submissions[id].bill = b}

PaidOnce ==
  \A b \in Bills :
    /\ \A i, j \in ApprovedFor(b) : i = j
    /\ (Issued(b) /\ bills[b].status = "PAID") <=> ApprovedFor(b) # {}
    /\ \A id \in ApprovedFor(b) : Covers(id)

(* A submission under review can still be approved: its bill is unpaid, no *)
(* other submission for it waits, and it covers the bill without the       *)
(* advance alone being enough.  Stopping a service must not change that.   *)
PendingCovers ==
  \A id \in Ids : Has(id, "PENDING") =>
    LET b == submissions[id].bill
    IN /\ Issued(b) /\ bills[b].status = "UNPAID"
       /\ Covers(id) /\ submissions[id].credit < bills[b].amount
       /\ \A other \in Ids : Has(other, "PENDING") /\ submissions[other].bill = b => other = id

(* One external transfer is never used for two payments, neither by a new  *)
(* submission nor by a correction of the evidence of a waiting one.        *)
TransfersUsedOnce ==
  \A i, j \in Ids :
    /\ i # j
    /\ Submitted(i) /\ Submitted(j)
    /\ submissions[i].txn # None /\ submissions[i].txn = submissions[j].txn
    /\ submissions[i].method = submissions[j].method
    => Has(i, "REJECTED") \/ Has(j, "REJECTED")

(* A bill charges a fare that was in force in its own month, or the final  *)
(* fee of the month the service stopped in, however late it is generated   *)
(* (docs/MANAGEMENT_API.md:127-131).                                       *)
ChargesKeepTheirFare ==
  \A s \in Subs, m \in Months : Issued(<<s, m>>) =>
    \/ bills[<<s, m>>].amount \in inForce[s][m]
    \/ subs[s].stop = m /\ subs[s].fee = bills[<<s, m>>].amount

(* A settled service owes its final fee for the month it stopped in and    *)
(* nothing afterwards, whatever bills are generated later.                 *)
FinalFeeStands ==
  \A s \in Subs : Stopped(s) /\ subs[s].fee # None =>
    LET b == <<s, subs[s].stop>>
    IN /\ subs[s].fee # 0 => Issued(b)
       /\ Issued(b) => /\ bills[b].amount = subs[s].fee
                       /\ (bills[b].status = "WAIVED") <=> (subs[s].fee = 0)
       /\ \A m \in Months : m > subs[s].stop => ~Issued(<<s, m>>)

(* What is settled stays so: a paid or waived bill and a decided           *)
(* submission never change again, and no issued bill disappears.           *)
DecisionsAreFinal ==
  [][/\ \A b \in Bills : Issued(b) =>
          /\ bills'[b] # None
          /\ bills[b].status # "UNPAID" => bills'[b] = bills[b]
     /\ \A id \in Ids : Has(id, "APPROVED") \/ Has(id, "REJECTED")
          => submissions'[id] = submissions[id]]_vars
===============================================================================
