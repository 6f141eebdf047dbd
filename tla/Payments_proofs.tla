---------------------------- MODULE Payments_proofs ----------------------------
(***************************************************************************)
(* Theorems about Payments for any number of guardians, services, months   *)
(* and submissions: types, what a bill charges, what a stopped service     *)
(* owes, how bills and submissions go together, and that no money is lost. *)
(***************************************************************************)
EXTENDS Payments, FiniteSetTheorems, TLAPS

-------------------------------------------------------------------------------
(* The inductive invariant.  ServiceInv speaks of one service at a time:   *)
(* bills belong to months up to the present one, unbilled months still     *)
(* know the fare, only a stopped service has a waived bill.  PaymentInv    *)
(* relates bills and submissions.                                          *)

Kinds == {"RESERVED", "RETURNED", "OVERPAYMENT", "CREDIT_PAYMENT"}

ServiceTypes ==
  /\ month \in Months
  /\ subs \in [Subs -> {None} \union SubRows]
  /\ stopRequests \subseteq Subs
  /\ archived \subseteq Students
  /\ bills \in [Bills -> {None} \union BillRows]
  /\ inForce \in [Subs -> [Months -> SUBSET Fares]]

PaymentTypes ==
  /\ submissions \in [Ids -> {None} \union SubmissionRows]
  /\ balance \in [Guardians -> 0..MaxBalance]
  /\ entries \subseteq [guardian : Guardians, submission : Ids, amount : Int, kind : Kinds]
  /\ recipients \subseteq Methods \X Numbers

Terms(s) ==
  Exists(s) =>
    /\ subs[s].start <= month
    /\ subs[s].status = "ACTIVE" => subs[s].stop = None /\ subs[s].fee = None
    /\ subs[s].status = "STOPPED" => subs[s].stop \in Months

Known(s, m) ==
  Issued(<<s, m>>) =>
    /\ Exists(s) /\ m <= month
    /\ (bills[<<s, m>>].status = "WAIVED") <=> (bills[<<s, m>>].amount = 0)
    /\ bills[<<s, m>>].status = "WAIVED" => Stopped(s)

FareKept(s, m) ==
  Exists(s) /\ subs[s].start <= m /\ m <= month /\ ~Issued(<<s, m>>) =>
    subs[s].fare \in inForce[s][m]

Charged(s, m) ==
  Issued(<<s, m>>) =>
    \/ bills[<<s, m>>].amount \in inForce[s][m]
    \/ subs[s].stop = m /\ subs[s].fee = bills[<<s, m>>].amount

(* FinalFeeStands for one service.                                         *)
FeeStands(s) ==
  Stopped(s) /\ subs[s].fee # None =>
    /\ subs[s].fee # 0 => Issued(<<s, subs[s].stop>>)
    /\ Issued(<<s, subs[s].stop>>) =>
         /\ bills[<<s, subs[s].stop>>].amount = subs[s].fee
         /\ (bills[<<s, subs[s].stop>>].status = "WAIVED") <=> (subs[s].fee = 0)
    /\ \A m \in Months : m > subs[s].stop => ~Issued(<<s, m>>)

Service1(s) ==
  /\ Terms(s) /\ FeeStands(s)
  /\ \A m \in Months : Known(s, m) /\ FareKept(s, m) /\ Charged(s, m)

ServiceInv == ServiceTypes /\ \A s \in Subs : Service1(s)
PaymentInv == PaymentTypes /\ PendingCovers /\ PaidOnce /\ TransfersUsedOnce

Inv == ServiceInv /\ PaymentInv

(* There are no services, bills or submissions at first.                   *)
LEMMA InitInv == Init => Inv
<1> SUFFICES ASSUME Init PROVE Inv
  OBVIOUS
<1>1. ServiceTypes /\ PaymentTypes
  BY ConstantsOK DEF Init, ServiceTypes, PaymentTypes, Months
<1>2. \A s \in Subs : ~Exists(s) /\ \A m \in Months : ~Issued(<<s, m>>)
  BY DEF Init, Exists, Issued, Bills
<1>3. \A b \in Bills : ~Issued(b)
  BY DEF Init, Issued
<1>4. \A id \in Ids : ~Submitted(id)
  BY DEF Init, Submitted
<1>5. \A s \in Subs : Service1(s)
  BY <1>2 DEF Service1, Terms, FeeStands, Stopped, Known, FareKept, Charged
<1>6. PendingCovers /\ TransfersUsedOnce
  BY <1>4 DEF PendingCovers, TransfersUsedOnce, Has
<1>7. PaidOnce
  BY <1>3, <1>4 DEF PaidOnce, ApprovedFor, Has
<1> QED BY <1>1, <1>5, <1>6, <1>7 DEF Inv, ServiceInv, PaymentInv

-------------------------------------------------------------------------------
(* One service                                                             *)

(* What a row of a table can be.                                           *)
LEMMA Rows ==
  ASSUME ServiceTypes
  PROVE  /\ month \in Nat
         /\ \A m \in Months : m \in Nat
         /\ \A s \in Subs : Exists(s) => subs[s] \in SubRows
         /\ \A s \in Subs, m \in Months : <<s, m>> \in Bills
         /\ \A b \in Bills : Issued(b) => bills[b] \in BillRows
BY ConstantsOK DEF ServiceTypes, Exists, Issued, Bills, Months

(* A service that a step does not concern.                                 *)
LEMMA SameService ==
  ASSUME NEW s \in Subs, Service1(s), month' = month, subs'[s] = subs[s],
         inForce'[s] = inForce[s], \A m \in Months : bills'[<<s, m>>] = bills[<<s, m>>]
  PROVE  Service1(s)'
<1>1. /\ Exists(s)' <=> Exists(s)
      /\ Stopped(s)' <=> Stopped(s)
      /\ \A m \in Months : Issued(<<s, m>>)' <=> Issued(<<s, m>>)
  BY DEF Exists, Stopped, Issued
<1>2. Terms(s)' /\ \A m \in Months : Known(s, m)' /\ FareKept(s, m)' /\ Charged(s, m)'
  BY <1>1 DEF Service1, Terms, Known, FareKept, Charged
<1>3. FeeStands(s)'
  <2>1. Stopped(s) => subs[s].stop \in Months
    BY <1>1 DEF Service1, Terms, Stopped, Exists
  <2> QED BY <1>1, <2>1 DEF Service1, FeeStands, Issued
<1> QED BY <1>2, <1>3 DEF Service1

(* In a new month every service has the fare it has now.                   *)
LEMMA NextMonthInv == ServiceInv /\ NextMonth => ServiceInv'
<1> SUFFICES ASSUME ServiceInv, NextMonth PROVE ServiceInv'
  OBVIOUS
<1>1. /\ month' = month + 1 /\ month + 1 \in Months /\ UNCHANGED <<subs, stopRequests, archived, bills>>
      /\ \A m \in Months : m \in Nat
      /\ month \in Nat
  BY ConstantsOK DEF NextMonth, moneyVars, ServiceInv, ServiceTypes, Months
<1>2. /\ inForce' \in [Subs -> [Months -> SUBSET Fares]]
      /\ \A s \in Subs : /\ \A m \in Months \ {month + 1} : inForce'[s][m] = inForce[s][m]
                         /\ Exists(s) => inForce'[s][month + 1] = {subs[s].fare}
  <2>1. \A s \in Subs : Exists(s) => subs[s].fare \in Fares
    BY DEF ServiceInv, ServiceTypes, Exists, SubRows
  <2> QED BY <1>1, <2>1 DEF NextMonth, ServiceInv, ServiceTypes
<1>3. ASSUME NEW s \in Subs PROVE Service1(s)'
  <2>1. Service1(s) /\ (Exists(s)' <=> Exists(s)) /\ (Stopped(s)' <=> Stopped(s))
        /\ \A m \in Months : Issued(<<s, m>>)' <=> Issued(<<s, m>>)
    BY <1>1 DEF ServiceInv, Exists, Stopped, Issued
  <2>2. Exists(s) => subs[s].start \in Nat
    BY ConstantsOK DEF ServiceInv, ServiceTypes, Exists, SubRows, Months
  <2>3. Terms(s)' /\ FeeStands(s)' /\ \A m \in Months : Known(s, m)'
    BY <1>1, <2>1, <2>2 DEF Service1, Terms, FeeStands, Stopped, Exists, Known, Issued
  <2>4. ASSUME NEW m \in Months PROVE FareKept(s, m)' /\ Charged(s, m)'
    <3>1. CASE m = month + 1
      <4>1. ~Issued(<<s, m>>)
        BY <1>1, <2>1, <3>1 DEF Service1, Known
      <4> QED BY <1>1, <1>2, <2>1, <3>1, <4>1 DEF FareKept, Charged
    <3>2. CASE m # month + 1
      <4>1. (m <= month + 1 => m <= month) /\ inForce'[s][m] = inForce[s][m]
        BY <1>1, <1>2, <3>2
      <4>2. FareKept(s, m)'
        BY <1>1, <2>1, <4>1 DEF Service1, FareKept
      <4>3. Charged(s, m)'
        BY <1>1, <2>1, <4>1 DEF Service1, Charged
      <4> QED BY <4>2, <4>3
    <3> QED BY <3>1, <3>2
  <2> QED BY <2>3, <2>4 DEF Service1
<1> QED BY <1>1, <1>2, <1>3 DEF ServiceInv, ServiceTypes

(* A new service starts in this month.                                     *)
LEMMA SubscribeInv ==
  ASSUME ServiceInv, NEW t \in Subs, NEW fare \in Fares, NEW status \in {"ACTIVE", "STOPPED"},
         Subscribe(t, fare, status)
  PROVE  ServiceInv'
<1> DEFINE row == [status |-> status, start |-> month, fare |-> fare, fee |-> None,
                   stop |-> IF status = "STOPPED" THEN month ELSE None]
<1>1. /\ ~Exists(t) /\ subs' = [subs EXCEPT ![t] = row]
      /\ inForce' = [inForce EXCEPT ![t][month] = {fare}]
      /\ UNCHANGED <<month, stopRequests, archived, bills>>
  BY DEF Subscribe, moneyVars
<1>2. month \in Months /\ month \in Nat
  BY Rows DEF ServiceInv, ServiceTypes
<1>3. /\ row \in SubRows /\ row.status = status /\ row.start = month /\ row.fare = fare
      /\ row.fee = None /\ row.stop = IF status = "STOPPED" THEN month ELSE None
  BY <1>2 DEF SubRows
<1> HIDE DEF row
<1>4. ServiceTypes'
  BY <1>1, <1>2, <1>3 DEF ServiceInv, ServiceTypes
<1>5. ASSUME NEW s \in Subs PROVE Service1(s)'
  <2>1. CASE s # t
    BY <1>1, <1>2, <2>1, SameService DEF ServiceInv, ServiceTypes
  <2>2. CASE s = t
    <3>1. /\ subs'[t] = row /\ inForce'[t][month] = {fare} /\ row # None
          /\ \A m \in Months : ~Issued(<<t, m>>)
      BY <1>1, <1>2, <1>3, NoneAssumption DEF ServiceInv, ServiceTypes, Service1, Known
    <3>2. \A m \in Months : ~Issued(<<t, m>>)'
      BY <1>1, <3>1 DEF Issued
    <3>3. Terms(t)' /\ FeeStands(t)'
      BY <1>1, <1>2, <1>3, <3>1 DEF Terms, FeeStands
    <3>4. ASSUME NEW m \in Months PROVE Known(t, m)' /\ FareKept(t, m)' /\ Charged(t, m)'
      <4>1. m \in Nat
        BY Rows DEF ServiceInv
      <4> QED BY <1>1, <1>2, <1>3, <3>1, <3>2, <4>1 DEF Known, FareKept, Charged
    <3> QED BY <2>2, <3>3, <3>4 DEF Service1
  <2> QED BY <2>1, <2>2
<1> QED BY <1>4, <1>5 DEF ServiceInv

(* The fare changes only when all months before this one are billed.       *)
LEMMA EditFareInv ==
  ASSUME ServiceInv, NEW t \in Subs, NEW fare \in Fares, EditFare(t, fare)
  PROVE  ServiceInv'
<1> DEFINE row == [subs[t] EXCEPT !.fare = fare]
<1>1. /\ Active(t) /\ EarlierMonthsBilled(t) /\ subs' = [subs EXCEPT ![t] = row]
      /\ inForce' = [inForce EXCEPT ![t][month] = @ \union {fare}]
      /\ UNCHANGED <<month, stopRequests, archived, bills>>
  BY DEF EditFare, CanEditFare, moneyVars
<1>2. /\ month \in Months /\ month \in Nat /\ subs[t] \in SubRows
      /\ \A m \in Months : m \in Nat
  BY <1>1, Rows DEF ServiceInv, ServiceTypes, Active
<1>3. /\ row \in SubRows /\ row.status = subs[t].status /\ row.start = subs[t].start /\ row.fare = fare
      /\ row.fee = subs[t].fee /\ row.stop = subs[t].stop
  BY <1>2 DEF SubRows
<1> HIDE DEF row
<1>4. ServiceTypes'
  BY <1>1, <1>2, <1>3 DEF ServiceInv, ServiceTypes
<1>5. ASSUME NEW s \in Subs PROVE Service1(s)'
  <2>1. CASE s # t
    BY <1>1, <1>2, <2>1, SameService DEF ServiceInv, ServiceTypes
  <2>2. CASE s = t
    <3>1. /\ subs'[t] = row /\ row # None
          /\ inForce'[t][month] = inForce[t][month] \union {fare}
          /\ \A m \in Months : inForce[t][m] \subseteq inForce'[t][m]
      BY <1>1, <1>2, <1>3, NoneAssumption DEF ServiceInv, ServiceTypes
    <3>2. /\ Service1(t) /\ Exists(t) /\ Exists(t)' /\ ~Stopped(t) /\ ~Stopped(t)'
          /\ \A m \in Months : Issued(<<t, m>>)' <=> Issued(<<t, m>>)
      BY <1>1, <1>3, <3>1 DEF ServiceInv, Active, Exists, Stopped, Issued
    <3>3. Terms(t)' /\ FeeStands(t)'
      BY <1>1, <1>3, <3>1, <3>2 DEF Service1, Terms, FeeStands
    <3>4. ASSUME NEW m \in Months PROVE Known(t, m)' /\ FareKept(t, m)' /\ Charged(t, m)'
      <4>1. subs[t].start \in Nat /\ m \in Nat
        BY <1>2 DEF SubRows, Months
      <4>2. subs[t].start <= m /\ m <= month /\ ~Issued(<<t, m>>) => m = month
        <5>1. subs[t].start <= m /\ m < month => m \in subs[t].start..(month - 1)
          BY <1>2, <4>1
        <5> QED BY <1>1, <1>2, <4>1, <5>1 DEF EarlierMonthsBilled
      <4>3. Known(t, m)' /\ Charged(t, m)'
        BY <1>1, <1>3, <3>1, <3>2 DEF Service1, Known, Charged
      <4>4. FareKept(t, m)'
        BY <1>1, <1>3, <3>1, <3>2, <4>2 DEF FareKept
      <4> QED BY <4>3, <4>4
    <3> QED BY <2>2, <3>3, <3>4 DEF Service1
  <2> QED BY <2>1, <2>2
<1> QED BY <1>4, <1>5 DEF ServiceInv

(* A service that ends, one way or another, with this fee.                 *)
LEMMA EndedService ==
  ASSUME ServiceTypes, NEW s \in Subs, Service1(s), Active(s), NEW fee \in Nat,
         subs'[s] = Settled(s, fee), month' = month, inForce'[s] = inForce[s],
         bills'[<<s, month>>] = FinalBill(<<s, month>>, fee),
         \A m \in Months \ {month} : bills'[<<s, m>>] = bills[<<s, m>>]
  PROVE  Service1(s)' /\ subs'[s] \in SubRows /\ bills'[<<s, month>>] \in BillRows \union {None}
<1> DEFINE bill == bills'[<<s, month>>]
<1>1. /\ subs[s] \in SubRows /\ month \in Months /\ month \in Nat /\ <<s, month>> \in Bills
      /\ \A m \in Months : m \in Nat
  BY Rows DEF Active, ServiceTypes
<1>2. /\ subs'[s] \in SubRows /\ subs'[s] # None /\ subs'[s].status = "STOPPED"
      /\ subs'[s].start = subs[s].start /\ subs'[s].fare = subs[s].fare
      /\ subs'[s].fee = fee /\ subs'[s].stop = month
  <2>1. subs'[s] = [subs[s] EXCEPT !.status = "STOPPED", !.stop = month, !.fee = fee]
    BY DEF Settled
  <2>2. subs'[s] \in SubRows
    BY <1>1, <2>1 DEF SubRows
  <2> QED BY <1>1, <2>1, <2>2, NoneAssumption DEF SubRows
<1>3. /\ bill \in BillRows \union {None}
      /\ bill # None => bill.amount = fee /\ ((bill.status = "WAIVED") <=> (fee = 0))
      /\ fee # 0 \/ Issued(<<s, month>>) => bill # None
  <2>1. CASE Issued(<<s, month>>) /\ bills[<<s, month>>].amount = fee
    <3>1. bill = bills[<<s, month>>] /\ bill # None /\ bill \in BillRows
      BY <1>1, <2>1, Rows DEF FinalBill, Issued
    <3> QED BY <1>1, <2>1, <3>1 DEF Service1, Known
  <2>2. CASE Issued(<<s, month>>) /\ bills[<<s, month>>].amount # fee
    <3>1. bill = [amount |-> fee, status |-> IF fee = 0 THEN "WAIVED" ELSE "UNPAID"]
      BY <2>2 DEF FinalBill, Bill
    <3>2. bill \in BillRows
      BY <3>1 DEF BillRows
    <3> QED BY <3>1, <3>2, NoneAssumption
  <2>3. CASE ~Issued(<<s, month>>) /\ fee # 0
    <3>1. bill = [amount |-> fee, status |-> "UNPAID"]
      BY <2>3 DEF FinalBill, Bill
    <3>2. bill \in BillRows
      BY <3>1 DEF BillRows
    <3> QED BY <2>3, <3>1, <3>2, NoneAssumption
  <2>4. CASE ~Issued(<<s, month>>) /\ fee = 0
    BY <2>4 DEF FinalBill
  <2> QED BY <2>1, <2>2, <2>3, <2>4
<1> HIDE DEF bill
<1>4. /\ Exists(s)' /\ Stopped(s)' /\ ~Stopped(s) /\ Exists(s)
      /\ Issued(<<s, month>>)' <=> bill # None
      /\ \A m \in Months \ {month} : Issued(<<s, m>>)' <=> Issued(<<s, m>>)
  <2>1. bills'[<<s, month>>] # None <=> bill # None
    BY DEF bill
  <2> QED BY <1>2, <2>1 DEF Exists, Stopped, Active, Issued
<1>5. Terms(s)'
  BY <1>1, <1>2, <1>4 DEF Service1, Terms
<1>6. \A m \in Months : Issued(<<s, m>>) => m <= month
  BY DEF Service1, Known
<1>7. FeeStands(s)'
  <2>1. \A m \in Months : m > month => ~Issued(<<s, m>>)'
    BY <1>1, <1>4, <1>6
  <2>2. fee # 0 => Issued(<<s, month>>)'
    BY <1>3, <1>4
  <2>3. Issued(<<s, month>>)' => /\ bills'[<<s, month>>].amount = fee
                                 /\ (bills'[<<s, month>>].status = "WAIVED") <=> (fee = 0)
    BY <1>3, <1>4 DEF bill
  <2> QED BY <1>2, <2>1, <2>2, <2>3 DEF FeeStands, Issued
<1>8. ASSUME NEW m \in Months PROVE Known(s, m)' /\ FareKept(s, m)' /\ Charged(s, m)'
  <2>1. CASE m = month
    <3>1. Known(s, month)'
      BY <1>1, <1>3, <1>4 DEF Known, bill
    <3>2. Charged(s, month)'
      BY <1>2, <1>3, <1>4 DEF Charged, bill
    <3>3. FareKept(s, month)'
      <4>1. Issued(<<s, month>>) => Issued(<<s, month>>)'
        BY <1>3, <1>4
      <4> QED BY <1>1, <1>2, <1>4, <4>1 DEF Service1, FareKept
    <3> QED BY <2>1, <3>1, <3>2, <3>3
  <2>2. CASE m # month
    <3>1. Known(s, m)' /\ FareKept(s, m)'
      BY <1>2, <1>4, <2>2 DEF Service1, Known, FareKept
    <3>2. Charged(s, m)'
      <4>1. subs[s].stop # m
        BY <1>1, <1>4, ConstantsOK DEF Service1, Terms, Active
      <4> QED BY <1>4, <2>2, <4>1 DEF Service1, Charged
    <3> QED BY <3>1, <3>2
  <2> QED BY <2>1, <2>2
<1> QED BY <1>2, <1>3, <1>5, <1>7, <1>8 DEF Service1, bill

(* The part of a bill the service's obligations speak of stays the same.   *)
LEMMA SameCharges ==
  ASSUME NEW s \in Subs, Service1(s), month' = month, subs'[s] = subs[s],
         inForce'[s] = inForce[s],
         \A m \in Months : Issued(<<s, m>>)' <=> Issued(<<s, m>>),
         \A m \in Months : Issued(<<s, m>>) =>
           /\ bills'[<<s, m>>].amount = bills[<<s, m>>].amount
           /\ (bills'[<<s, m>>].status = "WAIVED") <=> (bills[<<s, m>>].status = "WAIVED")
  PROVE  Service1(s)'
<1>1. (Exists(s)' <=> Exists(s)) /\ (Stopped(s)' <=> Stopped(s))
  BY DEF Exists, Stopped
<1>2. Terms(s)' /\ \A m \in Months : Known(s, m)' /\ FareKept(s, m)' /\ Charged(s, m)'
  BY <1>1 DEF Service1, Terms, Known, FareKept, Charged
<1>3. FeeStands(s)'
  <2>1. Stopped(s) => subs[s].stop \in Months
    BY <1>1 DEF Service1, Terms, Stopped, Exists
  <2>2. CASE Stopped(s) /\ subs[s].fee # None
    <3> DEFINE end == subs[s].stop
    <3>1. /\ Issued(<<s, end>>)' <=> Issued(<<s, end>>)
          /\ Issued(<<s, end>>) =>
               /\ bills'[<<s, end>>].amount = bills[<<s, end>>].amount
               /\ (bills'[<<s, end>>].status = "WAIVED") <=> (bills[<<s, end>>].status = "WAIVED")
      BY <2>1, <2>2
    <3>2. subs'[s].stop = end /\ subs'[s].fee = subs[s].fee
      OBVIOUS
    <3>3. FeeStands(s)
      BY DEF Service1
    <3>4. /\ subs[s].fee # 0 => Issued(<<s, end>>)'
          /\ Issued(<<s, end>>)' =>
               /\ bills'[<<s, end>>].amount = subs[s].fee
               /\ (bills'[<<s, end>>].status = "WAIVED") <=> (subs[s].fee = 0)
          /\ \A m \in Months : m > end => ~Issued(<<s, m>>)'
      BY <2>2, <3>1, <3>3 DEF FeeStands
    <3> QED BY <3>2, <3>4 DEF FeeStands, Issued
  <2>3. CASE ~(Stopped(s) /\ subs[s].fee # None)
    BY <1>1, <2>3 DEF FeeStands
  <2> QED BY <2>2, <2>3
<1> QED BY <1>2, <1>3 DEF Service1

-------------------------------------------------------------------------------
(* Bills and submissions                                                   *)

(* DecisionsAreFinal for one step.                                         *)
BillsFinal ==
  \A b \in Bills : Issued(b) =>
    /\ bills'[b] # None
    /\ bills[b].status # "UNPAID" => bills'[b] = bills[b]

SubmissionsFinal ==
  \A id \in Ids : Has(id, "APPROVED") \/ Has(id, "REJECTED")
    => submissions'[id] = submissions[id]

(* The owner's step on a service never touches a bill that is paid or      *)
(* under review, and pays none.                                            *)
LEMMA BillsRevised ==
  ASSUME PaymentInv, UNCHANGED <<submissions, balance, entries, recipients>>,
         \A b \in Bills : HasPending(b) \/ (Issued(b) /\ bills[b].status = "PAID")
           => bills'[b] = bills[b],
         \A b \in Bills : bills'[b] # None /\ bills'[b].status = "PAID"
           => bills'[b] = bills[b]
  PROVE  PaymentInv' /\ SubmissionsFinal
<1>1. /\ \A id \in Ids : Submitted(id)' <=> Submitted(id)
      /\ \A id \in Ids, state \in {"PENDING", "APPROVED", "REJECTED"} :
           Has(id, state)' <=> Has(id, state)
      /\ \A id \in Ids : Submitted(id) => submissions[id].bill \in Bills
  BY DEF Submitted, Has, PaymentInv, PaymentTypes, SubmissionRows
<1>2. PaymentTypes' /\ TransfersUsedOnce'
  BY <1>1 DEF PaymentInv, PaymentTypes, TransfersUsedOnce
<1>3. PendingCovers'
  <2> SUFFICES ASSUME NEW id \in Ids, Has(id, "PENDING")
               PROVE  LET b == submissions[id].bill
                      IN /\ bills'[b] # None /\ bills'[b].status = "UNPAID"
                         /\ submissions[id].amount + submissions[id].credit >= bills'[b].amount
                         /\ submissions[id].credit < bills'[b].amount
                         /\ \A other \in Ids : Has(other, "PENDING") /\ submissions[other].bill = b
                              => other = id
    BY <1>1 DEF PendingCovers, Covers, Issued
  <2>1. submissions[id].bill \in Bills /\ HasPending(submissions[id].bill)
    BY <1>1 DEF HasPending, Has
  <2>2. bills'[submissions[id].bill] = bills[submissions[id].bill]
    BY <2>1
  <2> QED BY <2>2 DEF PaymentInv, PendingCovers, Covers, Issued
<1>4. PaidOnce'
  <2> SUFFICES ASSUME NEW b \in Bills
               PROVE  /\ \A i, j \in ApprovedFor(b) : i = j
                      /\ (bills'[b] # None /\ bills'[b].status = "PAID") <=> ApprovedFor(b) # {}
                      /\ \A id \in ApprovedFor(b) :
                           submissions[id].amount + submissions[id].credit >= bills'[b].amount
    BY <1>1 DEF PaidOnce, ApprovedFor, Covers, Issued
  <2>1. (bills'[b] # None /\ bills'[b].status = "PAID") <=> (Issued(b) /\ bills[b].status = "PAID")
    BY DEF Issued
  <2>2. /\ \A i, j \in ApprovedFor(b) : i = j
        /\ (Issued(b) /\ bills[b].status = "PAID") <=> ApprovedFor(b) # {}
        /\ \A id \in ApprovedFor(b) :
             submissions[id].amount + submissions[id].credit >= bills[b].amount
    BY DEF PaymentInv, PaidOnce, Covers, ApprovedFor
  <2> QED BY <2>1, <2>2
<1> QED BY <1>2, <1>3, <1>4 DEF PaymentInv, SubmissionsFinal

(* What only adds unpaid bills, or leaves the bills alone.                 *)
LEMMA BillsAdded ==
  ASSUME PaymentInv, UNCHANGED <<submissions, balance, entries, recipients>>,
         \A b \in Bills : bills'[b] = bills[b]
           \/ (~Issued(b) /\ bills'[b].status = "UNPAID")
  PROVE  PaymentInv' /\ SubmissionsFinal /\ BillsFinal
<1>1. \A b \in Bills : HasPending(b) => Issued(b)
  BY DEF HasPending, PaymentInv, PendingCovers
<1>2. \A b \in Bills : HasPending(b) \/ (Issued(b) /\ bills[b].status = "PAID")
        => bills'[b] = bills[b]
  BY <1>1
<1>3. \A b \in Bills : bills'[b] # None /\ bills'[b].status = "PAID" => bills'[b] = bills[b]
  OBVIOUS
<1>4. BillsFinal
  BY DEF BillsFinal, Issued
<1> QED BY <1>2, <1>3, <1>4, BillsRevised

-------------------------------------------------------------------------------
(* The steps on services                                                   *)

(* A settlement changes one service and its bill of this month.            *)
LEMMA SettleInv ==
  ASSUME Inv, NEW t \in Subs, NEW fee \in Fees, Settle(t, fee)
  PROVE  Inv' /\ BillsFinal /\ SubmissionsFinal
<1> DEFINE last == <<t, month>>
<1>1. /\ CanSettle(t, fee) /\ Active(t)
      /\ subs' = [subs EXCEPT ![t] = Settled(t, fee)]
      /\ bills' = [bills EXCEPT ![last] = FinalBill(last, fee)]
      /\ stopRequests' = stopRequests \ {t}
      /\ UNCHANGED <<month, archived, inForce, submissions, balance, entries, recipients>>
  BY DEF Settle, CanSettle
<1>2. ServiceTypes /\ month \in Months /\ last \in Bills /\ fee \in Nat
  BY ConstantsOK, Rows DEF Inv, ServiceInv, ServiceTypes
<1>3. /\ subs'[t] = Settled(t, fee) /\ bills'[last] = FinalBill(last, fee)
      /\ \A b \in Bills \ {last} : bills'[b] = bills[b]
      /\ \A s \in Subs \ {t} : subs'[s] = subs[s]
  BY <1>1, <1>2 DEF ServiceTypes
<1>4. Service1(t)' /\ subs'[t] \in SubRows /\ bills'[last] \in BillRows \union {None}
  BY <1>1, <1>2, <1>3, EndedService, Rows DEF Inv, ServiceInv
<1>5. ServiceTypes'
  BY <1>1, <1>2, <1>3, <1>4 DEF ServiceTypes
<1>6. ASSUME NEW s \in Subs \ {t} PROVE Service1(s)'
  BY <1>1, <1>2, <1>3, SameService, Rows DEF Inv, ServiceInv
<1>7. Issued(last) => bills[last].status # "WAIVED"
  BY <1>1, <1>2 DEF Inv, ServiceInv, Service1, Known, Active, Stopped
<1>8. /\ HasPending(last) \/ (Issued(last) /\ bills[last].status = "PAID")
           => bills'[last] = bills[last]
      /\ bills'[last] # None /\ bills'[last].status = "PAID" => bills'[last] = bills[last]
      /\ Issued(last) => bills'[last] # None
  <2>1. CASE Issued(last) /\ bills[last].amount = fee
    BY <1>3, <2>1 DEF FinalBill, Issued
  <2>2. CASE ~(Issued(last) /\ bills[last].amount = fee)
    <3>1. ~HasPending(last) /\ ~(Issued(last) /\ bills[last].status = "PAID")
      BY <1>1, <2>2 DEF CanSettle
    <3>2. /\ bills'[last] = None \/ bills'[last].status \in {"UNPAID", "WAIVED"}
          /\ Issued(last) => bills'[last] = Bill(fee, IF fee = 0 THEN "WAIVED" ELSE "UNPAID")
      BY <1>3, <2>2 DEF FinalBill, Bill
    <3>3. Bill(fee, IF fee = 0 THEN "WAIVED" ELSE "UNPAID") # None
      BY <1>2, NoneAssumption DEF Bill, BillRows
    <3> QED BY <3>1, <3>2, <3>3
  <2> QED BY <2>1, <2>2
<1>9. BillsFinal
  BY <1>2, <1>3, <1>7, <1>8 DEF BillsFinal, Issued, ServiceTypes, BillRows
<1>10. PaymentInv' /\ SubmissionsFinal
  BY <1>1, <1>3, <1>8, BillsRevised DEF Inv
<1> QED BY <1>4, <1>5, <1>6, <1>9, <1>10 DEF Inv, ServiceInv

(* Archiving settles the services of a student at what is due.             *)
LEMMA ArchiveInv ==
  ASSUME Inv, NEW st \in Students, Archive(st)
  PROVE  Inv' /\ BillsFinal /\ SubmissionsFinal
<1> DEFINE ended == {s \in Subs : StudentOf[s] = st /\ Active(s)}
<1>1. /\ subs' = [s \in Subs |-> IF s \in ended THEN Settled(s, ArchivedFee(s)) ELSE subs[s]]
      /\ bills' = [b \in Bills |->
           IF b[1] \in ended /\ b[2] = month /\ ~Issued(b)
           THEN Bill(subs[b[1]].fare, "UNPAID") ELSE bills[b]]
      /\ stopRequests' = {s \in stopRequests : StudentOf[s] # st}
      /\ archived' = archived \union {st}
      /\ UNCHANGED <<month, inForce, submissions, balance, entries, recipients>>
  BY DEF Archive
<1>2. /\ ServiceTypes /\ month \in Months
      /\ \A s \in Subs, m \in Months : <<s, m>> \in Bills
  BY Rows DEF Inv, ServiceInv, ServiceTypes
<1>3. \A s \in Subs, m \in Months : bills'[<<s, m>>] =
        IF s \in ended /\ m = month /\ ~Issued(<<s, m>>)
        THEN Bill(subs[s].fare, "UNPAID") ELSE bills[<<s, m>>]
  BY <1>1, <1>2
<1>4. ASSUME NEW s \in ended
      PROVE  /\ Service1(s)' /\ subs'[s] \in SubRows
             /\ bills'[<<s, month>>] \in BillRows \union {None}
  <2>1. s \in Subs /\ Active(s) /\ Service1(s) /\ subs[s] \in SubRows
    BY Rows DEF Active, Inv, ServiceInv
  <2>2. subs[s].fare \in Nat /\ subs[s].fare # 0
    BY <2>1, ConstantsOK DEF SubRows
  <2>3. ArchivedFee(s) \in Nat
    BY <1>2, <2>1, <2>2, Rows DEF ArchivedFee, BillRows
  <2>4. bills'[<<s, month>>] = FinalBill(<<s, month>>, ArchivedFee(s))
    BY <1>2, <1>3, <2>1, <2>2 DEF FinalBill, ArchivedFee, Bill
  <2>5. /\ subs'[s] = Settled(s, ArchivedFee(s)) /\ inForce'[s] = inForce[s] /\ month' = month
        /\ \A m \in Months \ {month} : bills'[<<s, m>>] = bills[<<s, m>>]
    BY <1>1, <1>3, <2>1
  <2> QED BY <1>2, <2>1, <2>3, <2>4, <2>5, EndedService
<1>5. ASSUME NEW s \in Subs \ ended PROVE Service1(s)' /\ subs'[s] = subs[s]
  <2>1. subs'[s] = subs[s] /\ \A m \in Months : bills'[<<s, m>>] = bills[<<s, m>>]
    BY <1>1, <1>3
  <2> QED BY <1>1, <2>1, SameService DEF Inv, ServiceInv
<1>6. ServiceTypes'
  <2>1. subs' \in [Subs -> {None} \union SubRows]
    BY <1>1, <1>2, <1>4, <1>5 DEF ServiceTypes
  <2>2. ASSUME NEW b \in Bills PROVE bills'[b] \in {None} \union BillRows
    <3>1. PICK s \in Subs, m \in Months : b = <<s, m>>
      BY DEF Bills
    <3>2. CASE s \in ended /\ m = month
      BY <1>4, <3>1, <3>2
    <3>3. CASE ~(s \in ended /\ m = month)
      BY <1>2, <1>3, <3>1, <3>3 DEF ServiceTypes
    <3> QED BY <3>2, <3>3
  <2>3. bills' \in [Bills -> {None} \union BillRows]
    BY <1>1, <2>2
  <2> QED BY <1>1, <1>2, <2>1, <2>3 DEF ServiceTypes
<1>7. \A b \in Bills : bills'[b] = bills[b] \/ (~Issued(b) /\ bills'[b].status = "UNPAID")
  BY <1>1 DEF Bill
<1>8. PaymentInv' /\ BillsFinal /\ SubmissionsFinal
  BY <1>1, <1>7, BillsAdded DEF Inv
<1> QED BY <1>4, <1>5, <1>6, <1>8 DEF Inv, ServiceInv

(* A bill run charges each service what it owed in that month.             *)
LEMMA GenerateBillsInv ==
  ASSUME Inv, NEW n \in Months, GenerateBills(n)
  PROVE  Inv' /\ BillsFinal /\ SubmissionsFinal
<1> DEFINE New(s) == Billable(s, n) /\ Charge(s, n) # 0 /\ ~Issued(<<s, n>>)
<1>1. /\ n <= month
      /\ bills' = [b \in Bills |->
           IF b[2] = n /\ Billable(b[1], n) /\ Charge(b[1], n) # 0 /\ ~Issued(b)
           THEN Bill(Charge(b[1], n), "UNPAID") ELSE bills[b]]
      /\ UNCHANGED <<month, subs, stopRequests, archived, inForce,
                     submissions, balance, entries, recipients>>
  BY DEF GenerateBills, serviceVars
<1>2. /\ ServiceTypes /\ month \in Months /\ month \in Nat
      /\ \A m \in Months : m \in Nat
      /\ \A s \in Subs, m \in Months : <<s, m>> \in Bills
  BY Rows DEF Inv, ServiceInv, ServiceTypes
<1>3. \A s \in Subs, m \in Months : bills'[<<s, m>>] =
        IF m = n /\ New(s) THEN Bill(Charge(s, n), "UNPAID") ELSE bills[<<s, m>>]
  BY <1>1, <1>2
<1>4. ASSUME NEW s \in Subs, New(s)
      PROVE  /\ Exists(s) /\ subs[s] \in SubRows /\ subs[s].start <= n
             /\ Charge(s, n) \in Nat \ {0}
             /\ Bill(Charge(s, n), "UNPAID") \in BillRows
             /\ Bill(Charge(s, n), "UNPAID") # None
  <2>1. Exists(s) /\ subs[s] \in SubRows /\ subs[s].start <= n
    BY <1>2, <1>4, Rows DEF Billable
  <2>2. Charge(s, n) \in Nat \ {0}
    BY <1>4, <2>1, ConstantsOK DEF Charge, SubRows
  <2>3. Bill(Charge(s, n), "UNPAID") \in BillRows
    BY <2>2 DEF Bill, BillRows
  <2> QED BY <2>1, <2>2, <2>3, NoneAssumption
<1>5. ServiceTypes'
  <2>1. ASSUME NEW b \in Bills PROVE bills'[b] \in {None} \union BillRows
    <3>1. PICK s \in Subs, m \in Months : b = <<s, m>>
      BY DEF Bills
    <3>2. CASE m = n /\ New(s)
      BY <1>3, <1>4, <3>1, <3>2
    <3>3. CASE ~(m = n /\ New(s))
      BY <1>2, <1>3, <3>1, <3>3 DEF ServiceTypes
    <3> QED BY <3>2, <3>3
  <2>2. bills' \in [Bills -> {None} \union BillRows]
    BY <1>1, <2>1
  <2> QED BY <1>1, <1>2, <2>2 DEF ServiceTypes
<1>6. ASSUME NEW s \in Subs PROVE Service1(s)'
  <2>1. CASE ~New(s)
    <3>1. \A m \in Months : bills'[<<s, m>>] = bills[<<s, m>>]
      BY <1>3, <2>1
    <3> QED BY <1>1, <3>1, SameService DEF Inv, ServiceInv
  <2>2. CASE New(s)
    <3>1. /\ Service1(s) /\ Exists(s) /\ subs[s] \in SubRows /\ subs[s].start <= n
          /\ Charge(s, n) \in Nat /\ Charge(s, n) # 0 /\ Billable(s, n) /\ ~Issued(<<s, n>>)
          /\ (Exists(s)' <=> Exists(s)) /\ (Stopped(s)' <=> Stopped(s))
      BY <1>1, <1>4, <2>2 DEF Inv, ServiceInv, Exists, Stopped
    <3>2. /\ Issued(<<s, n>>)' /\ bills'[<<s, n>>].amount = Charge(s, n)
          /\ bills'[<<s, n>>].status = "UNPAID"
          /\ \A m \in Months \ {n} : bills'[<<s, m>>] = bills[<<s, m>>]
          /\ \A m \in Months \ {n} : Issued(<<s, m>>)' <=> Issued(<<s, m>>)
      <4>1. bills'[<<s, n>>] = Bill(Charge(s, n), "UNPAID") /\ bills'[<<s, n>>] # None
        BY <1>3, <1>4, <2>2
      <4>2. \A m \in Months \ {n} : bills'[<<s, m>>] = bills[<<s, m>>]
        BY <1>3
      <4> QED BY <4>1, <4>2 DEF Issued, Bill
    <3>3. Terms(s)'
      BY <1>1, <3>1 DEF Service1, Terms, Exists
    <3>4. ASSUME NEW m \in Months PROVE Known(s, m)' /\ FareKept(s, m)' /\ Charged(s, m)'
      <4>1. CASE m = n
        <5>1. subs[s].fare \in inForce[s][n]
          BY <1>1, <3>1 DEF Service1, FareKept
        <5>2. Charged(s, n)'
          BY <1>1, <3>2, <5>1 DEF Charged, Charge
        <5>3. Known(s, n)' /\ FareKept(s, n)'
          BY <1>1, <3>1, <3>2 DEF Known, FareKept
        <5> QED BY <4>1, <5>2, <5>3
      <4>2. CASE m # n
        BY <1>1, <3>1, <3>2, <4>2 DEF Service1, Known, FareKept, Charged
      <4> QED BY <4>1, <4>2
    <3>5. FeeStands(s)'
      <4> SUFFICES ASSUME Stopped(s), subs[s].fee # None PROVE FeeStands(s)'
        BY <1>1, <3>1 DEF FeeStands
      <4> DEFINE end == subs[s].stop
      <4>1. FeeStands(s) /\ end \in Months /\ end \in Nat /\ end # None
        BY <1>2, <3>1, ConstantsOK DEF Service1, Terms, Stopped
      <4>2. n # end
        BY <3>1, <4>1 DEF FeeStands, Charge
      <4>3. n < end
        <5>1. end >= n
          BY <3>1, <4>1 DEF Billable
        <5>2. n \in Nat /\ end \in Nat
          BY <1>2, <4>1
        <5> HIDE DEF end
        <5> QED BY <4>2, <5>1, <5>2
      <4>4. /\ bills'[<<s, end>>] = bills[<<s, end>>]
            /\ \A m \in Months : m > end => (Issued(<<s, m>>)' <=> Issued(<<s, m>>))
        BY <1>2, <3>2, <4>1, <4>2, <4>3
      <4> QED BY <1>1, <4>1, <4>4 DEF FeeStands, Issued
    <3> QED BY <3>3, <3>4, <3>5 DEF Service1
  <2> QED BY <2>1, <2>2
<1>7. \A b \in Bills : bills'[b] = bills[b] \/ (~Issued(b) /\ bills'[b].status = "UNPAID")
  BY <1>1 DEF Bill
<1>8. PaymentInv' /\ BillsFinal /\ SubmissionsFinal
  BY <1>1, <1>7, BillsAdded DEF Inv
<1> QED BY <1>5, <1>6, <1>8 DEF Inv, ServiceInv

(* The steps on services that issue no bill and leave the bills alone.     *)
LEMMA ServiceStep ==
  ASSUME Inv, Service
  PROVE  Inv' /\ BillsFinal /\ SubmissionsFinal
<1>1. ASSUME ServiceInv', UNCHANGED moneyVars PROVE Inv' /\ BillsFinal /\ SubmissionsFinal
  BY <1>1, BillsAdded DEF Inv, moneyVars
<1>2. CASE NextMonth
  BY <1>1, <1>2, NextMonthInv DEF Inv, NextMonth
<1>3. ASSUME NEW s \in Subs, NEW fare \in Fares, NEW status \in {"ACTIVE", "STOPPED"},
             EditFare(s, fare) \/ Subscribe(s, fare, status)
      PROVE  Inv' /\ BillsFinal /\ SubmissionsFinal
  BY <1>1, <1>3, EditFareInv, SubscribeInv DEF Inv, EditFare, Subscribe
<1>4. ASSUME UNCHANGED <<month, subs, bills, inForce>>, ServiceTypes' PROVE ServiceInv'
  BY <1>4, SameService DEF Inv, ServiceInv
<1>5. ASSUME NEW s \in Subs, RequestStop(s) \/ RejectStop(s) PROVE ServiceInv' /\ UNCHANGED moneyVars
  <2>1. UNCHANGED <<month, subs, bills, inForce, archived>> /\ stopRequests' \subseteq Subs
    BY <1>5 DEF RequestStop, RejectStop, moneyVars, Inv, ServiceInv, ServiceTypes
  <2>2. ServiceTypes'
    BY <2>1 DEF Inv, ServiceInv, ServiceTypes
  <2>3. UNCHANGED moneyVars
    BY <1>5 DEF RequestStop, RejectStop
  <2> QED BY <1>4, <2>1, <2>2, <2>3
<1>6. ASSUME NEW st \in Students, Restore(st) PROVE ServiceInv' /\ UNCHANGED moneyVars
  <2>1. /\ UNCHANGED <<month, subs, bills, inForce, stopRequests>> /\ archived' \subseteq Students
        /\ UNCHANGED moneyVars
    BY <1>6 DEF Restore, moneyVars, Inv, ServiceInv, ServiceTypes
  <2>2. ServiceTypes'
    BY <2>1 DEF Inv, ServiceInv, ServiceTypes
  <2> QED BY <1>4, <2>1, <2>2
<1>7. ASSUME NEW s \in Subs, NEW fee \in Fees, ApproveStop(s, fee) \/ StopStudentService(s, fee)
      PROVE  Inv' /\ BillsFinal /\ SubmissionsFinal
  BY <1>7, SettleInv DEF ApproveStop, StopStudentService
<1>8. CASE \E s \in Subs, fare \in Fares :
             EditFare(s, fare) \/ \E status \in {"ACTIVE", "STOPPED"} : Subscribe(s, fare, status)
  <2>1. PICK s \in Subs, fare \in Fares :
          EditFare(s, fare) \/ \E status \in {"ACTIVE", "STOPPED"} : Subscribe(s, fare, status)
    BY <1>8
  <2>2. CASE EditFare(s, fare)
    BY <1>3, <2>2
  <2>3. CASE \E status \in {"ACTIVE", "STOPPED"} : Subscribe(s, fare, status)
    BY <1>3, <2>3
  <2> QED BY <2>1, <2>2, <2>3
<1>9. CASE \E st \in Students : Archive(st) \/ Restore(st)
  BY <1>1, <1>6, <1>9, ArchiveInv
<1>10. CASE \E s \in Subs : RequestStop(s) \/ RejectStop(s)
  BY <1>1, <1>5, <1>10
<1>11. CASE \E s \in Subs, fee \in Fees : ApproveStop(s, fee) \/ StopStudentService(s, fee)
  BY <1>7, <1>11
<1> QED BY <1>2, <1>8, <1>9, <1>10, <1>11 DEF Service

-------------------------------------------------------------------------------
(* The steps on submissions                                                *)

(* A payment changes a bill only by marking an unpaid one paid.            *)
LEMMA BillsPaid ==
  ASSUME ServiceInv, UNCHANGED month, UNCHANGED serviceVars, NEW b \in Bills,
         \/ bills' = bills
         \/ /\ Issued(b) /\ bills[b].status = "UNPAID"
            /\ bills' = [bills EXCEPT ![b].status = "PAID"]
  PROVE  ServiceInv' /\ BillsFinal
<1>1. CASE bills' = bills
  <2>1. ServiceTypes' /\ BillsFinal
    BY <1>1 DEF serviceVars, ServiceInv, ServiceTypes, BillsFinal, Issued
  <2>2. \A s \in Subs : Service1(s)'
    BY <1>1, SameService DEF serviceVars, ServiceInv
  <2> QED BY <2>1, <2>2 DEF ServiceInv
<1>2. CASE /\ Issued(b) /\ bills[b].status = "UNPAID"
           /\ bills' = [bills EXCEPT ![b].status = "PAID"]
  <2>1. /\ bills[b] \in BillRows /\ bills \in [Bills -> {None} \union BillRows]
        /\ UNCHANGED <<subs, stopRequests, archived, inForce>>
    <3>1. ServiceTypes
      BY DEF ServiceInv
    <3> QED BY <1>2, <3>1, Rows DEF ServiceTypes, serviceVars
  <2>2. /\ bills'[b] = [bills[b] EXCEPT !.status = "PAID"]
        /\ \A c \in Bills \ {b} : bills'[c] = bills[c]
    BY <1>2, <2>1
  <2>3. /\ bills'[b] \in BillRows /\ bills'[b] # None
        /\ bills'[b].amount = bills[b].amount /\ bills'[b].status = "PAID"
    BY <2>1, <2>2, NoneAssumption DEF BillRows
  <2>4. ServiceTypes'
    BY <1>2, <2>1, <2>3 DEF ServiceInv, ServiceTypes
  <2>5. \A c \in Bills : /\ Issued(c)' <=> Issued(c)
                         /\ Issued(c) => /\ bills'[c].amount = bills[c].amount
                                         /\ (bills'[c].status = "WAIVED") <=> (bills[c].status = "WAIVED")
    BY <1>2, <2>2, <2>3 DEF Issued
  <2>6. ASSUME NEW s \in Subs PROVE Service1(s)'
    <3>1. \A m \in Months : <<s, m>> \in Bills
      BY DEF Bills
    <3> QED BY <2>1, <2>5, <3>1, SameCharges DEF ServiceInv
  <2>7. BillsFinal
    BY <1>2, <2>2, <2>3 DEF BillsFinal, Issued
  <2> QED BY <2>4, <2>6, <2>7 DEF ServiceInv
<1> QED BY <1>1, <1>2

(* A change of the advance balance keeps its types.                        *)
LEMMA CreditTypes ==
  ASSUME PaymentTypes, NEW b \in Bills, NEW id \in Ids, NEW kind \in Kinds, NEW amount \in Int,
         changeCredit(b, id, kind, amount)
  PROVE  /\ balance' \in [Guardians -> 0..MaxBalance]
         /\ entries' \subseteq [guardian : Guardians, submission : Ids, amount : Int, kind : Kinds]
<1>1. Guardian(b) \in Guardians
  BY ConstantsOK DEF Guardian, Bills
<1>2. CASE amount = 0
  BY <1>2 DEF changeCredit, PaymentTypes
<1>3. CASE amount # 0
  <2>1. /\ balance[Guardian(b)] + amount \in 0..MaxBalance
        /\ balance' = [balance EXCEPT ![Guardian(b)] = @ + amount]
        /\ entries' = entries \union
             {[guardian |-> Guardian(b), submission |-> id, kind |-> kind, amount |-> amount]}
    BY <1>3 DEF changeCredit, CanChange
  <2> QED BY <1>1, <2>1 DEF PaymentTypes
<1> QED BY <1>2, <1>3

(* A new submission, or new evidence, that respects the index of the       *)
(* transaction IDs.                                                        *)
LEMMA TransfersKept ==
  ASSUME TransfersUsedOnce, NEW id \in Ids,
         \A other \in Ids \ {id} : submissions'[other] = submissions[other],
         \A other \in Ids \ {id} :
           /\ Submitted(id)' /\ Submitted(other)
           /\ submissions'[id].txn # None /\ submissions[other].txn = submissions'[id].txn
           /\ submissions[other].method = submissions'[id].method
           => Has(other, "REJECTED") \/ Has(id, "REJECTED")'
  PROVE  TransfersUsedOnce'
<1>1. \A other \in Ids \ {id} : /\ Submitted(other)' <=> Submitted(other)
                                /\ Has(other, "REJECTED")' <=> Has(other, "REJECTED")
  BY DEF Submitted, Has
<1> SUFFICES ASSUME NEW i \in Ids, NEW j \in Ids, i # j,
                    Submitted(i)', Submitted(j)',
                    submissions'[i].txn # None, submissions'[i].txn = submissions'[j].txn,
                    submissions'[i].method = submissions'[j].method
             PROVE  Has(i, "REJECTED")' \/ Has(j, "REJECTED")'
  BY DEF TransfersUsedOnce
<1>2. CASE i = id
  BY <1>1, <1>2
<1>3. CASE j = id
  BY <1>1, <1>3
<1>4. CASE i # id /\ j # id
  BY <1>1, <1>4 DEF TransfersUsedOnce
<1> QED BY <1>2, <1>3, <1>4

(* One submission is written; the others stay as they are.                 *)
LEMMA OneSubmission ==
  ASSUME PaymentTypes, NEW id \in Ids, NEW row \in SubmissionRows,
         submissions' = [submissions EXCEPT ![id] = row]
  PROVE  /\ submissions' \in [Ids -> {None} \union SubmissionRows]
         /\ submissions'[id] = row /\ Submitted(id)'
         /\ \A state \in {"PENDING", "APPROVED", "REJECTED"} : Has(id, state)' <=> (row.status = state)
         /\ \A other \in Ids \ {id} :
              /\ submissions'[other] = submissions[other]
              /\ Submitted(other)' <=> Submitted(other)
              /\ \A state \in {"PENDING", "APPROVED", "REJECTED"} :
                   Has(other, state)' <=> Has(other, state)
<1>1. submissions' \in [Ids -> {None} \union SubmissionRows]
  BY DEF PaymentTypes
<1>2. submissions'[id] = row /\ row # None
  BY NoneAssumption DEF PaymentTypes
<1>3. \A other \in Ids \ {id} : submissions'[other] = submissions[other]
  BY DEF PaymentTypes
<1> QED BY <1>1, <1>2, <1>3 DEF Submitted, Has

(* A step that approves nothing and leaves the bills alone.                *)
LEMMA NothingPaid ==
  ASSUME PaidOnce, bills' = bills,
         \A i \in Ids : /\ Has(i, "APPROVED")' <=> Has(i, "APPROVED")
                        /\ Has(i, "APPROVED") => submissions'[i] = submissions[i]
  PROVE  PaidOnce'
<1>1. \A b \in Bills : ApprovedFor(b)' = ApprovedFor(b)
  BY DEF ApprovedFor
<1>2. \A b \in Bills : Issued(b)' <=> Issued(b)
  BY DEF Issued
<1>3. \A b \in Bills : \A i \in ApprovedFor(b) : Covers(i)' <=> Covers(i)
  BY DEF ApprovedFor, Covers
<1> QED BY <1>1, <1>2, <1>3 DEF PaidOnce

(* A step after which no other submission is under review than before.     *)
LEMMA NothingNewPending ==
  ASSUME PendingCovers, bills' = bills,
         \A i \in Ids : Has(i, "PENDING")' =>
           /\ Has(i, "PENDING")
           /\ submissions'[i].bill = submissions[i].bill
           /\ submissions'[i].amount = submissions[i].amount
           /\ submissions'[i].credit = submissions[i].credit
  PROVE  PendingCovers'
BY DEF PendingCovers, Covers, Issued

(* A step that pays a bill nobody else waits for by one approved           *)
(* submission that covers it.                                              *)
LEMMA OnePaid ==
  ASSUME Inv, NEW id \in Ids, NEW b \in Bills, NEW row \in SubmissionRows,
         Issued(b), bills[b].status = "UNPAID",
         bills' = [bills EXCEPT ![b].status = "PAID"],
         submissions' = [submissions EXCEPT ![id] = row],
         ~Has(id, "APPROVED"), row.status = "APPROVED", row.bill = b,
         row.amount + row.credit >= bills[b].amount,
         \A other \in Ids \ {id} : ~(Has(other, "PENDING") /\ submissions[other].bill = b)
  PROVE  PendingCovers' /\ PaidOnce'
<1>1. /\ ServiceTypes /\ PaymentTypes /\ PendingCovers /\ PaidOnce
      /\ bills[b] \in BillRows /\ bills \in [Bills -> {None} \union BillRows]
  <2>1. ServiceTypes /\ PaymentTypes /\ PendingCovers /\ PaidOnce
    BY DEF Inv, ServiceInv, PaymentInv
  <2> QED BY <2>1, Rows DEF ServiceTypes
<1>2. /\ bills'[b] \in BillRows /\ bills'[b] # None
      /\ bills'[b].amount = bills[b].amount /\ bills'[b].status = "PAID"
      /\ \A c \in Bills \ {b} : bills'[c] = bills[c]
      /\ \A c \in Bills : Issued(c)' <=> Issued(c)
  <2>1. /\ bills'[b] = [bills[b] EXCEPT !.status = "PAID"]
        /\ \A c \in Bills \ {b} : bills'[c] = bills[c]
    BY <1>1
  <2>2. /\ bills'[b] \in BillRows /\ bills'[b].amount = bills[b].amount /\ bills'[b].status = "PAID"
    BY <1>1, <2>1 DEF BillRows
  <2> QED BY <2>1, <2>2, NoneAssumption DEF Issued
<1>3. /\ submissions'[id] = row /\ ~Has(id, "PENDING")' /\ Has(id, "APPROVED")'
      /\ \A other \in Ids \ {id} :
           /\ submissions'[other] = submissions[other]
           /\ Has(other, "PENDING")' <=> Has(other, "PENDING")
           /\ Has(other, "APPROVED")' <=> Has(other, "APPROVED")
  BY <1>1, OneSubmission
<1>4. \A i \in Ids : Submitted(i) => submissions[i].bill \in Bills
  BY <1>1 DEF PaymentTypes, Submitted, SubmissionRows
<1>5. PendingCovers'
  <2> SUFFICES ASSUME NEW i \in Ids, Has(i, "PENDING")'
               PROVE  LET c == submissions'[i].bill
                      IN /\ bills'[c] # None /\ bills'[c].status = "UNPAID"
                         /\ submissions'[i].amount + submissions'[i].credit >= bills'[c].amount
                         /\ submissions'[i].credit < bills'[c].amount
                         /\ \A other \in Ids : Has(other, "PENDING")' /\ submissions'[other].bill = c
                              => other = i
    BY DEF PendingCovers, Covers, Issued
  <2>1. /\ i # id /\ Has(i, "PENDING") /\ submissions'[i] = submissions[i]
        /\ submissions[i].bill \in Bills \ {b}
    BY <1>3, <1>4 DEF Has
  <2>2. bills'[submissions[i].bill] = bills[submissions[i].bill]
    BY <1>2, <2>1
  <2>3. \A other \in Ids : Has(other, "PENDING")' => Has(other, "PENDING") /\ submissions'[other] = submissions[other]
    BY <1>3
  <2> QED BY <1>1, <2>1, <2>2, <2>3 DEF PendingCovers, Covers, Issued
<1>6. PaidOnce'
  <2>1. ApprovedFor(b) = {}
    BY <1>1 DEF PaidOnce
  <2>2. ApprovedFor(b)' = {id}
    BY <1>3, <2>1 DEF ApprovedFor
  <2>3. Covers(id)'
    BY <1>2, <1>3 DEF Covers
  <2>4. ASSUME NEW c \in Bills \ {b}
        PROVE  /\ ApprovedFor(c)' = ApprovedFor(c)
               /\ \A i \in ApprovedFor(c) : Covers(i)' <=> Covers(i)
    <3>1. id \notin ApprovedFor(c)
      BY DEF ApprovedFor
    <3>2. id \notin ApprovedFor(c)'
      BY <1>3 DEF ApprovedFor
    <3> QED BY <1>2, <1>3, <3>1, <3>2 DEF ApprovedFor, Covers
  <2> QED BY <1>1, <1>2, <2>2, <2>3, <2>4 DEF PaidOnce
<1> QED BY <1>5, <1>6

(* A submission covers a bill nobody else is paying.                       *)
LEMMA SubmitInv ==
  ASSUME Inv, NEW id \in Ids, NEW b \in Bills, NEW method \in Methods, NEW number,
         NEW txn \in Txns \union {None}, NEW amount \in Amounts, NEW credit \in 0..MaxBalance,
         Submit(id, b, number, method, txn, amount, credit)
  PROVE  Inv' /\ BillsFinal /\ SubmissionsFinal
<1> DEFINE row == [bill |-> b, method |-> method, txn |-> txn, amount |-> amount,
                   credit |-> credit, status |-> "PENDING"]
<1>1. /\ Payable(b) /\ credit < bills[b].amount /\ amount + credit >= bills[b].amount
      /\ FreeTxn(id, method, txn) /\ ~Submitted(id)
      /\ submissions' = [submissions EXCEPT ![id] = row]
      /\ changeCredit(b, id, "RESERVED", -credit)
      /\ UNCHANGED month /\ UNCHANGED serviceVars /\ bills' = bills /\ UNCHANGED recipients
  BY DEF Submit, Insert
<1>2. /\ ServiceInv /\ PaymentTypes /\ PendingCovers /\ PaidOnce /\ TransfersUsedOnce
      /\ credit \in Int /\ -credit \in Int
  BY ConstantsOK DEF Inv, PaymentInv
<1>3. /\ row \in SubmissionRows /\ row.bill = b /\ row.amount = amount /\ row.credit = credit
      /\ row.status = "PENDING" /\ row.txn = txn /\ row.method = method
  BY ConstantsOK DEF SubmissionRows
<1> HIDE DEF row
<1>4. /\ submissions' \in [Ids -> {None} \union SubmissionRows] /\ submissions'[id] = row
      /\ \A state \in {"PENDING", "APPROVED", "REJECTED"} :
           /\ Has(id, state)' <=> (row.status = state)
           /\ ~Has(id, state)
      /\ \A other \in Ids \ {id} :
           /\ submissions'[other] = submissions[other]
           /\ Submitted(other)' <=> Submitted(other)
           /\ \A state \in {"PENDING", "APPROVED", "REJECTED"} :
                Has(other, state)' <=> Has(other, state)
  BY <1>1, <1>2, <1>3, OneSubmission DEF Has
<1>5. PaymentTypes'
  BY <1>1, <1>2, <1>4, CreditTypes DEF PaymentTypes, Kinds
<1>6. ServiceInv' /\ BillsFinal
  BY <1>1, <1>2, BillsPaid
<1>7. PendingCovers'
  <2>1. Issued(b) /\ bills[b].status = "UNPAID" /\ \A other \in Ids : ~(Has(other, "PENDING") /\ submissions[other].bill = b)
    BY <1>1 DEF Payable, HasPending
  <2> SUFFICES ASSUME NEW i \in Ids, Has(i, "PENDING")'
               PROVE  LET c == submissions'[i].bill
                      IN /\ Issued(c) /\ bills[c].status = "UNPAID"
                         /\ submissions'[i].amount + submissions'[i].credit >= bills[c].amount
                         /\ submissions'[i].credit < bills[c].amount
                         /\ \A other \in Ids : Has(other, "PENDING")' /\ submissions'[other].bill = c
                              => other = i
    BY <1>1 DEF PendingCovers, Covers, Issued
  <2>2. CASE i = id
    BY <1>1, <1>3, <1>4, <2>1, <2>2
  <2>3. CASE i # id
    <3>1. Has(i, "PENDING") /\ submissions'[i] = submissions[i] /\ submissions[i].bill # b
      BY <1>4, <2>1, <2>3
    <3>2. \A other \in Ids : Has(other, "PENDING")' /\ submissions'[other].bill = submissions[i].bill
            => Has(other, "PENDING") /\ submissions[other].bill = submissions[i].bill
      BY <1>3, <1>4, <3>1
    <3> QED BY <1>2, <3>1, <3>2 DEF PendingCovers, Covers
  <2> QED BY <2>2, <2>3
<1>8. PaidOnce'
  BY <1>1, <1>2, <1>3, <1>4, NothingPaid
<1>9. TransfersUsedOnce'
  BY <1>1, <1>2, <1>3, <1>4, TransfersKept DEF FreeTxn
<1>10. SubmissionsFinal
  BY <1>4 DEF SubmissionsFinal
<1> QED BY <1>5, <1>6, <1>7, <1>8, <1>9, <1>10 DEF Inv, PaymentInv

(* The advance alone pays a bill at once.                                  *)
LEMMA PayWithCreditInv ==
  ASSUME Inv, NEW id \in Ids, NEW b \in Bills, PayWithCredit(id, b)
  PROVE  Inv' /\ BillsFinal /\ SubmissionsFinal
<1> DEFINE row == [bill |-> b, method |-> "CREDIT", txn |-> None, amount |-> 0,
                   credit |-> bills[b].amount, status |-> "APPROVED"]
<1>1. /\ Payable(b) /\ ~Submitted(id)
      /\ submissions' = [submissions EXCEPT ![id] = row]
      /\ changeCredit(b, id, "CREDIT_PAYMENT", -bills[b].amount)
      /\ bills' = [bills EXCEPT ![b].status = "PAID"]
      /\ UNCHANGED month /\ UNCHANGED serviceVars /\ UNCHANGED recipients
  BY DEF PayWithCredit, Insert
<1>2. /\ ServiceInv /\ PaymentTypes /\ PendingCovers /\ PaidOnce /\ TransfersUsedOnce
      /\ Issued(b) /\ bills[b].status = "UNPAID"
      /\ \A other \in Ids : ~(Has(other, "PENDING") /\ submissions[other].bill = b)
  BY <1>1 DEF Inv, PaymentInv, Payable, HasPending
<1>3. bills[b].amount \in Nat
  BY <1>2, Rows DEF ServiceInv, BillRows
<1>4. /\ row \in SubmissionRows /\ row.bill = b /\ row.amount = 0 /\ row.credit = bills[b].amount
      /\ row.status = "APPROVED" /\ row.txn = None
  BY <1>3 DEF SubmissionRows
<1> HIDE DEF row
<1>5. /\ submissions' \in [Ids -> {None} \union SubmissionRows] /\ submissions'[id] = row
      /\ \A state \in {"PENDING", "APPROVED", "REJECTED"} : ~Has(id, state)
      /\ \A other \in Ids \ {id} : submissions'[other] = submissions[other]
  BY <1>1, <1>2, <1>4, OneSubmission DEF Has
<1>6. PaymentTypes'
  BY <1>1, <1>2, <1>3, <1>5, CreditTypes DEF PaymentTypes, Kinds
<1>7. ServiceInv' /\ BillsFinal
  BY <1>1, <1>2, BillsPaid
<1>8. PendingCovers' /\ PaidOnce'
  <2>1. row.amount + row.credit >= bills[b].amount
    BY <1>3, <1>4
  <2> QED BY <1>1, <1>2, <1>4, <1>5, <2>1, OnePaid
<1>9. TransfersUsedOnce'
  BY <1>2, <1>4, <1>5, TransfersKept
<1>10. SubmissionsFinal
  BY <1>5 DEF SubmissionsFinal
<1> QED BY <1>6, <1>7, <1>8, <1>9, <1>10 DEF Inv, PaymentInv

(* A correction changes nothing but the transaction ID.                    *)
LEMMA UpdateEvidenceInv ==
  ASSUME Inv, NEW id \in Ids, NEW txn \in Txns \union {None}, UpdateEvidence(id, txn)
  PROVE  Inv' /\ BillsFinal /\ SubmissionsFinal
<1> DEFINE row == [submissions[id] EXCEPT !.txn = txn]
<1>1. /\ Has(id, "PENDING") /\ FreeTxn(id, submissions[id].method, txn)
      /\ submissions' = [submissions EXCEPT ![id] = row]
      /\ UNCHANGED month /\ UNCHANGED serviceVars /\ bills' = bills
      /\ UNCHANGED <<balance, entries, recipients>>
  BY DEF UpdateEvidence
<1>2. /\ ServiceInv /\ PaymentTypes /\ PendingCovers /\ PaidOnce /\ TransfersUsedOnce
      /\ submissions[id] \in SubmissionRows /\ submissions[id].bill \in Bills
  BY <1>1 DEF Inv, PaymentInv, PaymentTypes, Has, Submitted, SubmissionRows
<1>3. /\ row \in SubmissionRows /\ row.bill = submissions[id].bill
      /\ row.amount = submissions[id].amount /\ row.credit = submissions[id].credit
      /\ row.status = "PENDING" /\ row.txn = txn /\ row.method = submissions[id].method
  BY <1>1, <1>2 DEF SubmissionRows, Has
<1> HIDE DEF row
<1>4. /\ submissions' \in [Ids -> {None} \union SubmissionRows] /\ submissions'[id] = row
      /\ \A state \in {"PENDING", "APPROVED", "REJECTED"} :
           /\ Has(id, state)' <=> (state = "PENDING")
           /\ Has(id, state) <=> (state = "PENDING")
      /\ \A other \in Ids \ {id} :
           /\ submissions'[other] = submissions[other]
           /\ \A state \in {"PENDING", "APPROVED", "REJECTED"} :
                Has(other, state)' <=> Has(other, state)
  BY <1>1, <1>2, <1>3, OneSubmission DEF Has
<1>5. PaymentTypes'
  BY <1>1, <1>2, <1>4 DEF PaymentTypes
<1>6. ServiceInv' /\ BillsFinal
  BY <1>1, <1>2, BillsPaid
<1>7. PendingCovers'
  BY <1>1, <1>2, <1>3, <1>4, NothingNewPending
<1>8. PaidOnce'
  BY <1>1, <1>2, <1>4, NothingPaid
<1>9. TransfersUsedOnce'
  BY <1>1, <1>2, <1>3, <1>4, TransfersKept DEF FreeTxn
<1>10. SubmissionsFinal
  BY <1>4 DEF SubmissionsFinal
<1> QED BY <1>5, <1>6, <1>7, <1>8, <1>9, <1>10 DEF Inv, PaymentInv

(* An approval pays the bill and keeps the rest as advance.                *)
LEMMA ApproveInv ==
  ASSUME Inv, NEW id \in Ids, Approve(id)
  PROVE  Inv' /\ BillsFinal /\ SubmissionsFinal
<1> DEFINE b == submissions[id].bill
           row == [submissions[id] EXCEPT !.status = "APPROVED"]
<1>1. /\ Has(id, "PENDING") /\ bills[b].status = "UNPAID"
      /\ bills' = [bills EXCEPT ![b].status = "PAID"]
      /\ IF Extra(id) > 0 THEN changeCredit(b, id, "OVERPAYMENT", Extra(id))
                          ELSE UNCHANGED <<balance, entries>>
      /\ submissions' = [submissions EXCEPT ![id] = row]
      /\ UNCHANGED month /\ UNCHANGED serviceVars /\ UNCHANGED recipients
  BY DEF Approve
<1>2. /\ ServiceInv /\ PaymentTypes /\ PendingCovers /\ PaidOnce /\ TransfersUsedOnce
      /\ submissions[id] \in SubmissionRows /\ b \in Bills /\ Issued(b) /\ Covers(id)
      /\ \A other \in Ids \ {id} : ~(Has(other, "PENDING") /\ submissions[other].bill = b)
  <2>1. ServiceInv /\ PaymentTypes /\ PendingCovers /\ PaidOnce /\ TransfersUsedOnce
    BY DEF Inv, PaymentInv
  <2>2. submissions[id] \in SubmissionRows /\ b \in Bills
    BY <1>1, <2>1 DEF PaymentTypes, Has, Submitted, SubmissionRows
  <2> QED BY <1>1, <2>1, <2>2 DEF PendingCovers
<1>3. bills[b].amount \in Nat /\ Extra(id) \in Int
  <2>1. bills[b].amount \in Nat
    BY <1>2, Rows DEF ServiceInv, BillRows
  <2>2. submissions[id].amount \in Nat /\ submissions[id].credit \in Nat
    BY <1>2 DEF SubmissionRows
  <2> QED BY <2>1, <2>2 DEF Extra
<1>4. /\ row \in SubmissionRows /\ row.bill = b
      /\ row.amount = submissions[id].amount /\ row.credit = submissions[id].credit
      /\ row.status = "APPROVED" /\ row.txn = submissions[id].txn /\ row.method = submissions[id].method
  BY <1>2 DEF SubmissionRows
<1>5. row.amount + row.credit >= bills[b].amount
  BY <1>2, <1>4 DEF Covers
<1> HIDE DEF b, row
<1>6. /\ submissions' \in [Ids -> {None} \union SubmissionRows] /\ submissions'[id] = row
      /\ \A state \in {"PENDING", "APPROVED", "REJECTED"} : Has(id, state) <=> (state = "PENDING")
      /\ \A other \in Ids \ {id} : submissions'[other] = submissions[other]
  BY <1>1, <1>2, <1>4, OneSubmission DEF Has
<1>7. PaymentTypes'
  <2>1. /\ balance' \in [Guardians -> 0..MaxBalance]
        /\ entries' \subseteq [guardian : Guardians, submission : Ids, amount : Int, kind : Kinds]
    BY <1>1, <1>2, <1>3, CreditTypes DEF PaymentTypes, Kinds
  <2> QED BY <1>1, <1>2, <1>6, <2>1 DEF PaymentTypes
<1>8. ServiceInv' /\ BillsFinal
  BY <1>1, <1>2, BillsPaid
<1>9. PendingCovers' /\ PaidOnce'
  BY <1>1, <1>2, <1>4, <1>5, <1>6, OnePaid
<1>10. TransfersUsedOnce'
  <2>1. Submitted(id) /\ ~Has(id, "REJECTED")
    BY <1>1, <1>6 DEF Has
  <2> QED BY <1>2, <1>4, <1>6, <2>1, TransfersKept DEF TransfersUsedOnce
<1>11. SubmissionsFinal
  BY <1>6 DEF SubmissionsFinal
<1> QED BY <1>7, <1>8, <1>9, <1>10, <1>11 DEF Inv, PaymentInv

(* A rejection gives the reserved advance back.                            *)
LEMMA RejectInv ==
  ASSUME Inv, NEW id \in Ids, Reject(id)
  PROVE  Inv' /\ BillsFinal /\ SubmissionsFinal
<1> DEFINE row == [submissions[id] EXCEPT !.status = "REJECTED"]
<1>1. /\ Has(id, "PENDING")
      /\ changeCredit(submissions[id].bill, id, "RETURNED", submissions[id].credit)
      /\ submissions' = [submissions EXCEPT ![id] = row]
      /\ UNCHANGED month /\ UNCHANGED serviceVars /\ bills' = bills /\ UNCHANGED recipients
  BY DEF Reject
<1>2. /\ ServiceInv /\ PaymentTypes /\ PendingCovers /\ PaidOnce /\ TransfersUsedOnce
      /\ submissions[id] \in SubmissionRows /\ submissions[id].bill \in Bills
      /\ submissions[id].credit \in Int
  BY <1>1 DEF Inv, PaymentInv, PaymentTypes, Has, Submitted, SubmissionRows
<1>3. row \in SubmissionRows /\ row.status = "REJECTED"
  BY <1>2 DEF SubmissionRows
<1> HIDE DEF row
<1>4. /\ submissions' \in [Ids -> {None} \union SubmissionRows] /\ submissions'[id] = row
      /\ Has(id, "REJECTED")'
      /\ \A state \in {"PENDING", "APPROVED", "REJECTED"} :
           /\ Has(id, state)' <=> (state = "REJECTED")
           /\ Has(id, state) <=> (state = "PENDING")
      /\ \A other \in Ids \ {id} :
           /\ submissions'[other] = submissions[other]
           /\ \A state \in {"PENDING", "APPROVED", "REJECTED"} :
                Has(other, state)' <=> Has(other, state)
  BY <1>1, <1>2, <1>3, OneSubmission DEF Has
<1>5. PaymentTypes'
  BY <1>1, <1>2, <1>4, CreditTypes DEF PaymentTypes, Kinds
<1>6. ServiceInv' /\ BillsFinal
  BY <1>1, <1>2, BillsPaid
<1>7. PendingCovers'
  BY <1>1, <1>2, <1>4, NothingNewPending
<1>8. PaidOnce'
  BY <1>1, <1>2, <1>4, NothingPaid
<1>9. TransfersUsedOnce'
  BY <1>2, <1>4, TransfersKept
<1>10. SubmissionsFinal
  BY <1>4 DEF SubmissionsFinal
<1> QED BY <1>5, <1>6, <1>7, <1>8, <1>9, <1>10 DEF Inv, PaymentInv

(* A new receiving number concerns no submission there is.                 *)
LEMMA SetAccountInv ==
  ASSUME Inv, NEW method \in Methods, NEW number \in Numbers, SetAccount(method, number)
  PROVE  Inv' /\ BillsFinal /\ SubmissionsFinal
<1>1. /\ recipients' \subseteq Methods \X Numbers
      /\ UNCHANGED <<submissions, balance, entries>> /\ bills' = bills
      /\ UNCHANGED <<month, subs, stopRequests, archived, inForce>>
  BY DEF SetAccount, serviceVars, Inv, PaymentInv, PaymentTypes
<1>2. /\ \A i \in Ids, state \in {"PENDING", "APPROVED", "REJECTED"} : Has(i, state)' <=> Has(i, state)
      /\ \A i \in Ids : Submitted(i)' <=> Submitted(i)
  BY <1>1 DEF Has, Submitted
<1>3. PaymentTypes' /\ TransfersUsedOnce' /\ PendingCovers' /\ PaidOnce'
  <2>1. PaymentTypes /\ TransfersUsedOnce /\ PendingCovers /\ PaidOnce
    BY DEF Inv, PaymentInv
  <2>2. PaymentTypes' /\ TransfersUsedOnce'
    BY <1>1, <1>2, <2>1 DEF PaymentTypes, TransfersUsedOnce
  <2> QED BY <1>1, <1>2, <2>1, <2>2, NothingPaid, NothingNewPending
<1>4. ServiceInv'
  <2>1. ServiceTypes'
    BY <1>1 DEF Inv, ServiceInv, ServiceTypes
  <2> QED BY <1>1, <2>1, SameService DEF Inv, ServiceInv
<1>5. BillsFinal /\ SubmissionsFinal
  BY <1>1 DEF BillsFinal, SubmissionsFinal, Issued
<1> QED BY <1>3, <1>4, <1>5 DEF Inv, PaymentInv

-------------------------------------------------------------------------------
(* Every step                                                              *)

(* Every step keeps the invariant and what is decided.                     *)
LEMMA NextInv == Inv /\ [Next]_vars => Inv' /\ (BillsFinal /\ SubmissionsFinal)
<1> SUFFICES ASSUME Inv, [Next]_vars PROVE Inv' /\ BillsFinal /\ SubmissionsFinal
  OBVIOUS
<1>1. CASE Service
  BY <1>1, ServiceStep
<1>2. CASE Payment
  BY <1>2, GenerateBillsInv, SetAccountInv, PayWithCreditInv, SubmitInv, UpdateEvidenceInv,
     ApproveInv, RejectInv DEF Payment
<1>3. CASE UNCHANGED vars
  <2>1. /\ UNCHANGED <<submissions, balance, entries, recipients>> /\ bills' = bills
        /\ UNCHANGED <<month, subs, stopRequests, archived, inForce>>
    BY <1>3 DEF vars, serviceVars, moneyVars
  <2>2. PaymentInv' /\ BillsFinal /\ SubmissionsFinal
    BY <2>1, BillsAdded DEF Inv
  <2>3. ServiceTypes'
    BY <2>1 DEF Inv, ServiceInv, ServiceTypes
  <2>4. ServiceInv'
    BY <2>1, <2>3, SameService DEF Inv, ServiceInv
  <2> QED BY <2>2, <2>4 DEF Inv
<1> QED BY <1>1, <1>2, <1>3 DEF Next

(* The invariant always holds.                                             *)
LEMMA Invariance == Spec => []Inv
<1>1. Inv /\ [Next]_vars => Inv'
  BY NextInv
<1> QED BY InitInv, <1>1, PTL DEF Spec

-------------------------------------------------------------------------------
(* Sums over finite sets                                                   *)

(* Strong induction over the subsets of a finite set: no smallest one is   *)
(* missing from A.                                                         *)
LEMMA SubsetSteps ==
  ASSUME NEW S, IsFiniteSet(S), NEW A,
         \A T \in SUBSET S : (\A U \in SUBSET T : U # T => U \in A) => T \in A
  PROVE  \A T \in SUBSET S : T \in A
<1> DEFINE missing == {T \in SUBSET S : T \notin A}
<1> SUFFICES ASSUME missing # {} PROVE FALSE
  OBVIOUS
<1>1. IsWellFoundedOn(StrictSubsetOrdering(S), SUBSET S)
  <2>1. IsWellFoundedOn(StrictSubsetOrdering(S), FiniteSubsetsOf(S))
    BY FS_StrictSubsetOrderingWellFounded
  <2>2. FiniteSubsetsOf(S) = SUBSET S
    BY FS_FiniteSubsetsOfFinite
  <2> QED BY <2>1, <2>2
<1>2. missing \subseteq SUBSET S
  OBVIOUS
<1>3. PICK T \in missing : \A U \in missing : <<U, T>> \notin StrictSubsetOrdering(S)
  <2> HIDE DEF missing
  <2> QED BY <1>1, <1>2, WFMin
<1>4. ASSUME NEW U \in SUBSET T, U # T PROVE U \in A
  <2>1. U \in SUBSET S /\ T \in SUBSET S
    OBVIOUS
  <2>2. <<U, T>> \in StrictSubsetOrdering(S)
    BY <1>4, <2>1 DEF StrictSubsetOrdering
  <2> QED BY <1>3, <2>1, <2>2
<1> QED BY <1>4

(* The partial sums of f over the subsets of S.                            *)
Pick(s) == CHOOSE x \in s : TRUE
Equation(f, h, s) == IF s = {} THEN 0 ELSE f[Pick(s)] + h[s \ {Pick(s)}]
Partial(f, S) == CHOOSE h : h = [s \in SUBSET S |-> Equation(f, h, s)]
Sums(f, S, h) == \A s \in SUBSET S : h[s] = Equation(f, h, s)

(* Picking an element leaves a smaller set.                                *)
LEMMA PickOne ==
  ASSUME NEW s, s # {}
  PROVE  Pick(s) \in s /\ s \ {Pick(s)} \in SUBSET s /\ s \ {Pick(s)} # s
BY DEF Pick

(* There is one way to sum.                                                *)
LEMMA SumsAgree ==
  ASSUME NEW f, NEW S, NEW T \in SUBSET S, IsFiniteSet(T), NEW g, NEW h,
         Sums(f, S, g), Sums(f, T, h)
  PROVE  g[T] = h[T]
<1> DEFINE A == {s \in SUBSET T : g[s] = h[s]}
<1>1. ASSUME NEW s \in SUBSET T, \A u \in SUBSET s : u # s => u \in A PROVE s \in A
  <2>1. g[s] = Equation(f, g, s) /\ h[s] = Equation(f, h, s)
    BY DEF Sums
  <2>2. s # {} => g[s \ {Pick(s)}] = h[s \ {Pick(s)}]
    BY <1>1, PickOne
  <2> QED BY <2>1, <2>2 DEF Equation
<1> HIDE DEF A
<1>2. T \in A
  BY <1>1, SubsetSteps
<1> QED BY <1>2 DEF A

(* Partial sums exist.                                                     *)
LEMMA SumsExist ==
  ASSUME NEW f, NEW S, IsFiniteSet(S)
  PROVE  Sums(f, S, Partial(f, S))
<1> DEFINE A == {T \in SUBSET S : Sums(f, T, Partial(f, T))}
<1>1. ASSUME NEW T \in SUBSET S, \A U \in SUBSET T : U # T => U \in A PROVE T \in A
  <2> DEFINE k == [s \in SUBSET T |-> Equation(f, [u \in SUBSET T |-> Partial(f, u)[u]], s)]
  <2>1. \A s \in SUBSET T : IsFiniteSet(s)
    BY FS_Subset
  <2>2. ASSUME NEW s \in SUBSET T, s # T PROVE k[s] = Partial(f, s)[s]
    <3>1. Sums(f, s, Partial(f, s))
      BY <1>1, <2>2
    <3>2. Partial(f, s)[s] = Equation(f, Partial(f, s), s)
      BY <3>1 DEF Sums
    <3>3. CASE s = {}
      BY <3>2, <3>3 DEF Equation
    <3>4. CASE s # {}
      <4> DEFINE u == s \ {Pick(s)}
      <4>1. u \in SUBSET s /\ u \in SUBSET T /\ u # T
        BY <2>2, <3>4, PickOne
      <4>2. Sums(f, u, Partial(f, u))
        BY <1>1, <4>1
      <4>3. Partial(f, s)[u] = Partial(f, u)[u]
        BY <2>1, <3>1, <4>1, <4>2, SumsAgree
      <4>4. k[s] = f[Pick(s)] + Partial(f, u)[u]
        BY <3>4, <4>1 DEF Equation
      <4> QED BY <3>2, <3>4, <4>3, <4>4 DEF Equation
    <3> QED BY <3>3, <3>4
  <2>3. \A s \in SUBSET T : k[s] = Equation(f, k, s)
    <3> SUFFICES ASSUME NEW s \in SUBSET T PROVE k[s] = Equation(f, k, s)
      OBVIOUS
    <3>1. CASE s = {}
      BY <3>1 DEF Equation
    <3>2. CASE s # {}
      <4> DEFINE u == s \ {Pick(s)}
      <4>1. u \in SUBSET T /\ u # T
        BY <3>2, PickOne
      <4>2. k[u] = Partial(f, u)[u]
        BY <2>2, <4>1
      <4>3. k[s] = f[Pick(s)] + Partial(f, u)[u]
        BY <3>2, <4>1 DEF Equation
      <4> QED BY <3>2, <4>2, <4>3 DEF Equation
    <3> QED BY <3>1, <3>2
  <2>4. k = [s \in SUBSET T |-> Equation(f, k, s)]
    <3>1. k = [s \in SUBSET T |-> k[s]]
      OBVIOUS
    <3> HIDE DEF k
    <3> QED BY <2>3, <3>1
  <2>5. Partial(f, T) = [s \in SUBSET T |-> Equation(f, Partial(f, T), s)]
    <3> HIDE DEF k
    <3> QED BY <2>4 DEF Partial
  <2>6. Sums(f, T, Partial(f, T))
    <3> DEFINE p == Partial(f, T)
    <3>1. p = [s \in SUBSET T |-> Equation(f, p, s)]
      BY <2>5
    <3> HIDE DEF p
    <3> QED BY <3>1 DEF Sums, p
  <2> QED BY <2>6
<1>2. S \in A
  <2> HIDE DEF A
  <2> QED BY <1>1, SubsetSteps
<1> QED BY <1>2

(* A sum, one element after the other.                                     *)
LEMMA SumSteps ==
  ASSUME NEW f, NEW S, IsFiniteSet(S)
  PROVE  SumFunctionOnSet(f, S)
           = IF S = {} THEN 0 ELSE f[Pick(S)] + SumFunctionOnSet(f, S \ {Pick(S)})
<1>1. \A T : SumFunctionOnSet(f, T) = Partial(f, T)[T]
  BY DEF SumFunctionOnSet, FoldFunctionOnSet, MapThenFoldSet, Partial, Equation, Pick
<1>2. Partial(f, S)[S] = Equation(f, Partial(f, S), S)
  BY SumsExist DEF Sums
<1>3. ASSUME S # {}
      PROVE  Partial(f, S)[S \ {Pick(S)}] = Partial(f, S \ {Pick(S)})[S \ {Pick(S)}]
  <2>1. S \ {Pick(S)} \in SUBSET S /\ IsFiniteSet(S \ {Pick(S)})
    BY FS_Subset
  <2> QED BY <2>1, SumsExist, SumsAgree
<1> QED BY <1>1, <1>2, <1>3 DEF Equation

(* A sum of integers is an integer, and any element can be taken first.    *)
LEMMA SumTakesAny ==
  ASSUME NEW D, NEW f \in [D -> Int], NEW S \in SUBSET D, IsFiniteSet(S)
  PROVE  /\ SumFunctionOnSet(f, S) \in Int
         /\ \A x \in S : SumFunctionOnSet(f, S) = f[x] + SumFunctionOnSet(f, S \ {x})
<1> DEFINE Sum(T) == SumFunctionOnSet(f, T)
           A == {T \in SUBSET S : Sum(T) \in Int /\ \A x \in T : Sum(T) = f[x] + Sum(T \ {x})}
<1>1. ASSUME NEW T \in SUBSET S, \A U \in SUBSET T : U # T => U \in A PROVE T \in A
  <2> HIDE DEF Sum
  <2>1. /\ T = {} => Sum(T) = 0
        /\ T # {} => Sum(T) = f[Pick(T)] + Sum(T \ {Pick(T)})
    BY FS_Subset, SumSteps DEF Sum
  <2>2. CASE T = {}
    BY <2>1, <2>2
  <2>3. CASE T # {}
    <3> DEFINE c == Pick(T)
    <3>1. c \in T /\ T \ {c} \in SUBSET T /\ T \ {c} # T
      BY <2>3, PickOne
    <3> HIDE DEF c
    <3>2. Sum(T \ {c}) \in Int /\ \A x \in T \ {c} : Sum(T \ {c}) = f[x] + Sum((T \ {c}) \ {x})
      BY <1>1, <3>1
    <3>3. Sum(T) \in Int /\ Sum(T) = f[c] + Sum(T \ {c})
      BY <2>1, <2>3, <3>1, <3>2 DEF c
    <3>4. ASSUME NEW x \in T, x # c PROVE Sum(T) = f[x] + Sum(T \ {x})
      <4>1. T \ {x} \in SUBSET T /\ T \ {x} # T /\ c \in T \ {x} /\ x \in T \ {c}
        BY <3>1, <3>4
      <4> DEFINE rest == (T \ {c}) \ {x}
      <4>2. rest = (T \ {x}) \ {c} /\ rest \in SUBSET T /\ rest # T
        BY <3>1
      <4>3. Sum(T \ {x}) = f[c] + Sum(rest)
        BY <1>1, <4>1, <4>2
      <4>4. Sum(T \ {c}) = f[x] + Sum(rest)
        BY <3>2, <4>1
      <4>5. Sum(rest) \in Int
        BY <1>1, <4>2
      <4>6. f[c] \in Int /\ f[x] \in Int
        BY <3>1
      <4> HIDE DEF rest
      <4> QED BY <3>3, <4>3, <4>4, <4>5, <4>6
    <3> QED BY <3>3, <3>4
  <2> QED BY <2>2, <2>3
<1>2. S \in A
  <2> HIDE DEF A
  <2> QED BY <1>1, SubsetSteps
<1> QED BY <1>2

(* Only the values of the elements count.                                  *)
LEMMA SumsEqual ==
  ASSUME NEW f, NEW g, NEW S, IsFiniteSet(S), \A x \in S : f[x] = g[x]
  PROVE  SumFunctionOnSet(f, S) = SumFunctionOnSet(g, S)
<1> DEFINE A == {T \in SUBSET S : SumFunctionOnSet(f, T) = SumFunctionOnSet(g, T)}
<1>1. ASSUME NEW T \in SUBSET S, \A U \in SUBSET T : U # T => U \in A PROVE T \in A
  <2>1. IsFiniteSet(T)
    BY FS_Subset
  <2>2. T # {} => Pick(T) \in T /\ T \ {Pick(T)} \in A
    BY <1>1, PickOne
  <2> QED BY <2>1, <2>2, SumSteps
<1>2. S \in A
  <2> HIDE DEF A
  <2> QED BY <1>1, SubsetSteps
<1> QED BY <1>2

(* A sum over one more element.                                            *)
LEMMA SumOneMore ==
  ASSUME NEW S, IsFiniteSet(S), NEW x, x \notin S, NEW T, T = S \union {x},
         NEW f \in [S -> Int], NEW g \in [T -> Int], \A y \in S : g[y] = f[y]
  PROVE  SumFunction(f) \in Int /\ SumFunction(g) = SumFunction(f) + g[x]
<1>1. IsFiniteSet(T) /\ T \ {x} = S /\ x \in T
  BY FS_AddElement
<1>2. SumFunction(f) = SumFunctionOnSet(f, S) /\ SumFunction(g) = SumFunctionOnSet(g, T)
  BY DEF SumFunction
<1>3. SumFunctionOnSet(f, S) \in Int
  BY SumTakesAny
<1>4. SumFunctionOnSet(g, T) = g[x] + SumFunctionOnSet(g, S)
  BY <1>1, SumTakesAny
<1>5. SumFunctionOnSet(g, S) = SumFunctionOnSet(f, S)
  BY SumsEqual
<1>6. g[x] \in Int
  OBVIOUS
<1> QED BY <1>2, <1>3, <1>4, <1>5, <1>6

(* A sum where one element x may have come or gone.                        *)
LEMMA SumChanges ==
  ASSUME NEW S, NEW T, IsFiniteSet(S), IsFiniteSet(T), NEW x,
         \A y : y # x => (y \in S <=> y \in T),
         NEW f \in [S -> Int], NEW g \in [T -> Int], \A y \in S \intersect T : g[y] = f[y]
  PROVE  /\ SumFunction(f) \in Int /\ SumFunction(g) \in Int
         /\ SumFunction(g) + (IF x \in S THEN f[x] ELSE 0)
              = SumFunction(f) + (IF x \in T THEN g[x] ELSE 0)
<1>1. SumFunction(f) \in Int /\ SumFunction(g) \in Int
  BY SumTakesAny DEF SumFunction
<1>2. CASE x \in S /\ x \notin T
  <2>1. S = T \union {x} /\ \A y \in T : f[y] = g[y]
    BY <1>2
  <2>2. SumFunction(f) = SumFunction(g) + f[x]
    BY <1>2, <2>1, SumOneMore
  <2> QED BY <1>1, <1>2, <2>2
<1>3. CASE x \in T /\ x \notin S
  <2>1. T = S \union {x} /\ \A y \in S : g[y] = f[y]
    BY <1>3
  <2>2. SumFunction(g) = SumFunction(f) + g[x]
    BY <1>3, <2>1, SumOneMore
  <2> QED BY <1>1, <1>3, <2>2
<1>4. CASE x \in S <=> x \in T
  <2>1. S = T
    BY <1>4
  <2>2. f = g
    BY <2>1
  <2>3. x \in S => f[x] \in Int
    OBVIOUS
  <2> QED BY <1>1, <2>1, <2>2, <2>3
<1> QED BY <1>2, <1>3, <1>4, <1>1

-------------------------------------------------------------------------------
(* The accounts of the guardians                                           *)

(* There are finitely many bills.                                          *)
LEMMA BillsFinite == IsFiniteSet(Bills)
<1>1. IsFiniteSet(Months)
  BY ConstantsOK, FS_Interval DEF Months
<1> QED BY <1>1, FiniteAssumption, FS_Product DEF Bills

(* One row of payment_submissions is written, no decided one.              *)
Written(id, row) ==
  /\ submissions' = [submissions EXCEPT ![id] = row]
  /\ ~Has(id, "APPROVED")
  /\ Has(id, "PENDING") => submissions[id].bill = row.bill /\ submissions[id].credit = row.credit

(* What one written submission changes in the account of a guardian.       *)
LEMMA SubmissionCounts ==
  ASSUME ServiceTypes, PaymentTypes, NEW id \in Ids, NEW row \in SubmissionRows,
         Written(id, row), NEW g \in Guardians
  PROVE  /\ Received(g) \in Int /\ Reserved(g) \in Int
         /\ Received(g)' = Received(g) + IF Guardian(row.bill) = g /\ row.status = "APPROVED"
                                          THEN row.amount ELSE 0
         /\ Reserved(g)' = Reserved(g)
              + (IF Guardian(row.bill) = g /\ row.status = "PENDING" THEN row.credit ELSE 0)
              - (IF Guardian(row.bill) = g /\ Has(id, "PENDING") THEN row.credit ELSE 0)
<1> DEFINE mine == Guardian(row.bill) = g
<1> USE DEF Written
<1>1. /\ submissions'[id] = row
      /\ \A state \in {"PENDING", "APPROVED", "REJECTED"} : Has(id, state)' <=> (row.status = state)
      /\ \A i \in Ids \ {id} : submissions'[i] = submissions[i]
      /\ \A i \in Ids \ {id}, state \in {"PENDING", "APPROVED", "REJECTED"} :
           Has(i, state)' <=> Has(i, state)
  BY OneSubmission DEF PaymentTypes
<1>2. row.amount \in Int /\ row.credit \in Int
  BY DEF SubmissionRows
<1>3. \A i \in Ids : Submitted(i) => submissions[i].amount \in Int /\ submissions[i].credit \in Int
  BY DEF PaymentTypes, Submitted, SubmissionRows
<1>4. /\ Received(g) \in Int
      /\ Received(g)' = Received(g) + IF mine /\ row.status = "APPROVED" THEN row.amount ELSE 0
  <2> DEFINE S == Of(g, "APPROVED")
             T == Of(g, "APPROVED")'
             f == [i \in S |-> submissions[i].amount]
             h == [i \in T |-> submissions'[i].amount]
  <2>1. IsFiniteSet(S) /\ IsFiniteSet(T)
    BY FiniteAssumption, FS_Subset DEF Of
  <2>2. \A i : i # id => (i \in S <=> i \in T)
    BY <1>1 DEF Of
  <2>3. id \notin S /\ (id \in T <=> mine /\ row.status = "APPROVED")
    BY <1>1 DEF Of
  <2>4. S \subseteq Ids /\ T \subseteq Ids /\ \A i \in S : Submitted(i)
    BY DEF Of, Has
  <2>5. f \in [S -> Int] /\ h \in [T -> Int] /\ \A i \in S \intersect T : h[i] = f[i]
    BY <1>1, <1>2, <1>3, <2>2, <2>3, <2>4
  <2>6. id \in T => h[id] = row.amount
    BY <1>1
  <2>7. Received(g) = SumFunction(f) /\ Received(g)' = SumFunction(h)
    BY DEF Received
  <2> HIDE DEF S, T, f, h
  <2>8. /\ SumFunction(f) \in Int /\ SumFunction(h) \in Int
        /\ SumFunction(h) + (IF id \in S THEN f[id] ELSE 0)
             = SumFunction(f) + (IF id \in T THEN h[id] ELSE 0)
    BY ONLY <2>1, <2>2, <2>5, SumChanges
  <2> QED BY <1>2, <2>3, <2>6, <2>7, <2>8
<1>5. /\ Reserved(g) \in Int
      /\ Reserved(g)' = Reserved(g)
           + (IF mine /\ row.status = "PENDING" THEN row.credit ELSE 0)
           - (IF mine /\ Has(id, "PENDING") THEN row.credit ELSE 0)
  <2> DEFINE S == Of(g, "PENDING")
             T == Of(g, "PENDING")'
             f == [i \in S |-> submissions[i].credit]
             h == [i \in T |-> submissions'[i].credit]
  <2>1. IsFiniteSet(S) /\ IsFiniteSet(T)
    BY FiniteAssumption, FS_Subset DEF Of
  <2>2. \A i : i # id => (i \in S <=> i \in T)
    BY <1>1 DEF Of
  <2>3. (id \in S <=> mine /\ Has(id, "PENDING")) /\ (id \in T <=> mine /\ row.status = "PENDING")
    BY <1>1 DEF Of
  <2>4. S \subseteq Ids /\ T \subseteq Ids /\ \A i \in S : Submitted(i)
    BY DEF Of, Has
  <2>5. f \in [S -> Int] /\ h \in [T -> Int] /\ \A i \in S \intersect T : h[i] = f[i]
    BY <1>1, <1>2, <1>3, <2>2, <2>3, <2>4
  <2>6. (id \in S => f[id] = row.credit) /\ (id \in T => h[id] = row.credit)
    BY <1>1, <2>3
  <2>7. Reserved(g) = SumFunction(f) /\ Reserved(g)' = SumFunction(h)
    BY DEF Reserved
  <2> HIDE DEF S, T, f, h
  <2>8. /\ SumFunction(f) \in Int /\ SumFunction(h) \in Int
        /\ SumFunction(h) + (IF id \in S THEN f[id] ELSE 0)
             = SumFunction(f) + (IF id \in T THEN h[id] ELSE 0)
    BY ONLY <2>1, <2>2, <2>5, SumChanges
  <2> QED BY <1>2, <2>3, <2>6, <2>7, <2>8
<1> QED BY <1>4, <1>5

(* What a bill that gets paid changes in the account of a guardian.        *)
LEMMA BillCounts ==
  ASSUME ServiceTypes, PaymentTypes, NEW b \in Bills, NEW g \in Guardians,
         Issued(b), bills[b].status = "UNPAID",
         bills' = [bills EXCEPT ![b].status = "PAID"]
  PROVE  /\ Spent(g) \in Int
         /\ Spent(g)' = Spent(g) + IF Guardian(b) = g THEN bills[b].amount ELSE 0
<1> DEFINE S == Paid(g)
           T == Paid(g)'
           f == [c \in S |-> bills[c].amount]
           h == [c \in T |-> bills'[c].amount]
<1>1. /\ bills'[b] = [bills[b] EXCEPT !.status = "PAID"] /\ bills[b] \in BillRows
      /\ \A c \in Bills \ {b} : bills'[c] = bills[c]
  BY DEF ServiceTypes, Issued
<1>2. /\ bills'[b].status = "PAID" /\ bills'[b].amount = bills[b].amount /\ bills'[b] # None
      /\ bills[b].amount \in Int
  BY <1>1, NoneAssumption DEF BillRows
<1>3. IsFiniteSet(S) /\ IsFiniteSet(T)
  BY BillsFinite, FS_Subset DEF Paid
<1>4. \A c : c # b => (c \in S <=> c \in T)
  BY <1>1 DEF Paid, Issued
<1>5. b \notin S /\ (b \in T <=> Guardian(b) = g)
  BY <1>2 DEF Paid, Issued
<1>6. f \in [S -> Int] /\ h \in [T -> Int] /\ \A c \in S \intersect T : h[c] = f[c]
  <2>1. S \subseteq Bills /\ T \subseteq Bills /\ \A c \in S : bills[c].amount \in Int
    BY DEF Paid, Issued, ServiceTypes, BillRows
  <2> QED BY <1>1, <1>2, <1>4, <1>5, <2>1
<1>7. b \in T => h[b] = bills[b].amount
  BY <1>2
<1>8. Spent(g) = SumFunction(f) /\ Spent(g)' = SumFunction(h)
  BY DEF Spent
<1> HIDE DEF S, T, f, h
<1>9. /\ SumFunction(f) \in Int /\ SumFunction(h) \in Int
      /\ SumFunction(h) + (IF b \in S THEN f[b] ELSE 0)
           = SumFunction(f) + (IF b \in T THEN h[b] ELSE 0)
  BY ONLY <1>3, <1>4, <1>6, SumChanges
<1> QED BY <1>2, <1>5, <1>7, <1>8, <1>9

(* The same bills are paid after a step that changes none.                 *)
LEMMA BillsUntouched ==
  ASSUME ServiceTypes, NEW g \in Guardians, bills' = bills
  PROVE  Spent(g) \in Int /\ Spent(g)' = Spent(g)
<1>1. Paid(g)' = Paid(g)
  BY DEF Paid, Issued
<1>2. IsFiniteSet(Paid(g)) /\ \A b \in Paid(g) : bills[b].amount \in Int
  BY BillsFinite, FS_Subset DEF Paid, Issued, ServiceTypes, BillRows
<1> DEFINE f == [b \in Paid(g) |-> bills[b].amount]
<1>3. f \in [Paid(g) -> Int]
  BY <1>2
<1>4. Spent(g) = SumFunction(f)
  BY DEF Spent
<1>5. SumFunction(f) \in Int
  <2> HIDE DEF f
  <2> QED BY <1>2, <1>3, SumTakesAny DEF SumFunction
<1> QED BY <1>1, <1>4, <1>5 DEF Spent

(* What a change of the advance balance changes in it.                     *)
LEMMA CreditCounts ==
  ASSUME PaymentTypes, NEW b \in Bills, NEW id, NEW kind, NEW amount \in Int,
         changeCredit(b, id, kind, amount), NEW g \in Guardians
  PROVE  balance[g] \in Int
         /\ balance'[g] = balance[g] + IF Guardian(b) = g THEN amount ELSE 0
<1>1. balance \in [Guardians -> 0..MaxBalance] /\ balance[g] \in Int
  BY ConstantsOK DEF PaymentTypes
<1>2. CASE amount = 0
  BY <1>1, <1>2 DEF changeCredit
<1>3. CASE amount # 0
  <2>1. balance' = [balance EXCEPT ![Guardian(b)] = @ + amount]
    BY <1>3 DEF changeCredit
  <2> QED BY <1>1, <2>1
<1> QED BY <1>2, <1>3, <1>1

(* A step that writes no submission and no balance: what is paid follows   *)
(* from the approved submissions, and a paid bill does not change.         *)
LEMMA AccountsUntouched ==
  ASSUME MoneyConserved, PaidOnce, PaidOnce', BillsFinal, UNCHANGED <<submissions, balance>>
  PROVE  MoneyConserved'
<1> SUFFICES ASSUME NEW g \in Guardians
             PROVE  Received(g)' = Received(g) /\ Reserved(g)' = Reserved(g) /\ Spent(g)' = Spent(g)
  BY DEF MoneyConserved
<1>1. \A id \in Ids, state \in {"PENDING", "APPROVED"} : Has(id, state)' <=> Has(id, state)
  BY DEF Has, Submitted
<1>2. Of(g, "APPROVED")' = Of(g, "APPROVED") /\ Of(g, "PENDING")' = Of(g, "PENDING")
  BY <1>1 DEF Of
<1>3. \A b \in Bills : (Issued(b)' /\ bills'[b].status = "PAID") <=> (Issued(b) /\ bills[b].status = "PAID")
  BY <1>1 DEF PaidOnce, ApprovedFor
<1>4. Paid(g)' = Paid(g) /\ \A b \in Paid(g) : bills'[b] = bills[b]
  BY <1>3 DEF Paid, BillsFinal
<1> QED BY <1>2, <1>4 DEF Received, Reserved, Spent

(* No step loses or makes money.                                           *)
LEMMA NextConserves == Inv /\ MoneyConserved /\ [Next]_vars => MoneyConserved'
<1> SUFFICES ASSUME Inv, MoneyConserved, [Next]_vars PROVE MoneyConserved'
  OBVIOUS
<1>1. /\ ServiceTypes /\ PaymentTypes /\ PendingCovers /\ PaidOnce /\ PaidOnce' /\ BillsFinal
  BY NextInv DEF Inv, ServiceInv, PaymentInv
<1>2. CASE UNCHANGED <<submissions, balance>>
  BY <1>1, <1>2, AccountsUntouched
<1>3. ASSUME NEW id \in Ids, NEW b \in Bills, NEW method \in Methods, NEW number,
             NEW txn \in Txns \union {None}, NEW amount \in Amounts, NEW credit \in 0..MaxBalance,
             Submit(id, b, number, method, txn, amount, credit)
      PROVE  MoneyConserved'
  <2> DEFINE row == [bill |-> b, method |-> method, txn |-> txn, amount |-> amount,
                     credit |-> credit, status |-> "PENDING"]
  <2>1. /\ submissions' = [submissions EXCEPT ![id] = row] /\ ~Submitted(id)
        /\ changeCredit(b, id, "RESERVED", -credit) /\ bills' = bills
    BY <1>3 DEF Submit, Insert
  <2>2. /\ row \in SubmissionRows /\ row.bill = b /\ row.credit = credit /\ row.status = "PENDING"
        /\ credit \in Int /\ -credit \in Int
    BY ConstantsOK DEF SubmissionRows
  <2> HIDE DEF row
  <2> SUFFICES ASSUME NEW g \in Guardians
               PROVE  Received(g)' = Spent(g)' + Reserved(g)' + balance'[g]
    BY DEF MoneyConserved
  <2>0. Written(id, row) /\ ~Has(id, "PENDING")
    BY <2>1 DEF Has, Written
  <2>3. /\ Received(g) \in Int /\ Reserved(g) \in Int /\ Received(g)' = Received(g)
        /\ Reserved(g)' = Reserved(g) + IF Guardian(b) = g THEN credit ELSE 0
    BY <1>1, <2>0, <2>1, <2>2, SubmissionCounts
  <2>4. balance[g] \in Int /\ balance'[g] = balance[g] + IF Guardian(b) = g THEN -credit ELSE 0
    BY <1>1, <2>1, <2>2, CreditCounts
  <2>5. Spent(g)' = Spent(g) /\ Spent(g) \in Int
    BY <1>1, <2>1, BillsUntouched
  <2> QED BY <2>2, <2>3, <2>4, <2>5 DEF MoneyConserved
<1>4. ASSUME NEW id \in Ids, NEW b \in Bills, PayWithCredit(id, b) PROVE MoneyConserved'
  <2> DEFINE row == [bill |-> b, method |-> "CREDIT", txn |-> None, amount |-> 0,
                     credit |-> bills[b].amount, status |-> "APPROVED"]
  <2>1. /\ submissions' = [submissions EXCEPT ![id] = row] /\ ~Submitted(id)
        /\ Issued(b) /\ bills[b].status = "UNPAID"
        /\ bills' = [bills EXCEPT ![b].status = "PAID"]
        /\ changeCredit(b, id, "CREDIT_PAYMENT", -bills[b].amount)
    BY <1>4 DEF PayWithCredit, Payable, Insert
  <2>2. bills[b].amount \in Nat
    BY <1>1, <2>1, Rows DEF BillRows
  <2>3. /\ row \in SubmissionRows /\ row.bill = b /\ row.amount = 0 /\ row.status = "APPROVED"
        /\ bills[b].amount \in Int /\ -bills[b].amount \in Int
    BY <2>2 DEF SubmissionRows
  <2> HIDE DEF row
  <2> SUFFICES ASSUME NEW g \in Guardians
               PROVE  Received(g)' = Spent(g)' + Reserved(g)' + balance'[g]
    BY DEF MoneyConserved
  <2>0. Written(id, row) /\ ~Has(id, "PENDING")
    BY <2>1 DEF Has, Written
  <2>4. /\ Received(g) \in Int /\ Reserved(g) \in Int
        /\ Received(g)' = Received(g) /\ Reserved(g)' = Reserved(g)
    BY <1>1, <2>0, <2>1, <2>3, SubmissionCounts
  <2>5. balance[g] \in Int /\ balance'[g] = balance[g] + IF Guardian(b) = g THEN -bills[b].amount ELSE 0
    BY <1>1, <2>1, <2>3, CreditCounts
  <2>6. /\ Spent(g) \in Int
        /\ Spent(g)' = Spent(g) + IF Guardian(b) = g THEN bills[b].amount ELSE 0
    BY <1>1, <2>1, BillCounts
  <2> QED BY <2>2, <2>4, <2>5, <2>6 DEF MoneyConserved
<1>5. ASSUME NEW id \in Ids, NEW txn \in Txns \union {None}, UpdateEvidence(id, txn)
      PROVE  MoneyConserved'
  <2> DEFINE row == [submissions[id] EXCEPT !.txn = txn]
  <2>1. /\ submissions' = [submissions EXCEPT ![id] = row] /\ Has(id, "PENDING")
        /\ UNCHANGED <<bills, balance>>
    BY <1>5 DEF UpdateEvidence
  <2>2. submissions[id] \in SubmissionRows
    BY <1>1, <2>1 DEF PaymentTypes, Has, Submitted
  <2>3. /\ row \in SubmissionRows /\ row.bill = submissions[id].bill
        /\ row.credit = submissions[id].credit /\ row.status = "PENDING" /\ row.credit \in Int
    BY <2>1, <2>2 DEF SubmissionRows, Has
  <2> HIDE DEF row
  <2> SUFFICES ASSUME NEW g \in Guardians
               PROVE  Received(g)' = Spent(g)' + Reserved(g)' + balance'[g]
    BY DEF MoneyConserved
  <2>0. Written(id, row)
    BY <2>1, <2>3 DEF Has, Written
  <2>4. /\ Received(g) \in Int /\ Reserved(g) \in Int
        /\ Received(g)' = Received(g) /\ Reserved(g)' = Reserved(g)
    BY <1>1, <2>0, <2>1, <2>3, SubmissionCounts
  <2>5. Spent(g)' = Spent(g)
    BY <1>1, <2>1, BillsUntouched
  <2> QED BY <2>1, <2>4, <2>5 DEF MoneyConserved
<1>6. ASSUME NEW id \in Ids, Approve(id) PROVE MoneyConserved'
  <2> DEFINE b == submissions[id].bill
             row == [submissions[id] EXCEPT !.status = "APPROVED"]
  <2>1. /\ submissions' = [submissions EXCEPT ![id] = row] /\ Has(id, "PENDING")
        /\ bills' = [bills EXCEPT ![b].status = "PAID"] /\ bills[b].status = "UNPAID"
        /\ IF Extra(id) > 0 THEN changeCredit(b, id, "OVERPAYMENT", Extra(id))
                            ELSE UNCHANGED <<balance, entries>>
    BY <1>6 DEF Approve
  <2>2. submissions[id] \in SubmissionRows /\ b \in Bills /\ Issued(b) /\ Covers(id)
    BY <1>1, <2>1 DEF PaymentTypes, PendingCovers, Has, Submitted, SubmissionRows
  <2>3. /\ row \in SubmissionRows /\ row.bill = b /\ row.status = "APPROVED"
        /\ row.amount = submissions[id].amount /\ row.credit = submissions[id].credit
        /\ row.amount \in Nat /\ row.credit \in Nat /\ bills[b].amount \in Nat
    BY <1>1, <2>2, Rows DEF SubmissionRows, BillRows
  <2>4. /\ Extra(id) = row.amount + row.credit - bills[b].amount
        /\ Extra(id) \in Int /\ Extra(id) >= 0
    BY <2>2, <2>3 DEF Extra, Covers
  <2> HIDE DEF b, row
  <2> SUFFICES ASSUME NEW g \in Guardians
               PROVE  Received(g)' = Spent(g)' + Reserved(g)' + balance'[g]
    BY DEF MoneyConserved
  <2>0. Written(id, row)
    BY <2>1, <2>3 DEF Has, Written, b
  <2>5. /\ Received(g) \in Int /\ Reserved(g) \in Int
        /\ Received(g)' = Received(g) + IF Guardian(b) = g THEN row.amount ELSE 0
        /\ Reserved(g)' = Reserved(g) - IF Guardian(b) = g THEN row.credit ELSE 0
    BY <1>1, <2>0, <2>1, <2>3, SubmissionCounts
  <2>6. /\ balance[g] \in Int
        /\ balance'[g] = balance[g] + IF Guardian(b) = g THEN Extra(id) ELSE 0
    <3>1. CASE Extra(id) > 0
      BY <1>1, <2>1, <2>2, <2>4, <3>1, CreditCounts
    <3>2. CASE Extra(id) = 0
      BY <1>1, <2>1, <3>2, ConstantsOK DEF PaymentTypes
    <3> QED BY <2>4, <3>1, <3>2
  <2>7. /\ Spent(g) \in Int
        /\ Spent(g)' = Spent(g) + IF Guardian(b) = g THEN bills[b].amount ELSE 0
    BY <1>1, <2>1, <2>2, BillCounts
  <2> QED BY <2>3, <2>4, <2>5, <2>6, <2>7 DEF MoneyConserved
<1>7. ASSUME NEW id \in Ids, Reject(id) PROVE MoneyConserved'
  <2> DEFINE b == submissions[id].bill
             row == [submissions[id] EXCEPT !.status = "REJECTED"]
  <2>1. /\ submissions' = [submissions EXCEPT ![id] = row] /\ Has(id, "PENDING")
        /\ changeCredit(b, id, "RETURNED", submissions[id].credit) /\ bills' = bills
    BY <1>7 DEF Reject
  <2>2. submissions[id] \in SubmissionRows /\ b \in Bills
    BY <1>1, <2>1 DEF PaymentTypes, Has, Submitted, SubmissionRows
  <2>3. /\ row \in SubmissionRows /\ row.bill = b /\ row.status = "REJECTED"
        /\ row.credit = submissions[id].credit /\ row.credit \in Int
    BY <2>2 DEF SubmissionRows
  <2> HIDE DEF b, row
  <2> SUFFICES ASSUME NEW g \in Guardians
               PROVE  Received(g)' = Spent(g)' + Reserved(g)' + balance'[g]
    BY DEF MoneyConserved
  <2>0. Written(id, row)
    BY <2>1, <2>3 DEF Has, Written, b
  <2>4. /\ Received(g) \in Int /\ Reserved(g) \in Int /\ Received(g)' = Received(g)
        /\ Reserved(g)' = Reserved(g) - IF Guardian(b) = g THEN row.credit ELSE 0
    BY <1>1, <2>0, <2>1, <2>3, SubmissionCounts
  <2>5. /\ balance[g] \in Int
        /\ balance'[g] = balance[g] + IF Guardian(b) = g THEN row.credit ELSE 0
    BY <1>1, <2>1, <2>2, <2>3, CreditCounts
  <2>6. Spent(g)' = Spent(g) /\ Spent(g) \in Int
    BY <1>1, <2>1, BillsUntouched
  <2> QED BY <2>3, <2>4, <2>5, <2>6 DEF MoneyConserved
<1>8. CASE Service
  BY <1>2, <1>8 DEF Service, NextMonth, EditFare, Subscribe, RequestStop, RejectStop, ApproveStop,
     StopStudentService, Settle, Archive, Restore, moneyVars
<1>9. CASE Payment
  <2>1. CASE \E m \in Months : GenerateBills(m)
    BY <1>2, <2>1 DEF GenerateBills
  <2>2. CASE \E method \in Methods, number \in Numbers : SetAccount(method, number)
    BY <1>2, <2>2 DEF SetAccount
  <2> QED BY <1>3, <1>4, <1>5, <1>6, <1>7, <1>9, <2>1, <2>2 DEF Payment
<1>10. CASE UNCHANGED vars
  BY <1>2, <1>10 DEF vars, moneyVars
<1> QED BY <1>8, <1>9, <1>10 DEF Next

(* At first nobody has paid anything.                                      *)
LEMMA InitConserves == Init => MoneyConserved
<1> SUFFICES ASSUME Init, NEW g \in Guardians PROVE Received(g) = Spent(g) + Reserved(g) + balance[g]
  BY DEF MoneyConserved
<1>1. Of(g, "APPROVED") = {} /\ Of(g, "PENDING") = {} /\ Paid(g) = {} /\ balance[g] = 0
  BY DEF Init, Of, Has, Submitted, Paid, Issued
<1>2. \A f : SumFunctionOnSet(f, {}) = 0
  BY FS_EmptySet, SumSteps
<1>3. Received(g) = 0 /\ Spent(g) = 0 /\ Reserved(g) = 0
  BY <1>1, <1>2 DEF Received, Spent, Reserved, SumFunction
<1> QED BY <1>1, <1>3

-------------------------------------------------------------------------------
(* The theorems                                                            *)

(* Every row of every table has its columns in range; in particular no     *)
(* balance of the advance account ever leaves 0..MaxBalance.               *)
THEOREM TypeCorrect == Spec => []TypeOK
<1>1. Inv => TypeOK
  BY DEF Inv, ServiceInv, PaymentInv, ServiceTypes, PaymentTypes, TypeOK, Kinds
<1> QED BY Invariance, <1>1, PTL

(* Whatever guardians and admins do, in whatever order, the transfers      *)
(* approved are the bills paid, the advance held and the advance left.     *)
THEOREM MoneyIsConserved == Spec => []MoneyConserved
BY Invariance, InitConserves, NextConserves, PTL DEF Spec

(* A submission under review can be approved: no stop, archive, fare edit, *)
(* bill run or other payment gets between it and its unpaid bill.          *)
THEOREM PendingStaysPayable == Spec => []PendingCovers
<1>1. Inv => PendingCovers
  BY DEF Inv, PaymentInv
<1> QED BY Invariance, <1>1, PTL

(* A paid bill has exactly one approved submission, which covers it.       *)
THEOREM PaidOnlyOnce == Spec => []PaidOnce
<1>1. Inv => PaidOnce
  BY DEF Inv, PaymentInv
<1> QED BY Invariance, <1>1, PTL

(* No transaction ID counts twice for one method, corrections included.    *)
THEOREM TransfersOnce == Spec => []TransfersUsedOnce
<1>1. Inv => TransfersUsedOnce
  BY DEF Inv, PaymentInv
<1> QED BY Invariance, <1>1, PTL

(* However late it is issued, a bill charges a fare of its own month or    *)
(* the final fee of the month the service stopped in.                      *)
THEOREM FaresKept == Spec => []ChargesKeepTheirFare
<1>1. Inv => ChargesKeepTheirFare
  BY DEF Inv, ServiceInv, Service1, Charged, ChargesKeepTheirFare
<1> QED BY Invariance, <1>1, PTL

(* A settled service owes its final fee and nothing for a later month.     *)
THEOREM FeesStand == Spec => []FinalFeeStands
<1>1. Inv => FinalFeeStands
  BY DEF Inv, ServiceInv, Service1, FeeStands, FinalFeeStands
<1> QED BY Invariance, <1>1, PTL

(* No step changes a paid or waived bill, removes an issued one, or        *)
(* changes a decided submission.                                           *)
THEOREM DecisionsFinal == Spec => DecisionsAreFinal
<1>1. Inv /\ [Next]_vars => BillsFinal /\ SubmissionsFinal
  BY NextInv
<1>2. BillsFinal /\ SubmissionsFinal =>
        /\ \A b \in Bills : Issued(b) =>
             /\ bills'[b] # None
             /\ bills[b].status # "UNPAID" => bills'[b] = bills[b]
        /\ \A id \in Ids : Has(id, "APPROVED") \/ Has(id, "REJECTED")
             => submissions'[id] = submissions[id]
  BY DEF BillsFinal, SubmissionsFinal
<1> QED BY Invariance, <1>1, <1>2, PTL DEF Spec, DecisionsAreFinal
================================================================================
