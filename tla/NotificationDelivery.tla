------------------------- MODULE NotificationDelivery -------------------------
(***************************************************************************)
(* The Telegram delivery queue of NotificationsService and the request     *)
(* TelegramService.deliver makes for it.  One API process runs one pass at *)
(* a time (deliveryPass); its database statements and its requests fail,   *)
(* and the process dies, at any point.  Meanwhile guardians link and       *)
(* unlink their chats, as ChatLinks allows.                                *)
(***************************************************************************)
EXTENDS Naturals, FiniteSets

CONSTANTS
  Guardians, Chats,  \* users and Telegram chats
  Ids,               \* notifications that may be created
  None,              \* "no value"
  MaxAttempts,       \* DELIVERY_MAX_ATTEMPTS, 8
  MaxTries,          \* MAX_TELEGRAM_ATTEMPTS, 3
  Batch,             \* DELIVERY_BATCH_SIZE, 10
  MaxFaults,         \* bound on crashes, failed statements and lost answers
  AcceptsSurplus     \* may a statement be given more values than it has
                     \* parameters?  PostgreSQL refuses (protocol violation
                     \* 08P01); the database stub of the tests accepts.

ASSUME ConstantsOK ==
  /\ MaxAttempts \in Nat \ {0} /\ MaxTries \in Nat \ {0} /\ Batch \in Nat \ {0}
  /\ MaxFaults \in Nat /\ AcceptsSurplus \in BOOLEAN
  /\ None \notin Chats \union Ids

Statuses == {"PENDING", "SENDING", "SENT", "FAILED", "CANCELLED"}
Outcomes == {"SENT", "SKIPPED", "RETRY"}

Deliveries ==
  [guardian : Guardians, chat : Chats, status : Statuses, due : BOOLEAN,
   leased : BOOLEAN, attempts : 0..(MaxAttempts + MaxFaults)]

ASSUME NoneAssumption == None \notin Deliveries

VARIABLES
  linked,      \* telegram_connections: the CONNECTED chat of a guardian
  notified,    \* table notifications
  deliveries,  \* table telegram_deliveries, by notification
  worker,      \* the delivery pass: where it is and the job it has claimed;
               \* moved is history: the link changed during the request
  faults,      \* failures so far
  reached,     \* history: how often a message arrived in its chat
  lost,        \* history: arrivals whose answer was lost
  abandoned    \* history: claims of a delivery that ended without a mark

tables  == <<linked, notified, deliveries>>
history == <<faults, reached, lost, abandoned>>
vars    == <<tables, worker, history>>

Idle ==
  [phase |-> "idle", id |-> None, left |-> 0, tries |-> 0, outcome |-> None, moved |-> FALSE]

Init ==
  /\ linked = [g \in Guardians |-> None]
  /\ notified = {}
  /\ deliveries = [id \in Ids |-> None]
  /\ worker = Idle
  /\ faults = 0
  /\ reached = [id \in Ids |-> 0]
  /\ lost = [id \in Ids |-> 0]
  /\ abandoned = [id \in Ids |-> 0]

Queued(id)    == deliveries[id] # None
Has(id, st)   == Queued(id) /\ deliveries[id].status = st
JobOf(g)      == worker.phase = "request" /\ deliveries[worker.id].guardian = g
Fault         == faults < MaxFaults /\ faults' = faults + 1

-------------------------------------------------------------------------------
(* Links and notifications                                                 *)

Links == INSTANCE ChatLinks        \* what TelegramLink promises of them

Link(g, chat) ==
  /\ Links!Link(g, chat)
  /\ worker' = [worker EXCEPT !.moved = @ \/ JobOf(g)]
  /\ UNCHANGED <<notified, deliveries, history>>

Unlink(g) ==
  /\ linked[g] # None /\ Links!Unlink(g)
  /\ worker' = [worker EXCEPT !.moved = @ \/ JobOf(g)]
  /\ UNCHANGED <<notified, deliveries, history>>

(* One transaction; without a linked chat there is nothing to deliver.     *)
Create(id, g) ==
  /\ id \notin notified
  /\ notified' = notified \union {id}
  /\ deliveries' =
       IF linked[g] = None THEN deliveries
       ELSE [deliveries EXCEPT ![id] =
              [guardian |-> g, chat |-> linked[g], status |-> "PENDING",
               attempts |-> 0, due |-> TRUE, leased |-> FALSE]]
  /\ UNCHANGED <<linked, worker, history>>

(* nextAttemptAt, and the 30 seconds of a claim, pass.                     *)
BecomesDue(id) ==
  /\ Has(id, "FAILED") /\ ~deliveries[id].due
  /\ deliveries' = [deliveries EXCEPT ![id].due = TRUE]
  /\ UNCHANGED <<linked, notified, worker, history>>

LeaseExpires(id) ==
  /\ Has(id, "SENDING") /\ deliveries[id].leased
  /\ deliveries' = [deliveries EXCEPT ![id].leased = FALSE]
  /\ UNCHANGED <<linked, notified, worker, history>>

-------------------------------------------------------------------------------
(* The delivery pass, started by a timer                                   *)

StartPass ==
  /\ worker.phase = "idle"
  /\ worker' = [Idle EXCEPT !.phase = "claim", !.left = Batch]
  /\ UNCHANGED <<tables, history>>

(* Mutation: a claim left behind by a crash is not taken over.             *)
ClaimableOnce(id) ==
  /\ Has(id, "PENDING") \/ Has(id, "FAILED")
  /\ deliveries[id].due /\ deliveries[id].attempts < MaxAttempts

(* The oldest of these rows is taken first; any of them is allowed here.   *)
Claimable(id) ==
  \/ (Has(id, "PENDING") \/ Has(id, "FAILED"))
     /\ deliveries[id].due /\ deliveries[id].attempts < MaxAttempts
  \/ Has(id, "SENDING") /\ ~deliveries[id].leased

EndPass ==
  /\ worker.phase = "claim"
  /\ worker.left = 0 \/ \A id \in Ids : ~Claimable(id)
  /\ worker' = Idle
  /\ UNCHANGED <<tables, history>>

(* SELECT ... FOR UPDATE SKIP LOCKED and the UPDATE, in one transaction.   *)
Claimed(id) ==
  /\ worker.phase = "claim" /\ worker.left > 0
  /\ AcceptsSurplus
  /\ Claimable(id)
  /\ deliveries' = [deliveries EXCEPT ![id] =
       [deliveries[id] EXCEPT !.status = "SENDING", !.attempts = @ + 1,
                              !.due = TRUE, !.leased = TRUE]]

Claim(id) ==
  /\ Claimed(id)
  /\ worker' = [Idle EXCEPT !.phase = "check", !.id = id, !.left = worker.left - 1]
  /\ UNCHANGED <<linked, notified, history>>

(* COMMIT reached the database, its answer was lost; the pass is over.     *)
ClaimUnknown(id) ==
  /\ Claimed(id) /\ Fault
  /\ worker' = Idle
  /\ abandoned' = [abandoned EXCEPT ![id] = @ + 1]
  /\ UNCHANGED <<linked, notified, reached, lost>>

(* The UPDATE names two parameters and is given three values.              *)
ClaimFails ==
  /\ worker.phase = "claim" /\ worker.left > 0
  /\ \E id \in Ids : Claimable(id)
  /\ IF AcceptsSurplus THEN Fault ELSE UNCHANGED faults
  /\ worker' = Idle
  /\ UNCHANGED <<tables, reached, lost, abandoned>>

-------------------------------------------------------------------------------
(* TelegramService.deliver                                                 *)

Outcome(outcome) ==
  worker' = [worker EXCEPT !.phase = "mark", !.outcome = outcome, !.tries = 0, !.moved = FALSE]

StillLinkedAlways(id) == TRUE      \* mutation: the recipient is not rechecked

StillLinked(id) == linked[deliveries[id].guardian] = deliveries[id].chat

CheckRecipient ==
  /\ worker.phase = "check"
  /\ IF StillLinked(worker.id)
     THEN worker' = [worker EXCEPT !.phase = "request"]
     ELSE Outcome("SKIPPED")
  /\ UNCHANGED <<tables, history>>

CheckFails ==
  /\ worker.phase = "check" /\ Fault
  /\ Outcome("RETRY")
  /\ UNCHANGED <<tables, reached, lost, abandoned>>

Arrives == reached' = [reached EXCEPT ![worker.id] = @ + 1]

Again ==
  IF worker.tries + 1 < MaxTries
  THEN worker' = [worker EXCEPT !.tries = @ + 1]
  ELSE Outcome("RETRY")

RequestSucceeds ==
  /\ worker.phase = "request"
  /\ Arrives
  /\ Outcome("SENT")
  /\ UNCHANGED <<tables, faults, lost, abandoned>>

RequestAnswerLost ==
  /\ worker.phase = "request" /\ Fault
  /\ Arrives
  /\ lost' = [lost EXCEPT ![worker.id] = @ + 1]
  /\ Again
  /\ UNCHANGED <<tables, abandoned>>

RequestNotSent ==
  /\ worker.phase = "request"
  /\ Again
  /\ UNCHANGED <<tables, history>>

(* 400 and 403 are final, any other error of the provider is not.          *)
RequestRefused ==
  /\ worker.phase = "request"
  /\ Outcome("SKIPPED") \/ Outcome("RETRY")
  /\ UNCHANGED <<tables, history>>

-------------------------------------------------------------------------------
(* markSent, markSkipped, retryDelivery                                    *)

(* Mutation: an answer without a message id is tried again.                *)
MarkedForRetry(id, outcome) ==
  IF outcome = "SKIPPED" THEN [deliveries[id] EXCEPT !.status = "CANCELLED"]
  ELSE [deliveries[id] EXCEPT !.status = "FAILED",
          !.due = deliveries[id].attempts >= MaxAttempts]

(* Mutation: whatever need not be repeated counts as sent.                 *)
MarkedDone(id, outcome) ==
  IF outcome # "RETRY" THEN [deliveries[id] EXCEPT !.status = "SENT"]
  ELSE [deliveries[id] EXCEPT !.status = "FAILED",
          !.due = deliveries[id].attempts >= MaxAttempts]

Marked(id, outcome) ==
  CASE outcome = "SENT"    -> [deliveries[id] EXCEPT !.status = "SENT"]
    [] outcome = "SKIPPED" -> [deliveries[id] EXCEPT !.status = "CANCELLED"]
    [] OTHER -> [deliveries[id] EXCEPT !.status = "FAILED",
                  !.due = deliveries[id].attempts >= MaxAttempts]

Write ==
  /\ worker.phase = "mark"
  /\ deliveries' =
       IF Has(worker.id, "SENDING")
       THEN [deliveries EXCEPT ![worker.id] =
              [Marked(worker.id, worker.outcome) EXCEPT !.leased = FALSE]]
       ELSE deliveries

Mark ==
  /\ Write
  /\ worker' = [Idle EXCEPT !.phase = "claim", !.left = worker.left]
  /\ UNCHANGED <<linked, notified, history>>

(* The answer to the UPDATE is lost: the pass ends, the row is marked.     *)
MarkUnknown ==
  /\ Write /\ Fault
  /\ worker' = Idle
  /\ UNCHANGED <<linked, notified, reached, lost, abandoned>>

Abandon ==
  /\ worker.id # None
  /\ abandoned' = [abandoned EXCEPT ![worker.id] = @ + 1]
  /\ worker' = Idle
  /\ UNCHANGED <<tables, reached, lost>>

MarkFails == worker.phase = "mark" /\ Fault /\ Abandon

Crash == Fault /\ Abandon

-------------------------------------------------------------------------------
Environment ==
  \/ \E g \in Guardians, chat \in Chats : Link(g, chat)
  \/ \E g \in Guardians : Unlink(g)
  \/ \E id \in Ids, g \in Guardians : Create(id, g)

Time == \E id \in Ids : BecomesDue(id) \/ LeaseExpires(id)

Pass ==
  \/ StartPass \/ EndPass \/ ClaimFails
  \/ \E id \in Ids : Claim(id) \/ ClaimUnknown(id)
  \/ CheckRecipient \/ CheckFails
  \/ RequestSucceeds \/ RequestAnswerLost \/ RequestNotSent \/ RequestRefused
  \/ Mark \/ MarkUnknown \/ MarkFails

Next == Environment \/ Time \/ Pass \/ Crash

Spec == Init /\ [][Next]_vars

(* Timers fire, and every statement and request of a pass ends, answered   *)
(* or timed out.  Failures are finitely many (MaxFaults).                  *)
Fairness ==
  /\ WF_vars(Pass)
  /\ \A id \in Ids : WF_vars(BecomesDue(id)) /\ WF_vars(LeaseExpires(id))

FairSpec == Spec /\ Fairness

-------------------------------------------------------------------------------
(* Properties                                                              *)

TypeOK ==
  /\ linked \in [Guardians -> Chats \union {None}]
  /\ notified \subseteq Ids
  /\ deliveries \in [Ids -> Deliveries \union {None}]
  /\ worker \in [phase : {"idle", "claim", "check", "request", "mark"},
                 id : Ids \union {None}, left : 0..Batch, tries : 0..(MaxTries - 1),
                 outcome : Outcomes \union {None}, moved : BOOLEAN]
  /\ faults \in 0..MaxFaults
  /\ reached \in [Ids -> Nat] /\ lost \in [Ids -> Nat] /\ abandoned \in [Ids -> Nat]

(* A message arrives a second time only after an answer of the provider    *)
(* was lost or a claim was left behind: retries, leases and the two loops  *)
(* never repeat what is known to have arrived.                             *)
DuplicatesExplained ==
  \A id \in Ids : reached[id] <= 1 + lost[id] + abandoned[id]

(* The status an admin reads is true: a delivery marked SENT has arrived,  *)
(* and one that is waiting, failed or cancelled has not, as far as any     *)
(* answer told.                                                            *)
StatusTellsTruth ==
  \A id \in Ids : Queued(id) =>
    CASE Has(id, "SENT")    -> reached[id] > 0
      [] Has(id, "SENDING") -> TRUE
      [] OTHER              -> reached[id] <= lost[id] + abandoned[id]

(* A message reaches a chat its guardian has left only if the guardian     *)
(* left during the very request that carries it (telegram.service.ts:284). *)
ObsoleteChatOnlyByRace ==
  [][\A id \in Ids :
       /\ reached'[id] # reached[id]
       /\ linked[deliveries[id].guardian] # deliveries[id].chat
       => worker.moved]_vars

(* Every delivery is settled in the end: sent, cancelled, or given up      *)
(* after the last attempt.  No crash leaves one in SENDING.                *)
Settled(id) ==
  \/ Has(id, "SENT") \/ Has(id, "CANCELLED")
  \/ Has(id, "FAILED") /\ deliveries[id].attempts >= MaxAttempts

EveryDeliverySettles == \A id \in Ids : Queued(id) ~> Settled(id)

(* Every delivery is attempted at least once: the worker hands a pending   *)
(* one to Telegram (test/telegram-delivery.test.ts:57).                    *)
EveryDeliveryAttempted ==
  \A id \in Ids : Queued(id) ~> (Queued(id) /\ deliveries[id].attempts > 0)
===============================================================================
