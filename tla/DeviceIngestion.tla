---------------------------- MODULE DeviceIngestion ----------------------------
(***************************************************************************)
(* GT06 device sockets (Gt06Connection), the position and contact writes   *)
(* of LocationsService with HistoryIngestion below them, and the           *)
(* serializable transactions DatabaseService runs them in.  One step is    *)
(* one uninterrupted piece of JavaScript or one database statement group;  *)
(* everything that can run at an await is interleaved.                     *)
(***************************************************************************)
EXTENDS Naturals, Sequences, FiniteSets

CONSTANTS
  Conns,       \* socket slots; a slot is reused once its connection is gone
  Imeis,       \* identities a login packet may carry
  Allowed,     \* ALLOWED_IMEIS; empty means every device is accepted
  Reports,     \* position reports: [id, time, fixed, located]
  None,        \* "no value"
  MaxClock,    \* the latest receive time
  Skew,        \* the 5 minutes a GPS time may lie ahead of the receive time
  MaxBuffer,   \* packets that fit the 128 KiB input buffer
  MaxRetries,  \* retries of a serializable transaction after the first attempt
  MaxPackets   \* bound on the packets the devices send

(* time: the GPS time the report carries (an unparsable one never becomes  *)
(* usable); fixed: the GPS-fixed bit; located: valid coordinates.          *)
ASSUME ConstantsOK ==
  /\ Conns # {} /\ Imeis # {} /\ Allowed \subseteq Imeis
  /\ \A r \in Reports : r.time \in Nat /\ r.fixed \in BOOLEAN /\ r.located \in BOOLEAN
  /\ None \notin Imeis \union Reports \union Conns
  /\ MaxClock \in Nat /\ Skew \in Nat /\ MaxBuffer \in Nat \ {0} /\ MaxRetries \in Nat
  /\ MaxPackets \in Nat

Login(i)    == [type |-> "login", arg |-> i]
Position(r) == [type |-> "position", arg |-> r]
Contact     == [type |-> "contact", arg |-> None]   \* heartbeat, or a report below 19 bytes
Ignored     == [type |-> "ignored", arg |-> None]   \* unknown protocol or truncated login
Malformed   == [type |-> "malformed", arg |-> None] \* parseFrame throws

Packets ==
  {Login(i) : i \in Imeis} \union {Position(r) : r \in Reports}
    \union {Contact, Ignored, Malformed}

Fixes      == Reports \union {None}
Qualities  == {"valid", "invalid-fix", "invalid-time"}
Rows       == [imei : Imeis, report : Reports, quality : Qualities]
Locations  == [imei : Imeis, fix : Fixes]
Phases     == {"idle", "lock", "row", "done", "failed"}

VARIABLES
  sent,        \* packets the devices have sent
  sock,        \* per slot: "free", "open" or "destroyed"
  closed,      \* Gt06Connection.closed
  imei,        \* Gt06Connection.imei
  buffer,      \* complete packets waiting in Gt06Connection.buffer
  job,         \* the packet whose handler is awaiting, and when it was received
  tx,          \* its database transaction
  pending,     \* Gt06Connection.pendingLocation
  inflight,    \* locations handed to RealtimeGateway and not finished
  devices,     \* table devices: the saved fix of each tracker
  history,     \* table gps_history
  evaluating,  \* detached position evaluations (geofence hook) not run yet
  acked        \* reports acknowledged to a tracker, with the session's imei

connVars == <<sock, closed, imei, buffer, job, tx, pending, inflight>>
dbVars   == <<devices, history>>
vars     == <<sent, connVars, dbVars, evaluating, acked>>

Idle == [phase |-> "idle", attempt |-> 0, stale |-> FALSE, fix |-> None, saved |-> FALSE]
NoJob == [packet |-> [type |-> "none", arg |-> None], at |-> 0]

Init ==
  /\ sent = 0
  /\ sock = [c \in Conns |-> "free"]
  /\ closed = [c \in Conns |-> FALSE]
  /\ imei = [c \in Conns |-> None]
  /\ buffer = [c \in Conns |-> <<>>]
  /\ job = [c \in Conns |-> NoJob]
  /\ tx = [c \in Conns |-> Idle]
  /\ pending = [c \in Conns |-> None]
  /\ inflight = [c \in Conns |-> {}]
  /\ devices = [i \in Imeis |-> None]
  /\ history = {}
  /\ evaluating = {}
  /\ acked = {}

-------------------------------------------------------------------------------
(* Sockets                                                                 *)

Live(c) == sock[c] = "open" /\ ~closed[c]

Connect(c) ==
  /\ sock[c] = "free"
  /\ sock' = [sock EXCEPT ![c] = "open"]
  /\ UNCHANGED <<sent, closed, imei, buffer, job, tx, pending, inflight, dbVars, evaluating, acked>>

(* The peer hangs up, the socket errors, or the server shuts down.         *)
Disconnect(c) ==
  /\ sock[c] = "open"
  /\ sock' = [sock EXCEPT ![c] = "destroyed"]
  /\ UNCHANGED <<sent, closed, imei, buffer, job, tx, pending, inflight, dbVars, evaluating, acked>>

(* The 'close' event: work already awaiting goes on without a connection.  *)
HandleClose(c) ==
  /\ sock[c] = "destroyed"
  /\ ~closed[c]
  /\ closed' = [closed EXCEPT ![c] = TRUE]
  /\ pending' = [pending EXCEPT ![c] = None]
  /\ buffer' = [buffer EXCEPT ![c] = <<>>]
  /\ UNCHANGED <<sent, sock, imei, job, tx, inflight, dbVars,
                 evaluating, acked>>

(* Nothing refers to the connection object any more; the slot is reused.   *)
Release(c) ==
  /\ closed[c] /\ job[c] = NoJob /\ inflight[c] = {}
  /\ sock' = [sock EXCEPT ![c] = "free"]
  /\ closed' = [closed EXCEPT ![c] = FALSE]
  /\ imei' = [imei EXCEPT ![c] = None]
  /\ pending' = [pending EXCEPT ![c] = None]
  /\ UNCHANGED <<sent, buffer, job, tx, inflight, dbVars, evaluating, acked>>

(* Gt06Connection.close                                                    *)
Close(c) ==
  /\ closed' = [closed EXCEPT ![c] = TRUE]
  /\ pending' = [pending EXCEPT ![c] = None]
  /\ buffer' = [buffer EXCEPT ![c] = <<>>]
  /\ sock' = [sock EXCEPT ![c] = "destroyed"]

-------------------------------------------------------------------------------
(* Packet handlers, up to their first await.  They leave the buffer alone. *)

LoginAllowed(i) == Allowed = {} \/ i \in Allowed

NeedsSession(p) == p.type \in {"contact", "position"}

(* sendAck: what the tracker learns about report p of the session of i.    *)
AckOf(p, i) ==
  IF p.type = "position" THEN {[imei |-> i, report |-> p.arg]} ELSE {}

(* Mutation: the attempt counter restarts with every attempt.              *)
StartedAfresh(i, attempt) ==
  [phase |-> "lock", attempt |-> 0, stale |-> FALSE, fix |-> devices[i], saved |-> FALSE]

(* BEGIN and the first statement, which takes the snapshot.                *)
Started(i, attempt) ==
  [phase |-> "lock", attempt |-> attempt, stale |-> FALSE, fix |-> devices[i], saved |-> FALSE]

(* The handler awaits a transaction; a login names the session first.  The *)
(* receive time is read from a wall clock, which need not be monotone.     *)
StartTransaction(c, p) ==
  /\ \/ /\ p.type = "login" /\ LoginAllowed(p.arg)
        /\ imei' = [imei EXCEPT ![c] = p.arg]
     \/ /\ NeedsSession(p) /\ imei[c] # None
        /\ UNCHANGED imei
  /\ \E at \in IF p.type = "position" THEN 0..MaxClock ELSE {0} :
       job' = [job EXCEPT ![c] = [packet |-> p, at |-> at]]
  /\ tx' = [tx EXCEPT ![c] = Started(imei'[c], 0)]
  /\ UNCHANGED <<sock, closed, pending, inflight, acked>>

RefuseLogin(c, p) ==
  /\ p.type = "login" /\ ~LoginAllowed(p.arg)
  /\ sock' = [sock EXCEPT ![c] = "destroyed"]
  /\ UNCHANGED <<closed, imei, job, tx, pending, inflight, acked>>

(* Answered without any work: an unknown protocol, or no login yet.        *)
AckOnly(c, p) ==
  /\ p.type = "ignored" \/ (NeedsSession(p) /\ imei[c] = None)
  /\ acked' = acked \union AckOf(p, imei[c])
  /\ UNCHANGED <<sock, closed, imei, job, tx, pending, inflight>>

DropMalformed(c, p) ==
  /\ p.type = "malformed"
  /\ UNCHANGED <<sock, closed, imei, job, tx, pending, inflight, acked>>

HandleFrame(c, p) ==
  \/ StartTransaction(c, p) \/ RefuseLogin(c, p) \/ AckOnly(c, p) \/ DropMalformed(c, p)

-------------------------------------------------------------------------------
(* The input buffer and the drain loop.  pause() only asks the kernel to   *)
(* stop: a packet that arrives while a handler awaits is buffered.         *)

Busy(c) == job[c] # NoJob \/ buffer[c] # <<>>

Receive(c) ==
  /\ Live(c)
  /\ sent < MaxPackets
  /\ sent' = sent + 1
  /\ UNCHANGED <<dbVars, evaluating>>

(* handleData starts the drain loop, which runs to the first await.        *)
HandleData(c, p) ==
  /\ Receive(c)
  /\ ~Busy(c)
  /\ HandleFrame(c, p)
  /\ UNCHANGED buffer

BufferData(c, p) ==
  /\ Receive(c)
  /\ Busy(c) /\ Len(buffer[c]) < MaxBuffer
  /\ buffer' = [buffer EXCEPT ![c] = Append(@, p)]
  /\ UNCHANGED <<sock, closed, imei, job, tx, pending, inflight, acked>>

Overflow(c) ==
  /\ Receive(c)
  /\ Len(buffer[c]) = MaxBuffer
  /\ Close(c)
  /\ UNCHANGED <<imei, job, tx, inflight, acked>>

(* The drain loop goes on once the handler of the last packet is through.  *)
Drain(c) ==
  /\ Live(c)
  /\ job[c] = NoJob /\ buffer[c] # <<>>
  /\ HandleFrame(c, Head(buffer[c]))
  /\ buffer' = [buffer EXCEPT ![c] = Tail(@)]
  /\ UNCHANGED <<sent, dbVars, evaluating>>

-------------------------------------------------------------------------------
(* The transaction: DatabaseService.transaction around touch/savePosition. *)
(* The snapshot is taken by the first statement, before the wait for the   *)
(* per-tracker advisory lock; a tracker row changed since then fails the   *)
(* statement that locks it (SQLSTATE 40001).                               *)

Saves(c) == job[c].packet.type = "position" /\ job[c].packet.arg.located

Phase(c, from, to) ==
  /\ tx[c].phase = from
  /\ tx' = [tx EXCEPT ![c].phase = to]
  /\ UNCHANGED <<sent, sock, closed, imei, buffer, job, pending, inflight, dbVars, evaluating, acked>>

(* pg_advisory_xact_lock(hash of the imei), held until the transaction ends *)
TxLock(c) ==
  /\ \A d \in Conns : imei[d] = imei[c] => tx[d].phase # "row"
  /\ Phase(c, "lock", "row")

Snapshotted(d) == tx[d].phase \in {"lock", "row"}

Usable(r, at) == r.time <= at + Skew

Quality(r, at) ==
  IF ~Usable(r, at) THEN "invalid-time" ELSE IF r.fixed THEN "valid" ELSE "invalid-fix"

NewerOrNot(r, fix) == TRUE         \* mutation: a delayed fix replaces the saved one

Newer(r, fix) == fix = None \/ (fix # None /\ r.time > fix.time)

(* INSERT ... ON CONFLICT(event_key) DO NOTHING                            *)
WithEvent(i, r, quality) ==
  IF \E row \in history : row.imei = i /\ row.report = r
  THEN history
  ELSE history \union {[imei |-> i, report |-> r, quality |-> quality]}

(* Only a valid fix newer than the one the snapshot shows replaces it.     *)
Replaces(c) ==
  /\ Saves(c)
  /\ Quality(job[c].packet.arg, job[c].at) = "valid"
  /\ Newer(job[c].packet.arg, tx[c].fix)

(* Mutation: weaker isolation, the write of a concurrent session is lost.  *)
CanCommitStale(c) == tx[c].phase = "row"

CanCommit(c) ==
  /\ tx[c].phase = "row"
  /\ ~tx[c].stale

(* The rows the transaction writes, and what its end means for the others. *)
Apply(c, phase) ==
  LET i   == imei[c]
      r   == job[c].packet.arg
      fix == IF Replaces(c) THEN r ELSE tx[c].fix
  IN /\ CanCommit(c)
     /\ history' = IF Saves(c) THEN WithEvent(i, r, Quality(r, job[c].at)) ELSE history
     /\ devices' = [devices EXCEPT ![i] = fix]
     /\ tx' = [d \in Conns |->
                CASE d = c -> [tx[c] EXCEPT !.phase = phase, !.fix = fix, !.saved = Replaces(c)]
                  [] d # c /\ imei[d] = i /\ Snapshotted(d) -> [tx[d] EXCEPT !.stale = TRUE]
                  [] OTHER -> tx[d]]
     /\ UNCHANGED <<sent, sock, closed, imei, buffer, job, pending, inflight, evaluating, acked>>

TxCommit(c) == Apply(c, "done")

(* COMMIT reached the database, its answer was lost.                       *)
TxCommitUnknown(c) == Apply(c, "failed")

(* 40001 or 40P01, from a changed row or reported by SSI for any conflict. *)
CanRetry(c) == tx[c].attempt < MaxRetries

TxRetry(c) ==
  /\ Snapshotted(c) /\ CanRetry(c)
  /\ tx' = [tx EXCEPT ![c] = Started(imei[c], tx[c].attempt + 1)]
  /\ UNCHANGED <<sent, sock, closed, imei, buffer, job, pending, inflight, dbVars, evaluating, acked>>

(* Out of retries, any other error, or a timeout; nothing is written.      *)
TxFail(c) ==
  /\ Snapshotted(c)
  /\ Phase(c, tx[c].phase, "failed")

-------------------------------------------------------------------------------
(* The rest of the handler, once the transaction has ended                 *)

(* Mutation: every recorded report is evaluated.                           *)
EvaluationOfAny(c) ==
  IF Saves(c) THEN {[imei |-> imei[c], report |-> job[c].packet.arg]} ELSE {}

(* The detached hook runs for a fix that became the latest one.            *)
Evaluation(c) ==
  IF tx[c].saved THEN {[imei |-> imei[c], report |-> job[c].packet.arg]} ELSE {}

CanPublishTwice(c) == Live(c)      \* mutation: the publishing flag is not consulted

CanPublish(c) == Live(c) /\ inflight[c] = {}

(* pendingLocation, and publishPending when it is not running already.     *)
Publish(c) ==
  LET location == [imei |-> imei[c], fix |-> tx[c].fix]
  IN IF CanPublish(c)
     THEN /\ inflight' = [inflight EXCEPT ![c] = @ \union {location}]
          /\ pending' = [pending EXCEPT ![c] = None]
     ELSE /\ pending' = [pending EXCEPT ![c] = location]
          /\ UNCHANGED inflight

Finish(c) ==
  /\ tx[c].phase = "done"
  /\ evaluating' = evaluating \union Evaluation(c)
  /\ IF job[c].packet.type = "position" THEN Publish(c) ELSE UNCHANGED <<pending, inflight>>
  /\ acked' = IF sock[c] = "open" THEN acked \union AckOf(job[c].packet, imei[c]) ELSE acked
  /\ job' = [job EXCEPT ![c] = NoJob]
  /\ tx' = [tx EXCEPT ![c] = Idle]
  /\ UNCHANGED <<sent, sock, closed, imei, buffer, dbVars>>

(* Mutation: the error is logged, the packet acknowledged all the same.    *)
AckFailure(c) ==
  /\ tx[c].phase = "failed"
  /\ acked' = IF sock[c] = "open" THEN acked \union AckOf(job[c].packet, imei[c]) ELSE acked
  /\ job' = [job EXCEPT ![c] = NoJob]
  /\ tx' = [tx EXCEPT ![c] = Idle]
  /\ UNCHANGED <<sent, sock, closed, imei, buffer, pending, inflight, dbVars, evaluating>>

(* drain's catch and finally: closed without an ACK.                       *)
HandleFailure(c) ==
  /\ tx[c].phase = "failed"
  /\ Close(c)
  /\ job' = [job EXCEPT ![c] = NoJob]
  /\ tx' = [tx EXCEPT ![c] = Idle]
  /\ UNCHANGED <<sent, imei, inflight, dbVars, evaluating, acked>>

(* publishLocation settles, delivered or not; publishPending goes on with  *)
(* the location that arrived meanwhile.                                    *)
PublishEnds(c) ==
  /\ \E location \in inflight[c] :
       IF pending[c] # None /\ Live(c)
       THEN /\ inflight' = [inflight EXCEPT ![c] = (@ \ {location}) \union {pending[c]}]
            /\ pending' = [pending EXCEPT ![c] = None]
       ELSE /\ inflight' = [inflight EXCEPT ![c] = @ \ {location}]
            /\ UNCHANGED pending
  /\ UNCHANGED <<sent, sock, closed, imei, buffer, job, tx, dbVars,
                 evaluating, acked>>

(* A detached evaluation starts (GeofenceCoordinator).                     *)
Evaluate ==
  /\ \E e \in evaluating : evaluating' = evaluating \ {e}
  /\ UNCHANGED <<sent, connVars, dbVars, acked>>

(* The process dies: the database keeps what was committed, nothing else.  *)
Crash ==
  /\ sock' = [c \in Conns |-> "free"]
  /\ closed' = [c \in Conns |-> FALSE]
  /\ imei' = [c \in Conns |-> None]
  /\ buffer' = [c \in Conns |-> <<>>]
  /\ job' = [c \in Conns |-> NoJob]
  /\ tx' = [c \in Conns |-> Idle]
  /\ pending' = [c \in Conns |-> None]
  /\ inflight' = [c \in Conns |-> {}]
  /\ evaluating' = {}
  /\ UNCHANGED <<sent, dbVars, acked>>

-------------------------------------------------------------------------------
Socket(c) == Connect(c) \/ Disconnect(c) \/ HandleClose(c) \/ Release(c) \/ Overflow(c)

Handler(c) == Drain(c) \/ Finish(c) \/ HandleFailure(c)

Transaction(c) ==
  \/ TxLock(c) \/ TxCommit(c) \/ TxCommitUnknown(c)
  \/ TxRetry(c) \/ TxFail(c)

Next ==
  \/ \E c \in Conns : Socket(c) \/ Handler(c) \/ Transaction(c) \/ PublishEnds(c)
  \/ \E c \in Conns, p \in Packets : HandleData(c, p) \/ BufferData(c, p)
  \/ Evaluate \/ Crash

Spec == Init /\ [][Next]_vars

(* The event loop runs every continuation; every statement and every       *)
(* publication ends, by its answer or by the pool's timeouts.              *)
Fairness ==
  \A c \in Conns : WF_vars(Handler(c)) /\ WF_vars(Transaction(c)) /\ WF_vars(PublishEnds(c))

FairSpec == Spec /\ Fairness

-------------------------------------------------------------------------------
(* Properties                                                              *)

Jobs == [packet : Packets, at : 0..MaxClock] \union {NoJob}

Transactions ==
  [phase : Phases, attempt : 0..MaxRetries, stale : BOOLEAN, fix : Fixes, saved : BOOLEAN]

TypeOK ==
  /\ sent \in 0..MaxPackets
  /\ sock \in [Conns -> {"free", "open", "destroyed"}]
  /\ closed \in [Conns -> BOOLEAN]
  /\ imei \in [Conns -> Imeis \union {None}]
  /\ buffer \in [Conns -> Seq(Packets)]
  /\ job \in [Conns -> Jobs]
  /\ tx \in [Conns -> Transactions]
  /\ pending \in [Conns -> Locations \union {None}]
  /\ inflight \in [Conns -> SUBSET Locations]
  /\ devices \in [Imeis -> Fixes]
  /\ history \subseteq Rows
  /\ evaluating \subseteq [imei : Imeis, report : Reports]
  /\ acked \subseteq [imei : Imeis \union {None}, report : Reports]

Recorded(i, r) == \E row \in history : row.imei = i /\ row.report = r

(* A report with coordinates that a logged-in tracker was told of is in    *)
(* gps_history, whatever retries, crashes and lost COMMIT answers came     *)
(* between (locations.service.ts:71).                                      *)
PersistedBeforeAck ==
  \A a \in acked : a.imei # None /\ a.report.located => Recorded(a.imei, a.report)

(* The saved fix of a tracker is at least as new as every valid row of its *)
(* history, and is itself in the history: two sessions of one tracker      *)
(* never make the write of the other one disappear.                        *)
LatestCoversHistory ==
  /\ \A row \in history : row.quality = "valid" =>
       /\ devices[row.imei] # None
       /\ row.report.time <= devices[row.imei].time
  /\ \A i \in Imeis : devices[i] # None => Recorded(i, devices[i])

(* The geofence hook only ever sees committed fixes, none of them newer    *)
(* than the saved one, even when it runs late (locations.service.ts:115).  *)
EvaluatesCommitted ==
  \A e \in evaluating :
    /\ Recorded(e.imei, e.report)
    /\ devices[e.imei] # None /\ e.report.time <= devices[e.imei].time

AtLeast(fix, older) == older # None => fix # None /\ fix.time >= older.time

SentInOrder ==
  \A c \in Conns : \A l \in inflight[c] :
    /\ \A m \in inflight[c] : m = l
    /\ AtLeast(devices[l.imei], l.fix)
    /\ pending[c] # None /\ pending[c].imei = l.imei => AtLeast(pending[c].fix, l.fix)

WaitingStored ==
  \A c \in Conns : pending[c] # None => AtLeast(devices[pending[c].imei], pending[c].fix)

(* The viewers of a session never see its tracker jump back in time:       *)
(* publications do not overlap, the waiting location is never older than   *)
(* the one being sent, and neither is ahead of the database.               *)
ViewersInOrder == SentInOrder /\ WaitingStored

(* What ingestion promises its trackers, and how its state shows it.       *)
Log == INSTANCE TrackerLog WITH
  NoFix <- None,
  log <- {<<row.imei, row.report>> : row \in history},
  latest <- devices,
  confirmed <- {<<a.imei, a.report>> : a \in {b \in acked : b.imei # None /\ b.report.located}}

(* Ingestion implements that promise: nothing recorded is lost, the latest *)
(* fix of a tracker only moves to a newer report, and nothing is confirmed *)
(* to a tracker that is not recorded.                                      *)
ImplementsTrackerLog == Log!Spec

(* Every handler comes to an end, by an ACK or by closing the socket: no   *)
(* retry goes on for ever and no lock is waited for without a limit.       *)
HandlersEnd == \A c \in Conns : (job[c] # NoJob) ~> (job[c] = NoJob)
===============================================================================
