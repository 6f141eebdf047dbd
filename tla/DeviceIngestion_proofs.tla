------------------------ MODULE DeviceIngestion_proofs ------------------------
(***************************************************************************)
(* Theorems about DeviceIngestion for every number of connections,         *)
(* trackers, reports and retries; and, in the second half, about           *)
(* HistoryQueries, the queries over the history that is written here, for  *)
(* any table, any number of writers and any page and batch size.           *)
(***************************************************************************)
EXTENDS DeviceIngestion, HistoryQueries, FiniteSetTheorems, TLAPS

-------------------------------------------------------------------------------
(* Types.  A handler works on a packet of its own session, which has a     *)
(* name; a transaction is under way exactly while a handler awaits it.     *)

SessionsNamed ==
  \A c \in Conns :
    /\ job[c] = NoJob <=> tx[c].phase = "idle"
    /\ job[c] # NoJob => imei[c] \in Imeis
    /\ tx[c].saved => job[c] # NoJob /\ Saves(c)

TypeInv == TypeOK /\ SessionsNamed

(* What a packet carries depends on its type.                              *)
LEMMA PacketArgs ==
  ASSUME NEW p \in Packets
  PROVE  /\ p.type = "login" => p.arg \in Imeis
         /\ p.type = "position" => p.arg \in Reports
         /\ p # NoJob.packet
BY DEF Packets, Login, Position, Contact, Ignored, Malformed, NoJob

(* A session that awaits handles one of the packets a device may send.     *)
LEMMA JobPackets ==
  ASSUME NEW j \in Jobs, j # NoJob
  PROVE  j.packet \in Packets
BY DEF Jobs

(* The initial state is well typed and every session that awaits is named. *)
LEMMA InitTypeInv == Init => TypeInv
BY ConstantsOK DEF Init, TypeInv, TypeOK, SessionsNamed, Jobs, NoJob, Idle, Fixes, Phases, Transactions

(* The handlers up to their first await, whatever the buffer does.         *)
LEMMA HandleFrameTypes ==
  ASSUME TypeInv, NEW c \in Conns, NEW p \in Packets, job[c] = NoJob,
         HandleFrame(c, p), UNCHANGED dbVars, UNCHANGED evaluating
  PROVE  /\ sock' \in [Conns -> {"free", "open", "destroyed"}]
         /\ closed' \in [Conns -> BOOLEAN]
         /\ imei' \in [Conns -> Imeis \union {None}]
         /\ job' \in [Conns -> Jobs]
         /\ tx' \in [Conns -> Transactions]
         /\ pending' \in [Conns -> Locations \union {None}]
         /\ inflight' \in [Conns -> SUBSET Locations]
         /\ acked' \subseteq [imei : Imeis \union {None}, report : Reports]
         /\ SessionsNamed'
<1>1. CASE StartTransaction(c, p)
  <2>1. imei'[c] \in Imeis /\ imei' \in [Conns -> Imeis \union {None}]
        /\ \A d \in Conns \ {c} : imei'[d] = imei[d]
    BY <1>1, PacketArgs DEF StartTransaction, TypeInv, TypeOK
  <2>2. PICK at \in IF p.type = "position" THEN 0..MaxClock ELSE {0} :
           job' = [job EXCEPT ![c] = [packet |-> p, at |-> at]]
    BY <1>1 DEF StartTransaction
  <2>3. at \in 0..MaxClock
    BY <2>2, ConstantsOK DEF ConstantsOK
  <2>4. [packet |-> p, at |-> at] \in Jobs /\ [packet |-> p, at |-> at] # NoJob
    BY <2>3, PacketArgs DEF Jobs, NoJob
  <2>5. /\ job' \in [Conns -> Jobs] /\ job'[c] # NoJob
        /\ \A d \in Conns \ {c} : job'[d] = job[d]
    BY <2>2, <2>4 DEF TypeInv, TypeOK
  <2>6. devices[imei'[c]] \in Fixes
    BY <2>1 DEF TypeInv, TypeOK
  <2>7. Started(imei'[c], 0) \in Transactions
        /\ Started(imei'[c], 0).phase = "lock" /\ ~Started(imei'[c], 0).saved
    BY <2>6, ConstantsOK DEF ConstantsOK, Started, Idle, Phases, Transactions
  <2>8. /\ tx' \in [Conns -> Transactions]
        /\ tx'[c].phase = "lock" /\ ~tx'[c].saved
        /\ \A d \in Conns \ {c} : tx'[d] = tx[d]
    BY <1>1, <2>7 DEF StartTransaction, TypeInv, TypeOK
  <2>9. SessionsNamed'
    BY <2>1, <2>5, <2>8 DEF TypeInv, SessionsNamed, Saves
  <2> QED
    BY <1>1, <2>1, <2>5, <2>8, <2>9 DEF StartTransaction, TypeInv, TypeOK
<1>2. CASE RefuseLogin(c, p)
  BY <1>2 DEF RefuseLogin, TypeInv, TypeOK, SessionsNamed, Saves
<1>3. CASE AckOnly(c, p)
  <2>1. AckOf(p, imei[c]) \subseteq [imei : Imeis \union {None}, report : Reports]
    BY PacketArgs DEF AckOf, TypeInv, TypeOK
  <2> QED
    BY <1>3, <2>1 DEF AckOnly, TypeInv, TypeOK, SessionsNamed, Saves
<1>4. CASE DropMalformed(c, p)
  BY <1>4 DEF DropMalformed, TypeInv, TypeOK, SessionsNamed, Saves
<1> QED
  BY <1>1, <1>2, <1>3, <1>4 DEF HandleFrame

(* Apply writes the rows of a tracker whose name is known.                 *)
LEMMA ApplyTypes ==
  ASSUME TypeInv, NEW c \in Conns, NEW phase \in {"done", "failed"}, Apply(c, phase)
  PROVE  TypeInv'
<1>1. /\ job[c] # NoJob /\ imei[c] \in Imeis /\ tx[c].phase = "row"
      /\ tx[c].fix \in Fixes /\ history \subseteq Rows
  BY DEF Apply, CanCommit, TypeInv, TypeOK, SessionsNamed, NoJob, Transactions
<1>2. Saves(c) => job[c].packet.arg \in Reports
  BY <1>1, JobPackets, PacketArgs DEF Saves, TypeInv, TypeOK
<1>3. Saves(c) => WithEvent(imei[c], job[c].packet.arg, Quality(job[c].packet.arg, job[c].at)) \subseteq Rows
  BY <1>1, <1>2 DEF WithEvent, Quality, Qualities, Rows
<1>4. history' \subseteq Rows
  BY <1>1, <1>3 DEF Apply
<1>5. PICK fix \in Fixes :
        /\ fix = IF Replaces(c) THEN job[c].packet.arg ELSE tx[c].fix
        /\ devices' = [devices EXCEPT ![imei[c]] = fix]
        /\ tx' = [d \in Conns |->
             CASE d = c -> [tx[c] EXCEPT !.phase = phase, !.fix = fix, !.saved = Replaces(c)]
               [] d # c /\ imei[d] = imei[c] /\ Snapshotted(d) -> [tx[d] EXCEPT !.stale = TRUE]
               [] OTHER -> tx[d]]
  BY <1>1, <1>2 DEF Apply, Replaces, Fixes
<1>6. devices' \in [Imeis -> Fixes]
  BY <1>5 DEF TypeInv, TypeOK
<1>7. Replaces(c) \in BOOLEAN
  BY DEF Replaces, Saves, Newer, TypeInv, TypeOK
<1>8. tx'[c] = [tx[c] EXCEPT !.phase = phase, !.fix = fix, !.saved = Replaces(c)]
  BY <1>5
<1>9. \A d \in Conns \ {c} :
        tx'[d] = IF imei[d] = imei[c] /\ Snapshotted(d) THEN [tx[d] EXCEPT !.stale = TRUE] ELSE tx[d]
  BY <1>5
<1>10. tx' \in [Conns -> Transactions]
  <2>1. tx'[c] \in Transactions
    <3>1. \A b \in BOOLEAN :
            [tx[c] EXCEPT !.phase = phase, !.fix = fix, !.saved = b] \in Transactions
      <4>1. fix \in Fixes /\ phase \in Phases /\ tx[c] \in Transactions
        BY <1>5 DEF TypeInv, TypeOK, Phases
      <4> QED
        BY <4>1 DEF Transactions
    <3> QED
      BY <1>7, <1>8, <3>1, Zenon
  <2>2. \A d \in Conns \ {c} : tx'[d] \in Transactions
    <3>1. \A d \in Conns : [tx[d] EXCEPT !.stale = TRUE] \in Transactions /\ tx[d] \in Transactions
      BY DEF TypeInv, TypeOK, Transactions
    <3> QED
      BY <1>9, <3>1
  <2> QED
    BY <1>5, <2>1, <2>2
<1>11. SessionsNamed'
  BY <1>1, <1>8, <1>9 DEF Apply, Saves, Replaces, TypeInv, TypeOK, SessionsNamed
<1> QED
  BY <1>4, <1>6, <1>10, <1>11 DEF Apply, TypeInv, TypeOK

(* Every step of the gateway keeps the types and the names of its sessions.*)
LEMMA TypeStep ==
  ASSUME TypeInv, [Next]_vars
  PROVE  TypeInv'
<1> USE DEF TypeInv
<1>1. ASSUME NEW c \in Conns, Socket(c) PROVE TypeInv'
  <2>1. CASE Connect(c)
    BY <2>1 DEF Connect, TypeOK, SessionsNamed, Saves, dbVars
  <2>2. CASE Disconnect(c)
    BY <2>2 DEF Disconnect, TypeOK, SessionsNamed, Saves, dbVars
  <2>3. CASE HandleClose(c)
    BY <2>3 DEF HandleClose, TypeOK, SessionsNamed, Saves, dbVars
  <2>4. CASE Release(c)
    BY <2>4 DEF Release, TypeOK, SessionsNamed, Saves, dbVars
  <2>5. CASE Overflow(c)
    BY <2>5, ConstantsOK DEF ConstantsOK, Overflow, Receive, Close, TypeOK, SessionsNamed, Saves, dbVars
  <2> QED
    BY <1>1, <2>1, <2>2, <2>3, <2>4, <2>5 DEF Socket
<1>2. ASSUME NEW c \in Conns, Handler(c) PROVE TypeInv'
  <2>1. CASE Drain(c)
    <3>1. buffer[c] \in Seq(Packets) /\ buffer[c] # <<>>
      BY <2>1 DEF Drain, TypeOK
    <3>2. Head(buffer[c]) \in Packets /\ Tail(buffer[c]) \in Seq(Packets)
      BY <3>1
    <3>3. buffer' \in [Conns -> Seq(Packets)]
      BY <2>1, <3>2 DEF Drain, TypeOK
    <3> QED
      BY <2>1, <3>2, <3>3, HandleFrameTypes DEF Drain, TypeOK, dbVars
  <2>2. CASE Finish(c)
    <3>1. job[c] # NoJob /\ imei[c] \in Imeis
      BY <2>2 DEF Finish, TypeOK, SessionsNamed
    <3>2. job[c].packet \in Packets
      BY <3>1, JobPackets DEF TypeOK
    <3>3. Evaluation(c) \subseteq [imei : Imeis, report : Reports]
      BY <3>1, <3>2, PacketArgs DEF Evaluation, SessionsNamed, Saves
    <3>4. AckOf(job[c].packet, imei[c]) \subseteq [imei : Imeis \union {None}, report : Reports]
      BY <3>1, <3>2, PacketArgs DEF AckOf
    <3>5. [imei |-> imei[c], fix |-> tx[c].fix] \in Locations
      BY <3>1 DEF Locations, TypeOK, Transactions
    <3>6. /\ pending' \in [Conns -> Locations \union {None}]
          /\ inflight' \in [Conns -> SUBSET Locations]
      <4>1. CASE job[c].packet.type = "position" /\ CanPublish(c)
        <5>1. inflight[c] \union {[imei |-> imei[c], fix |-> tx[c].fix]} \in SUBSET Locations
          BY <3>5 DEF TypeOK
        <5> QED
          BY <2>2, <5>1, <4>1 DEF Finish, Publish, TypeOK
      <4>2. CASE job[c].packet.type = "position" /\ ~CanPublish(c)
        BY <2>2, <3>5, <4>2 DEF Finish, Publish, TypeOK
      <4>3. CASE job[c].packet.type # "position"
        BY <2>2, <4>3 DEF Finish, TypeOK
      <4> QED
        BY <4>1, <4>2, <4>3
    <3>7. /\ job' \in [Conns -> Jobs] /\ tx'[c] = Idle /\ job'[c] = NoJob
          /\ \A d \in Conns \ {c} : tx'[d] = tx[d] /\ job'[d] = job[d]
          /\ tx' \in [Conns -> Transactions]
      BY <2>2, ConstantsOK DEF ConstantsOK, Finish, TypeOK, Jobs, Idle, Phases, Transactions, Fixes
    <3>8. SessionsNamed'
      BY <2>2, <3>7 DEF Finish, SessionsNamed, Saves, Idle
    <3> QED
      BY <2>2, <3>3, <3>4, <3>6, <3>7, <3>8 DEF Finish, TypeOK, dbVars
  <2>3. CASE HandleFailure(c)
    BY <2>3, ConstantsOK DEF ConstantsOK, HandleFailure, Close, TypeOK, SessionsNamed, Saves,
      dbVars, Jobs, Idle, Phases, Transactions, Fixes
  <2> QED
    BY <1>2, <2>1, <2>2, <2>3 DEF Handler
<1>3. ASSUME NEW c \in Conns, Transaction(c) PROVE TypeInv'
  <2>1. CASE TxLock(c)
    BY <2>1 DEF TxLock, Phase, TypeOK, SessionsNamed, Saves, dbVars, Phases, Transactions
  <2>2. CASE TxCommit(c)
    BY <2>2, ApplyTypes DEF TxCommit
  <2>3. CASE TxCommitUnknown(c)
    BY <2>3, ApplyTypes DEF TxCommitUnknown
  <2>4. CASE TxRetry(c)
    <3>1. imei[c] \in Imeis /\ tx[c].attempt + 1 \in 0..MaxRetries
      BY <2>4, ConstantsOK DEF ConstantsOK, TxRetry, CanRetry, Snapshotted, TypeOK, SessionsNamed,
        Transactions
    <3>2. devices[imei[c]] \in Fixes
      BY <3>1 DEF TypeOK
    <3>3. Started(imei[c], tx[c].attempt + 1) \in
            Transactions
      BY <3>1, <3>2 DEF Started, Phases, Transactions
    <3> QED
      BY <2>4, <3>3 DEF TxRetry, Snapshotted, Started, TypeOK, SessionsNamed, Saves, dbVars
  <2>5. CASE TxFail(c)
    BY <2>5 DEF TxFail, Snapshotted, Phase, TypeOK, SessionsNamed, Saves, dbVars, Phases, Transactions
  <2> QED
    BY <1>3, <2>1, <2>2, <2>3, <2>4, <2>5 DEF Transaction
<1>4. ASSUME NEW c \in Conns, PublishEnds(c) PROVE TypeInv'
  <2>1. PICK l \in inflight[c] :
          IF pending[c] # None /\ Live(c)
          THEN /\ inflight' = [inflight EXCEPT ![c] = (@ \ {l}) \union {pending[c]}]
               /\ pending' = [pending EXCEPT ![c] = None]
          ELSE /\ inflight' = [inflight EXCEPT ![c] = @ \ {l}]
               /\ UNCHANGED pending
    BY <1>4 DEF PublishEnds
  <2>2. /\ pending' \in [Conns -> Locations \union {None}]
        /\ inflight' \in [Conns -> SUBSET Locations]
    <3>1. CASE pending[c] # None /\ Live(c)
      <4>1. (inflight[c] \ {l}) \union {pending[c]} \in SUBSET Locations
        BY <3>1 DEF TypeOK
      <4> QED
        BY <2>1, <3>1, <4>1 DEF TypeOK
    <3>2. CASE ~(pending[c] # None /\ Live(c))
      BY <2>1, <3>2 DEF TypeOK
    <3> QED
      BY <3>1, <3>2
  <2> QED
    BY <1>4, <2>2 DEF PublishEnds, TypeOK, SessionsNamed, Saves, dbVars
<1>5. ASSUME NEW c \in Conns, NEW p \in Packets, HandleData(c, p) PROVE TypeInv'
  <2>1. sent' \in 0..MaxPackets
    BY <1>5, ConstantsOK DEF ConstantsOK, HandleData, Receive, TypeOK
  <2> QED
    BY <1>5, <2>1, HandleFrameTypes DEF HandleData, Receive, Busy, TypeOK, dbVars
<1>6. ASSUME NEW c \in Conns, NEW p \in Packets, BufferData(c, p) PROVE TypeInv'
  <2>1. Append(buffer[c], p) \in Seq(Packets)
    BY DEF TypeOK
  <2> QED
    BY <1>6, <2>1, ConstantsOK DEF ConstantsOK, BufferData, Receive, TypeOK, SessionsNamed, Saves, dbVars
<1>7. ASSUME Evaluate PROVE TypeInv'
  BY <1>7 DEF Evaluate, TypeOK, SessionsNamed, Saves, connVars, dbVars
<1>8. ASSUME Crash PROVE TypeInv'
  BY <1>8, ConstantsOK DEF ConstantsOK, Crash, TypeOK, SessionsNamed, Saves, dbVars,
    Jobs, NoJob, Idle, Phases, Transactions, Fixes
<1>9. CASE UNCHANGED vars
  BY <1>9 DEF vars, connVars, dbVars, TypeOK, SessionsNamed, Saves
<1> QED
  BY <1>1, <1>2, <1>3, <1>4, <1>5, <1>6, <1>7, <1>8, <1>9 DEF Next

(* Types hold in every behaviour: handlers, retries and crashes never mix  *)
(* up a session, its packet and its transaction.                           *)
THEOREM TypeCorrect == Spec => []TypeOK
<1>1. TypeInv => TypeOK
  BY DEF TypeInv
<1> QED
  BY InitTypeInv, TypeStep, <1>1, PTL DEF Spec

-------------------------------------------------------------------------------
(* Safety                                                                  *)

(* What a finished transaction leaves for the rest of its handler: the     *)
(* report is recorded and a saved fix is covered by the latest one.        *)
CommittedWork ==
  \A c \in Conns : tx[c].phase = "done" =>
    LET r == job[c].packet.arg
    IN /\ Saves(c) => Recorded(imei[c], r)
       /\ tx[c].saved => devices[imei[c]] # None /\ r.time <= devices[imei[c]].time

(* A snapshot that nobody invalidated still shows the tracker's row.       *)
SnapshotsFresh ==
  \A c \in Conns : Snapshotted(c) /\ ~tx[c].stale => tx[c].fix = devices[imei[c]]

(* Neither the location that waits nor the one a finished transaction is   *)
(* about to publish is ahead of the database, and the latter is not behind *)
(* what the session handed out before.                                     *)
ViewsCommitted ==
  \A c \in Conns :
    /\ pending[c] # None => AtLeast(devices[pending[c].imei], pending[c].fix)
    /\ tx[c].phase = "done" =>
         /\ AtLeast(devices[imei[c]], tx[c].fix)
         /\ \A l \in inflight[c] : l.imei = imei[c] => AtLeast(tx[c].fix, l.fix)
         /\ pending[c] # None /\ pending[c].imei = imei[c] => AtLeast(tx[c].fix, pending[c].fix)

Safe ==
  /\ PersistedBeforeAck /\ LatestCoversHistory /\ EvaluatesCommitted /\ SentInOrder
  /\ CommittedWork /\ SnapshotsFresh /\ ViewsCommitted

(* AtLeast compares fixes transitively, "no fix yet" included.             *)
LEMMA AtLeastOrder ==
  ASSUME NEW x \in Fixes, NEW y \in Fixes, NEW z \in Fixes
  PROVE  /\ AtLeast(x, x)
         /\ AtLeast(x, y) /\ AtLeast(y, z) => AtLeast(x, z)
BY ConstantsOK DEF ConstantsOK, AtLeast, Fixes

(* The commit of a transaction whose snapshot is fresh: one more report is *)
(* recorded at most, and the latest fix of its tracker only moves forward. *)
LEMMA ApplyLog ==
  ASSUME TypeInv, SnapshotsFresh, NEW c \in Conns, NEW phase \in {"done", "failed"},
         Apply(c, phase)
  PROVE  LET i == imei[c]
             r == job[c].packet.arg
             fix == IF Replaces(c) THEN r ELSE devices[i]
         IN /\ i \in Imeis /\ (Saves(c) => r \in Reports)
            /\ history' = IF Saves(c) THEN WithEvent(i, r, Quality(r, job[c].at)) ELSE history
            /\ devices' = [devices EXCEPT ![i] = fix]
            /\ fix \in Fixes
            /\ tx'[c].phase = phase /\ tx'[c].fix = fix /\ (tx'[c].saved <=> Replaces(c))
            /\ \A d \in Conns \ {c} :
                 tx'[d] = IF imei[d] = i /\ Snapshotted(d) THEN [tx[d] EXCEPT !.stale = TRUE] ELSE tx[d]
<1> DEFINE i == imei[c]
           r == job[c].packet.arg
           fix == IF Replaces(c) THEN r ELSE tx[c].fix
<1>1. job[c] # NoJob /\ i \in Imeis /\ tx[c] \in Transactions /\ job[c] \in Jobs
  BY DEF Apply, CanCommit, TypeInv, TypeOK, SessionsNamed, NoJob, Transactions
<1>2. Saves(c) => r \in Reports
  BY <1>1, JobPackets, PacketArgs DEF Saves
<1>3. tx[c].fix = devices[i]
  BY DEF Apply, CanCommit, SnapshotsFresh, Snapshotted
<1>4. fix \in Fixes
  BY <1>1, <1>2 DEF Replaces, Fixes, Transactions
<1>5. /\ tx'[c] = [tx[c] EXCEPT !.phase = phase, !.fix = fix, !.saved = Replaces(c)]
      /\ \A d \in Conns \ {c} :
           tx'[d] = IF imei[d] = i /\ Snapshotted(d) THEN [tx[d] EXCEPT !.stale = TRUE] ELSE tx[d]
  BY DEF Apply
<1>6. tx'[c].phase = phase /\ tx'[c].fix = fix /\ (tx'[c].saved <=> Replaces(c))
  BY <1>1, <1>5 DEF Transactions
<1> QED
  BY <1>1, <1>2, <1>3, <1>4, <1>5, <1>6 DEF Apply

(* A commit keeps the safety invariant: it writes for a fresh snapshot only.*)
LEMMA ApplySafe ==
  ASSUME TypeInv, Safe, NEW c \in Conns, NEW phase \in {"done", "failed"}, Apply(c, phase)
  PROVE  Safe'
<1> DEFINE i == imei[c]
           r == job[c].packet.arg
           fix == IF Replaces(c) THEN r ELSE devices[i]
<1>1. /\ i \in Imeis /\ (Saves(c) => r \in Reports)
      /\ history' = IF Saves(c) THEN WithEvent(i, r, Quality(r, job[c].at)) ELSE history
      /\ devices' = [devices EXCEPT ![i] = fix]
      /\ fix \in Fixes
      /\ tx'[c].phase = phase /\ tx'[c].fix = fix /\ (tx'[c].saved <=> Replaces(c))
      /\ \A d \in Conns \ {c} :
           tx'[d] = IF imei[d] = i /\ Snapshotted(d) THEN [tx[d] EXCEPT !.stale = TRUE] ELSE tx[d]
  BY ApplyLog DEF Safe
<1>2. UNCHANGED <<sent, sock, closed, imei, buffer, job, pending, inflight, evaluating, acked>>
  BY DEF Apply
<1>3. Replaces(c) => Saves(c) /\ Newer(r, devices[i]) /\ Quality(r, job[c].at) = "valid"
  BY DEF Apply, CanCommit, Replaces, Safe, SnapshotsFresh, Snapshotted
<1>4. history \subseteq history'
  BY <1>1 DEF WithEvent
<1>5. \A j, x : Recorded(j, x) => Recorded(j, x)'
  BY <1>4 DEF Recorded
<1>6. \A j \in Imeis : devices[j] \in Fixes /\ devices'[j] \in Fixes /\ (j # i => devices'[j] = devices[j])
  BY <1>1 DEF TypeInv, TypeOK
<1>7. devices'[i] = fix
  BY <1>1 DEF TypeInv, TypeOK
<1>8. \A j \in Imeis : AtLeast(devices'[j], devices[j])
  <2>1. AtLeast(devices'[i], devices[i])
    BY <1>1, <1>3, <1>6, <1>7, AtLeastOrder, ConstantsOK
      DEF ConstantsOK, AtLeast, Newer, Fixes
  <2> QED
    BY <1>6, <2>1, AtLeastOrder
<1>9. Saves(c) => Recorded(i, r)'
  <2> DEFINE row == [imei |-> i, report |-> r, quality |-> Quality(r, job[c].at)]
  <2>1. row.imei = i /\ row.report = r
    OBVIOUS
  <2>2. Saves(c) => \E x \in history' : x.imei = i /\ x.report = r
    BY <1>1, <2>1 DEF WithEvent
  <2> QED
    BY <1>2, <2>2 DEF Recorded
<1>10. PersistedBeforeAck'
  BY <1>2, <1>5 DEF Safe, PersistedBeforeAck
<1>11. LatestCoversHistory'
  <2>1. ASSUME NEW row \in history', row.quality = "valid"
        PROVE  devices'[row.imei] # None /\ row.report.time <= devices'[row.imei].time
    <3>1. CASE row \in history
      <4>1. row.imei \in Imeis /\ row.report \in Reports
        BY <3>1 DEF TypeInv, TypeOK, Rows
      <4>2. AtLeast(devices[row.imei], row.report)
        BY <2>1, <3>1, <4>1, ConstantsOK DEF ConstantsOK, Safe, LatestCoversHistory, AtLeast
      <4>3. row.report \in Fixes /\ row.report # None
        BY <4>1, ConstantsOK DEF ConstantsOK, Fixes
      <4>4. AtLeast(devices'[row.imei], row.report)
        BY <1>6, <1>8, <4>1, <4>2, <4>3, AtLeastOrder
      <4> QED
        BY <1>6, <4>1, <4>3, <4>4, ConstantsOK DEF ConstantsOK, AtLeast, Fixes
    <3>2. CASE row \notin history
      <4>1. Saves(c) /\ row = [imei |-> i, report |-> r, quality |-> Quality(r, job[c].at)]
        BY <1>1, <2>1, <3>2 DEF WithEvent
      <4>2. r \in Reports /\ r # None /\ r.time \in Nat
        BY <1>1, <4>1, ConstantsOK DEF ConstantsOK
      <4>3. CASE Replaces(c)
        BY <1>7, <4>1, <4>2, <4>3
      <4>4. CASE ~Replaces(c)
        <5>1. ~Newer(r, devices[i])
          BY <2>1, <4>1, <4>4 DEF Apply, CanCommit, Replaces, Safe, SnapshotsFresh, Snapshotted
        <5> QED
          BY <1>1, <1>6, <1>7, <4>1, <4>2, <4>4, <5>1, ConstantsOK DEF ConstantsOK, Newer, Fixes
      <4> QED
        BY <4>3, <4>4
    <3> QED
      BY <3>1, <3>2
  <2>2. ASSUME NEW j \in Imeis, devices'[j] # None
        PROVE  Recorded(j, devices[j])'
    <3>1. CASE j = i /\ Replaces(c)
      BY <1>2, <1>3, <1>7, <1>9, <3>1 DEF Recorded
    <3>2. CASE ~(j = i /\ Replaces(c))
      <4>1. devices'[j] = devices[j]
        BY <1>6, <1>7, <3>2
      <4> QED
        BY <1>5, <2>2, <4>1 DEF Safe, LatestCoversHistory, Recorded
    <3> QED
      BY <3>1, <3>2
  <2> QED
    BY <2>1, <2>2 DEF LatestCoversHistory
<1>12. EvaluatesCommitted'
  <2> SUFFICES ASSUME NEW e \in evaluating
               PROVE  /\ Recorded(e.imei, e.report)'
                      /\ devices'[e.imei] # None /\ e.report.time <= devices'[e.imei].time
    BY <1>2 DEF EvaluatesCommitted
  <2>1. e.imei \in Imeis /\ e.report \in Reports
    BY DEF TypeInv, TypeOK
  <2>2. e.report \in Fixes /\ e.report # None /\ AtLeast(devices[e.imei], e.report)
    BY <2>1, ConstantsOK DEF ConstantsOK, Safe, EvaluatesCommitted, AtLeast, Fixes
  <2>3. AtLeast(devices'[e.imei], e.report)
    BY <1>6, <1>8, <2>1, <2>2, AtLeastOrder
  <2> QED
    BY <1>5, <2>2, <2>3 DEF Safe, EvaluatesCommitted, AtLeast
<1>13. CommittedWork'
  <2> SUFFICES ASSUME NEW d \in Conns, tx'[d].phase = "done"
               PROVE  /\ Saves(d)' => Recorded(imei[d], job[d].packet.arg)'
                      /\ tx'[d].saved => /\ devices'[imei[d]] # None
                                         /\ job[d].packet.arg.time <= devices'[imei[d]].time
    BY <1>2 DEF CommittedWork
  <2>1. CASE d = c
    <3>1. tx'[c].saved => r \in Reports /\ r # None /\ r.time \in Nat /\ devices'[i] = r
      BY <1>1, <1>3, <1>7, ConstantsOK DEF ConstantsOK
    <3> QED
      BY <1>2, <1>9, <2>1, <3>1 DEF Saves
  <2>2. CASE d # c
    <3>1. tx'[d] = tx[d]
      BY <1>1, <2>2 DEF TypeInv, TypeOK, Transactions, Snapshotted
    <3>2. tx[d].saved => /\ imei[d] \in Imeis /\ job[d].packet.arg \in Reports
                         /\ AtLeast(devices[imei[d]], job[d].packet.arg)
      BY <3>1, JobPackets, PacketArgs, ConstantsOK
        DEF ConstantsOK, TypeInv, TypeOK, SessionsNamed, Saves, Safe, CommittedWork, AtLeast
    <3>3. tx[d].saved => AtLeast(devices'[imei[d]], job[d].packet.arg)
      BY <1>6, <1>8, <3>2, AtLeastOrder DEF Fixes
    <3>4. tx[d].saved => job[d].packet.arg # None
      BY <3>2, ConstantsOK DEF ConstantsOK
    <3> QED
      BY <1>2, <1>5, <3>1, <3>3, <3>4 DEF Safe, CommittedWork, Saves, AtLeast
  <2> QED
    BY <2>1, <2>2
<1>14. SnapshotsFresh'
  <2> SUFFICES ASSUME NEW d \in Conns, Snapshotted(d)', ~tx'[d].stale
               PROVE  tx'[d].fix = devices'[imei[d]]
    BY <1>2 DEF SnapshotsFresh
  <2>1. d # c
    BY <1>1 DEF Snapshotted
  <2>2. tx'[d] = tx[d] /\ ~(imei[d] = i /\ Snapshotted(d)) 
    BY <1>1, <2>1 DEF TypeInv, TypeOK, Transactions, Snapshotted
  <2>3. Snapshotted(d) /\ imei[d] # i /\ imei[d] \in Imeis
    BY <2>2 DEF Snapshotted, TypeInv, TypeOK, SessionsNamed
  <2> QED
    BY <1>6, <2>2, <2>3 DEF Safe, SnapshotsFresh
<1>15. \A d \in Conns : \A l \in inflight[d] : l.imei \in Imeis /\ l.fix \in Fixes
  BY DEF TypeInv, TypeOK, Locations
<1>16. \A d \in Conns : pending[d] # None => pending[d].imei \in Imeis /\ pending[d].fix \in Fixes
  BY DEF TypeInv, TypeOK, Locations
<1>17. SentInOrder'
  <2>1. \A d \in Conns : \A l \in inflight[d] : AtLeast(devices'[l.imei], l.fix)
    BY <1>6, <1>8, <1>15, AtLeastOrder DEF Safe, SentInOrder
  <2> QED
    BY <1>2, <2>1 DEF Safe, SentInOrder
<1>18. ViewsCommitted'
  <2>1. \A d \in Conns : pending[d] # None => AtLeast(devices'[pending[d].imei], pending[d].fix)
    BY <1>6, <1>8, <1>16, AtLeastOrder DEF Safe, ViewsCommitted
  <2>2. ASSUME NEW d \in Conns, tx'[d].phase = "done"
        PROVE  /\ AtLeast(devices'[imei[d]], tx'[d].fix)
               /\ \A l \in inflight[d] : l.imei = imei[d] => AtLeast(tx'[d].fix, l.fix)
               /\ pending[d] # None /\ pending[d].imei = imei[d] => AtLeast(tx'[d].fix, pending[d].fix)
    <3>1. CASE d = c
      <4>1. tx'[c].fix = devices'[i] /\ AtLeast(devices'[i], devices[i]) /\ AtLeast(devices'[i], devices'[i])
        BY <1>1, <1>6, <1>7, <1>8, AtLeastOrder
      <4>2. \A l \in inflight[c] : l.imei = i => AtLeast(devices'[i], l.fix)
        BY <1>1, <1>6, <1>8, <1>15, AtLeastOrder DEF Safe, SentInOrder
      <4>3. pending[c] # None /\ pending[c].imei = i => AtLeast(devices'[i], pending[c].fix)
        BY <1>1, <1>6, <1>8, <1>16, AtLeastOrder DEF Safe, ViewsCommitted
      <4> QED
        BY <3>1, <4>1, <4>2, <4>3
    <3>2. CASE d # c
      <4>1. tx'[d] = tx[d]
        BY <1>1, <2>2, <3>2 DEF TypeInv, TypeOK, Transactions, Snapshotted
      <4>2. imei[d] \in Imeis /\ tx[d].fix \in Fixes
        BY <2>2, <4>1 DEF TypeInv, TypeOK, SessionsNamed, Transactions
      <4>3. AtLeast(devices'[imei[d]], tx[d].fix)
        BY <1>6, <1>8, <2>2, <4>1, <4>2, AtLeastOrder DEF Safe, ViewsCommitted
      <4> QED
        BY <2>2, <4>1, <4>3 DEF Safe, ViewsCommitted
    <3> QED
      BY <3>1, <3>2
  <2> QED
    BY <1>2, <2>1, <2>2 DEF ViewsCommitted
<1> QED
  BY <1>10, <1>11, <1>12, <1>13, <1>14, <1>17, <1>18 DEF Safe

(* Nothing is acknowledged, saved or published initially.                  *)
LEMMA SafeInit == Init => Safe
BY DEF Init, Safe, PersistedBeforeAck, LatestCoversHistory, EvaluatesCommitted, SentInOrder,
  CommittedWork, SnapshotsFresh, ViewsCommitted, Idle, Snapshotted

(* Handlers up to their first await write nothing; the transaction one of  *)
(* them starts takes a snapshot of the row as it is.                       *)
LEMMA HandleFrameSafe ==
  ASSUME TypeInv, Safe, NEW c \in Conns, NEW p \in Packets, job[c] = NoJob,
         HandleFrame(c, p), UNCHANGED dbVars, UNCHANGED evaluating
  PROVE  Safe'
<1> USE DEF Safe, dbVars
<1>1. CASE StartTransaction(c, p)
  <2>1. /\ \A d \in Conns \ {c} : imei'[d] = imei[d] /\ job'[d] = job[d] /\ tx'[d] = tx[d]
        /\ tx'[c] = Started(imei'[c], 0)
        /\ UNCHANGED <<closed, pending, inflight, acked, history, devices>>
    BY <1>1 DEF StartTransaction, TypeInv, TypeOK
  <2>2. CommittedWork' /\ SnapshotsFresh'
    BY <2>1 DEF Started, CommittedWork, SnapshotsFresh, Snapshotted, Recorded, Saves
  <2>3. SentInOrder' /\ ViewsCommitted'
    BY <2>1 DEF Started, SentInOrder, ViewsCommitted
  <2> QED
    BY <2>1, <2>2, <2>3 DEF PersistedBeforeAck, LatestCoversHistory, EvaluatesCommitted, Recorded
<1>2. CASE AckOnly(c, p)
  <2>1. AckOf(p, imei[c]) \subseteq {a \in acked' : a.imei = None}
    BY <1>2 DEF AckOnly, AckOf, NeedsSession
  <2>2. PersistedBeforeAck'
    BY <1>2, <2>1 DEF AckOnly, PersistedBeforeAck, Recorded
  <2> QED
    BY <1>2, <2>2 DEF AckOnly, LatestCoversHistory, EvaluatesCommitted, SentInOrder,
      CommittedWork, SnapshotsFresh, ViewsCommitted, Snapshotted, Recorded, Saves
<1>3. CASE RefuseLogin(c, p) \/ DropMalformed(c, p)
  BY <1>3 DEF RefuseLogin, DropMalformed,
      PersistedBeforeAck, LatestCoversHistory, EvaluatesCommitted, SentInOrder,
      CommittedWork, SnapshotsFresh, ViewsCommitted, Snapshotted, Recorded, Saves
<1> QED
  BY <1>1, <1>2, <1>3 DEF HandleFrame

(* The end of a handler hands out what its transaction committed.          *)
LEMMA FinishSafe ==
  ASSUME TypeInv, Safe, NEW c \in Conns, Finish(c)
  PROVE  Safe'
<1> USE DEF Safe
<1>1. /\ tx[c].phase = "done" /\ job[c] # NoJob /\ imei[c] \in Imeis
      /\ UNCHANGED <<imei, history, devices>>
      /\ \A d \in Conns \ {c} : job'[d] = job[d] /\ tx'[d] = tx[d]
      /\ tx'[c] = Idle
  BY DEF Finish, TypeInv, TypeOK, SessionsNamed, dbVars
<1>2. PersistedBeforeAck'
  <2> SUFFICES ASSUME NEW a \in acked', a.imei # None, a.report.located
               PROVE  Recorded(a.imei, a.report)
    BY <1>1 DEF PersistedBeforeAck, Recorded
  <2>1. CASE a \in acked
    BY <2>1 DEF PersistedBeforeAck
  <2>2. CASE a \notin acked
    <3>1. job[c].packet.type = "position" /\ a = [imei |-> imei[c], report |-> job[c].packet.arg]
      BY <2>2 DEF Finish, AckOf
    <3> QED
      BY <1>1, <3>1 DEF CommittedWork, Saves
  <2> QED
    BY <2>1, <2>2
<1>3. EvaluatesCommitted'
  <2>1. \A e \in Evaluation(c) :
          /\ Recorded(e.imei, e.report)
          /\ devices[e.imei] # None /\ e.report.time <= devices[e.imei].time
    BY <1>1 DEF Evaluation, CommittedWork, TypeInv, SessionsNamed
  <2> QED
    BY <1>1, <2>1 DEF Finish, EvaluatesCommitted, Recorded
<1>4. CommittedWork' /\ SnapshotsFresh'
  BY <1>1 DEF CommittedWork, SnapshotsFresh, Snapshotted, Saves, Recorded, Idle
<1>5. SentInOrder' /\ ViewsCommitted'
  <2> DEFINE location == [imei |-> imei[c], fix |-> tx[c].fix]
  <2>2. CASE job[c].packet.type = "position" /\ CanPublish(c)
    <3>1. /\ inflight[c] = {} /\ inflight' = [inflight EXCEPT ![c] = {location}]
          /\ pending' = [pending EXCEPT ![c] = None]
      BY <2>2 DEF Finish, Publish, CanPublish
    <3> QED
      BY <1>1, <3>1 DEF SentInOrder, ViewsCommitted, TypeInv, TypeOK, Idle
  <2>3. CASE job[c].packet.type = "position" /\ ~CanPublish(c)
    <3>1. UNCHANGED inflight /\ pending' = [pending EXCEPT ![c] = location]
      BY <2>3 DEF Finish, Publish
    <3> QED
      BY <1>1, <3>1 DEF SentInOrder, ViewsCommitted, TypeInv, TypeOK, Idle
  <2>4. CASE job[c].packet.type # "position"
    BY <1>1, <2>4 DEF Finish, SentInOrder, ViewsCommitted, Idle
  <2> QED
    BY <2>2, <2>3, <2>4
<1> QED
  BY <1>1, <1>2, <1>3, <1>4, <1>5 DEF LatestCoversHistory, Recorded

(* A publication ends; the location that waited, if any, follows it.       *)
LEMMA PublishEndsSafe ==
  ASSUME TypeInv, Safe, NEW c \in Conns, PublishEnds(c)
  PROVE  Safe'
<1> USE DEF Safe
<1>1. UNCHANGED <<imei, job, tx, history, devices, evaluating, acked>>
  BY DEF PublishEnds, dbVars
<1>2. PICK l \in inflight[c] :
        IF pending[c] # None /\ Live(c)
        THEN /\ inflight' = [inflight EXCEPT ![c] = (@ \ {l}) \union {pending[c]}]
             /\ pending' = [pending EXCEPT ![c] = None]
        ELSE /\ inflight' = [inflight EXCEPT ![c] = @ \ {l}]
             /\ UNCHANGED pending
  BY DEF PublishEnds
<1>3. inflight[c] = {l}
  BY DEF SentInOrder
<1>4. SentInOrder' /\ ViewsCommitted'
  <2>1. CASE pending[c] # None /\ Live(c)
    <3>1. inflight' = [inflight EXCEPT ![c] = {pending[c]}] /\ pending' = [pending EXCEPT ![c] = None]
      BY <1>2, <1>3, <2>1
    <3> QED
      BY <1>1, <2>1, <3>1 DEF SentInOrder, ViewsCommitted, TypeInv, TypeOK
  <2>2. CASE ~(pending[c] # None /\ Live(c))
    <3>1. inflight' = [inflight EXCEPT ![c] = {}] /\ UNCHANGED pending
      BY <1>2, <1>3, <2>2
    <3> QED
      BY <1>1, <3>1 DEF SentInOrder, ViewsCommitted, TypeInv, TypeOK
  <2> QED
    BY <2>1, <2>2
<1> QED
  BY <1>1, <1>4 DEF PersistedBeforeAck, LatestCoversHistory, EvaluatesCommitted,
    CommittedWork, SnapshotsFresh, Snapshotted, Recorded, Saves

(* Every step of the gateway keeps the safety invariant.                   *)
LEMMA SafeStep ==
  ASSUME TypeInv, Safe, [Next]_vars
  PROVE  Safe'
<1> USE DEF Safe, dbVars
<1>1. ASSUME NEW c \in Conns, Socket(c) PROVE Safe'
  <2>1. CASE Connect(c) \/ Disconnect(c)
    BY <2>1 DEF Connect, Disconnect,
      PersistedBeforeAck, LatestCoversHistory, EvaluatesCommitted, SentInOrder,
      CommittedWork, SnapshotsFresh, ViewsCommitted, Snapshotted, Recorded, Saves
  <2>2. CASE HandleClose(c) \/ Overflow(c)
    <3>1. /\ UNCHANGED <<imei, job, tx, inflight, history, devices, evaluating, acked>>
          /\ pending' = [pending EXCEPT ![c] = None]
      BY <2>2 DEF HandleClose, Overflow, Receive, Close
    <3>2. \A d \in Conns : pending'[d] # None => pending'[d] = pending[d]
      BY <3>1 DEF TypeInv, TypeOK
    <3>3. SentInOrder' /\ ViewsCommitted'
      BY <3>1, <3>2 DEF SentInOrder, ViewsCommitted
    <3> QED
      BY <3>1, <3>3 DEF PersistedBeforeAck, LatestCoversHistory, EvaluatesCommitted,
        CommittedWork, SnapshotsFresh, Snapshotted, Recorded, Saves
  <2>3. CASE Release(c)
    BY <2>3 DEF Release, TypeInv, TypeOK, SessionsNamed,
      PersistedBeforeAck, LatestCoversHistory, EvaluatesCommitted, SentInOrder,
      CommittedWork, SnapshotsFresh, ViewsCommitted, Snapshotted, Recorded, Saves
  <2> QED
    BY <1>1, <2>1, <2>2, <2>3 DEF Socket
<1>2. ASSUME NEW c \in Conns, Handler(c) PROVE Safe'
  <2>1. CASE Drain(c)
    <3>1. Head(buffer[c]) \in Packets
      BY <2>1 DEF Drain, TypeInv, TypeOK
    <3> QED
      BY <2>1, <3>1, HandleFrameSafe DEF Drain
  <2>2. CASE Finish(c)
    BY <2>2, FinishSafe
  <2>3. CASE HandleFailure(c)
    BY <2>3 DEF HandleFailure, Close, Idle, TypeInv, TypeOK,
      PersistedBeforeAck, LatestCoversHistory, EvaluatesCommitted, SentInOrder,
      CommittedWork, SnapshotsFresh, ViewsCommitted, Snapshotted, Recorded, Saves
  <2> QED
    BY <1>2, <2>1, <2>2, <2>3 DEF Handler
<1>3. ASSUME NEW c \in Conns, Transaction(c) PROVE Safe'
  <2>1. CASE TxLock(c) \/ TxFail(c)
    <3>1. PICK to \in {"row", "failed"} : tx' = [tx EXCEPT ![c].phase = to]
      BY <2>1 DEF TxLock, TxFail, Phase
    <3>2. UNCHANGED <<imei, job, pending, inflight, history, devices, evaluating, acked>>
      BY <2>1 DEF TxLock, TxFail, Phase
    <3>3. Snapshotted(c)
      BY <2>1 DEF TxLock, TxFail, Phase, Snapshotted
    <3>4. /\ tx'[c].phase = to /\ tx'[c].fix = tx[c].fix /\ tx'[c].stale = tx[c].stale
          /\ \A d \in Conns \ {c} : tx'[d] = tx[d]
      BY <3>1 DEF TypeInv, TypeOK, Transactions
    <3>5. CommittedWork' /\ SnapshotsFresh'
      BY <3>2, <3>3, <3>4 DEF CommittedWork, SnapshotsFresh, Snapshotted, Recorded, Saves
    <3>6. SentInOrder' /\ ViewsCommitted'
      BY <3>2, <3>4 DEF SentInOrder, ViewsCommitted
    <3> QED
      BY <3>2, <3>5, <3>6 DEF PersistedBeforeAck, LatestCoversHistory, EvaluatesCommitted, Recorded
  <2>2. CASE TxCommit(c) \/ TxCommitUnknown(c)
    BY <2>2, ApplySafe DEF TxCommit, TxCommitUnknown
  <2>3. CASE TxRetry(c)
    BY <2>3 DEF TxRetry, Started, TypeInv, TypeOK,
      PersistedBeforeAck, LatestCoversHistory, EvaluatesCommitted, SentInOrder,
      CommittedWork, SnapshotsFresh, ViewsCommitted, Snapshotted, Recorded, Saves
  <2> QED
    BY <1>3, <2>1, <2>2, <2>3 DEF Transaction
<1>4. ASSUME NEW c \in Conns, NEW p \in Packets, HandleData(c, p) \/ BufferData(c, p) PROVE Safe'
  <2>1. CASE HandleData(c, p)
    BY <2>1, HandleFrameSafe DEF HandleData, Receive, Busy
  <2>2. CASE BufferData(c, p)
    BY <2>2 DEF BufferData, Receive,
      PersistedBeforeAck, LatestCoversHistory, EvaluatesCommitted, SentInOrder,
      CommittedWork, SnapshotsFresh, ViewsCommitted, Snapshotted, Recorded, Saves
  <2> QED
    BY <1>4, <2>1, <2>2
<1>5. ASSUME Evaluate PROVE Safe'
  BY <1>5 DEF Evaluate, connVars,
      PersistedBeforeAck, LatestCoversHistory, EvaluatesCommitted, SentInOrder,
      CommittedWork, SnapshotsFresh, ViewsCommitted, Snapshotted, Recorded, Saves
<1>6. ASSUME Crash PROVE Safe'
  BY <1>6 DEF Crash, Idle,
      PersistedBeforeAck, LatestCoversHistory, EvaluatesCommitted, SentInOrder,
      CommittedWork, SnapshotsFresh, ViewsCommitted, Snapshotted, Recorded, Saves
<1>7. CASE UNCHANGED vars
  BY <1>7 DEF vars, connVars,
      PersistedBeforeAck, LatestCoversHistory, EvaluatesCommitted, SentInOrder,
      CommittedWork, SnapshotsFresh, ViewsCommitted, Snapshotted, Recorded, Saves
<1> QED
  BY <1>1, <1>2, <1>3, <1>4, <1>5, <1>6, <1>7, PublishEndsSafe DEF Next

(* The strengthened invariant holds in every reachable state.              *)
LEMMA SpecSafe == Spec => [](TypeInv /\ Safe)
<1>1. Init => TypeInv /\ Safe
  BY InitTypeInv, SafeInit
<1>2. TypeInv /\ Safe /\ [Next]_vars => (TypeInv /\ Safe)'
  BY TypeStep, SafeStep
<1> QED
  BY <1>1, <1>2, PTL DEF Spec

(* No report is acknowledged to a tracker that named itself before it is   *)
(* in gps_history, for any number of retries, crashes and connections.     *)
THEOREM PersistenceBeforeAck == Spec => []PersistedBeforeAck
<1>1. Safe => PersistedBeforeAck
  BY DEF Safe
<1> QED
  BY SpecSafe, <1>1, PTL

(* Any number of sessions of one tracker write its row without losing a    *)
(* newer fix, though each decides on a snapshot taken before its lock.     *)
THEOREM LatestFixCoversHistory == Spec => []LatestCoversHistory
<1>1. Safe => LatestCoversHistory
  BY DEF Safe
<1> QED
  BY SpecSafe, <1>1, PTL

(* The detached geofence hook sees nothing that was rolled back.           *)
THEOREM EvaluationsCommitted == Spec => []EvaluatesCommitted
<1>1. Safe => EvaluatesCommitted
  BY DEF Safe
<1> QED
  BY SpecSafe, <1>1, PTL

(* The one-slot publication queue keeps a session's fixes in order.        *)
THEOREM ViewersSeeOrder == Spec => []ViewersInOrder
<1>1. Safe => ViewersInOrder
  BY DEF Safe, ViewersInOrder, WaitingStored, ViewsCommitted
<1> QED
  BY SpecSafe, <1>1, PTL

-------------------------------------------------------------------------------
(* Refinement of TrackerLog                                                *)

(* The initial tables are an empty log.                                    *)
LEMMA LogInit == Init => Log!Init
BY DEF Init, Log!Init

(* A step that leaves the tables and the acknowledgements alone.           *)
LEMMA LogStutter ==
  ASSUME UNCHANGED <<history, devices, acked>>
  PROVE  UNCHANGED Log!vars
BY DEF Log!vars

(* An acknowledgement of a recorded report is a Confirm of the log.        *)
LEMMA LogConfirm ==
  ASSUME UNCHANGED dbVars, NEW i \in Imeis, NEW r \in Reports, Recorded(i, r),
         acked' = acked \union {[imei |-> i, report |-> r]}
  PROVE  [Log!Next]_Log!vars
<1>1. CASE r.located
  <2>1. i # None
    BY ConstantsOK DEF ConstantsOK
  <2>2. Log!Confirm(i, r)
    <3>1. <<i, r>> \in {<<row.imei, row.report>> : row \in history}
      BY DEF Recorded
    <3>2. {<<a.imei, a.report>> : a \in {b \in acked' : b.imei # None /\ b.report.located}}
            = {<<a.imei, a.report>> : a \in {b \in acked : b.imei # None /\ b.report.located}}
                \union {<<i, r>>}
      <4> DEFINE ack == [imei |-> i, report |-> r]
      <4>1. ack.imei = i /\ ack.report = r
        OBVIOUS
      <4>2. {b \in acked' : b.imei # None /\ b.report.located}
              = {b \in acked : b.imei # None /\ b.report.located} \union {ack}
        BY <1>1, <2>1, <4>1
      <4> QED
        BY <4>1, <4>2
    <3> QED
      BY <3>1, <3>2 DEF Log!Confirm, dbVars
  <2> QED
    BY <2>2 DEF Log!Next
<1>2. CASE ~r.located
  BY <1>2 DEF Log!vars, dbVars
<1> QED
  BY <1>1, <1>2

(* A commit is a Record of the log, or leaves it alone.                    *)
LEMMA LogRecord ==
  ASSUME TypeInv, Safe, NEW c \in Conns, NEW phase \in {"done", "failed"}, Apply(c, phase)
  PROVE  [Log!Next]_Log!vars
<1> DEFINE i == imei[c]
           r == job[c].packet.arg
           fix == IF Replaces(c) THEN r ELSE devices[i]
<1>1. /\ i \in Imeis /\ (Saves(c) => r \in Reports)
      /\ history' = IF Saves(c) THEN WithEvent(i, r, Quality(r, job[c].at)) ELSE history
      /\ devices' = [devices EXCEPT ![i] = fix]
  BY ApplyLog DEF Safe
<1>2. UNCHANGED acked
  BY DEF Apply
<1>3. ~Replaces(c) => UNCHANGED devices
  BY <1>1 DEF TypeInv, TypeOK
<1>4. CASE Saves(c)
  <2>1. {<<row.imei, row.report>> : row \in history'}
          = {<<row.imei, row.report>> : row \in history} \union {<<i, r>>}
    <3> DEFINE new == [imei |-> i, report |-> r, quality |-> Quality(r, job[c].at)]
    <3>1. new.imei = i /\ new.report = r
      OBVIOUS
    <3>2. CASE \E row \in history : row.imei = i /\ row.report = r
      <4>1. history' = history
        BY <1>1, <1>4, <3>2 DEF WithEvent
      <4>2. <<i, r>> \in {<<row.imei, row.report>> : row \in history}
        BY <3>2
      <4> QED
        BY <4>1, <4>2
    <3>3. CASE ~\E row \in history : row.imei = i /\ row.report = r
      <4>1. history' = history \union {new}
        BY <1>1, <1>4, <3>3 DEF WithEvent
      <4> HIDE DEF new
      <4> QED
        BY <3>1, <4>1
    <3> QED
      BY <3>2, <3>3
  <2>2. PICK j \in Imeis, x \in Reports : j = i /\ x = r
    BY <1>1, <1>4
  <2>3. CASE Replaces(c)
    <3>1. Log!Newer(x, devices[j])
      BY <2>2, <2>3 DEF Apply, CanCommit, Replaces, Safe, SnapshotsFresh, Snapshotted, Newer, Log!Newer
    <3>2. Log!Record(j, x)
      BY <1>1, <1>2, <2>1, <2>2, <2>3, <3>1 DEF Log!Record
    <3> QED
      BY <3>2 DEF Log!Next
  <2>4. CASE ~Replaces(c)
    <3>1. Log!Record(j, x)
      BY <1>2, <1>3, <2>1, <2>2, <2>4 DEF Log!Record
    <3> QED
      BY <3>1 DEF Log!Next
  <2> QED
    BY <2>3, <2>4
<1>5. CASE ~Saves(c)
  <2>1. UNCHANGED history /\ ~Replaces(c)
    BY <1>1, <1>5 DEF Replaces
  <2> QED
    BY <1>2, <1>3, <2>1, LogStutter
<1> QED
  BY <1>4, <1>5

(* A handler up to its first await leaves the log alone.                   *)
LEMMA LogHandleFrame ==
  ASSUME TypeInv, NEW c \in Conns, NEW p \in Packets, HandleFrame(c, p), UNCHANGED dbVars
  PROVE  [Log!Next]_Log!vars
<1>1. CASE AckOnly(c, p)
  <2>1. {a \in acked' : a.imei # None /\ a.report.located}
          = {a \in acked : a.imei # None /\ a.report.located}
    BY <1>1 DEF AckOnly, AckOf, NeedsSession
  <2> QED
    BY <2>1 DEF Log!vars, dbVars
<1>2. CASE ~AckOnly(c, p)
  <2>1. UNCHANGED <<history, devices, acked>>
    BY <1>2 DEF HandleFrame, StartTransaction, RefuseLogin, DropMalformed, dbVars
  <2> QED
    BY <2>1, LogStutter
<1> QED
  BY <1>1, <1>2

(* The end of a handler confirms its report, or leaves the log alone.      *)
LEMMA LogFinish ==
  ASSUME TypeInv, Safe, NEW c \in Conns, Finish(c)
  PROVE  [Log!Next]_Log!vars
<1>1. tx[c].phase = "done" /\ imei[c] \in Imeis /\ job[c] # NoJob
      /\ UNCHANGED dbVars
  BY DEF Finish, TypeInv, TypeOK, SessionsNamed
<1>2. CASE sock[c] = "open" /\ Saves(c)
  <2>1. job[c].packet.arg \in Reports /\ Recorded(imei[c], job[c].packet.arg)
    BY <1>1, <1>2, JobPackets, PacketArgs DEF Saves, Safe, CommittedWork, TypeInv, TypeOK
  <2>2. acked' = acked \union {[imei |-> imei[c], report |-> job[c].packet.arg]}
    BY <1>2 DEF Finish, AckOf, Saves
  <2> QED
    BY <1>1, <2>1, <2>2, LogConfirm
<1>3. CASE ~(sock[c] = "open" /\ Saves(c))
  <2>1. {a \in acked' : a.imei # None /\ a.report.located}
          = {a \in acked : a.imei # None /\ a.report.located}
    BY <1>3 DEF Finish, AckOf, Saves
  <2> QED
    BY <1>1, <2>1 DEF Log!vars, dbVars
<1> QED
  BY <1>2, <1>3

(* Every step of the gateway is a step of the log or a stutter.            *)
LEMMA LogStep ==
  ASSUME TypeInv, Safe, [Next]_vars
  PROVE  [Log!Next]_Log!vars
<1>1. ASSUME NEW c \in Conns, Drain(c) PROVE [Log!Next]_Log!vars
  <2>1. Head(buffer[c]) \in Packets
    BY <1>1 DEF Drain, TypeInv, TypeOK
  <2> QED
    BY <1>1, <2>1, LogHandleFrame DEF Drain
<1>2. ASSUME NEW c \in Conns, NEW p \in Packets, HandleData(c, p) PROVE [Log!Next]_Log!vars
  BY <1>2, LogHandleFrame DEF HandleData, Receive
<1>3. ASSUME NEW c \in Conns, TxCommit(c) \/ TxCommitUnknown(c) PROVE [Log!Next]_Log!vars
  BY <1>3, LogRecord DEF TxCommit, TxCommitUnknown
<1>4. ASSUME NEW c \in Conns, Socket(c) \/ HandleFailure(c) \/ PublishEnds(c)
      PROVE  [Log!Next]_Log!vars
  BY <1>4, LogStutter DEF Socket, Connect, Disconnect, HandleClose, Release, Overflow, Receive,
    HandleFailure, PublishEnds, dbVars
<1>5. ASSUME NEW c \in Conns, TxLock(c) \/ TxRetry(c) \/ TxFail(c)
      PROVE  [Log!Next]_Log!vars
  BY <1>5, LogStutter DEF TxLock, TxRetry, TxFail, Phase, dbVars
<1>6. ASSUME NEW c \in Conns, NEW p \in Packets, BufferData(c, p) PROVE [Log!Next]_Log!vars
  BY <1>6, LogStutter DEF BufferData, Receive, dbVars
<1>7. CASE Evaluate \/ Crash \/ UNCHANGED vars
  BY <1>7, LogStutter DEF Evaluate, Crash, vars, dbVars
<1> QED
  BY <1>1, <1>2, <1>3, <1>4, <1>5, <1>6, <1>7, LogFinish DEF Next, Handler, Transaction

(* Ingestion implements TrackerLog: whatever sockets, retries and crashes  *)
(* do, nothing recorded is lost, the latest fix of a tracker moves forward *)
(* only, and nothing is confirmed to a tracker that is not recorded.       *)
THEOREM Refinement == Spec => ImplementsTrackerLog
<1>1. Init => Log!Init
  BY LogInit
<1>2. TypeInv /\ Safe /\ [Next]_vars => [Log!Next]_Log!vars
  BY LogStep
<1> QED
  BY <1>1, <1>2, SpecSafe, PTL DEF Spec, ImplementsTrackerLog, Log!Spec

-------------------------------------------------------------------------------
(* Queries over the history.  While DeviceIngestion writes it, they read   *)
(* it page by page, outside any transaction (PagesMatchSnapshot).          *)

(* Rows in the order of the pages                                          *)

(* Finitely many rows with ids of their own and times.                     *)
Sortable(S) ==
  /\ IsFiniteSet(S)
  /\ \A r \in S : r.id \in Int /\ r.time \in Int
  /\ \A r, q \in S : r.id = q.id => r = q

Earlier(S, r) == {q \in S : Before(q, r)}

(* The order is total, and strict.                                         *)
LEMMA TotalOrder ==
  ASSUME NEW S, Sortable(S)
  PROVE  /\ \A a \in S : ~ Before(a, a)
         /\ \A a, b \in S : a = b \/ Before(a, b) \/ Before(b, a)
         /\ \A a, b, c \in S : Before(a, b) /\ Before(b, c) => Before(a, c)
BY DEF Sortable, Before

(* Some of these rows are such rows.                                       *)
LEMMA Sortables ==
  ASSUME NEW S, Sortable(S), NEW T \in SUBSET S
  PROVE  Sortable(T)
BY FS_Subset DEF Sortable

(* A row has fewer rows before it than any later one.                      *)
LEMMA EarlierCounts ==
  ASSUME NEW S, Sortable(S)
  PROVE  /\ \A a \in S : Cardinality(Earlier(S, a)) \in 0..Cardinality(S) - 1
         /\ \A a, b \in S : Before(a, b)
              => Cardinality(Earlier(S, a)) < Cardinality(Earlier(S, b))
<1>0. IsFiniteSet(S) /\ Cardinality(S) \in Nat
  BY FS_CardinalityType DEF Sortable
<1>1. ASSUME NEW a \in S PROVE Cardinality(Earlier(S, a)) \in 0..Cardinality(S) - 1
  <2>1. Earlier(S, a) \in SUBSET (S \ {a})
    BY TotalOrder DEF Earlier
  <2>2. IsFiniteSet(S \ {a}) /\ Cardinality(S \ {a}) = Cardinality(S) - 1
    BY <1>0, FS_RemoveElement
  <2>3. IsFiniteSet(Earlier(S, a)) /\ Cardinality(Earlier(S, a)) <= Cardinality(S) - 1
    BY <2>1, <2>2, FS_Subset
  <2>4. Cardinality(Earlier(S, a)) \in Nat
    BY <2>3, FS_CardinalityType
  <2> QED BY <2>3, <2>4, <1>0
<1>2. ASSUME NEW a \in S, NEW b \in S, Before(a, b)
      PROVE  Cardinality(Earlier(S, a)) < Cardinality(Earlier(S, b))
  <2>1. Earlier(S, a) \union {a} \in SUBSET Earlier(S, b) /\ a \notin Earlier(S, a)
    BY <1>2, TotalOrder DEF Earlier
  <2>2. IsFiniteSet(Earlier(S, a)) /\ IsFiniteSet(Earlier(S, b))
    BY <1>0, FS_Subset DEF Earlier
  <2>3. Cardinality(Earlier(S, a) \union {a}) = Cardinality(Earlier(S, a)) + 1
    BY <2>1, <2>2, FS_AddElement
  <2>4. Cardinality(Earlier(S, a) \union {a}) <= Cardinality(Earlier(S, b))
    BY <2>1, <2>2, FS_Subset
  <2>5. Cardinality(Earlier(S, a)) \in Nat /\ Cardinality(Earlier(S, b)) \in Nat
    BY <2>2, FS_CardinalityType
  <2> QED BY <2>3, <2>4, <2>5
<1> QED BY <1>1, <1>2

(* Each number of rows before it belongs to one row.                       *)
LEMMA EarlierOnto ==
  ASSUME NEW S, Sortable(S), NEW i \in 0..Cardinality(S) - 1
  PROVE  \E r \in S : Cardinality(Earlier(S, r)) = i
<1> DEFINE n == Cardinality(S)
           count == [r \in S |-> Cardinality(Earlier(S, r))]
<1>1. n \in Nat /\ IsFiniteSet(S)
  BY FS_CardinalityType DEF Sortable
<1>2. IsFiniteSet(0..n - 1) /\ Cardinality(0..n - 1) = n
  BY <1>1, FS_Interval
<1>3. count \in [S -> 0..n - 1]
  BY EarlierCounts
<1>4. \A a, b \in S : a # b => count[a] # count[b]
  BY EarlierCounts, TotalOrder
<1>5. count \in Injection(S, 0..n - 1)
  BY <1>3, <1>4 DEF Injection, IsInjective
<1>6. count \in Surjection(S, 0..n - 1)
  <2> HIDE DEF count
  <2> QED BY <1>2, <1>5, FS_Injection
<1> QED BY <1>6 DEF Surjection

(* Position i of the ordered rows has i - 1 rows before it.                *)
LEMMA OrderedRows ==
  ASSUME NEW S, Sortable(S)
  PROVE  /\ Cardinality(S) \in Nat
         /\ Ordered(S) \in [1..Cardinality(S) -> S]
         /\ \A i \in 1..Cardinality(S) : Cardinality(Earlier(S, Ordered(S)[i])) = i - 1
         /\ \A r \in S : /\ Cardinality(Earlier(S, r)) + 1 \in 1..Cardinality(S)
                         /\ Ordered(S)[Cardinality(Earlier(S, r)) + 1] = r
<1> DEFINE n == Cardinality(S)
           at(i) == CHOOSE r \in S : Cardinality(Earlier(S, r)) = i - 1
<1>1. n \in Nat
  BY FS_CardinalityType DEF Sortable
<1>2. Ordered(S) = [i \in 1..n |-> at(i)]
  BY DEF Ordered, Earlier
<1>3. ASSUME NEW i \in 1..n PROVE at(i) \in S /\ Cardinality(Earlier(S, at(i))) = i - 1
  <2>1. i - 1 \in 0..n - 1
    BY <1>1
  <2> QED BY <2>1, EarlierOnto
<1> HIDE DEF at
<1>4. \A a, b \in S : Cardinality(Earlier(S, a)) = Cardinality(Earlier(S, b)) => a = b
  BY EarlierCounts, TotalOrder
<1>5. ASSUME NEW r \in S
      PROVE  Cardinality(Earlier(S, r)) + 1 \in 1..n /\ at(Cardinality(Earlier(S, r)) + 1) = r
  <2>1. PICK i \in 1..n : i = Cardinality(Earlier(S, r)) + 1
    BY <1>1, EarlierCounts
  <2>2. at(i) \in S /\ Cardinality(Earlier(S, at(i))) = i - 1
    BY <1>3
  <2>3. Cardinality(Earlier(S, r)) \in Nat
    BY <1>1, EarlierCounts
  <2>4. at(i) = r
    BY <2>1, <2>2, <2>3, <1>4
  <2> QED BY <2>1, <2>4
<1> QED BY <1>1, <1>2, <1>3, <1>5

(* Seen as a sequence.                                                     *)
LEMMA OrderedLength ==
  ASSUME NEW S, Sortable(S)
  PROVE  Ordered(S) \in Seq(S) /\ Len(Ordered(S)) = Cardinality(S)
<1>1. PICK n \in Nat : n = Cardinality(S) /\ Ordered(S) \in [1..n -> S]
  BY OrderedRows
<1>2. \A W \in [1..n -> S] : W \in Seq(S) /\ Len(W) = n
  OBVIOUS
<1> QED BY <1>1, <1>2

(* The rows after position k are the rest, in the same order.              *)
Later(S, r) == {q \in S : Before(r, q)}

(* What a statement finds after the row at position k.                     *)
LEMMA LaterRows ==
  ASSUME NEW S, Sortable(S), NEW k \in 1..Cardinality(S), NEW r, r = Ordered(S)[k]
  PROVE  /\ Cardinality(Later(S, r)) = Cardinality(S) - k
         /\ \A i \in 1..Cardinality(S) - k :
              Ordered(Later(S, r))[i] = Ordered(S)[k + i]
<1> DEFINE first == Earlier(S, r) \union {r}
           rest == Later(S, r)
<1>0. PICK n \in Nat : n = Cardinality(S)
  BY OrderedRows
<1>1. /\ IsFiniteSet(S) /\ k \in 1..n
      /\ r \in S /\ Cardinality(Earlier(S, r)) = k - 1 /\ IsFiniteSet(Earlier(S, r))
  BY <1>0, OrderedRows, FS_Subset DEF Sortable, Earlier
<1>2. r \notin Earlier(S, r) /\ first \in SUBSET S
  BY <1>1, TotalOrder DEF Earlier
<1>3. IsFiniteSet(first) /\ Cardinality(first) = k
  <2>1. IsFiniteSet(first) /\ Cardinality(first) = Cardinality(Earlier(S, r)) + 1
    BY <1>1, <1>2, FS_AddElement
  <2> QED BY <2>1, <1>1
<1>4. rest = S \ first
  BY <1>1, TotalOrder DEF Earlier, Later
<1>5. Sortable(rest)
  BY <1>4, Sortables
<1>6. Cardinality(rest) = n - k
  <2>1. Cardinality(S \ first) = Cardinality(S) - Cardinality(S \cap first)
    BY <1>1, FS_Difference
  <2>2. S \cap first = first
    BY <1>2
  <2> QED BY <2>1, <2>2, <1>0, <1>3, <1>4
<1>7. ASSUME NEW q \in rest
      PROVE  Cardinality(Earlier(rest, q)) = Cardinality(Earlier(S, q)) - k
  <2>1. first \in SUBSET Earlier(S, q) /\ Earlier(rest, q) = Earlier(S, q) \ first
    BY <1>1, <1>4, TotalOrder DEF Earlier, Later
  <2>2. IsFiniteSet(Earlier(S, q))
    BY <1>1, FS_Subset DEF Earlier
  <2>3. Cardinality(Earlier(S, q) \ first)
          = Cardinality(Earlier(S, q)) - Cardinality(Earlier(S, q) \cap first)
    BY <2>2, FS_Difference
  <2>4. Earlier(S, q) \cap first = first
    BY <2>1
  <2> QED BY <2>1, <2>3, <2>4, <1>3
<1>8. ASSUME NEW i \in 1..n - k
      PROVE  Ordered(rest)[i] = Ordered(S)[k + i]
  <2>1. PICK j \in 1..n : j = k + i
    BY <1>0, <1>1
  <2>2. PICK q \in S : q = Ordered(S)[j] /\ Cardinality(Earlier(S, q)) = j - 1
    BY <1>0, OrderedRows
  <2>3. q \in rest
    <3>1. q # r /\ ~Before(q, r)
      BY <1>1, <2>1, <2>2, EarlierCounts
    <3> QED BY <1>1, <3>1, TotalOrder DEF Later
  <2>4. Cardinality(Earlier(rest, q)) = i - 1
    BY <1>7, <2>1, <2>2, <2>3
  <2>5. Ordered(rest)[Cardinality(Earlier(rest, q)) + 1] = q
    <3> HIDE DEF rest
    <3> QED BY <1>5, <2>3, OrderedRows
  <2>6. Cardinality(Earlier(rest, q)) + 1 = i
    BY <2>4
  <2> QED BY <2>1, <2>2, <2>5, <2>6
<1> QED BY <1>0, <1>6, <1>8

(* A part of a sequence.                                                   *)
LEMMA Part ==
  ASSUME NEW T, NEW W \in Seq(T), NEW k \in Nat, NEW m \in Nat, k + m <= Len(W)
  PROVE  /\ SubSeq(W, k + 1, k + m) \in Seq(T)
         /\ Len(SubSeq(W, k + 1, k + m)) = m
         /\ \A i \in 1..m : SubSeq(W, k + 1, k + m)[i] = W[k + i]
<1>1. \A i \in k + 1..k + m : i \in 1..Len(W)
  OBVIOUS
<1>2. SubSeq(W, k + 1, k + m) \in Seq(T)
  BY <1>1
<1>3. Len(SubSeq(W, k + 1, k + m)) = m
  BY <1>1
<1>4. ASSUME NEW i \in 1..m PROVE SubSeq(W, k + 1, k + m)[i] = W[k + i]
  OBVIOUS
<1> QED BY <1>2, <1>3, <1>4

(* The same of a part that begins at its first element.                    *)
LEMMA Beginning ==
  ASSUME NEW T, NEW W \in Seq(T), NEW m \in Nat, m <= Len(W)
  PROVE  /\ SubSeq(W, 1, m) \in Seq(T)
         /\ Len(SubSeq(W, 1, m)) = m
         /\ \A i \in 1..m : SubSeq(W, 1, m)[i] = W[i]
<1>1. \A i \in 1..m : i \in 1..Len(W)
  OBVIOUS
<1>2. SubSeq(W, 1, m) \in Seq(T)
  BY <1>1
<1>3. Len(SubSeq(W, 1, m)) = m
  BY <1>1
<1>4. ASSUME NEW i \in 1..m PROVE SubSeq(W, 1, m)[i] = W[i]
  OBVIOUS
<1> QED BY <1>2, <1>3, <1>4

(* Sequences with the same elements are the same.                          *)
LEMMA SameElements ==
  ASSUME NEW S, NEW A \in Seq(S), NEW T, NEW B \in Seq(T), Len(A) = Len(B),
         \A i \in 1..Len(A) : A[i] = B[i]
  PROVE  A = B
OBVIOUS

(* The length of two sequences joined.                                     *)
LEMMA Joined ==
  ASSUME NEW T, NEW A \in Seq(T), NEW B \in Seq(T)
  PROVE  /\ A \o B \in Seq(T)
         /\ Len(A \o B) = Len(A) + Len(B)
         /\ \A i \in 1..Len(A) : (A \o B)[i] = A[i]
         /\ \A i \in 1..Len(B) : (A \o B)[Len(A) + i] = B[i]
OBVIOUS

(* Equal parts of two sequences.                                           *)
LEMMA SameParts ==
  ASSUME NEW S, NEW F \in Seq(S), NEW T, NEW W \in Seq(T), NEW k \in Nat, NEW m \in Nat,
         m <= Len(F), k + m <= Len(W), \A i \in 1..m : F[i] = W[k + i]
  PROVE  SubSeq(F, 1, m) = SubSeq(W, k + 1, k + m)
<1> DEFINE A == SubSeq(F, 1, m)
           B == SubSeq(W, k + 1, k + m)
<1>1. A \in Seq(S) /\ Len(A) = m /\ \A i \in 1..m : A[i] = F[i]
  BY Beginning
<1>2. B \in Seq(T) /\ Len(B) = m /\ \A i \in 1..m : B[i] = W[k + i]
  BY Part
<1> HIDE DEF A, B
<1>3. A = B
  BY <1>1, <1>2, SameElements
<1> QED BY <1>3 DEF A, B

(* A part of a part, and two parts joined.                                 *)
LEMMA PartOfPart ==
  ASSUME NEW T, NEW W \in Seq(T), NEW k \in Nat, NEW m \in Nat, k + m <= Len(W), NEW p \in 0..m
  PROVE  /\ SubSeq(SubSeq(W, k + 1, k + m), 1, p) = SubSeq(W, k + 1, k + p)
         /\ SubSeq(W, 1, k) \o SubSeq(W, k + 1, k + p) = SubSeq(W, 1, k + p)
<1> DEFINE F == SubSeq(W, k + 1, k + m)
           A == SubSeq(W, 1, k)
           B == SubSeq(W, k + 1, k + p)
           C == SubSeq(W, 1, k + p)
<1>0. p \in Nat /\ p <= m /\ k + p \in Nat /\ k + p <= Len(W) /\ k <= Len(W)
  OBVIOUS
<1>1. F \in Seq(T) /\ Len(F) = m /\ \A i \in 1..m : F[i] = W[k + i]
  BY Part
<1>2. A \in Seq(T) /\ Len(A) = k /\ \A i \in 1..k : A[i] = W[i]
  BY <1>0, Beginning
<1>3. B \in Seq(T) /\ Len(B) = p /\ \A i \in 1..p : B[i] = W[k + i]
  BY <1>0, Part
<1>4. C \in Seq(T) /\ Len(C) = k + p /\ \A i \in 1..k + p : C[i] = W[i]
  <2>1. PICK l \in Nat : l = k + p
    BY <1>0
  <2>2. SubSeq(W, 1, l) \in Seq(T) /\ Len(SubSeq(W, 1, l)) = l
        /\ \A i \in 1..l : SubSeq(W, 1, l)[i] = W[i]
    BY <1>0, <2>1, Beginning
  <2> QED BY <2>1, <2>2
<1>5. SubSeq(F, 1, p) = B
  <2>1. p <= Len(F) /\ \A i \in 1..p : F[i] = W[k + i]
    BY <1>0, <1>1
  <2> HIDE DEF F
  <2> QED BY <1>0, <1>1, <2>1, SameParts
<1>6. A \o B = C
  <2> HIDE DEF A, B, C
  <2>1. /\ A \o B \in Seq(T) /\ Len(A \o B) = k + p
        /\ \A i \in 1..k : (A \o B)[i] = A[i]
        /\ \A i \in 1..p : (A \o B)[k + i] = B[i]
    <3>1. A \in Seq(T) /\ B \in Seq(T)
      BY <1>2, <1>3
    <3>2. /\ A \o B \in Seq(T) /\ Len(A \o B) = Len(A) + Len(B)
          /\ \A i \in 1..Len(A) : (A \o B)[i] = A[i]
          /\ \A i \in 1..Len(B) : (A \o B)[Len(A) + i] = B[i]
      BY ONLY <3>1, Joined
    <3>3. Len(A) = k /\ Len(B) = p
      BY <1>2, <1>3
    <3> QED BY ONLY <3>2, <3>3
  <2>2. ASSUME NEW i \in 1..k + p PROVE (A \o B)[i] = C[i]
    <3>1. CASE i <= k
      <4>1. i \in 1..k /\ C[i] = W[i]
        BY <1>4, <3>1
      <4>2. (A \o B)[i] = A[i] /\ A[i] = W[i]
        BY <1>2, <2>1, <4>1
      <4> QED BY <4>1, <4>2
    <3>2. CASE ~(i <= k)
      <4>1. PICK j \in 1..p : i = k + j
        <5>1. i - k \in 1..p /\ i = k + (i - k)
          BY <1>0, <3>2
        <5> QED BY <5>1
      <4>2. (A \o B)[k + j] = W[k + j] /\ C[k + j] = W[k + j]
        BY <1>3, <1>4, <2>1, <4>1
      <4> QED BY <4>1, <4>2
    <3> QED BY <3>1, <3>2
  <2> QED BY <1>4, <2>1, <2>2, SameElements
<1> QED BY <1>5, <1>6

(* The smaller of two numbers.                                             *)
LEMMA Smaller ==
  ASSUME NEW a \in Int, NEW b \in Int
  PROVE  Min({a, b}) = IF a < b THEN a ELSE b
BY DEF Min

(* The cursor of a query that has read the first k rows of W.              *)
Cursor(W, k, after) == k \in 0..Len(W) /\ after = IF k = 0 THEN <<>> ELSE <<W[k]>>

(* The values are up to limit rows after row k, fewer only at the end.     *)
Reads(W, k, limit, values) ==
  \E m \in 0..limit :
    /\ k + m <= Len(W) /\ (m = limit \/ k + m = Len(W))
    /\ values = SubSeq(W, k + 1, k + m)

(* What one statement reads of the snapshot: the rows that come next.      *)
LEMMA NextRows ==
  ASSUME NEW id, NEW W, W = Whole(id), Sortable(InSnapshot(id)),
         NEW k, NEW after, Cursor(W, k, after), NEW limit \in Nat
  PROVE  /\ W \in Seq(InSnapshot(id)) /\ Len(W) = Cardinality(InSnapshot(id))
         /\ Reads(W, k, limit, points(id, limit, after))
<1> DEFINE S == InSnapshot(id)
           found == {r \in S : after = <<>> \/ Before(after[1], r)}
<1>0. k \in 0..Len(W) /\ after = IF k = 0 THEN <<>> ELSE <<W[k]>>
  BY DEF Cursor
<1>1. W = Ordered(S)
  BY DEF Whole
<1>2. PICK n \in Nat : n = Cardinality(S) /\ W \in [1..n -> S]
  BY <1>1, OrderedRows
<1>3. W \in Seq(S) /\ Len(W) = n /\ k \in 0..n
  BY <1>0, <1>2
<1>4. /\ Cardinality(found) = n - k
      /\ Sortable(found)
      /\ \A i \in 1..n - k : Ordered(found)[i] = W[k + i]
  <2>0. Sortable(found)
    BY Sortables
  <2>1. CASE k = 0
    <3>1. found = S
      BY <1>0, <2>1
    <3>2. n - k = n /\ \A i \in 1..n : k + i = i
      BY <2>1
    <3> HIDE DEF found
    <3> QED BY <3>1, <3>2, <2>0, <1>1, <1>2
  <2>2. CASE k # 0
    <3>1. PICK r : r = W[k]
      OBVIOUS
    <3>2. after # <<>> /\ after[1] = r
      BY <1>0, <2>2, <3>1
    <3>3. found = Later(S, r)
      BY <3>2 DEF Later
    <3>4. k \in 1..n
      BY <2>2, <1>3
    <3> HIDE DEF found, S
    <3>5. /\ Cardinality(Later(S, r)) = n - k
          /\ \A i \in 1..n - k : Ordered(Later(S, r))[i] = Ordered(S)[k + i]
      BY <3>1, <3>4, <1>1, <1>2, LaterRows DEF S
    <3> QED BY <3>3, <3>5, <2>0, <1>1
  <2> QED BY <2>1, <2>2
<1>5. PICK m \in 0..limit : /\ m = Min({limit, n - k})
                            /\ k + m <= n /\ (m = limit \/ k + m = n)
  <2>1. PICK rest \in Nat : rest = n - k
    BY <1>2, <1>3
  <2>2. Min({limit, rest}) = IF limit < rest THEN limit ELSE rest
    BY Smaller
  <2> QED BY <2>1, <2>2, <1>2, <1>3
<1>6. points(id, limit, after) = SubSeq(Ordered(found), 1, m)
  <2>1. Cardinality(found) = n - k
    BY <1>4
  <2> QED BY <2>1, <1>5 DEF points
<1>7. Ordered(found) \in [1..n - k -> found]
  <2> HIDE DEF found
  <2>1. Ordered(found) \in [1..Cardinality(found) -> found]
    BY <1>4, OrderedRows
  <2> QED BY <2>1, <1>4
<1>8. SubSeq(Ordered(found), 1, m) = SubSeq(W, k + 1, k + m)
  <2> HIDE DEF found, S
  <2>1. PICK F : F = Ordered(found)
    OBVIOUS
  <2>2. F \in Seq(found) /\ Len(F) = n - k
    BY <2>1, <1>2, <1>3, <1>7
  <2>3. \A i \in 1..m : F[i] = W[k + i]
    BY <2>1, <1>3, <1>4, <1>5
  <2>4. m <= Len(F) /\ k + m <= Len(W)
    BY <2>2, <1>2, <1>3, <1>5
  <2>5. SubSeq(F, 1, m) = SubSeq(W, k + 1, k + m)
    <3>1. W \in Seq(S) /\ k \in Nat /\ m \in Nat
      BY <1>3
    <3> QED BY ONLY <3>1, <2>2, <2>3, <2>4, SameParts
  <2> QED BY <2>1, <2>5
<1> QED BY <1>2, <1>3, <1>5, <1>6, <1>8 DEF Reads

-------------------------------------------------------------------------------
(* Folds over a sequence                                                   *)

(* Induction over the subsets of a finite set.                             *)
LEMMA SubsetSteps ==
  ASSUME NEW S, IsFiniteSet(S), NEW A,
         \A T \in SUBSET S : (\A U \in SUBSET T : U # T => U \in A) => T \in A
  PROVE  \A T \in SUBSET S : T \in A
<1> DEFINE missing == {T \in SUBSET S : T \notin A}
<1> SUFFICES ASSUME missing # {} PROVE FALSE
  OBVIOUS
<1>1. IsWellFoundedOn(StrictSubsetOrdering(S), SUBSET S)
  <2>1. IsWellFoundedOn(StrictSubsetOrdering(S), FiniteSubsetsOf(S))
    BY FS_StrictSubsetOrderingWellFounded
  <2>2. FiniteSubsetsOf(S) = SUBSET S
    BY FS_FiniteSubsetsOfFinite
  <2> QED BY <2>1, <2>2
<1>2. missing \subseteq SUBSET S
  OBVIOUS
<1>3. PICK T \in missing : \A U \in missing : <<U, T>> \notin StrictSubsetOrdering(S)
  <2> HIDE DEF missing
  <2> QED BY <1>1, <1>2, WFMin
<1>4. ASSUME NEW U \in SUBSET T, U # T PROVE U \in A
  <2>1. U \in SUBSET S /\ T \in SUBSET S
    OBVIOUS
  <2>2. <<U, T>> \in StrictSubsetOrdering(S)
    BY <1>4, <2>1 DEF StrictSubsetOrdering
  <2> QED BY <1>3, <2>1, <2>2
<1> QED BY <1>4

(* A finite set of integers has a largest element.                         *)
LEMMA Largest ==
  ASSUME NEW S \in SUBSET Int, IsFiniteSet(S), S # {}
  PROVE  Max(S) \in S /\ \A y \in S : Max(S) >= y
<1> DEFINE A == {T \in SUBSET S : T # {} => \E x \in T : \A y \in T : x >= y}
<1>1. ASSUME NEW T \in SUBSET S, \A U \in SUBSET T : U # T => U \in A PROVE T \in A
  <2> SUFFICES ASSUME T # {} PROVE \E x \in T : \A y \in T : x >= y
    OBVIOUS
  <2>1. PICK x \in T : TRUE
    OBVIOUS
  <2>2. CASE T = {x}
    BY <2>2
  <2>3. CASE T # {x}
    <3>1. T \ {x} \in A /\ T \ {x} # {}
      BY <1>1, <2>3
    <3>2. PICK z \in T \ {x} : \A y \in T \ {x} : z >= y
      BY <3>1
    <3> QED BY <3>2
  <2> QED BY <2>2, <2>3
<1>2. S \in A
  <2> HIDE DEF A
  <2> QED BY <1>1, SubsetSteps
<1> QED BY <1>2 DEF Max

(* How a fold goes on: the points of the stream.                           *)
Goes(way, result, x) ==
  CASE way = "take" -> Take(result, x)
    [] way = "mandatory" -> result + Mandatory(x)
    [] way = "interior" -> result + Interior(x)
    [] way = "join" -> result \o x
    [] way = "sample" -> Sample(result, x)

(* The results over the subsets of the positions of b, the last one last.  *)
Equation(way, base, b, h, s) ==
  IF s = {} THEN base ELSE Goes(way, h[s \ {Max(s)}], b[Max(s)])
Results(way, base, b, S) == CHOOSE h : h = [s \in SUBSET S |-> Equation(way, base, b, h, s)]
Solves(way, base, b, S, h) == \A s \in SUBSET S : h[s] = Equation(way, base, b, h, s)

Positions(S) == S \in SUBSET Int /\ IsFiniteSet(S)

(* The positions of a sequence, and some of them.                          *)
LEMMA Intervals ==
  ASSUME NEW n \in Nat
  PROVE  Positions(1..n)
<1>1. IsFiniteSet(1..n)
  BY FS_Interval, 1 \in Int
<1> QED BY <1>1 DEF Positions

(* Some of the positions are positions too.                                *)
LEMMA FewerPositions ==
  ASSUME NEW S, Positions(S), NEW T \in SUBSET S
  PROVE  Positions(T)
BY FS_Subset DEF Positions

(* Leaving the last position out leaves a smaller set.                     *)
LEMMA LastOne ==
  ASSUME NEW s, Positions(s), s # {}
  PROVE  /\ Max(s) \in s /\ s \ {Max(s)} \in SUBSET s
         /\ s \ {Max(s)} # s
BY Largest DEF Positions

(* There is one result.                                                    *)
LEMMA ResultsAgree ==
  ASSUME NEW way, NEW base, NEW b, NEW S, Positions(S), NEW T \in SUBSET S,
         NEW g, NEW h, Solves(way, base, b, S, g), Solves(way, base, b, T, h)
  PROVE  g[T] = h[T]
<1> DEFINE A == {s \in SUBSET T : g[s] = h[s]}
<1>1. ASSUME NEW s \in SUBSET T, \A u \in SUBSET s : u # s => u \in A PROVE s \in A
  <2>1. g[s] = Equation(way, base, b, g, s) /\ h[s] = Equation(way, base, b, h, s)
    BY DEF Solves
  <2>2. s # {} => g[s \ {Max(s)}] = h[s \ {Max(s)}]
    <3>1. Positions(s)
      BY FewerPositions
    <3> QED BY <1>1, <3>1, LastOne
  <2> QED BY <2>1, <2>2 DEF Equation
<1>2. IsFiniteSet(T)
  BY FewerPositions DEF Positions
<1>3. T \in A
  <2> HIDE DEF A
  <2> QED BY <1>1, <1>2, SubsetSteps
<1> QED BY <1>3 DEF A

(* The recursion of the fold has a solution.                               *)
LEMMA ResultsExist ==
  ASSUME NEW way, NEW base, NEW b, NEW S, Positions(S)
  PROVE  Solves(way, base, b, S, Results(way, base, b, S))
<1> DEFINE Eq(h, s) == Equation(way, base, b, h, s)
           R(T) == Results(way, base, b, T)
           A == {T \in SUBSET S : Solves(way, base, b, T, R(T))}
<1>0. \A T \in SUBSET S : Positions(T)
  BY FewerPositions
<1>1. ASSUME NEW T \in SUBSET S, \A U \in SUBSET T : U # T => U \in A PROVE T \in A
  <2> DEFINE k == [s \in SUBSET T |-> Eq([u \in SUBSET T |-> R(u)[u]], s)]
  <2>2. ASSUME NEW s \in SUBSET T, s # T PROVE k[s] = R(s)[s]
    <3>1. Solves(way, base, b, s, R(s))
      BY <1>1, <2>2
    <3>2. R(s)[s] = Eq(R(s), s)
      BY <3>1 DEF Solves
    <3>3. CASE s = {}
      BY <3>2, <3>3 DEF Equation
    <3>4. CASE s # {}
      <4> DEFINE u == s \ {Max(s)}
      <4>1. u \in SUBSET s /\ u \in SUBSET T /\ u # T
        BY <1>0, <2>2, <3>4, LastOne
      <4>2. Solves(way, base, b, u, R(u))
        BY <1>1, <4>1
      <4>3. R(s)[u] = R(u)[u]
        <5>1. Positions(s)
          BY <1>0
        <5> HIDE DEF R, u
        <5> QED BY <3>1, <4>1, <4>2, <5>1, ResultsAgree
      <4>4. k[s] = Goes(way, R(u)[u], b[Max(s)])
        BY <3>4, <4>1 DEF Equation
      <4> QED BY <3>2, <3>4, <4>3, <4>4 DEF Equation
    <3> QED BY <3>3, <3>4
  <2>3. \A s \in SUBSET T : k[s] = Eq(k, s)
    <3> SUFFICES ASSUME NEW s \in SUBSET T PROVE k[s] = Eq(k, s)
      OBVIOUS
    <3>1. CASE s = {}
      BY <3>1 DEF Equation
    <3>2. CASE s # {}
      <4> DEFINE u == s \ {Max(s)}
      <4>1. u \in SUBSET T /\ u # T
        BY <1>0, <3>2, LastOne
      <4>2. k[u] = R(u)[u]
        BY <2>2, <4>1
      <4>3. k[s] = Goes(way, R(u)[u], b[Max(s)])
        BY <3>2, <4>1 DEF Equation
      <4> QED BY <3>2, <4>2, <4>3 DEF Equation
    <3> QED BY <3>1, <3>2
  <2>4. k = [s \in SUBSET T |-> Eq(k, s)]
    <3>1. k = [s \in SUBSET T |-> k[s]]
      OBVIOUS
    <3> HIDE DEF k
    <3> QED BY <2>3, <3>1
  <2>5. R(T) = [s \in SUBSET T |-> Eq(R(T), s)]
    <3> HIDE DEF k
    <3> QED BY <2>4 DEF Results
  <2>6. Solves(way, base, b, T, R(T))
    <3> DEFINE p == R(T)
    <3>1. p = [s \in SUBSET T |-> Eq(p, s)]
      BY <2>5
    <3> HIDE DEF p
    <3> QED BY <3>1 DEF Solves, p
  <2> QED BY <2>6
<1>2. IsFiniteSet(S)
  BY DEF Positions
<1>3. S \in A
  <2> HIDE DEF A
  <2> QED BY <1>1, <1>2, SubsetSteps
<1> QED BY <1>3

(* A fold, one element after the other.                                    *)
Fold(way, base, b) == Results(way, base, b, DOMAIN b)[DOMAIN b]

(* The last element goes on from the result of those before it.            *)
LEMMA FoldSteps ==
  ASSUME NEW way, NEW base, NEW S, NEW b \in Seq(S)
  PROVE  /\ b = <<>> => Fold(way, base, b) = base
         /\ b # <<>> => Fold(way, base, b)
                          = Goes(way, Fold(way, base, SubSeq(b, 1, Len(b) - 1)), b[Len(b)])
<1>1. PICK n \in Nat : n = Len(b) /\ DOMAIN b = 1..n
  OBVIOUS
<1> DEFINE c == SubSeq(b, 1, n - 1)
<1>2. Solves(way, base, b, 1..n, Results(way, base, b, 1..n))
  BY Intervals, ResultsExist
<1>3. Fold(way, base, b) = Equation(way, base, b, Results(way, base, b, 1..n), 1..n)
  BY <1>1, <1>2 DEF Solves, Fold
<1>4. CASE b = <<>>
  <2>1. 1..n = {}
    BY <1>1, <1>4
  <2> QED BY <1>3, <1>4, <2>1 DEF Equation
<1>5. CASE b # <<>>
  <2>1. n \in Nat \ {0} /\ n \in 1..n
    BY <1>1, <1>5
  <2>2. Max(1..n) = n
    <3>1. 1..n \in SUBSET Int /\ IsFiniteSet(1..n)
      BY Intervals DEF Positions
    <3>2. Max(1..n) \in 1..n /\ \A y \in 1..n : Max(1..n) >= y
      BY <2>1, <3>1, Largest
    <3> QED BY <2>1, <3>2
  <2>3. PICK m \in Nat : m = n - 1 /\ (1..n) \ {n} = 1..m /\ 1..m \in SUBSET (1..n)
    BY <2>1
  <2>4. DOMAIN c = 1..m /\ \A i \in 1..m : c[i] = b[i]
    BY <1>1, <2>1, <2>3
  <2> HIDE DEF c
  <2>5. Solves(way, base, c, 1..m, Results(way, base, c, 1..m))
    BY Intervals, ResultsExist
  <2>6. Solves(way, base, b, 1..m, Results(way, base, c, 1..m))
    <3> DEFINE h == Results(way, base, c, 1..m)
    <3>1. ASSUME NEW s \in SUBSET (1..m)
          PROVE  Equation(way, base, b, h, s) = Equation(way, base, c, h, s)
      BY <2>4, Intervals, FewerPositions, LastOne DEF Equation
    <3> QED BY <2>5, <3>1 DEF Solves
  <2>7. Results(way, base, b, 1..n)[1..m] = Results(way, base, c, 1..m)[1..m]
    BY <1>2, <2>3, <2>6, Intervals, ResultsAgree
  <2>8. Fold(way, base, c) = Results(way, base, c, 1..m)[1..m]
    BY <2>4 DEF Fold
  <2>9. Fold(way, base, b) = Goes(way, Results(way, base, b, 1..n)[1..m], b[n])
    BY <1>3, <2>1, <2>2, <2>3 DEF Equation
  <2> QED BY <1>1, <1>5, <2>3, <2>7, <2>8, <2>9 DEF c
<1> QED BY <1>4, <1>5

(* The fold over the points of a batch is such a fold.                     *)
LEMMA TakeAll ==
  ASSUME NEW route, NEW b
  PROVE  FoldLeft(Take, route, b) = Fold("take", route, b)
BY DEF FoldLeft, MapThenFoldSet, Fold, Results, Equation, Goes

(* Induction over the natural numbers.                                     *)
LEMMA NatSteps ==
  ASSUME NEW A, 0 \in A, \A n \in Nat : n \in A => n + 1 \in A
  PROVE  \A n \in Nat : n \in A
<1> DEFINE missing == {n \in Nat : n \notin A}
<1> SUFFICES ASSUME missing # {} PROVE FALSE
  OBVIOUS
<1>1. PICK n \in missing : \A m \in missing : <<m, n>> \notin OpToRel(<, Nat)
  <2>1. missing \subseteq Nat
    OBVIOUS
  <2> HIDE DEF missing
  <2> QED BY <2>1, NatLessThanWellFounded, WFMin
<1>2. \A m \in missing : ~(m < n)
  BY <1>1 DEF OpToRel
<1>3. n # 0 /\ n - 1 \in Nat /\ n - 1 < n
  OBVIOUS
<1> QED BY <1>2, <1>3

(* The points of a stream change neither the snapshot nor the stage.       *)
LEMMA TakeKeeps ==
  ASSUME NEW route, {"at", "snapshot"} \subseteq DOMAIN route, NEW point
  PROVE  /\ {"at", "snapshot"} \subseteq DOMAIN Take(route, point)
         /\ Take(route, point).at = route.at
         /\ Take(route, point).snapshot = route.snapshot
BY DEF Take

(* Nor does a batch.                                                       *)
LEMMA TakesKeep ==
  ASSUME NEW route, {"at", "snapshot"} \subseteq DOMAIN route, NEW S, NEW b \in Seq(S)
  PROVE  /\ {"at", "snapshot"} \subseteq DOMAIN FoldLeft(Take, route, b)
         /\ FoldLeft(Take, route, b).at = route.at
         /\ FoldLeft(Take, route, b).snapshot = route.snapshot
<1> DEFINE Kept(r) == /\ {"at", "snapshot"} \subseteq DOMAIN r
                      /\ r.at = route.at /\ r.snapshot = route.snapshot
           A == {n \in Nat : \A c \in Seq(S) : Len(c) = n => Kept(Fold("take", route, c))}
<1>1. 0 \in A
  <2> SUFFICES ASSUME NEW c \in Seq(S), Len(c) = 0 PROVE Fold("take", route, c) = route
    OBVIOUS
  <2>1. c = <<>>
    OBVIOUS
  <2> QED BY ONLY <2>1, c \in Seq(S), FoldSteps
<1>2. ASSUME NEW n \in Nat, n \in A PROVE n + 1 \in A
  <2> SUFFICES ASSUME NEW c \in Seq(S), Len(c) = n + 1 PROVE Kept(Fold("take", route, c))
    OBVIOUS
  <2> DEFINE d == SubSeq(c, 1, Len(c) - 1)
  <2>1. d \in Seq(S) /\ Len(d) = n
    OBVIOUS
  <2> HIDE DEF Kept
  <2>2. c # <<>> /\ Fold("take", route, c) = Take(Fold("take", route, d), c[Len(c)])
    <3>1. c # <<>>
      OBVIOUS
    <3>2. Fold("take", route, c) = Goes("take", Fold("take", route, d), c[Len(c)])
      BY <3>1, FoldSteps
    <3> QED BY <3>1, <3>2 DEF Goes
  <2>3. Kept(Fold("take", route, d))
    BY <1>2, <2>1
  <2> HIDE DEF d
  <2> QED BY <2>2, <2>3, TakeKeeps DEF Kept
<1>3. Len(b) \in A
  <2> HIDE DEF A
  <2> QED BY <1>1, <1>2, NatSteps
<1> QED BY <1>3, TakeAll

-------------------------------------------------------------------------------
(* The invariant of queries and of the reports added beside them.          *)
Stored ==
  /\ lastId \in Nat
  /\ Sortable(rows)
  /\ \A r \in rows : r.id \in 1..lastId
  /\ DOMAIN adding = Writers

(* Only one transaction has an id that is not committed, and no query has  *)
(* seen it: this is what the lock is for.                                  *)
Unseen ==
  \A w \in Writers : adding[w] # Absent =>
    /\ lastId > 0
    /\ \A v \in Writers : adding[v] # Absent => v = w
    /\ IsFiniteSet(adding[w])
    /\ \A r, q \in adding[w] : r = q
    /\ \A r \in adding[w] : r.id = lastId /\ r.time \in Int
    /\ \A r \in rows : r.id < lastId
    /\ query # Absent => query.snapshot < lastId

(* The pages so far are the first k rows; the next begins after row k.     *)
PagesTo(k, W) ==
  /\ k \in 0..Len(W)
  /\ query = [at |-> "paging", snapshot |-> query.snapshot,
              after |-> IF k = 0 THEN <<>> ELSE <<W[k]>>, got |-> SubSeq(W, 1, k)]

QueryInv ==
  query # Absent =>
    /\ query.snapshot \in 0..lastId
    /\ {"at", "snapshot"} \subseteq DOMAIN query
    /\ query.at = "paging" => \E k \in Nat : PagesTo(k, Whole(query.snapshot))
    /\ query.at = "paged" => query.got = Whole(query.snapshot)

QueriesInv == Stored /\ Unseen /\ QueryInv

(* It holds before the first report and the first query.                   *)
LEMMA InitQueries ==
  ASSUME QueriesInit
  PROVE  QueriesInv
<1>1. rows \in Histories /\ lastId = Cardinality(rows) /\ query = Absent
      /\ DOMAIN adding = Writers /\ \A w \in Writers : adding[w] = Absent
  BY  DEF QueriesInit
<1>2. Sortable(rows) /\ \A r \in rows : r.id \in 1..Cardinality(rows)
  BY TablesAssumption, <1>1 DEF Sortable
<1>3. Cardinality(rows) \in Nat
  BY <1>2, FS_CardinalityType DEF Sortable
<1> QED BY <1>1, <1>2, <1>3 DEF QueriesInv, Stored, Unseen, QueryInv

(* A transaction that takes an id.                                         *)
LEMMA InsertQueries ==
  ASSUME QueriesInv, NEW w \in Writers, NEW new, Insert(w, new), IsFiniteSet(new),
         \A r, q \in new : r = q, \A r \in new : r.id = lastId + 1 /\ r.time \in Int
  PROVE  QueriesInv'
<1>1. Stored'
  BY DEF QueriesInv, Stored, Sortable, Insert
<1>2. Unseen'
  <2>1. \A v \in Writers : adding[v] = Absent
    BY DEF Insert, Unlocked
  <2>2. \A v \in Writers : adding'[v] # Absent => v = w
    BY <2>1 DEF Insert
  <2>3. adding'[w] # Absent => adding'[w] = new
    BY <2>1 DEF Insert
  <2>4. lastId' > 0 /\ lastId' = lastId + 1 /\ \A r \in rows' : r.id < lastId'
    BY DEF QueriesInv, Stored, Insert
  <2>5. query' # Absent => query'.snapshot < lastId'
    BY DEF QueriesInv, Stored, QueryInv, Insert
  <2> QED BY <2>2, <2>3, <2>4, <2>5 DEF Unseen
<1>3. QueryInv'
  <2>1. \A id : Whole(id)' = Whole(id)
    BY DEF Whole, InSnapshot, Insert
  <2>2. query' = query /\ lastId' = lastId + 1
    BY DEF Insert
  <2>3. query # Absent => query.snapshot \in 0..lastId'
    BY <2>2 DEF QueriesInv, Stored, QueryInv
  <2> QED BY <2>1, <2>2, <2>3 DEF QueriesInv, QueryInv, PagesTo
<1> QED BY <1>1, <1>2, <1>3 DEF QueriesInv
(* The open transaction ends: what a query sees does not change.           *)
LEMMA CommitQueries ==
  ASSUME QueriesInv, NEW w \in Writers, Commit(w)
  PROVE  QueriesInv'
<1>0. DOMAIN adding = Writers
  BY DEF QueriesInv, Stored
<1>1. /\ adding[w] # Absent /\ rows' = rows \cup adding[w] /\ lastId' = lastId /\ query' = query
      /\ DOMAIN adding' = Writers
      /\ \A v \in Writers : adding'[v] # Absent => v # w /\ adding[v] # Absent
  BY <1>0 DEF Commit
<1>2. \A v \in Writers : adding'[v] = Absent
  BY <1>1 DEF QueriesInv, Unseen
<1>3. Stored'
  <2>1. IsFiniteSet(rows') /\ lastId' \in Nat
    BY <1>1, FS_Union DEF QueriesInv, Stored, Unseen, Sortable
  <2>2. \A r \in rows' : r.id \in 1..lastId' /\ r.time \in Int
    BY <1>1 DEF QueriesInv, Stored, Unseen, Sortable
  <2>3. \A r, q \in rows' : r.id = q.id => r = q
    BY <1>1 DEF QueriesInv, Stored, Unseen, Sortable
  <2> QED BY <1>1, <2>1, <2>2, <2>3 DEF Stored, Sortable
<1>4. Unseen'
  BY <1>2 DEF Unseen
<1>5. QueryInv'
  <2> SUFFICES ASSUME query # Absent PROVE QueryInv'
    BY <1>1 DEF QueryInv
  <2>1. InSnapshot(query.snapshot)' = InSnapshot(query.snapshot)
    BY <1>1 DEF QueriesInv, Stored, Unseen, QueryInv, InSnapshot
  <2>2. Whole(query.snapshot)' = Whole(query.snapshot)
    BY <1>1, <2>1 DEF Whole
  <2> QED BY <1>1, <2>2 DEF QueriesInv, QueryInv, PagesTo
<1> QED BY <1>3, <1>4, <1>5 DEF QueriesInv

(* A transaction that is rolled back leaves a gap in the ids.              *)
LEMMA RollbackQueries ==
  ASSUME QueriesInv, NEW w \in Writers, Rollback(w)
  PROVE  QueriesInv'
<1>0. DOMAIN adding = Writers
  BY DEF QueriesInv, Stored
<1>1. /\ UNCHANGED <<rows, lastId, query>> /\ DOMAIN adding' = Writers
      /\ \A v \in Writers : adding'[v] # Absent => adding'[v] = adding[v]
  BY <1>0 DEF Rollback
<1>2. Unseen'
  BY <1>1 DEF QueriesInv, Unseen
<1>3. Stored' /\ QueryInv'
  <2>1. \A id : Whole(id)' = Whole(id)
    BY <1>1 DEF Whole, InSnapshot
  <2> QED BY <1>1, <2>1 DEF QueriesInv, Stored, QueryInv, PagesTo
<1> QED BY <1>2, <1>3 DEF QueriesInv

(* Reports keep it, whatever their time.                                   *)
LEMMA AddQueries ==
  ASSUME QueriesInv, Add
  PROVE  QueriesInv'
<1>1. PICK w \in Writers :
        \/ \E t \in Times, p \in Places, in \in BOOLEAN :
             Insert(w, {Row(lastId + 1, t, p, in)})
        \/ Insert(w, {}) \/ Commit(w) \/ Rollback(w)
  BY DEF Add
<1>2. ASSUME NEW t \in Times, NEW p \in Places, NEW in \in BOOLEAN,
             Insert(w, {Row(lastId + 1, t, p, in)})
      PROVE  QueriesInv'
  <2> DEFINE row == Row(lastId + 1, t, p, in)
  <2>1. row.id = lastId + 1 /\ row.time \in Int
    BY TablesAssumption DEF Row
  <2> HIDE DEF row
  <2>2. IsFiniteSet({row}) /\ Insert(w, {row})
    BY <1>2, FS_Singleton DEF row
  <2> QED BY <2>1, <2>2, InsertQueries
<1>3. CASE Insert(w, {})
  BY <1>3, FS_EmptySet, InsertQueries
<1> QED BY <1>1, <1>2, <1>3, CommitQueries, RollbackQueries

(* The snapshot is an id committed before, or none.                        *)
LEMMA SnapshotSeen ==
  ASSUME Stored
  PROVE  /\ snapshot \in 0..lastId
         /\ lastId > 0 /\ (\A r \in rows : r.id < lastId) => snapshot < lastId
<1> DEFINE ids == {r.id : r \in rows} \cup {0}
<1>1. ids \in SUBSET (0..lastId) /\ ids # {} /\ lastId \in Nat
  BY DEF Stored
<1>2. IsFiniteSet(ids)
  <2>1. IsFiniteSet(0..lastId)
    BY <1>1, FS_Interval, 0 \in Int
  <2> HIDE DEF ids
  <2> QED BY <1>1, <2>1, FS_Subset
<1>3. snapshot \in ids
  <2>1. ids \in SUBSET Int
    BY <1>1
  <2> HIDE DEF ids
  <2>2. Max(ids) \in ids
    BY <1>1, <1>2, <2>1, Largest
  <2> QED BY <2>2 DEF snapshot, ids
<1>4. lastId > 0 /\ (\A r \in rows : r.id < lastId) => \A i \in ids : i < lastId
  BY <1>1
<1> HIDE DEF ids
<1> QED BY <1>1, <1>3, <1>4

(* A step of a query that writes nothing.                                  *)
LEMMA AskQueries ==
  ASSUME QueriesInv, UNCHANGED <<rows, lastId, adding>>,
         query' # Absent =>
           /\ \/ query # Absent /\ query'.snapshot = query.snapshot
              \/ query'.snapshot = snapshot
           /\ {"at", "snapshot"} \subseteq DOMAIN query'
           /\ query'.at = "paging" => \E k \in Nat : PagesTo(k, Whole(query.snapshot))'
           /\ query'.at = "paged" => query'.got = Whole(query'.snapshot)
  PROVE  QueriesInv'
<1>1. Stored'
  BY DEF QueriesInv, Stored
<1>2. \A id : Whole(id)' = Whole(id)
  BY DEF Whole, InSnapshot
<1>3. query' # Absent => query'.snapshot \in 0..lastId'
  BY SnapshotSeen DEF QueriesInv, QueryInv
<1>4. QueryInv'
  BY <1>2, <1>3 DEF QueryInv
<1>5. Unseen'
  <2> SUFFICES ASSUME NEW w \in Writers, adding'[w] # Absent
               PROVE  query' # Absent => query'.snapshot < lastId'
    BY DEF QueriesInv, Unseen
  <2>1. lastId > 0 /\ (\A r \in rows : r.id < lastId) /\ (query # Absent => query.snapshot < lastId)
    BY DEF QueriesInv, Unseen
  <2> QED BY <2>1, SnapshotSeen DEF QueriesInv
<1> QED BY <1>1, <1>4, <1>5 DEF QueriesInv

(* Reading a page.                                                         *)
LEMMA PageQueries ==
  ASSUME QueriesInv, ReadPage
  PROVE  QueriesInv'
<1>1. /\ query # Absent /\ query.at = "paging" /\ UNCHANGED <<rows, lastId, adding>>
      /\ Limit \in Nat /\ Limit > 0
  BY SizesAssumption DEF ReadPage
<1>2. PICK W : W = Whole(query.snapshot)
  OBVIOUS
<1>3. PICK k \in Nat : PagesTo(k, W)
  BY <1>1, <1>2 DEF QueriesInv, QueryInv
<1>4. /\ k \in 0..Len(W) /\ query.after = IF k = 0 THEN <<>> ELSE <<W[k]>>
      /\ query.got = SubSeq(W, 1, k)
      /\ DOMAIN query = {"at", "snapshot", "after", "got"}
  BY <1>3 DEF PagesTo
<1>5. Sortable(InSnapshot(query.snapshot))
  BY Sortables DEF QueriesInv, Stored, InSnapshot
<1> DEFINE S == InSnapshot(query.snapshot)
           values == points(query.snapshot, Limit + 1, query.after)
           page == SubSeq(values, 1, Min({Limit, Len(values)}))
<1>6. PICK n \in Nat, m \in 0..Limit + 1 :
        /\ W \in Seq(S) /\ n = Len(W)
        /\ k + m <= n /\ (m = Limit + 1 \/ k + m = n)
        /\ values = SubSeq(W, k + 1, k + m)
  <2>1. Limit + 1 \in Nat
    BY <1>1
  <2>2. /\ W \in Seq(S)
        /\ \E m \in 0..Limit + 1 :
             /\ k + m <= Len(W) /\ (m = Limit + 1 \/ k + m = Len(W))
             /\ values = SubSeq(W, k + 1, k + m)
    <3>1. Cursor(W, k, query.after)
      BY <1>4 DEF Cursor
    <3>2. PICK limit \in Nat : limit = Limit + 1
      BY <2>1
    <3>3. W \in Seq(S) /\ Reads(W, k, limit, points(query.snapshot, limit, query.after))
      BY ONLY <3>1, <1>2, <1>5, limit \in Nat, NextRows
    <3> QED BY <3>2, <3>3 DEF Reads
  <2>3. Len(W) \in Nat
    BY <2>2
  <2> QED BY <2>2, <2>3
<1> HIDE DEF S, values
<1>7. Len(values) = m /\ m \in Nat
  <2>1. W \in Seq(S) /\ k \in Nat /\ m \in Nat /\ k + m <= Len(W)
    BY <1>1, <1>6
  <2>2. Len(SubSeq(W, k + 1, k + m)) = m
    BY ONLY <2>1, Part
  <2> QED BY <1>6, <2>1, <2>2
<1>8. PICK p \in 0..m : /\ p = Min({Limit, Len(values)})
                        /\ p = IF m > Limit THEN Limit ELSE m
  BY <1>1, <1>7, Smaller
<1>9. /\ page = SubSeq(W, k + 1, k + p)
      /\ query.got \o page = SubSeq(W, 1, k + p)
  <2>1. /\ SubSeq(SubSeq(W, k + 1, k + m), 1, p) = SubSeq(W, k + 1, k + p)
        /\ SubSeq(W, 1, k) \o SubSeq(W, k + 1, k + p) = SubSeq(W, 1, k + p)
    <3>1. W \in Seq(S) /\ k \in Nat /\ m \in Nat /\ k + m <= Len(W) /\ p \in 0..m
      BY <1>6, <1>7
    <3> QED BY ONLY <3>1, PartOfPart
  <2>2. page = SubSeq(values, 1, p)
    BY <1>8
  <2> QED BY <1>4, <1>6, <2>1, <2>2
<1>11. query' = [query EXCEPT !.got = SubSeq(W, 1, k + p),
                              !.at = IF m > Limit THEN "paging" ELSE "paged",
                              !.after = IF m > Limit THEN <<Last(page)>> ELSE <<>>]
  BY <1>7, <1>9 DEF ReadPage, S, values
<1>12. query'.snapshot = query.snapshot /\ DOMAIN query' = {"at", "snapshot", "after", "got"}
  BY <1>4, <1>11
<1>13. Whole(query.snapshot)' = W
  BY <1>1, <1>2, <1>12 DEF Whole, InSnapshot
<1>14. CASE m > Limit
  <2>1. p = Limit /\ k + p \in 0..Len(W) /\ k + p # 0 /\ k + p \in Nat
    BY <1>1, <1>6, <1>8, <1>14
  <2>2. Last(page) = W[k + p]
    <3>1. Len(SubSeq(W, k + 1, k + p)) = p /\ SubSeq(W, k + 1, k + p)[p] = W[k + p]
      <4>1. W \in Seq(S) /\ k \in Nat /\ p \in Nat /\ k + p <= Len(W) /\ p \in 1..p
        BY <1>1, <1>6, <2>1
      <4> QED BY ONLY <4>1, Part
    <3> QED BY <1>9, <3>1 DEF Last
  <2>3. query' = [at |-> "paging", snapshot |-> query'.snapshot,
                  after |-> <<W[k + p]>>, got |-> SubSeq(W, 1, k + p)]
    BY <1>4, <1>11, <1>12, <1>14, <2>2
  <2>4. PagesTo(k + p, W)'
    BY <2>1, <2>3 DEF PagesTo
  <2>5. k + p \in Nat /\ query'.at = "paging"
    BY <2>1, <2>3
  <2> QED BY <1>1, <1>12, <1>13, <2>4, <2>5, AskQueries
<1>15. CASE ~(m > Limit)
  <2>1. k + p = Len(W)
    BY <1>1, <1>6, <1>8, <1>15
  <2>2. SubSeq(W, 1, Len(W)) = W
    BY <1>6
  <2>3. query'.at = "paged" /\ query'.got = W
    BY <1>4, <1>11, <1>15, <2>1, <2>2
  <2> QED BY <1>1, <1>2, <1>12, <1>13, <2>3, AskQueries
<1> QED BY <1>14, <1>15

(* Reading a batch of the route: its stage and snapshot only.              *)
LEMMA BatchQueries ==
  ASSUME QueriesInv, ReadBatch
  PROVE  QueriesInv'
<1> DEFINE S == InSnapshot(query.snapshot)
           batch == points(query.snapshot, BatchSize, query.previous)
           route == FoldLeft(Take, query, batch)
<1>1. query # Absent /\ query.at = "reading" /\ UNCHANGED <<rows, lastId, adding>>
  BY DEF ReadBatch
<1>2. {"at", "snapshot"} \subseteq DOMAIN query
  BY <1>1 DEF QueriesInv, QueryInv
<1>3. \E T : batch \in Seq(T)
  <2> DEFINE found == {r \in S : query.previous = <<>> \/ Before(query.previous[1], r)}
  <2>1. Sortable(found)
    BY FS_Subset DEF QueriesInv, Stored, InSnapshot, Sortable
  <2> HIDE DEF found
  <2>2. PICK n \in Nat, W \in Seq(found) :
          n = Cardinality(found) /\ W = Ordered(found) /\ Len(W) = n
    BY <2>1, OrderedRows, OrderedLength
  <2>3. BatchSize \in Nat /\ Cardinality(found) = n
    BY SizesAssumption, <2>2
  <2>4. PICK m \in Nat : m = Min({BatchSize, n}) /\ m <= n
    BY <2>2, <2>3, Smaller
  <2>5. SubSeq(W, 1, m) \in Seq(found)
    <3>1. \A i \in 1..m : i \in 1..Len(W)
      BY <2>2, <2>4
    <3> QED BY <3>1, <2>2
  <2> QED BY <2>2, <2>3, <2>4, <2>5 DEF points, found
<1> HIDE DEF batch
<1>4. /\ {"at", "snapshot"} \subseteq DOMAIN route
      /\ route.at = "reading" /\ route.snapshot = query.snapshot
  BY <1>1, <1>2, <1>3, TakesKeep
<1>5. \/ query' = route
      \/ query' = [route EXCEPT !.at = "refused"]
      \/ \E segments : query' = [route EXCEPT !.at = "drawn", !.segments = segments]
  BY DEF ReadBatch, batch
<1> HIDE DEF route
<1>6. /\ query'.snapshot = query.snapshot /\ {"at", "snapshot"} \subseteq DOMAIN query'
      /\ query'.at \in {"reading", "refused", "drawn"}
  BY <1>4, <1>5
<1> QED BY <1>1, <1>6, AskQueries

(* Every step keeps the invariant.                                         *)
LEMMA NextQueries ==
  ASSUME QueriesInv, [QueriesNext]_queriesVars
  PROVE  QueriesInv'
<1>1. CASE Add
  BY <1>1, AddQueries
<1>2. CASE OpenPages
  <2>1. /\ query' = [at |-> "paging", snapshot |-> snapshot, after |-> <<>>, got |-> <<>>]
        /\ UNCHANGED <<rows, lastId, adding>>
    BY <1>2 DEF OpenPages
  <2>2. PICK W : W = Whole(query.snapshot)'
    OBVIOUS
  <2>3. W \in Seq(InSnapshot(query'.snapshot))
    <3>1. Sortable(InSnapshot(query'.snapshot))
      BY Sortables DEF QueriesInv, Stored, InSnapshot
    <3>2. W = Ordered(InSnapshot(query'.snapshot))
      BY <2>1, <2>2 DEF Whole, InSnapshot
    <3> QED BY <3>1, <3>2, OrderedLength
  <2>4. PagesTo(0, W)'
    BY <2>1, <2>3 DEF PagesTo
  <2> QED BY <2>1, <2>2, <2>4, AskQueries
<1>3. CASE ReadPage
  BY <1>3, PageQueries
<1>4. ASSUME NEW maxPoints \in Budgets, OpenRoute(maxPoints) PROVE QueriesInv'
  <2>1. /\ query'.at = "counting" /\ query'.snapshot = snapshot
        /\ {"at", "snapshot"} \subseteq DOMAIN query' /\ UNCHANGED <<rows, lastId, adding>>
    BY <1>4 DEF OpenRoute
  <2> QED BY <2>1, AskQueries
<1>5. CASE CountRoute
  <2>1. /\ query # Absent /\ query'.at = "reading" /\ query'.snapshot = query.snapshot
        /\ {"at", "snapshot"} \subseteq DOMAIN query' /\ UNCHANGED <<rows, lastId, adding>>
    BY <1>5 DEF CountRoute
  <2> QED BY <2>1, AskQueries
<1>6. CASE ReadBatch
  BY <1>6, BatchQueries
<1>7. CASE EndQuery
  BY <1>7, AskQueries DEF EndQuery
<1>8. CASE UNCHANGED queriesVars
  <2>1. UNCHANGED <<rows, lastId, adding, query>>
    BY <1>8 DEF queriesVars
  <2>2. \A id : Whole(id)' = Whole(id)
    BY <2>1 DEF Whole, InSnapshot
  <2> QED BY <2>1, <2>2 DEF QueriesInv, Stored, Unseen, QueryInv, PagesTo
<1> QED BY <1>1, <1>2, <1>3, <1>4, <1>5, <1>6, <1>7, <1>8 DEF QueriesNext, Ask

(* While reports keep coming in, old ones among them, the pages of a query *)
(* are the rows of its snapshot in order, none missing, new or repeated.   *)
THEOREM PagesAreTheSnapshot ==
  QueriesSpec => []PagesMatchSnapshot
<1>1. QueriesInit => QueriesInv
  BY InitQueries
<1>2. QueriesInv /\ [QueriesNext]_queriesVars => QueriesInv'
  BY NextQueries
<1>3. QueriesInv => PagesMatchSnapshot
  <2> SUFFICES ASSUME QueriesInv, query # Absent PROVE PagesMatchSnapshot
    BY DEF PagesMatchSnapshot
  <2>1. PICK W : W = Whole(query.snapshot)
    OBVIOUS
  <2>2. Sortable(InSnapshot(query.snapshot))
    BY Sortables DEF QueriesInv, Stored, InSnapshot
  <2>3. W \in Seq(InSnapshot(query.snapshot))
    BY <2>1, <2>2, OrderedLength DEF Whole
  <2>4. ASSUME NEW k \in Nat, PagesTo(k, W) PROVE IsPrefix(query.got, W)
    <3>1. query.got = SubSeq(W, 1, k) /\ k \in 0..Len(W)
      BY <2>4 DEF PagesTo
    <3>2. Len(SubSeq(W, 1, k)) = k /\ SubSeq(SubSeq(W, 1, k), 1, k) = SubSeq(W, 1, k)
      BY <2>3, <3>1
    <3> QED BY <2>3, <3>1, <3>2 DEF IsPrefix
  <2> QED BY <2>1, <2>4 DEF QueriesInv, QueryInv, PagesMatchSnapshot
<1> QED BY <1>1, <1>2, <1>3, PTL DEF QueriesSpec

-------------------------------------------------------------------------------
(* The route (RouteKeepsEnds): one fold over the points, another over the  *)
(* segments that are sampled.                                              *)

(* The sums over the segments are such folds.                              *)
LEMMA SumAll ==
  ASSUME NEW b
  PROVE  /\ Sum(b, Mandatory) = Fold("mandatory", 0, b)
         /\ Sum(b, Interior) = Fold("interior", 0, b)
BY DEF Sum, FoldLeft, MapThenFoldSet, Fold, Results, Equation, Goes

(* No element: the result is where the fold begins.                        *)
LEMMA FoldNone ==
  ASSUME NEW way, NEW base
  PROVE  Fold(way, base, <<>>) = base
BY FoldSteps, <<>> \in Seq({})

(* One element more.                                                       *)
LEMMA FoldMore ==
  ASSUME NEW way, NEW base, NEW S, NEW b \in Seq(S), NEW x \in S
  PROVE  Fold(way, base, Append(b, x)) = Goes(way, Fold(way, base, b), x)
<1> DEFINE c == Append(b, x)
<1>1. c \in Seq(S) /\ c # <<>> /\ c[Len(c)] = x
  OBVIOUS
<1>2. SubSeq(c, 1, Len(c) - 1) = b
  OBVIOUS
<1> HIDE DEF c
<1>3. Fold(way, base, c) = Goes(way, Fold(way, base, SubSeq(c, 1, Len(c) - 1)), c[Len(c)])
  BY <1>1, FoldSteps
<1> QED BY <1>1, <1>2, <1>3 DEF c

(* Induction over the beginnings of a sequence.                            *)
LEMMA FoldUpto ==
  ASSUME NEW way, NEW base, NEW S, NEW b \in Seq(S), NEW j \in 0..Len(b) - 1
  PROVE  Fold(way, base, SubSeq(b, 1, j + 1)) =
           Goes(way, Fold(way, base, SubSeq(b, 1, j)), b[j + 1])
<1> DEFINE c == SubSeq(b, 1, j)
<1>1. c \in Seq(S) /\ b[j + 1] \in S
  OBVIOUS
<1>2. SubSeq(b, 1, j + 1) = Append(c, b[j + 1])
  <2>1. j \in Nat /\ j <= Len(b) /\ j + 1 \in Nat /\ j + 1 <= Len(b)
    OBVIOUS
  <2>2. Len(c) = j /\ \A i \in 1..j : c[i] = b[i]
    BY <2>1, Beginning
  <2> DEFINE d == SubSeq(b, 1, j + 1)
             e == Append(c, b[j + 1])
  <2>3. d \in Seq(S) /\ Len(d) = j + 1 /\ \A i \in 1..j + 1 : d[i] = b[i]
    <3>1. PICK l \in Nat : l = j + 1
      BY <2>1
    <3>2. SubSeq(b, 1, l) \in Seq(S) /\ Len(SubSeq(b, 1, l)) = l
          /\ \A i \in 1..l : SubSeq(b, 1, l)[i] = b[i]
      BY <2>1, <3>1, Beginning
    <3> QED BY <3>1, <3>2
  <2> HIDE DEF c, d
  <2>4. e \in Seq(S) /\ Len(e) = j + 1 /\ \A i \in 1..j + 1 : e[i] = b[i]
    BY <1>1, <2>1, <2>2
  <2> HIDE DEF e
  <2>5. d = e
    BY <2>3, <2>4, SameElements
  <2> QED BY <2>5 DEF d, e
<1>3. PICK x \in S : x = b[j + 1]
  BY <1>1
<1> HIDE DEF c
<1>4. Fold(way, base, Append(c, x)) = Goes(way, Fold(way, base, c), x)
  BY ONLY <1>1, x \in S, FoldMore
<1> QED BY <1>2, <1>3, <1>4 DEF c

(* None of the elements, and all of them.                                  *)
LEMMA UptoEnds ==
  ASSUME NEW S, NEW b \in Seq(S)
  PROVE  SubSeq(b, 1, 0) = <<>> /\ SubSeq(b, 1, Len(b)) = b
OBVIOUS

(* Induction up to a number.                                               *)
LEMMA StepsUpto ==
  ASSUME NEW n \in Nat, NEW A, 0 \in A, \A j \in 0..n - 1 : j \in A => j + 1 \in A
  PROVE  \A j \in 0..n : j \in A
<1> DEFINE B == {j \in Nat : j <= n => j \in A}
<1>1. 0 \in B /\ \A j \in Nat : j \in B => j + 1 \in B
  OBVIOUS
<1> HIDE DEF B
<1>2. \A j \in Nat : j \in B
  BY <1>1, NatSteps
<1> QED BY <1>2 DEF B

(* Segments joined.                                                        *)
LEMMA Flattened ==
  ASSUME NEW S, NEW b \in Seq(Seq(S))
  PROVE  FlattenSeq(b) = Fold("join", <<>>, b)
<1>1. CASE b = <<>>
  BY <1>1, FoldNone DEF FlattenSeq
<1>2. CASE b # <<>>
  <2>1. PICK n \in Nat \ {0} : n = Len(b)
    BY <1>2
  <2> DEFINE Is(f) == f = [i \in 1..n |-> IF i = 1 THEN b[i] ELSE f[i - 1] \o b[i]]
             F(i) == Fold("join", <<>>, SubSeq(b, 1, i))
             k == [i \in 1..n |-> F(i)]
             f == CHOOSE g : Is(g)
  <2>2. F(0) = <<>> /\ F(n) = Fold("join", <<>>, b)
    BY <2>1, UptoEnds, FoldNone
  <2>3. \A j \in 0..n - 1 : F(j + 1) = F(j) \o b[j + 1]
    <3> SUFFICES ASSUME NEW j \in 0..n - 1 PROVE F(j + 1) = F(j) \o b[j + 1]
      OBVIOUS
    <3>1. j \in 0..Len(b) - 1
      BY <2>1
    <3>2. F(j + 1) = Goes("join", F(j), b[j + 1])
      BY ONLY <3>1, b \in Seq(Seq(S)), FoldUpto
    <3> QED BY <3>2 DEF Goes
  <2>4. \A i \in 1..n : b[i] \in Seq(S)
    BY <2>1
  <2>5. F(1) = b[1]
    <3> HIDE DEF F
    <3>1. 0 \in 0..n - 1 /\ 1 \in 1..n /\ 0 + 1 = 1
      OBVIOUS
    <3>2. F(1) = F(0) \o b[1]
      BY <2>3, <3>1
    <3>3. F(1) = <<>> \o b[1] /\ b[1] \in Seq(S)
      BY <2>2, <2>4, <3>1, <3>2
    <3> QED BY <3>3
  <2> HIDE DEF F
  <2>6. \A i \in 1..n : i # 1 => F(i) = F(i - 1) \o b[i]
    <3> SUFFICES ASSUME NEW i \in 1..n, i # 1 PROVE F(i) = F(i - 1) \o b[i]
      OBVIOUS
    <3>1. PICK j \in 1..n - 1 : i = j + 1
      <4>1. i - 1 \in 1..n - 1 /\ i = (i - 1) + 1
        OBVIOUS
      <4> QED BY <4>1
    <3>2. F(j + 1) = F(j) \o b[j + 1] /\ (j + 1) - 1 = j
      BY <2>3, <3>1
    <3> QED BY <3>1, <3>2
  <2>7. Is(k)
    <3>1. \A i \in 1..n : k[i] = F(i)
      OBVIOUS
    <3>2. \A i \in 1..n : i # 1 => k[i - 1] = F(i - 1)
      OBVIOUS
    <3>3. \A i \in 1..n : F(i) = IF i = 1 THEN b[i] ELSE k[i - 1] \o b[i]
      BY <2>5, <2>6, <3>2
    <3> QED BY <3>3
  <2>8. Is(f)
    BY <2>7
  <2>9. \A j \in 0..n : j \in {i \in 0..n : i > 0 => f[i] = F(i)}
    <3> HIDE DEF Is, f
    <3>0. f = [i \in 1..n |-> IF i = 1 THEN b[i] ELSE f[i - 1] \o b[i]]
      BY <2>8 DEF Is
    <3> DEFINE A == {i \in 0..n : i > 0 => f[i] = F(i)}
    <3>1. 0 \in A
      OBVIOUS
    <3>2. ASSUME NEW j \in 0..n - 1, j \in A PROVE j + 1 \in A
      <4>1. CASE j = 0
        <5>1. j + 1 = 1 /\ 1 \in 1..n /\ 1 \in 0..n
          BY <4>1
        <5>2. f[1] = b[1]
          BY <3>0, <5>1
        <5> QED BY <2>5, <5>1, <5>2
      <4>2. CASE j # 0
        <5>1. PICK i \in 1..n : i = j + 1 /\ i # 1 /\ i - 1 = j
          BY <4>2
        <5>2. f[i] = f[j] \o b[i]
          BY <3>0, <5>1
        <5>3. f[j] = F(j) /\ F(i) = F(j) \o b[i]
          BY <2>3, <3>2, <4>2, <5>1
        <5>4. f[i] = F(i) /\ i \in 0..n
          BY <5>1, <5>2, <5>3
        <5> QED BY <5>1, <5>4
      <4> QED BY <4>1, <4>2
    <3> HIDE DEF A
    <3>3. \A j \in 0..n : j \in A
      BY <3>1, <3>2, StepsUpto
    <3> QED BY <3>3 DEF A
  <2>10. FlattenSeq(b) = f[n]
    BY <2>1 DEF FlattenSeq
  <2> HIDE DEF f
  <2> QED BY <2>2, <2>9, <2>10
<1> QED BY <1>1, <1>2

-------------------------------------------------------------------------------
(* Rows in order, each with an id of its own.                              *)
InOrder(W) ==
  \A i, j \in 1..Len(W) : (i < j <=> Before(W[i], W[j])) /\ (i < j => W[i].id # W[j].id)

(* A line through some of the rows from a to b, both ends among them.      *)
Line(F, W, a, b) ==
  /\ F \in Seq(ToSet(W)) /\ Len(F) > 0
  /\ 1 <= a /\ a <= b /\ b <= Len(W)
  /\ F[1] = W[a] /\ F[Len(F)] = W[b]
  /\ \A i \in 1..Len(F) : \E p \in a..b : F[i] = W[p]
  /\ \A i, j \in 1..Len(F) : i < j => Before(F[i], F[j])

(* A line of one row.                                                      *)
LEMMA LineStarts ==
  ASSUME NEW S, NEW W \in Seq(S), NEW a \in 1..Len(W)
  PROVE  Line(<<W[a]>>, W, a, a)
<1>1. W[a] \in ToSet(W)
  BY DEF ToSet
<1> QED BY <1>1 DEF Line

(* Two lines, one behind the other.                                        *)
LEMMA LinesJoin ==
  ASSUME NEW S, NEW W \in Seq(S), InOrder(W),
         NEW a \in Nat, NEW b \in Nat, NEW c \in Nat, NEW d \in Nat, b < c,
         NEW F, Line(F, W, a, b), NEW G, Line(G, W, c, d)
  PROVE  Line(F \o G, W, a, d)
<1> DEFINE H == F \o G
<1>0. PICK f \in Nat \ {0}, g \in Nat \ {0} : f = Len(F) /\ g = Len(G)
  BY DEF Line
<1>1. /\ H \in Seq(ToSet(W)) /\ Len(H) = f + g
      /\ \A i \in 1..f : H[i] = F[i]
      /\ \A i \in 1..g : H[f + i] = G[i]
  <2>1. F \in Seq(ToSet(W)) /\ G \in Seq(ToSet(W))
    BY DEF Line
  <2>2. /\ H \in Seq(ToSet(W)) /\ Len(H) = Len(F) + Len(G)
        /\ \A i \in 1..Len(F) : H[i] = F[i]
        /\ \A i \in 1..Len(G) : H[Len(F) + i] = G[i]
    BY ONLY <2>1, Joined
  <2> QED BY ONLY <2>2, <1>0
<1> HIDE DEF H
<1>2. \A i \in 1..f + g : i \in 1..f \/ \E j \in 1..g : i = f + j
  <2> SUFFICES ASSUME NEW i \in 1..f + g, i \notin 1..f PROVE \E j \in 1..g : i = f + j
    OBVIOUS
  <2>1. i - f \in 1..g /\ i = f + (i - f)
    BY <1>0
  <2> QED BY <2>1
<1>3. /\ \A i \in 1..f : \E p \in a..b : H[i] = W[p]
      /\ \A i \in 1..g : \E p \in c..d : H[f + i] = W[p]
  <2>1. /\ \A i \in 1..f : \E p \in a..b : F[i] = W[p]
        /\ \A i \in 1..g : \E p \in c..d : G[i] = W[p]
    BY <1>0 DEF Line
  <2>2. \A i \in 1..f : H[i] = F[i]
    BY <1>1
  <2>3. \A i \in 1..g : H[f + i] = G[i]
    BY <1>1
  <2>4. ASSUME NEW i \in 1..g PROVE \E p \in c..d : H[f + i] = W[p]
    BY ONLY <2>1, <2>3, i \in 1..g
  <2> QED BY ONLY <2>1, <2>2, <2>4
<1>4. 1 <= a /\ a <= b /\ b < c /\ c <= d /\ d <= Len(W)
  BY DEF Line
<1>5. \A i \in 1..f + g : \E p \in a..d : H[i] = W[p]
  <2> SUFFICES ASSUME NEW i \in 1..f + g PROVE \E p \in a..d : H[i] = W[p]
    OBVIOUS
  <2>1. CASE i \in 1..f
    <3>1. PICK p \in a..b : H[i] = W[p]
      BY <1>3, <2>1
    <3>2. p \in a..d
      BY <1>4
    <3> QED BY <3>1, <3>2
  <2>2. CASE \E j \in 1..g : i = f + j
    <3>1. PICK p \in c..d : H[i] = W[p]
      BY <1>3, <2>2
    <3>2. p \in a..d
      BY <1>4
    <3> QED BY <3>1, <3>2
  <2> QED BY <1>2, <2>1, <2>2
<1>6. ASSUME NEW i \in 1..f + g, NEW j \in 1..f + g, i < j PROVE Before(H[i], H[j])
  <2>1. CASE j \in 1..f
    <3>1. i \in 1..f
      BY <1>6, <2>1
    <3>2. H[i] = F[i] /\ H[j] = F[j]
      BY <1>1, <2>1, <3>1
    <3> QED BY <1>0, <1>6, <2>1, <3>1, <3>2 DEF Line
  <2>2. CASE i \in 1..f /\ j \notin 1..f
    <3>1. PICK p \in a..b : H[i] = W[p]
      BY <1>3, <2>2
    <3>2. PICK q \in c..d : H[j] = W[q]
      BY <1>2, <1>3, <2>2
    <3>3. p \in 1..Len(W) /\ q \in 1..Len(W) /\ p < q
      BY <1>4
    <3> QED BY <3>1, <3>2, <3>3 DEF InOrder
  <2>3. CASE i \notin 1..f
    <3>1. PICK k \in 1..g : i = f + k
      BY <1>2, <2>3
    <3>2. PICK l \in 1..g : j = f + l
      <4>1. j \notin 1..f
        BY <1>0, <1>6, <2>3
      <4> QED BY <1>2, <4>1
    <3>3. H[i] = G[k] /\ H[j] = G[l] /\ k < l
      BY <1>0, <1>1, <1>6, <3>1, <3>2
    <3> QED BY <1>0, <3>3 DEF Line
  <2> QED BY <2>1, <2>2, <2>3
<1>7. H[1] = W[a] /\ H[f + g] = W[d]
  BY <1>0, <1>1 DEF Line
<1>8. f + g > 0
  BY <1>0
<1>9. Line(H, W, a, d)
  BY <1>1, <1>4, <1>5, <1>6, <1>7, <1>8 DEF Line
<1> QED BY <1>9 DEF H

(* A line goes on with a later row.                                        *)
LEMMA LineGoesOn ==
  ASSUME NEW S, NEW W \in Seq(S), InOrder(W),
         NEW a \in Nat, NEW b \in Nat, NEW c \in 1..Len(W), b < c, NEW F, Line(F, W, a, b)
  PROVE  Line(Append(F, W[c]), W, a, c)
<1>1. Line(<<W[c]>>, W, c, c) /\ c \in Nat
  BY LineStarts
<1>2. Line(F \o <<W[c]>>, W, a, c)
  BY ONLY <1>1, W \in Seq(S), InOrder(W), a \in Nat, b \in Nat, b < c, Line(F, W, a, b), LinesJoin
<1>3. F \o <<W[c]>> = Append(F, W[c])
  BY W[c] \in ToSet(W) DEF Line, ToSet
<1> QED BY <1>2, <1>3

(* A strided position in the interior.                                     *)
LEMMA Strides ==
  ASSUME NEW l \in Nat, NEW n \in Nat, n + 1 < l
  PROVE  /\ \A i \in 1..n : 1 + (i * l) \div (n + 1) \in 2..l
         /\ \A i, j \in 1..n : i < j => (i * l) \div (n + 1) < (j * l) \div (n + 1)
<1> DEFINE q(i) == (i * l) \div (n + 1)
<1>1. ASSUME NEW i \in 1..n
      PROVE  q(i) \in Int /\ (n + 1) * q(i) <= i * l /\ i * l < (n + 1) * (q(i) + 1)
  <2>1. PICK x \in Int : x = i * l
    OBVIOUS
  <2>2. PICK d \in Nat \ {0} : d = n + 1
    OBVIOUS
  <2>3. x \div d \in Int /\ d * (x \div d) <= x /\ x < d * ((x \div d) + 1)
    OBVIOUS
  <2> QED BY <2>1, <2>2, <2>3
<1> HIDE DEF q
<1>2. ASSUME NEW i \in 1..n PROVE 1 + q(i) \in 2..l
  <2>1. q(i) >= 1
    <3>1. i * l >= l
      OBVIOUS
    <3>2. (n + 1) * (q(i) + 1) > n + 1
      BY <1>1, <3>1
    <3> QED BY <1>1, <3>2
  <2>2. q(i) < l
    <3>1. i * l < (n + 1) * l
      OBVIOUS
    <3> QED BY <1>1, <3>1
  <2> QED BY <1>1, <2>1, <2>2
<1>3. ASSUME NEW i \in 1..n, NEW j \in 1..n, i < j PROVE q(i) < q(j)
  <2>1. j * l >= i * l + l
    BY <1>3
  <2>2. (n + 1) * (q(j) + 1) > (n + 1) * q(i) + (n + 1)
    <3>1. (n + 1) * (q(j) + 1) > i * l + l
      <4>1. j * l < (n + 1) * (q(j) + 1)
        BY <1>1
      <4>2. (n + 1) * (q(j) + 1) \in Int /\ j * l \in Int /\ i * l + l \in Int
        BY <1>1
      <4> QED BY <2>1, <4>1, <4>2
    <3>2. i * l >= (n + 1) * q(i)
      BY <1>1
    <3>3. (n + 1) * (q(j) + 1) \in Int /\ i * l \in Int /\ (n + 1) * q(i) \in Int
      BY <1>1
    <3> QED BY <3>1, <3>2, <3>3
  <2>3. (n + 1) * (q(j) + 1) > (n + 1) * (q(i) + 1)
    BY <1>1, <2>2
  <2> QED BY <1>1, <2>3
<1> QED BY <1>2, <1>3 DEF q

(* A segment has at most two ends.                                         *)
LEMMA SegmentParts ==
  ASSUME NEW S, NEW F \in Seq(S)
  PROVE  /\ Mandatory(F) = IF Len(F) > 2 THEN 2 ELSE Len(F)
         /\ Interior(F) = IF Len(F) > 2 THEN Len(F) - 2 ELSE 0
<1>1. Len(F) \in Nat
  OBVIOUS
<1>2. Min({2, Len(F)}) = IF 2 < Len(F) THEN 2 ELSE Len(F)
  BY <1>1, 2 \in Int, Smaller
<1> QED BY <1>1, <1>2 DEF Mandatory, Interior

(* A thinned line has the same ends and n points in between.               *)
LEMMA LineThinned ==
  ASSUME NEW S, NEW W \in Seq(S), NEW a \in Nat, NEW b \in Nat, NEW F, Line(F, W, a, b),
         NEW n \in Nat, n <= Interior(F)
  PROVE  /\ Line(Thinned(F, n), W, a, b)
         /\ Len(Thinned(F, n)) = Mandatory(F) + n
<1>1. PICK f \in Nat \ {0} : f = Len(F) /\ F \in Seq(ToSet(W))
  BY DEF Line
<1>2. /\ Mandatory(F) = IF f > 2 THEN 2 ELSE f
      /\ Interior(F) = IF f > 2 THEN f - 2 ELSE 0
  BY <1>1, SegmentParts
<1>3. CASE n = Interior(F)
  BY <1>1, <1>2, <1>3 DEF Thinned
<1>4. CASE n # Interior(F)
  <2>1. n + 1 < f - 1 /\ f > 2
    BY <1>2, <1>4
  <2> DEFINE q(i) == 1 + (i * (f - 1)) \div (n + 1)
             at == [i \in 1..n + 2 |-> IF i = 1 THEN 1 ELSE IF i = n + 2 THEN f ELSE q(i - 1)]
             T == Thinned(F, n)
             B == <<F[1]>>
             M == [i \in 1..n |-> F[q(i)]]
             E == <<F[f]>>
  <2>2. /\ \A i \in 1..n : q(i) \in 2..f - 1
        /\ \A i, j \in 1..n : i < j => q(i) < q(j)
    <3>1. f - 1 \in Nat /\ n + 1 < f - 1
      BY <2>1
    <3>2. PICK l \in Nat : l = f - 1
      BY <3>1
    <3>3. /\ \A i \in 1..n : 1 + (i * l) \div (n + 1) \in 2..l
          /\ \A i, j \in 1..n : i < j => (i * l) \div (n + 1) < (j * l) \div (n + 1)
      BY <3>1, <3>2, Strides
    <3>4. \A i \in 1..n : q(i) = 1 + (i * l) \div (n + 1)
      BY <3>2
    <3>5. \A i \in 1..n : (i * l) \div (n + 1) \in Int
      BY <2>1, <3>2
    <3> HIDE DEF q
    <3>6. ASSUME NEW i \in 1..n PROVE q(i) \in 2..f - 1
      BY <3>2, <3>3, <3>4
    <3>7. ASSUME NEW i \in 1..n, NEW j \in 1..n, i < j PROVE q(i) < q(j)
      <4>1. (i * l) \div (n + 1) < (j * l) \div (n + 1)
        BY <3>3, <3>7
      <4>2. q(i) = 1 + (i * l) \div (n + 1) /\ q(j) = 1 + (j * l) \div (n + 1)
        BY <3>4
      <4>3. \A x, y \in Int : x < y => 1 + x < 1 + y
        OBVIOUS
      <4> QED BY <3>5, <4>1, <4>2, <4>3
    <3> QED BY <3>6, <3>7
  <2>3. T = B \o M \o E
    BY <1>1, <1>4 DEF Thinned, Last
  <2> HIDE DEF q
  <2>4. /\ at \in [1..n + 2 -> 1..f] /\ at[1] = 1 /\ at[n + 2] = f
        /\ \A i, j \in 1..n + 2 : i < j => at[i] < at[j]
    <3>1. \A i \in 1..n + 2 : i = 1 \/ i = n + 2 \/ i - 1 \in 1..n
      OBVIOUS
    <3>2. at[1] = 1 /\ at[n + 2] = f
      BY <2>1
    <3>3. \A i \in 1..n : at[i + 1] = q(i)
      OBVIOUS
    <3>4. at \in [1..n + 2 -> 1..f]
      BY <2>1, <2>2, <3>1
    <3>5. ASSUME NEW i \in 1..n + 2, NEW j \in 1..n + 2, i < j PROVE at[i] < at[j]
      <4>1. CASE i = 1 /\ j = n + 2
        BY <2>1, <3>2, <4>1
      <4>2. CASE i = 1 /\ j # n + 2
        BY <2>1, <2>2, <3>1, <3>5, <4>2
      <4>3. CASE i # 1 /\ j = n + 2
        BY <2>1, <2>2, <3>1, <3>5, <4>3
      <4>4. CASE i # 1 /\ j # n + 2
        <5>1. i - 1 \in 1..n /\ j - 1 \in 1..n /\ i - 1 < j - 1 /\ i # n + 2
          BY <3>1, <3>5, <4>4
        <5> QED BY <2>2, <4>4, <5>1
      <4> QED BY <4>1, <4>2, <4>3, <4>4
    <3> QED BY <3>2, <3>4, <3>5
  <2> HIDE DEF at
  <2>5. T \in Seq(ToSet(W)) /\ Len(T) = n + 2 /\ \A i \in 1..n + 2 : T[i] = F[at[i]]
    <3>1. \A i \in 1..f : F[i] \in ToSet(W)
      BY <1>1
    <3>2. /\ B \in Seq(ToSet(W)) /\ Len(B) = 1 /\ B[1] = F[1]
          /\ E \in Seq(ToSet(W)) /\ Len(E) = 1 /\ E[1] = F[f]
      BY <3>1
    <3>3. M \in Seq(ToSet(W)) /\ Len(M) = n /\ \A i \in 1..n : M[i] = F[q(i)]
      <4>1. \A i \in 1..n : F[q(i)] \in ToSet(W)
        BY <2>1, <2>2, <3>1
      <4> QED BY <4>1
    <3> HIDE DEF B, M, E, T
    <3> DEFINE D == B \o M
    <3>4. B \in Seq(ToSet(W)) /\ M \in Seq(ToSet(W)) /\ T = D \o E
      BY <2>3, <3>2, <3>3
    <3>5. /\ D \in Seq(ToSet(W)) /\ Len(D) = Len(B) + Len(M)
          /\ \A i \in 1..Len(B) : D[i] = B[i]
          /\ \A i \in 1..Len(M) : D[Len(B) + i] = M[i]
      BY ONLY <3>4, Joined
    <3> HIDE DEF D
    <3>6. /\ T \in Seq(ToSet(W)) /\ Len(T) = Len(D) + Len(E)
          /\ \A i \in 1..Len(D) : T[i] = D[i]
          /\ \A i \in 1..Len(E) : T[Len(D) + i] = E[i]
      <4>1. D \in Seq(ToSet(W)) /\ E \in Seq(ToSet(W))
        BY <3>2, <3>5
      <4>2. /\ D \o E \in Seq(ToSet(W)) /\ Len(D \o E) = Len(D) + Len(E)
            /\ \A i \in 1..Len(D) : (D \o E)[i] = D[i]
            /\ \A i \in 1..Len(E) : (D \o E)[Len(D) + i] = E[i]
        BY ONLY <4>1, Joined
      <4> QED BY ONLY <3>4, <4>2
    <3>7. /\ Len(T) = n + 2 /\ T[1] = F[1] /\ T[n + 2] = F[f]
          /\ \A i \in 1..n : T[1 + i] = F[q(i)]
      BY <3>2, <3>3, <3>5, <3>6
    <3>8. ASSUME NEW i \in 1..n + 2 PROVE T[i] = F[at[i]]
      <4>1. CASE i = 1 \/ i = n + 2
        BY <2>4, <3>7, <4>1
      <4>2. CASE i # 1 /\ i # n + 2
        <5>1. PICK j \in 1..n : i = 1 + j /\ i - 1 = j
          <6>1. i - 1 \in 1..n /\ i = 1 + (i - 1)
            BY <4>2
          <6> QED BY <6>1
        <5>2. at[i] = q(j)
          BY <4>2, <5>1 DEF at
        <5> QED BY <3>7, <5>1, <5>2
      <4> QED BY <4>1, <4>2
    <3> QED BY <3>6, <3>7, <3>8
  <2> HIDE DEF T
  <2>6. /\ \A i \in 1..n + 2 : \E p \in a..b : T[i] = W[p]
        /\ \A i, j \in 1..n + 2 : i < j => Before(T[i], T[j])
    <3>1. \A i \in 1..n + 2 : at[i] \in 1..f /\ T[i] = F[at[i]]
      BY <2>4, <2>5
    <3>2. /\ \A i \in 1..f : \E p \in a..b : F[i] = W[p]
          /\ \A i, j \in 1..f : i < j => Before(F[i], F[j])
      BY <1>1 DEF Line
    <3>3. \A i \in 1..n + 2 : \E p \in a..b : T[i] = W[p]
      BY <3>1, <3>2
    <3>4. \A i, j \in 1..n + 2 : i < j => Before(T[i], T[j])
      BY <2>4, <3>1, <3>2
    <3> QED BY <3>3, <3>4
  <2>7. T[1] = W[a] /\ T[n + 2] = W[b]
    <3>1. 1 \in 1..n + 2 /\ n + 2 \in 1..n + 2
      OBVIOUS
    <3> QED BY <1>1, <2>4, <2>5, <3>1 DEF Line
  <2>8. Line(T, W, a, b)
    BY <2>5, <2>6, <2>7 DEF Line
  <2>9. Len(T) = Mandatory(F) + n
    BY <1>2, <2>1, <2>5
  <2> QED BY <2>8, <2>9 DEF T
<1> QED BY <1>3, <1>4

-------------------------------------------------------------------------------
(* Among the first k rows, those where a segment begins.                   *)
Starts(W, k) == {i \in 1..k : i = 1 \/ disconnected(W[i - 1], W[i])}

(* Where segment j ends; the last one has come to row b.                   *)
Stop(cut, j, b) == IF j + 1 \in DOMAIN cut THEN cut[j + 1] - 1 ELSE b

(* The segments of the first k rows: segment j begins at row cut[j].       *)
Split(segments, cut, W, k, b) ==
  /\ segments \in Seq(Seq(ToSet(W)))
  /\ cut \in [1..Len(segments) -> 1..k]
  /\ {cut[j] : j \in DOMAIN cut} = Starts(W, k)
  /\ \A i, j \in DOMAIN cut : i < j => cut[i] < cut[j]
  /\ \A j \in DOMAIN cut : Line(segments[j], W, cut[j], Stop(cut, j, b))
  /\ b \in 0..k

(* There are segments once there are rows; the last one ends at row b.     *)
LEMMA LastSegment ==
  ASSUME NEW S, NEW W \in Seq(S), NEW k \in 0..Len(W), NEW segments, NEW cut, NEW b,
         Split(segments, cut, W, k, b)
  PROVE  /\ k = 0 <=> segments = <<>>
         /\ k # 0 => /\ Len(segments) \in DOMAIN cut
                     /\ Line(Last(segments), W, cut[Len(segments)], b)
                     /\ Last(Last(segments)) = W[b] /\ b \in 1..k
<1>0. /\ segments \in Seq(Seq(ToSet(W))) /\ cut \in [1..Len(segments) -> 1..k] /\ b \in 0..k
  BY DEF Split
<1>1. PICK m \in Nat : m = Len(segments) /\ DOMAIN cut = 1..m /\ cut \in [1..m -> 1..k]
  <2>1. Len(segments) \in Nat
    BY <1>0
  <2>2. DOMAIN cut = 1..Len(segments)
    BY <1>0
  <2> QED BY <1>0, <2>1, <2>2
<1>2. CASE k = 0
  <2>1. m = 0
    <3> SUFFICES ASSUME m # 0 PROVE FALSE
      OBVIOUS
    <3>1. 1 \in 1..m
      OBVIOUS
    <3>2. cut[1] \in 1..k
      BY <1>1, <3>1
    <3> QED BY <1>2, <3>2
  <2>2. segments = <<>>
    <3>1. Len(segments) = 0
      BY <1>1, <2>1
    <3> QED BY ONLY <1>0, <3>1
  <2> QED BY <1>2, <2>2
<1>3. CASE k # 0
  <2>1. 1 \in Starts(W, k)
    BY <1>3 DEF Starts
  <2>2. m # 0
    BY <1>1, <2>1 DEF Split
  <2>3. m \in DOMAIN cut /\ m + 1 \notin DOMAIN cut
    BY <1>1, <2>2
  <2>4. Line(segments[m], W, cut[m], b)
    BY <2>3 DEF Split, Stop
  <2>5. segments[m][Len(segments[m])] = W[b] /\ 1 <= cut[m] /\ cut[m] <= b
    BY <2>4 DEF Line
  <2>6. b \in 1..k
    BY <1>0, <1>1, <2>3, <2>5
  <2> QED BY <1>1, <1>3, <2>2, <2>3, <2>4, <2>5, <2>6 DEF Last
<1> QED BY <1>2, <1>3

(* The last segment may be exchanged for one with another end.             *)
LEMMA SplitEnds ==
  ASSUME NEW S, NEW W \in Seq(S), NEW k \in 0..Len(W), NEW segments, NEW cut, NEW b,
         Split(segments, cut, W, k, b), k # 0,
         NEW c \in 1..k, NEW F, Line(F, W, cut[Len(segments)], c)
  PROVE  /\ Split(Front(segments) \o <<F>>, cut, W, k, c)
         /\ Len(Front(segments) \o <<F>>) = Len(segments)
<1> DEFINE T == Front(segments) \o <<F>>
<1>1. PICK m \in Nat \ {0} : m = Len(segments) /\ DOMAIN cut = 1..m
  <2>1. segments \in Seq(Seq(ToSet(W))) /\ cut \in [1..Len(segments) -> 1..k]
    BY DEF Split
  <2>2. Len(segments) \in DOMAIN cut
    BY LastSegment
  <2> QED BY <2>1, <2>2
<1>2. segments \in Seq(Seq(ToSet(W))) /\ F \in Seq(ToSet(W))
  BY DEF Split, Line
<1>3. /\ T \in Seq(Seq(ToSet(W))) /\ Len(T) = m /\ T[m] = F
      /\ \A j \in 1..m : j # m => T[j] = segments[j]
  <2> DEFINE A == SubSeq(segments, 1, m - 1)
             B == <<F>>
  <2>1. T = A \o B
    BY <1>1 DEF Front
  <2>2. PICK l \in Nat : l = m - 1
    BY <1>1
  <2>3. A \in Seq(Seq(ToSet(W))) /\ Len(A) = l /\ \A i \in 1..l : A[i] = segments[i]
    <3>1. l <= Len(segments)
      BY <1>1, <2>2
    <3>2. /\ SubSeq(segments, 1, l) \in Seq(Seq(ToSet(W))) /\ Len(SubSeq(segments, 1, l)) = l
          /\ \A i \in 1..l : SubSeq(segments, 1, l)[i] = segments[i]
      BY ONLY <1>2, <3>1, l \in Nat, Beginning
    <3> QED BY <2>2, <3>2
  <2>4. B \in Seq(Seq(ToSet(W))) /\ Len(B) = 1 /\ B[1] = F
    BY <1>2
  <2> HIDE DEF A, B
  <2>5. A \in Seq(Seq(ToSet(W))) /\ B \in Seq(Seq(ToSet(W)))
    BY <2>3, <2>4
  <2>6. /\ A \o B \in Seq(Seq(ToSet(W))) /\ Len(A \o B) = Len(A) + Len(B)
        /\ \A i \in 1..Len(A) : (A \o B)[i] = A[i]
        /\ \A i \in 1..Len(B) : (A \o B)[Len(A) + i] = B[i]
    BY ONLY <2>5, Joined
  <2> HIDE DEF T
  <2>7. T \in Seq(Seq(ToSet(W))) /\ Len(T) = l + 1 /\ T[l + 1] = F
        /\ \A i \in 1..l : T[i] = segments[i]
    BY <2>1, <2>3, <2>4, <2>6
  <2> QED BY <2>2, <2>7
<1> HIDE DEF T
<1>4. \A j \in DOMAIN cut : Line(T[j], W, cut[j], Stop(cut, j, c))
  <2> SUFFICES ASSUME NEW j \in 1..m PROVE Line(T[j], W, cut[j], Stop(cut, j, c))
    BY <1>1
  <2>1. CASE j = m
    BY <1>1, <1>3, <2>1 DEF Stop
  <2>2. CASE j # m
    <3>1. Stop(cut, j, c) = Stop(cut, j, b)
      BY <1>1, <2>2 DEF Stop
    <3> QED BY <1>1, <1>3, <2>2, <3>1 DEF Split
  <2> QED BY <2>1, <2>2
<1> QED BY <1>1, <1>3, <1>4 DEF Split, T

(* The line is drawn up to row k.                                          *)
LEMMA SplitKept ==
  ASSUME NEW S, NEW W \in Seq(S), InOrder(W), NEW k \in 1..Len(W), NEW segments, NEW cut, NEW b,
         Split(segments, cut, W, k, b)
  PROVE  /\ Split(keepPrevious(segments, <<W[k]>>), cut, W, k, k)
         /\ Len(keepPrevious(segments, <<W[k]>>)) = Len(segments)
<1>1. /\ k \in 0..Len(W) /\ k # 0
      /\ Line(Last(segments), W, cut[Len(segments)], b)
      /\ Last(Last(segments)) = W[b] /\ b \in 1..k
  <2>1. k \in 0..Len(W) /\ k # 0
    OBVIOUS
  <2> QED BY <2>1, LastSegment
<1>2. CASE b = k
  BY <1>1, <1>2 DEF keepPrevious
<1>3. CASE b # k
  <2>1. W[b].id # W[k].id
    BY <1>1, <1>3 DEF InOrder
  <2> DEFINE F == Append(Last(segments), W[k])
  <2>2. keepPrevious(segments, <<W[k]>>) = Front(segments) \o <<F>>
    BY <1>1, <2>1 DEF keepPrevious
  <2>3. cut[Len(segments)] \in Nat /\ b \in Nat /\ b < k
    <3>1. cut \in [1..Len(segments) -> 1..k]
      BY DEF Split
    <3>2. Len(segments) \in DOMAIN cut
      BY ONLY <1>1, W \in Seq(S), Split(segments, cut, W, k, b), LastSegment
    <3> QED BY <1>1, <1>3, <3>1, <3>2
  <2>4. Line(F, W, cut[Len(segments)], k)
    BY ONLY <1>1, <2>3, W \in Seq(S), InOrder(W), k \in 1..Len(W), LineGoesOn
  <2> HIDE DEF F
  <2>5. k \in 1..k
    OBVIOUS
  <2>6. /\ Split(Front(segments) \o <<F>>, cut, W, k, k)
        /\ Len(Front(segments) \o <<F>>) = Len(segments)
    BY ONLY <1>1, <2>4, <2>5, W \in Seq(S), Split(segments, cut, W, k, b), SplitEnds
  <2> QED BY <2>2, <2>6
<1> QED BY <1>2, <1>3

(* A row where a segment begins.                                           *)
LEMMA SplitBegins ==
  ASSUME NEW S, NEW W \in Seq(S), NEW k \in 0..Len(W), NEW p \in 1..Len(W), p = k + 1,
         NEW segments, NEW cut, Split(segments, cut, W, k, k), p \in Starts(W, p)
  PROVE  \E new : Split(Append(segments, <<W[p]>>), new, W, p, p)
<1>1. /\ segments \in Seq(Seq(ToSet(W))) /\ cut \in [1..Len(segments) -> 1..k]
      /\ {cut[j] : j \in DOMAIN cut} = Starts(W, k)
  BY DEF Split
<1>2. PICK m \in Nat : m = Len(segments)
  <2>1. segments \in Seq(Seq(ToSet(W)))
    BY <1>1
  <2>2. Len(segments) \in Nat
    BY ONLY <2>1
  <2> QED BY <2>2
<1> DEFINE T == Append(segments, <<W[p]>>)
           new == [j \in 1..m + 1 |-> IF j = m + 1 THEN p ELSE cut[j]]
<1>3. Line(<<W[p]>>, W, p, p)
  BY LineStarts
<1>4. /\ T \in Seq(Seq(ToSet(W))) /\ Len(T) = m + 1 /\ T[m + 1] = <<W[p]>>
      /\ \A j \in 1..m : T[j] = segments[j]
  <2>1. <<W[p]>> \in Seq(ToSet(W))
    BY <1>3 DEF Line
  <2> QED BY <1>1, <1>2, <2>1
<1> HIDE DEF T
<1>5. /\ DOMAIN cut = 1..m /\ DOMAIN new = 1..m + 1 /\ new[m + 1] = p
      /\ \A j \in 1..m : new[j] = cut[j] /\ cut[j] \in 1..k
  BY <1>1, <1>2
<1>6. new \in [1..m + 1 -> 1..p]
  <2>1. \A j \in 1..m + 1 : j = m + 1 \/ j \in 1..m
    BY <1>2
  <2>2. \A j \in 1..m + 1 : new[j] \in 1..p
    <3> HIDE DEF new
    <3>1. \A j \in 1..m : new[j] \in 1..p
      BY <1>5
    <3> QED BY <1>5, <2>1, <3>1
  <2> QED BY <2>2
<1> HIDE DEF new
<1>7. {new[j] : j \in DOMAIN new} = Starts(W, p)
  <2>1. Starts(W, p) = Starts(W, k) \cup {p}
    <3>1. 1..p = (1..k) \cup {p}
      OBVIOUS
    <3> QED BY <3>1 DEF Starts
  <2>2. 1..m + 1 = (1..m) \cup {m + 1}
    BY <1>2
  <2>3. {new[j] : j \in 1..m} = {cut[j] : j \in 1..m}
    BY <1>5
  <2>4. {new[j] : j \in 1..m + 1} = {new[j] : j \in 1..m} \cup {p}
    BY <1>5, <2>2
  <2> QED BY <1>1, <1>5, <2>1, <2>3, <2>4
<1>8. \A i, j \in DOMAIN new : i < j => new[i] < new[j]
  <2>1. \A i, j \in 1..m : i < j => cut[i] < cut[j]
    BY <1>5 DEF Split
  <2> SUFFICES ASSUME NEW i \in 1..m + 1, NEW j \in 1..m + 1, i < j PROVE new[i] < new[j]
    BY <1>5
  <2>2. i \in 1..m
    BY <1>2
  <2>3. CASE j = m + 1
    BY <1>5, <2>2, <2>3
  <2>4. CASE j # m + 1
    <3>1. j \in 1..m
      BY <1>2, <2>4
    <3> QED BY <1>5, <2>1, <2>2, <3>1
  <2> QED BY <2>3, <2>4
<1>9. \A j \in DOMAIN new : Line(T[j], W, new[j], Stop(new, j, p))
  <2> SUFFICES ASSUME NEW j \in 1..m + 1 PROVE Line(T[j], W, new[j], Stop(new, j, p))
    BY <1>5
  <2>1. CASE j = m + 1
    <3>1. j + 1 \notin 1..m + 1
      BY <1>2, <2>1
    <3> QED BY <1>3, <1>4, <1>5, <2>1, <3>1 DEF Stop
  <2>2. CASE j # m + 1
    <3>1. j \in 1..m /\ j + 1 \in 1..m + 1
      BY <1>2, <2>2
    <3>2. Stop(new, j, p) = Stop(cut, j, k)
      <4>1. CASE j = m
        <5>1. j + 1 \notin 1..m /\ j + 1 = m + 1
          BY <1>2, <4>1
        <5> QED BY <1>5, <3>1, <5>1 DEF Stop
      <4>2. CASE j # m
        <5>1. j + 1 \in 1..m
          BY <3>1, <4>2
        <5> QED BY <1>5, <3>1, <5>1 DEF Stop
      <4> QED BY <4>1, <4>2
    <3>3. Line(segments[j], W, cut[j], Stop(cut, j, k))
      BY <1>5, <3>1 DEF Split
    <3> QED BY <1>4, <1>5, <3>1, <3>2, <3>3
  <2> QED BY <2>1, <2>2
<1>10. Split(T, new, W, p, p)
  BY <1>4, <1>5, <1>6, <1>7, <1>8, <1>9 DEF Split
<1> QED BY <1>10 DEF T

(* A row within a segment.                                                 *)
LEMMA SplitGoesOn ==
  ASSUME NEW S, NEW W \in Seq(S), NEW k \in 0..Len(W), NEW p \in 1..Len(W), p = k + 1,
         NEW segments, NEW cut, NEW b, Split(segments, cut, W, k, b), p \notin Starts(W, p)
  PROVE  Split(segments, cut, W, p, b)
<1>1. Starts(W, p) = Starts(W, k)
  <2>1. 1..p = (1..k) \cup {p}
    OBVIOUS
  <2> QED BY <2>1 DEF Starts
<1>2. cut \in [1..Len(segments) -> 1..p]
  <2>1. cut \in [1..Len(segments) -> 1..k]
    BY DEF Split
  <2>2. 1..k \subseteq 1..p
    OBVIOUS
  <2> QED BY <2>1, <2>2
<1>3. b \in 0..p
  <2>1. b \in 0..k
    BY DEF Split
  <2> QED BY <2>1
<1> QED BY <1>1, <1>2, <1>3 DEF Split

(* A route that has taken the first k rows.                                *)
RouteTo(r, W, k) ==
  /\ {"at", "snapshot", "maxPoints", "segments", "previous", "count"} \subseteq DOMAIN r
  /\ r.maxPoints \in Nat
  /\ k \in 0..Len(W) /\ r.count = k
  /\ r.previous = IF k = 0 THEN <<>> ELSE <<W[k]>>
  /\ \E cut \in [1..Len(r.segments) -> 1..k], b \in 0..k : Split(r.segments, cut, W, k, b)

(* It is the same route that was asked for.                                *)
Asked(new, r) == new.at = r.at /\ new.snapshot = r.snapshot /\ new.maxPoints = r.maxPoints

(* A point of the stream.                                                  *)
LEMMA TakeRoute ==
  ASSUME NEW S, NEW W \in Seq(S), InOrder(W), NEW r, NEW k \in 0..Len(W), RouteTo(r, W, k),
         NEW p \in 1..Len(W), p = k + 1
  PROVE  RouteTo(Take(r, W[p]), W, p) /\ Asked(Take(r, W[p]), r)
<1>1. PICK cut, b : Split(r.segments, cut, W, k, b)
  BY DEF RouteTo
<1> DEFINE isNew == IF r.previous = <<>> THEN TRUE ELSE disconnected(r.previous[1], W[p])
           new == Take(r, W[p])
<1>2. isNew <=> p \in Starts(W, p)
  <2>1. p - 1 = k /\ p \in 1..p
    OBVIOUS
  <2>2. CASE k = 0
    BY <2>1, <2>2 DEF RouteTo, Starts
  <2>3. CASE k # 0
    <3>1. r.previous # <<>> /\ r.previous[1] = W[k] /\ p # 1
      BY <2>3 DEF RouteTo
    <3> QED BY <2>1, <3>1 DEF Starts
  <2> QED BY <2>2, <2>3
<1>3. \E c, d : Split(new.segments, c, W, p, d)
  <2>1. CASE isNew
    <3>1. new.segments = Append(keepPrevious(r.segments, r.previous), <<W[p]>>)
      BY <2>1 DEF Take, RouteTo
    <3>2. Split(keepPrevious(r.segments, r.previous), cut, W, k, k)
      <4>1. CASE k = 0
        <5>1. keepPrevious(r.segments, r.previous) = r.segments
          BY <4>1 DEF RouteTo, keepPrevious
        <5>2. b = k
          <6>1. b \in 0..k
            BY <1>1 DEF Split
          <6> QED BY <4>1, <6>1
        <5> QED BY <1>1, <5>1, <5>2
      <4>2. CASE k # 0
        <5>1. k \in 1..Len(W)
          BY <4>2
        <5>2. r.previous = <<W[k]>>
          BY <4>2 DEF RouteTo
        <5>3. Split(keepPrevious(r.segments, <<W[k]>>), cut, W, k, k)
          BY ONLY <1>1, <5>1, W \in Seq(S), InOrder(W), SplitKept
        <5> QED BY <5>2, <5>3
      <4> QED BY <4>1, <4>2
    <3>3. PICK T : T = keepPrevious(r.segments, r.previous)
      OBVIOUS
    <3>4. p \in Starts(W, p) /\ Split(T, cut, W, k, k)
      BY <1>2, <2>1, <3>2, <3>3
    <3>5. \E c : Split(Append(T, <<W[p]>>), c, W, p, p)
      BY ONLY <3>4, W \in Seq(S), k \in 0..Len(W), p \in 1..Len(W), p = k + 1, SplitBegins
    <3> QED BY <3>1, <3>3, <3>5
  <2>2. CASE ~isNew
    <3>1. p \notin Starts(W, p) /\ k # 0
      <4>1. k = 0 => isNew
        BY DEF RouteTo
      <4> QED BY <1>2, <2>2, <4>1
    <3>2. PICK s : s = r.segments
      OBVIOUS
    <3>3. Split(s, cut, W, p, b)
      BY ONLY <1>1, <3>1, <3>2, W \in Seq(S), k \in 0..Len(W), p \in 1..Len(W), p = k + 1,
              SplitGoesOn
    <3>4. CASE new.segments = r.segments
      BY <3>2, <3>3, <3>4
    <3>5. CASE new.segments = Front(s) \o <<Append(Last(s), W[p])>>
      <4>1. /\ Len(s) \in DOMAIN cut /\ Line(Last(s), W, cut[Len(s)], b) /\ b \in 1..k
        BY ONLY <1>1, <3>1, <3>2, W \in Seq(S), k \in 0..Len(W), LastSegment
      <4>2. cut[Len(s)] \in Nat /\ b \in Nat /\ b < p /\ p \in 1..p /\ p \in 0..Len(W) /\ p # 0
        <5>1. cut \in [1..Len(s) -> 1..p]
          BY <3>3 DEF Split
        <5> QED BY <4>1, <5>1
      <4>3. Line(Append(Last(s), W[p]), W, cut[Len(s)], p)
        BY ONLY <4>1, <4>2, W \in Seq(S), InOrder(W), p \in 1..Len(W), LineGoesOn
      <4>4. Split(Front(s) \o <<Append(Last(s), W[p])>>, cut, W, p, p)
        BY ONLY <3>3, <4>2, <4>3, W \in Seq(S), SplitEnds
      <4> QED BY <3>5, <4>4
    <3>6. new.segments = r.segments \/ new.segments = Front(s) \o <<Append(Last(s), W[p])>>
      BY <2>2, <3>2 DEF Take, RouteTo
    <3> QED BY <3>4, <3>5, <3>6
  <2> QED BY <2>1, <2>2
<1>4. \E c \in [1..Len(new.segments) -> 1..p], d \in 0..p : Split(new.segments, c, W, p, d)
  BY <1>3 DEF Split
<1>5. /\ {"at", "snapshot", "maxPoints", "segments", "previous", "count"} \subseteq DOMAIN new
      /\ Asked(new, r) /\ new.maxPoints = r.maxPoints
      /\ new.count = r.count + 1 /\ new.previous = <<W[p]>>
  BY DEF Take, RouteTo, Asked
<1> HIDE DEF new
<1>6. RouteTo(new, W, p) /\ Asked(new, r)
  BY <1>4, <1>5 DEF RouteTo
<1> QED BY <1>6 DEF new

(* A batch of the stream.                                                  *)
LEMMA BatchRoute ==
  ASSUME NEW S, NEW W \in Seq(S), InOrder(W), NEW r, NEW k \in Nat, RouteTo(r, W, k),
         NEW m \in Nat, k + m <= Len(W)
  PROVE  /\ RouteTo(FoldLeft(Take, r, SubSeq(W, k + 1, k + m)), W, k + m)
         /\ Asked(FoldLeft(Take, r, SubSeq(W, k + 1, k + m)), r)
<1> DEFINE b == SubSeq(W, k + 1, k + m)
           At(j) == Fold("take", r, SubSeq(b, 1, j))
           A == {j \in 0..m : RouteTo(At(j), W, k + j) /\ Asked(At(j), r)}
<1>1. b \in Seq(S) /\ Len(b) = m /\ \A i \in 1..m : b[i] = W[k + i]
  BY Part
<1>2. At(0) = r /\ At(m) = FoldLeft(Take, r, b)
  <2> HIDE DEF b
  <2>1. SubSeq(b, 1, 0) = <<>> /\ SubSeq(b, 1, m) = b
    BY <1>1, UptoEnds
  <2> QED BY <2>1, FoldNone, TakeAll
<1> HIDE DEF b
<1>3. \A j \in 0..m - 1 : At(j + 1) = Take(At(j), b[j + 1])
  <2> SUFFICES ASSUME NEW j \in 0..m - 1 PROVE At(j + 1) = Take(At(j), b[j + 1])
    OBVIOUS
  <2>1. j \in 0..Len(b) - 1
    BY <1>1
  <2>2. At(j + 1) = Goes("take", At(j), b[j + 1])
    BY ONLY <1>1, <2>1, FoldUpto
  <2> QED BY <2>2 DEF Goes
<1> HIDE DEF At
<1>4. 0 \in A
  BY <1>2 DEF Asked
<1>5. ASSUME NEW j \in 0..m - 1, j \in A PROVE j + 1 \in A
  <2>1. PICK p \in 1..Len(W) : p = k + (j + 1) /\ p = (k + j) + 1
    OBVIOUS
  <2>2. b[j + 1] = W[p]
    BY <1>1, <2>1
  <2>3. PICK i \in 0..Len(W) : i = k + j
    OBVIOUS
  <2>4. RouteTo(At(j), W, i) /\ p = i + 1
    BY <1>5, <2>1, <2>3
  <2>5. RouteTo(Take(At(j), W[p]), W, p) /\ Asked(Take(At(j), W[p]), At(j))
    BY ONLY <2>4, W \in Seq(S), InOrder(W), i \in 0..Len(W), p \in 1..Len(W), TakeRoute
  <2>6. Asked(At(j + 1), r)
    BY <1>3, <1>5, <2>2, <2>5 DEF Asked
  <2> QED BY <1>3, <2>1, <2>2, <2>5, <2>6
<1>6. m \in A
  <2> HIDE DEF A
  <2>1. \A j \in 0..m : j \in A
    BY <1>4, <1>5, StepsUpto
  <2> QED BY <2>1
<1> QED BY <1>2, <1>6 DEF b

-------------------------------------------------------------------------------
(* Sampling                                                                *)

(* The sums over the first segments grow.                                  *)
LEMMA Sums ==
  ASSUME NEW S, NEW b \in Seq(Seq(S)), NEW way \in {"mandatory", "interior"}
  PROVE  /\ \A j \in 0..Len(b) : Fold(way, 0, SubSeq(b, 1, j)) \in Nat
         /\ \A j \in 0..Len(b) : Fold(way, 0, SubSeq(b, 1, j)) <= Fold(way, 0, b)
<1> DEFINE F(j) == Fold(way, 0, SubSeq(b, 1, j))
           n == Len(b)
           A == {j \in 0..n : \A i \in 0..j : F(i) \in Nat /\ F(i) <= F(j)}
<1>0. n \in Nat
  OBVIOUS
<1>1. F(0) = 0 /\ F(n) = Fold(way, 0, b)
  BY UptoEnds, FoldNone
<1>2. ASSUME NEW j \in 0..n - 1
      PROVE  \E x \in Nat : F(j + 1) = F(j) + x
  <2>1. F(j + 1) = Goes(way, F(j), b[j + 1])
    BY ONLY j \in 0..n - 1, b \in Seq(Seq(S)), FoldUpto
  <2>2. PICK G \in Seq(S) : G = b[j + 1]
    OBVIOUS
  <2>3. Mandatory(G) \in Nat /\ Interior(G) \in Nat
    BY SegmentParts
  <2> HIDE DEF F
  <2> QED BY <2>1, <2>2, <2>3 DEF Goes
<1> HIDE DEF F, n
<1>3. 0 \in A
  BY <1>0, <1>1
<1>4. ASSUME NEW j \in 0..n - 1, j \in A PROVE j + 1 \in A
  <2>1. PICK x \in Nat : F(j + 1) = F(j) + x
    BY <1>2
  <2>2. F(j) \in Nat /\ \A i \in 0..j : F(i) \in Nat /\ F(i) <= F(j)
    BY <1>4
  <2>3. \A i \in 0..j + 1 : i = j + 1 \/ i \in 0..j
    OBVIOUS
  <2>4. F(j + 1) \in Nat /\ F(j) <= F(j + 1)
    BY <2>1, <2>2
  <2>5. \A i \in 0..j + 1 : F(i) \in Nat /\ F(i) <= F(j + 1)
    BY <2>2, <2>3, <2>4
  <2> QED BY <1>0, <2>5
<1>5. \A j \in 0..n : j \in A
  <2> HIDE DEF A
  <2> QED BY <1>0, <1>3, <1>4, StepsUpto
<1>6. \A j \in 0..n : F(j) \in Nat /\ F(j) <= F(n)
  <2> SUFFICES ASSUME NEW j \in 0..n PROVE F(j) \in Nat /\ F(j) <= F(n)
    OBVIOUS
  <2>1. n \in A /\ j \in A
    BY <1>0, <1>5
  <2> QED BY <2>1
<1> QED BY <1>1, <1>6 DEF F, n

(* The sampling of all segments is such a fold.                            *)
LEMMA SampleAll ==
  ASSUME NEW base, NEW b
  PROVE  FoldLeft(Sample, base, b) = Fold("sample", base, b)
BY DEF FoldLeft, MapThenFoldSet, Fold, Results, Equation, Goes

(* A segment's share is at most its interior and at most the budget.       *)
LEMMA Share ==
  ASSUME NEW budget \in Nat, NEW x \in Nat, NEW y \in Nat, x <= y, y # 0
  PROVE  Min({x, (budget * x) \div y}) \in 0..x /\ Min({x, (budget * x) \div y}) <= budget
<1>1. PICK a \in Nat : a = budget * x
  OBVIOUS
<1>2. PICK q \in Int : q = a \div y /\ y * q <= a /\ q >= 0
  OBVIOUS
<1>3. q <= budget
  <2>1. y * q <= budget * y
    <3>1. budget * x <= budget * y
      OBVIOUS
    <3> QED BY <1>1, <1>2, <3>1
  <2> QED BY <2>1
<1>4. Min({x, q}) = IF x < q THEN x ELSE q
  BY Smaller
<1> QED BY <1>1, <1>2, <1>3, <1>4

(* One more segment is sampled.                                            *)
LEMMA SampleStep ==
  ASSUME NEW S, NEW W \in Seq(S), NEW a \in Nat, NEW b \in Nat, NEW G, Line(G, W, a, b),
         NEW done, done.budget \in Nat, done.interior \in Nat, Interior(G) <= done.interior,
         Interior(G) \in Nat, Mandatory(G) \in Nat, done.segments \in Seq(Seq(ToSet(W)))
  PROVE  \E T \in Seq(ToSet(W)), n \in Nat :
           /\ Line(T, W, a, b) /\ Len(T) = Mandatory(G) + n
           /\ n <= done.budget
           /\ Sample(done, G) = [budget |-> done.budget - n,
                                 interior |-> done.interior - Interior(G),
                                 segments |-> Append(done.segments, T)]
<1> DEFINE n == IF done.interior = 0 THEN 0
                ELSE Min({Interior(G), (done.budget * Interior(G)) \div done.interior})
<1>1. n \in Nat /\ n <= Interior(G) /\ n <= done.budget
  <2>1. CASE done.interior = 0
    BY <2>1
  <2>2. CASE done.interior # 0
    <3>1. PICK budget \in Nat, x \in Nat, y \in Nat :
            budget = done.budget /\ x = Interior(G) /\ y = done.interior
      OBVIOUS
    <3>2. x <= y /\ y # 0
      BY <2>2, <3>1
    <3>3. Min({x, (budget * x) \div y}) \in 0..x /\ Min({x, (budget * x) \div y}) <= budget
      BY ONLY <3>2, budget \in Nat, x \in Nat, y \in Nat, Share
    <3> QED BY <2>2, <3>1, <3>3
  <2> QED BY <2>1, <2>2
<1>2. Sample(done, G) = [budget |-> done.budget - n, interior |-> done.interior - Interior(G),
                         segments |-> Append(done.segments, Thinned(G, n))]
  BY DEF Sample
<1> HIDE DEF n
<1>3. PICK T : T = Thinned(G, n)
  OBVIOUS
<1>4. Line(T, W, a, b) /\ Len(T) = Mandatory(G) + n
  BY <1>1, <1>3, LineThinned
<1>5. T \in Seq(ToSet(W))
  BY <1>4 DEF Line
<1> QED BY <1>1, <1>2, <1>3, <1>4, <1>5

(* All are sampled: each keeps its ends, and together they keep the budget. *)
LEMMA Sampled ==
  ASSUME NEW S, NEW W \in Seq(S), NEW k \in 0..Len(W), NEW segments, NEW cut, NEW b,
         Split(segments, cut, W, k, b),
         NEW budget \in Nat, Sum(segments, Mandatory) <= budget
  PROVE  /\ Split(sampleSegments(segments, budget), cut, W, k, b)
         /\ Len(sampleSegments(segments, budget)) = Len(segments)
         /\ Len(FlattenSeq(sampleSegments(segments, budget))) <= budget
<1>0. /\ segments \in Seq(Seq(ToSet(W))) /\ cut \in [1..Len(segments) -> 1..k] /\ b \in 0..k
      /\ \A j \in DOMAIN cut : Line(segments[j], W, cut[j], Stop(cut, j, b))
  BY DEF Split
<1>1. PICK n \in Nat : n = Len(segments)
  BY <1>0
<1> DEFINE M(j) == Fold("mandatory", 0, SubSeq(segments, 1, j))
           I(j) == Fold("interior", 0, SubSeq(segments, 1, j))
           base == [budget |-> budget - M(n), interior |-> I(n), segments |-> <<>>]
           D(j) == Fold("sample", base, SubSeq(segments, 1, j))
           flat(j) == Fold("join", <<>>, D(j).segments)
           A == {j \in 0..n :
                   /\ D(j).budget \in Nat /\ D(j).interior = I(n) - I(j)
                   /\ D(j).segments \in Seq(Seq(ToSet(W))) /\ Len(D(j).segments) = j
                   /\ \A i \in 1..j : Line(D(j).segments[i], W, cut[i], Stop(cut, i, b))
                   /\ flat(j) \in Seq(ToSet(W))
                   /\ Len(flat(j)) + D(j).budget = budget - M(n) + M(j)}
<1>2. SubSeq(segments, 1, n) = segments /\ SubSeq(segments, 1, 0) = <<>>
  BY <1>0, <1>1, UptoEnds
<1>3. /\ \A j \in 0..n : M(j) \in Nat /\ I(j) \in Nat /\ M(j) <= M(n) /\ I(j) <= I(n)
      /\ M(0) = 0 /\ I(0) = 0 /\ M(n) <= budget
  <2>1. \A way \in {"mandatory", "interior"} :
          /\ \A j \in 0..n : Fold(way, 0, SubSeq(segments, 1, j)) \in Nat
          /\ \A j \in 0..n : Fold(way, 0, SubSeq(segments, 1, j)) <= Fold(way, 0, segments)
    BY <1>0, <1>1, Sums
  <2>2. \A way : Fold(way, 0, <<>>) = 0
    BY FoldNone
  <2>3. M(n) <= budget
    BY <1>2, SumAll
  <2> QED BY <1>2, <2>1, <2>2, <2>3
<1>4. sampleSegments(segments, budget) = D(n).segments
  <2>1. Sum(segments, Mandatory) = M(n) /\ Sum(segments, Interior) = I(n)
    BY <1>2, SumAll
  <2>2. sampleSegments(segments, budget) = FoldLeft(Sample, base, segments).segments
    BY <2>1 DEF sampleSegments
  <2> HIDE DEF base
  <2> QED BY <1>2, <2>2, SampleAll
<1>5. \A j \in 0..n - 1 : /\ I(j + 1) = I(j) + Interior(segments[j + 1])
                          /\ M(j + 1) = M(j) + Mandatory(segments[j + 1])
                          /\ D(j + 1) = Sample(D(j), segments[j + 1])
  <2> HIDE DEF base
  <2> SUFFICES ASSUME NEW j \in 0..n - 1
               PROVE  /\ I(j + 1) = I(j) + Interior(segments[j + 1])
                      /\ M(j + 1) = M(j) + Mandatory(segments[j + 1])
                      /\ D(j + 1) = Sample(D(j), segments[j + 1])
    OBVIOUS
  <2>0. j \in 0..Len(segments) - 1
    BY <1>1
  <2>1. I(j + 1) = Goes("interior", I(j), segments[j + 1])
    BY ONLY <1>0, <2>0, FoldUpto
  <2>2. M(j + 1) = Goes("mandatory", M(j), segments[j + 1])
    BY ONLY <1>0, <2>0, FoldUpto
  <2>3. D(j + 1) = Goes("sample", D(j), segments[j + 1])
    BY ONLY <1>0, <2>0, FoldUpto
  <2> HIDE DEF I, M, D
  <2> QED BY <2>1, <2>2, <2>3 DEF Goes
<1>6. D(0) = base
  <2> HIDE DEF base
  <2> QED BY <1>2, FoldNone
<1> HIDE DEF M, I, D
<1>7. 0 \in A
  <2>1. D(0).budget = budget - M(n) /\ D(0).interior = I(n) /\ D(0).segments = <<>>
    BY <1>6
  <2>2. flat(0) = <<>>
    BY <2>1, FoldNone
  <2> HIDE DEF flat
  <2>3. 0 \in 0..n /\ M(n) \in Nat /\ I(n) \in Nat
    BY <1>3
  <2>4. \A V : <<>> \in Seq(V) /\ Len(<<>>) = 0
    OBVIOUS
  <2>5. /\ flat(0) \in Seq(ToSet(W)) /\ Len(flat(0)) = 0
        /\ D(0).segments \in Seq(Seq(ToSet(W))) /\ Len(D(0).segments) = 0
    BY ONLY <2>1, <2>2, <2>4
  <2>7. budget - M(n) \in Nat /\ 1..0 = {}
    BY <1>3, <2>3
  <2>6. D(0).interior = I(n) - I(0) /\ Len(flat(0)) + D(0).budget = budget - M(n) + M(0)
    BY <1>3, <2>1, <2>3, <2>5, <2>7
  <2> QED BY <2>1, <2>3, <2>5, <2>6, <2>7
<1>8. ASSUME NEW j \in 0..n - 1, j \in A PROVE j + 1 \in A
  <2>1. PICK p \in 1..n : p = j + 1 /\ p \in 0..n
    OBVIOUS
  <2>2. PICK G : G = segments[p]
    OBVIOUS
  <2>3. /\ G \in Seq(ToSet(W)) /\ Line(G, W, cut[p], Stop(cut, p, b))
        /\ cut[p] \in Nat
    <3>1. p \in DOMAIN cut /\ p \in DOMAIN segments
      BY <1>0, <1>1
    <3>2. G \in Seq(ToSet(W))
      BY <1>0, <2>2, <3>1
    <3>3. cut[p] \in 1..k
      BY <1>0, <3>1
    <3> QED BY <1>0, <2>2, <3>1, <3>2, <3>3
  <2>4. Stop(cut, p, b) \in Nat
    <3>1. CASE p + 1 \in DOMAIN cut
      <4>1. cut[p + 1] \in 1..k
        BY <1>0, <3>1
      <4> QED BY <3>1, <4>1 DEF Stop
    <3>2. CASE p + 1 \notin DOMAIN cut
      BY <1>0, <3>2 DEF Stop
    <3> QED BY <3>1, <3>2
  <2>5. Interior(G) \in Nat /\ Mandatory(G) \in Nat
    BY <2>3, SegmentParts
  <2>6. /\ D(j).budget \in Nat /\ D(j).interior \in Nat /\ Interior(G) <= D(j).interior
        /\ D(j).segments \in Seq(Seq(ToSet(W)))
    <3>1. I(p) = I(j) + Interior(G) /\ I(p) <= I(n) /\ I(j) \in Nat /\ I(n) \in Nat /\ I(p) \in Nat
      BY <1>3, <1>5, <2>1, <2>2
    <3>2. /\ D(j).budget \in Nat /\ D(j).interior = I(n) - I(j)
          /\ D(j).segments \in Seq(Seq(ToSet(W)))
      BY <1>8
    <3> QED BY <2>5, <3>1, <3>2
  <2>7. PICK T \in Seq(ToSet(W)), x \in Nat :
          /\ Line(T, W, cut[p], Stop(cut, p, b)) /\ Len(T) = Mandatory(G) + x
          /\ x <= D(j).budget
          /\ Sample(D(j), G) = [budget |-> D(j).budget - x,
                                interior |-> D(j).interior - Interior(G),
                                segments |-> Append(D(j).segments, T)]
    <3>1. PICK a \in Nat, e \in Nat : a = cut[p] /\ e = Stop(cut, p, b)
      BY <2>3, <2>4
    <3>2. PICK done : done = D(j)
      OBVIOUS
    <3>3. /\ done.budget \in Nat /\ done.interior \in Nat /\ Interior(G) <= done.interior
          /\ done.segments \in Seq(Seq(ToSet(W))) /\ Line(G, W, a, e)
      BY <2>3, <2>6, <3>1, <3>2
    <3>4. \E T \in Seq(ToSet(W)), x \in Nat :
            /\ Line(T, W, a, e) /\ Len(T) = Mandatory(G) + x
            /\ x <= done.budget
            /\ Sample(done, G) = [budget |-> done.budget - x,
                                  interior |-> done.interior - Interior(G),
                                  segments |-> Append(done.segments, T)]
      BY ONLY <2>5, <3>3, W \in Seq(S), a \in Nat, e \in Nat, SampleStep
    <3> QED BY <3>1, <3>2, <3>4
  <2>8. /\ D(p).budget = D(j).budget - x /\ D(p).interior = D(j).interior - Interior(G)
        /\ D(p).segments = Append(D(j).segments, T)
    BY <1>5, <2>1, <2>2, <2>7
  <2>10. flat(p) = flat(j) \o T
    <3>1. Fold("join", <<>>, Append(D(j).segments, T)) = Goes("join", flat(j), T)
      BY ONLY <2>6, T \in Seq(ToSet(W)), FoldMore
    <3> QED BY <2>8, <3>1 DEF Goes
  <2> HIDE DEF flat
  <2>11. flat(p) \in Seq(ToSet(W)) /\ Len(flat(p)) + D(p).budget = budget - M(n) + M(p)
    <3>1. flat(j) \in Seq(ToSet(W)) /\ Len(flat(j)) + D(j).budget = budget - M(n) + M(j)
      BY <1>8
    <3>2. flat(p) \in Seq(ToSet(W)) /\ Len(flat(p)) = Len(flat(j)) + Len(T)
      BY <2>10, <3>1
    <3>3. M(p) = M(j) + Mandatory(G) /\ M(j) \in Nat /\ M(n) \in Nat
      BY <1>3, <1>5, <2>1, <2>2
    <3>4. Len(flat(j)) \in Nat
      BY <3>1
    <3>5. Len(T) = Mandatory(G) + x /\ D(p).budget = D(j).budget - x /\ D(j).budget \in Nat
      BY <2>6, <2>7, <2>8
    <3>6. \A l, d, g, y, c \in Int : l + d = y + c => (l + (g + x)) + (d - x) = y + (c + g)
      OBVIOUS
    <3>7. budget - M(n) \in Int
      BY <3>3
    <3>8. Len(flat(p)) + D(p).budget = (Len(flat(j)) + (Mandatory(G) + x)) + (D(j).budget - x)
      BY <3>2, <3>5
    <3>9. (Len(flat(j)) + (Mandatory(G) + x)) + (D(j).budget - x)
            = (budget - M(n)) + (M(j) + Mandatory(G))
      <4>1. /\ Len(flat(j)) \in Int /\ D(j).budget \in Int /\ Mandatory(G) \in Int
            /\ M(j) \in Int
        BY <2>5, <3>3, <3>4, <3>5
      <4>2. PICK l, d, g, y, c \in Int :
              /\ l = Len(flat(j)) /\ d = D(j).budget /\ g = Mandatory(G)
              /\ y = budget - M(n) /\ c = M(j)
        BY ONLY <3>7, <4>1
      <4>3. l + d = y + c
        BY ONLY <3>1, <4>2
      <4>4. (l + (g + x)) + (d - x) = y + (c + g)
        BY ONLY <3>6, <4>3, l \in Int, d \in Int, g \in Int, y \in Int, c \in Int
      <4> QED BY ONLY <4>2, <4>4
    <3> HIDE DEF A
    <3> QED BY ONLY <3>2, <3>3, <3>8, <3>9
  <2>12. /\ D(p).segments \in Seq(Seq(ToSet(W))) /\ Len(D(p).segments) = p
         /\ \A i \in 1..p : Line(D(p).segments[i], W, cut[i], Stop(cut, i, b))
    <3>1. /\ Len(D(j).segments) = j
          /\ \A i \in 1..j : Line(D(j).segments[i], W, cut[i], Stop(cut, i, b))
      BY <1>8
    <3>2. /\ D(p).segments \in Seq(Seq(ToSet(W))) /\ Len(D(p).segments) = p
          /\ D(p).segments[p] = T
          /\ \A i \in 1..j : D(p).segments[i] = D(j).segments[i]
      <4>1. PICK U \in Seq(Seq(ToSet(W))) : U = D(j).segments /\ Len(U) = j
        BY <2>6, <3>1
      <4>2. /\ Append(U, T) \in Seq(Seq(ToSet(W))) /\ Len(Append(U, T)) = j + 1
            /\ Append(U, T)[j + 1] = T /\ \A i \in 1..j : Append(U, T)[i] = U[i]
        BY <4>1
      <4> QED BY <2>1, <2>8, <4>1, <4>2
    <3>3. \A i \in 1..p : i = p \/ i \in 1..j
      BY <2>1
    <3> QED BY <2>7, <3>1, <3>2, <3>3
  <2>13. D(p).budget \in Nat /\ D(p).interior = I(n) - I(p)
    <3>1. I(p) = I(j) + Interior(G) /\ D(j).interior = I(n) - I(j) /\ I(j) \in Nat /\ I(n) \in Nat
      BY <1>3, <1>5, <1>8, <2>1, <2>2
    <3>2. /\ D(p).budget = D(j).budget - x /\ D(p).interior = D(j).interior - Interior(G)
          /\ D(j).budget \in Nat /\ x <= D(j).budget
      BY <2>6, <2>7, <2>8
    <3>3. \A c, d, g \in Int : (c - d) - g = c - (d + g)
      OBVIOUS
    <3>4. D(p).interior = I(n) - I(p)
      <4>1. Interior(G) \in Int /\ I(j) \in Int /\ I(n) \in Int
        BY <2>5, <3>1
      <4> QED BY ONLY <3>1, <3>2, <3>3, <4>1
    <3>5. \A d \in Nat : x <= d => d - x \in Nat
      OBVIOUS
    <3>6. D(p).budget \in Nat
      BY ONLY <3>2, <3>5
    <3> QED BY <3>4, <3>6
  <2> QED BY <2>1, <2>11, <2>12, <2>13
<1>9. n \in A
  <2> HIDE DEF A
  <2>1. \A j \in 0..n : j \in A
    BY <1>7, <1>8, StepsUpto
  <2> QED BY <2>1
<1>10. Split(D(n).segments, cut, W, k, b) /\ Len(D(n).segments) = n
  <2>1. /\ D(n).segments \in Seq(Seq(ToSet(W))) /\ Len(D(n).segments) = n
        /\ \A i \in 1..n : Line(D(n).segments[i], W, cut[i], Stop(cut, i, b))
    BY <1>9
  <2> QED BY <1>0, <1>1, <2>1 DEF Split
<1>11. Len(FlattenSeq(D(n).segments)) <= budget
  <2>1. FlattenSeq(D(n).segments) = flat(n)
    BY <1>9, Flattened
  <2> HIDE DEF flat
  <2>2. /\ Len(flat(n)) + D(n).budget = budget - M(n) + M(n) /\ D(n).budget \in Nat
        /\ flat(n) \in Seq(ToSet(W)) /\ M(n) \in Nat
    BY <1>3, <1>9
  <2>3. Len(flat(n)) \in Nat
    BY <2>2
  <2> QED BY <2>1, <2>2, <2>3
<1> QED BY <1>1, <1>4, <1>10, <1>11

-------------------------------------------------------------------------------
(* As many values as positions, when no value occurs twice.                *)
LEMMA ImageCounts ==
  ASSUME NEW f, NEW S, IsFiniteSet(S), \A x, y \in S : f[x] = f[y] => x = y
  PROVE  /\ IsFiniteSet({f[x] : x \in S})
         /\ Cardinality({f[x] : x \in S}) = Cardinality(S)
<1> DEFINE T == {f[x] : x \in S}
           g == [x \in S |-> f[x]]
<1>1. g \in Bijection(S, T)
  <2>1. g \in [S -> T] /\ \A x \in S : g[x] = f[x]
    OBVIOUS
  <2>2. \A t \in T : \E x \in S : g[x] = t
    BY <2>1
  <2> HIDE DEF g, T
  <2> QED BY <2>1, <2>2 DEF Bijection, Injection, Surjection, IsInjective
<1>2. ExistsBijection(S, T)
  BY <1>1 DEF ExistsBijection
<1> QED BY <1>2, FS_Bijection

(* As many rows as positions.                                              *)
LEMMA ImageOfSequence ==
  ASSUME NEW S, NEW W \in Seq(S), InOrder(W), NEW P \in SUBSET (1..Len(W))
  PROVE  /\ IsFiniteSet(P) /\ IsFiniteSet({W[i] : i \in P})
         /\ Cardinality({W[i] : i \in P}) = Cardinality(P)
<1>0. Len(W) \in Nat
  OBVIOUS
<1>1. IsFiniteSet(P)
  <2>1. IsFiniteSet(1..Len(W))
    BY <1>0, FS_Interval, 1 \in Int
  <2> QED BY <2>1, FS_Subset
<1>2. ASSUME NEW i \in P, NEW j \in P, W[i] = W[j] PROVE i = j
  <2>1. i \in 1..Len(W) /\ j \in 1..Len(W)
    OBVIOUS
  <2>2. ~(i < j) /\ ~(j < i)
    BY <1>2, <2>1 DEF InOrder
  <2> QED BY <1>0, <2>1, <2>2
<1> QED BY <1>1, <1>2, ImageCounts

(* The borders of the segments, and nothing else, are the ends.            *)
LEMMA Borders ==
  ASSUME NEW S, NEW W \in Seq(S), NEW segments, NEW cut, NEW n, n = Len(W), n # 0,
         Split(segments, cut, W, n, n)
  PROVE  /\ Len(segments) \in Nat /\ DOMAIN cut = 1..Len(segments) /\ 1 \in DOMAIN cut /\ cut[1] = 1
         /\ \A j \in DOMAIN cut : /\ cut[j] \in Ends(W) /\ Stop(cut, j, n) \in Ends(W)
                                  /\ cut[j] <= Stop(cut, j, n)
                                  /\ cut[j] \in 1..n /\ Stop(cut, j, n) \in 1..n
         /\ \A i \in Ends(W) : \E j \in DOMAIN cut : i = cut[j] \/ i = Stop(cut, j, n)
<1>0. n \in Nat /\ segments \in Seq(Seq(ToSet(W))) /\ cut \in [1..Len(segments) -> 1..n]
  BY DEF Split
<1>1. PICK m \in Nat : m = Len(segments) /\ DOMAIN cut = 1..m
  BY <1>0
<1>2. \A i \in 1..n : i \in Starts(W, n) <=> \E j \in 1..m : cut[j] = i
  <2>1. {cut[j] : j \in 1..m} = Starts(W, n)
    BY <1>1 DEF Split
  <2> QED BY <2>1
<1>3. \A i, j \in 1..m : i < j => cut[i] < cut[j]
  BY <1>1 DEF Split
<1>4. \A j \in 1..m : cut[j] \in 1..n
  BY <1>0, <1>1
<1>5. 1 \in 1..m /\ cut[1] = 1
  <2>1. PICK j \in 1..m : cut[j] = 1
    <3>1. 1 \in 1..n /\ 1 \in Starts(W, n)
      BY <1>0 DEF Starts
    <3> QED BY <1>2, <3>1
  <2>2. j = 1
    <3> SUFFICES ASSUME j # 1 PROVE FALSE
      OBVIOUS
    <3>1. 1 \in 1..m /\ 1 < j
      OBVIOUS
    <3> QED BY <1>3, <1>4, <2>1, <3>1
  <2> QED BY <2>1, <2>2
<1>6. ASSUME NEW j \in 1..m PROVE cut[j] \in Ends(W)
  <2>1. cut[j] \in Starts(W, n)
    BY <1>2, <1>4
  <2> QED BY <1>4, <2>1 DEF Starts, Ends
<1>7. ASSUME NEW j \in 1..m
      PROVE  /\ Stop(cut, j, n) \in Ends(W) /\ cut[j] <= Stop(cut, j, n)
             /\ Stop(cut, j, n) \in 1..n
  <2>1. CASE j + 1 \in 1..m
    <3>1. PICK c \in 1..n : c = cut[j + 1]
      BY <1>4, <2>1
    <3>2. cut[j] < c /\ cut[j] \in 1..n
      BY <1>3, <1>4, <2>1, <3>1
    <3>3. c \in Starts(W, n)
      BY <1>2, <2>1, <3>1
    <3>4. PICK e \in 1..n : e = c - 1 /\ c = e + 1 /\ e < n /\ c # 1
      BY <1>0, <3>2
    <3>5. e \in Ends(W)
      BY <3>3, <3>4 DEF Starts, Ends
    <3> QED BY <1>1, <2>1, <3>1, <3>2, <3>4, <3>5 DEF Stop
  <2>2. CASE j + 1 \notin 1..m
    <3>1. Stop(cut, j, n) = n /\ n \in 1..n
      BY <1>0, <1>1, <2>2 DEF Stop
    <3> QED BY <1>4, <3>1 DEF Ends
  <2> QED BY <2>1, <2>2
<1>8. ASSUME NEW i \in Ends(W) PROVE \E j \in 1..m : i = cut[j] \/ i = Stop(cut, j, n)
  <2>1. i \in 1..n
    BY DEF Ends
  <2>2. CASE i \in Starts(W, n)
    BY <1>2, <2>1, <2>2
  <2>3. CASE i = n
    <3>1. m \in 1..m /\ m + 1 \notin 1..m
      BY <1>1, <1>5
    <3> QED BY <1>1, <2>3, <3>1 DEF Stop
  <2>4. CASE i < n /\ disconnected(W[i], W[i + 1])
    <3>1. PICK c \in 1..n : c = i + 1 /\ c - 1 = i /\ c # 1
      BY <1>0, <2>1, <2>4
    <3>2. c \in Starts(W, n)
      BY <2>4, <3>1 DEF Starts
    <3>3. PICK j \in 1..m : cut[j] = c
      BY <1>2, <3>2
    <3>4. PICK l \in 1..m : l + 1 = j
      <4>1. j # 1
        BY <1>5, <3>1, <3>3
      <4>2. j - 1 \in 1..m /\ (j - 1) + 1 = j
        BY <4>1
      <4> QED BY <4>2
    <3>5. Stop(cut, l, n) = i
      BY <1>1, <3>1, <3>3, <3>4 DEF Stop
    <3> QED BY <3>5
  <2>5. i \in Starts(W, n) \/ i = n \/ (i < n /\ disconnected(W[i], W[i + 1]))
    BY DEF Ends, Starts
  <2> QED BY <2>2, <2>3, <2>4, <2>5
<1> QED BY <1>1, <1>4, <1>5, <1>6, <1>7, <1>8

-------------------------------------------------------------------------------
(* A route that is drawn joins the snapshot's ends, row after row.         *)
LEMMA Connected ==
  ASSUME NEW S, NEW W \in Seq(S), InOrder(W), NEW segments, NEW cut, NEW n, n = Len(W), n # 0,
         Split(segments, cut, W, n, n)
  PROVE  /\ Line(FlattenSeq(segments), W, 1, n)
         /\ \A s \in ToSet(segments) : ToSet(s) \subseteq ToSet(FlattenSeq(segments))
<1>0. n \in Nat /\ segments \in Seq(Seq(ToSet(W))) /\ n \in Nat
  BY DEF Split
<1>1. /\ DOMAIN cut = 1..Len(segments) /\ 1 \in DOMAIN cut /\ cut[1] = 1
      /\ \A j \in DOMAIN cut : cut[j] \in 1..n /\ Stop(cut, j, n) \in 1..n
  BY Borders
<1>2. PICK m \in Nat : m = Len(segments) /\ m # 0
  BY <1>0, <1>1
<1> DEFINE F(j) == Fold("join", <<>>, SubSeq(segments, 1, j))
           A == {j \in 0..m :
                   /\ j # 0 => Line(F(j), W, 1, Stop(cut, j, n))
                   /\ \A i \in 1..j : ToSet(segments[i]) \subseteq ToSet(F(j))}
<1>3. F(0) = <<>> /\ F(m) = FlattenSeq(segments)
  <2>1. SubSeq(segments, 1, 0) = <<>> /\ SubSeq(segments, 1, m) = segments
    BY <1>0, <1>2, UptoEnds
  <2> QED BY <1>0, <2>1, FoldNone, Flattened
<1>4. \A j \in 0..m - 1 : F(j + 1) = F(j) \o segments[j + 1]
  <2> SUFFICES ASSUME NEW j \in 0..m - 1 PROVE F(j + 1) = F(j) \o segments[j + 1]
    OBVIOUS
  <2>0. j \in 0..Len(segments) - 1
    BY <1>2
  <2>1. F(j + 1) = Goes("join", F(j), segments[j + 1])
    BY ONLY <1>0, <2>0, FoldUpto
  <2> QED BY <2>1 DEF Goes
<1> HIDE DEF F
<1>5. 0 \in A
  OBVIOUS
<1>6. ASSUME NEW j \in 0..m - 1, j \in A PROVE j + 1 \in A
  <2>1. PICK p \in 1..m : p = j + 1 /\ p \in 0..m
    OBVIOUS
  <2>2. PICK G : G = segments[p]
    OBVIOUS
  <2>3. PICK c \in 1..n, e \in 1..n : c = cut[p] /\ e = Stop(cut, p, n)
    BY <1>1, <1>2
  <2>4. Line(G, W, c, e) /\ G \in Seq(ToSet(W))
    <3>1. Line(G, W, c, e)
      BY <1>1, <1>2, <2>2, <2>3 DEF Split
    <3> QED BY <3>1 DEF Line
  <2>5. PICK H : H = F(p) /\ H = F(j) \o G
    BY <1>4, <2>1, <2>2
  <2>6. CASE j = 0
    <3>1. H = G
      BY <1>3, <2>4, <2>5, <2>6
    <3>2. c = 1 /\ \A i \in 1..p : segments[i] = G
      BY <1>1, <2>1, <2>2, <2>3, <2>6
    <3> QED BY <2>1, <2>3, <2>4, <2>5, <3>1, <3>2
  <2>7. CASE j # 0
    <3>1. PICK d \in 1..n : d = Stop(cut, j, n) /\ d < c
      <4>1. j \in DOMAIN cut /\ p \in DOMAIN cut
        BY <1>1, <1>2, <2>7
      <4>2. Stop(cut, j, n) = c - 1
        BY <2>1, <2>3, <4>1 DEF Stop
      <4> QED BY <1>1, <2>3, <4>1, <4>2
    <3>2. PICK E : E = F(j)
      OBVIOUS
    <3>3. Line(E, W, 1, d) /\ \A i \in 1..j : ToSet(segments[i]) \subseteq ToSet(E)
      BY <1>6, <2>7, <3>1, <3>2
    <3>4. Line(E \o G, W, 1, e)
      <4>1. 1 \in Nat /\ d \in Nat /\ c \in Nat /\ e \in Nat /\ d < c
        BY <3>1
      <4> QED BY ONLY <2>4, <3>3, <4>1, W \in Seq(S), InOrder(W), LinesJoin
    <3>5. ToSet(E) \subseteq ToSet(H) /\ ToSet(G) \subseteq ToSet(H)
      <4>1. E \in Seq(ToSet(W)) /\ G \in Seq(ToSet(W)) /\ H = E \o G
        BY <2>4, <2>5, <3>2, <3>3 DEF Line
      <4>2. /\ Len(E \o G) = Len(E) + Len(G) /\ E \o G \in Seq(ToSet(W))
            /\ \A i \in 1..Len(E) : (E \o G)[i] = E[i]
            /\ \A i \in 1..Len(G) : (E \o G)[Len(E) + i] = G[i]
        BY ONLY <4>1, Joined
      <4>3. PICK f \in Nat, g \in Nat : f = Len(E) /\ g = Len(G)
        BY <4>1
      <4>4. DOMAIN E = 1..f /\ DOMAIN G = 1..g /\ DOMAIN H = 1..f + g
        BY ONLY <4>1, <4>2, <4>3
      <4>5. \A i \in 1..f : i \in 1..f + g /\ H[i] = E[i]
        BY <4>1, <4>2, <4>3
      <4>6. \A i \in 1..g : f + i \in 1..f + g /\ H[f + i] = G[i]
        BY <4>1, <4>2, <4>3
      <4> QED BY <4>4, <4>5, <4>6 DEF ToSet
    <3>6. \A i \in 1..p : i = p \/ i \in 1..j
      BY <2>1
    <3> QED BY <2>1, <2>2, <2>3, <2>5, <3>2, <3>3, <3>4, <3>5, <3>6
  <2> QED BY <2>6, <2>7
<1>7. m \in A
  <2> HIDE DEF A
  <2>1. \A j \in 0..m : j \in A
    BY <1>5, <1>6, StepsUpto
  <2> QED BY <2>1
<1>8. Stop(cut, m, n) = n
  BY <1>1, <1>2 DEF Stop
<1>9. \A s \in ToSet(segments) : \E i \in 1..m : s = segments[i]
  BY <1>0, <1>2 DEF ToSet
<1> QED BY <1>2, <1>3, <1>7, <1>8, <1>9

(* The ends of the snapshot's segments are rows of different positions.    *)
LEMMA EndsCounted ==
  ASSUME NEW S, NEW W \in Seq(S), InOrder(W)
  PROVE  /\ IsFiniteSet(Ends(W)) /\ Ends(W) \in SUBSET (1..Len(W))
         /\ Cardinality({W[i] : i \in Ends(W)}) = Cardinality(Ends(W))
         /\ Cardinality({W[i] : i \in Ends(W)}) \in Nat
<1>1. Ends(W) \in SUBSET (1..Len(W))
  BY DEF Ends
<1>2. PICK P \in SUBSET (1..Len(W)) : P = Ends(W)
  BY <1>1
<1>3. IsFiniteSet(P) /\ Cardinality({W[i] : i \in P}) = Cardinality(P)
  BY ImageOfSequence
<1> QED BY <1>2, <1>3, FS_CardinalityType

(* There are as many segments as rows where one begins, all of them ends.  *)
LEMMA SegmentsCounted ==
  ASSUME NEW S, NEW W \in Seq(S), InOrder(W), NEW k \in 0..Len(W), NEW segments, NEW cut, NEW b,
         Split(segments, cut, W, k, b)
  PROVE  /\ Len(segments) = Cardinality(Starts(W, k))
         /\ Len(segments) <= Cardinality({W[i] : i \in Ends(W)})
<1>1. /\ segments \in Seq(Seq(ToSet(W))) /\ cut \in [1..Len(segments) -> 1..k]
      /\ {cut[j] : j \in DOMAIN cut} = Starts(W, k)
      /\ \A i, j \in DOMAIN cut : i < j => cut[i] < cut[j]
  BY DEF Split
<1>2. PICK m \in Nat : m = Len(segments)
  BY <1>1
<1>3. DOMAIN cut = 1..m
  BY <1>1, <1>2
<1>4. ASSUME NEW i \in 1..m, NEW j \in 1..m, cut[i] = cut[j] PROVE i = j
  <2>1. cut[i] \in 1..k /\ ~(cut[i] < cut[j]) /\ ~(cut[j] < cut[i])
    BY <1>1, <1>2, <1>4
  <2>2. ~(i < j) /\ ~(j < i)
    BY <1>1, <1>3, <2>1
  <2> QED BY <2>2
<1>5. m = Cardinality(Starts(W, k))
  <2>1. IsFiniteSet(1..m) /\ Cardinality(1..m) = m
    BY FS_Interval, 1 \in Int
  <2>2. Cardinality({cut[j] : j \in 1..m}) = Cardinality(1..m)
    <3>1. PICK P : P = 1..m
      OBVIOUS
    <3>2. IsFiniteSet(P) /\ \A i, j \in P : cut[i] = cut[j] => i = j
      BY <1>4, <2>1, <3>1
    <3>3. Cardinality({cut[j] : j \in P}) = Cardinality(P)
      BY ONLY <3>2, ImageCounts
    <3> QED BY <3>1, <3>3
  <2> QED BY <1>1, <1>3, <2>1, <2>2
<1>6. Starts(W, k) \in SUBSET Ends(W)
  BY DEF Starts, Ends
<1>7. Cardinality(Starts(W, k)) <= Cardinality(Ends(W))
  BY <1>6, EndsCounted, FS_Subset
<1>8. Cardinality({W[i] : i \in Ends(W)}) = Cardinality(Ends(W))
  BY EndsCounted
<1> QED BY <1>2, <1>5, <1>7, <1>8

(* The ends of a segment: two, unless it is a single row.                  *)
LEMMA EndsOfSegment ==
  ASSUME NEW S, NEW W \in Seq(S), InOrder(W), NEW a \in Nat, NEW b \in Nat, NEW F, Line(F, W, a, b)
  PROVE  /\ IsFiniteSet({a, b}) /\ Cardinality({a, b}) \in Nat
         /\ Mandatory(F) \in Nat /\ Mandatory(F) <= Cardinality({a, b})
<1>1. PICK f \in Nat \ {0} : f = Len(F) /\ F \in Seq(ToSet(W))
  BY DEF Line
<1>2. Mandatory(F) = IF f > 2 THEN 2 ELSE f
  BY <1>1, SegmentParts
<1>3. IsFiniteSet({a, b}) /\ Cardinality({a, b}) = IF b = a THEN 1 ELSE 2
  <2>1. IsFiniteSet({a}) /\ Cardinality({a}) = 1
    BY FS_Singleton
  <2>2. /\ IsFiniteSet({a} \cup {b})
        /\ Cardinality({a} \cup {b}) = IF b \in {a} THEN Cardinality({a}) ELSE Cardinality({a}) + 1
    BY ONLY <2>1, FS_AddElement
  <2>3. {a} \cup {b} = {a, b} /\ (b \in {a} <=> b = a) /\ 1 + 1 = 2
    OBVIOUS
  <2> QED BY ONLY <2>1, <2>2, <2>3
<1>4. CASE f = 1
  BY <1>2, <1>3, <1>4
<1>5. CASE f # 1
  <2>1. 1 \in 1..f /\ f \in 1..f /\ 1 < f
    BY <1>5
  <2>2. Before(W[a], W[b]) /\ a \in 1..Len(W) /\ b \in 1..Len(W)
    BY <1>1, <2>1 DEF Line
  <2>3. a # b
    BY <2>2 DEF InOrder
  <2> QED BY <1>2, <1>3, <2>3
<1> QED BY <1>4, <1>5

(* Two sets that share nothing are together as large as both.              *)
LEMMA Disjoint ==
  ASSUME NEW A, NEW B, IsFiniteSet(A), IsFiniteSet(B), A \cap B = {}
  PROVE  /\ IsFiniteSet(A \cup B)
         /\ Cardinality(A \cup B) = Cardinality(A) + Cardinality(B)
<1>1. Cardinality(A) \in Nat /\ Cardinality(B) \in Nat /\ Cardinality(A \cap B) = 0
  BY FS_CardinalityType, FS_EmptySet
<1>2. /\ IsFiniteSet(A \cup B)
      /\ Cardinality(A \cup B) = Cardinality(A) + Cardinality(B) - Cardinality(A \cap B)
  BY FS_Union
<1> QED BY <1>1, <1>2

(* The ends of all segments are no fewer than what each must show.         *)
LEMMA MandatoryCounted ==
  ASSUME NEW S, NEW W \in Seq(S), InOrder(W), NEW segments, NEW cut, NEW n, n = Len(W), n # 0,
         Split(segments, cut, W, n, n)
  PROVE  Sum(segments, Mandatory) <= Cardinality({W[i] : i \in Ends(W)})
<1>0. n \in Nat /\ segments \in Seq(Seq(ToSet(W)))
  BY DEF Split
<1>1. /\ DOMAIN cut = 1..Len(segments)
      /\ \A j \in DOMAIN cut : /\ cut[j] \in Ends(W) /\ Stop(cut, j, n) \in Ends(W)
                               /\ cut[j] <= Stop(cut, j, n)
                               /\ cut[j] \in 1..n /\ Stop(cut, j, n) \in 1..n
  BY Borders
<1>2. PICK m \in Nat : m = Len(segments)
  BY <1>0
<1> DEFINE M(j) == Fold("mandatory", 0, SubSeq(segments, 1, j))
           E(j) == {cut[i] : i \in 1..j} \cup {Stop(cut, i, n) : i \in 1..j}
           A == {j \in 0..m :
                   /\ IsFiniteSet(E(j)) /\ M(j) \in Nat /\ M(j) <= Cardinality(E(j))
                   /\ \A i \in E(j) : j # 0 /\ i <= Stop(cut, j, n)}
<1>3. M(0) = 0 /\ M(m) = Sum(segments, Mandatory)
  <2>1. SubSeq(segments, 1, 0) = <<>> /\ SubSeq(segments, 1, m) = segments
    BY <1>0, <1>2, UptoEnds
  <2> QED BY <2>1, FoldNone, SumAll
<1>4. \A j \in 0..m - 1 : M(j + 1) = M(j) + Mandatory(segments[j + 1])
  <2> SUFFICES ASSUME NEW j \in 0..m - 1 PROVE M(j + 1) = M(j) + Mandatory(segments[j + 1])
    OBVIOUS
  <2>0. j \in 0..Len(segments) - 1
    BY <1>2
  <2>1. M(j + 1) = Goes("mandatory", M(j), segments[j + 1])
    BY ONLY <1>0, <2>0, FoldUpto
  <2> QED BY <2>1 DEF Goes
<1> HIDE DEF M
<1>5. 0 \in A
  <2>1. E(0) = {}
    OBVIOUS
  <2> HIDE DEF E
  <2>2. IsFiniteSet(E(0)) /\ Cardinality(E(0)) = 0
    BY <2>1, FS_EmptySet
  <2>3. 0 \in 0..m /\ M(0) \in Nat /\ M(0) <= Cardinality(E(0))
    BY <1>3, <2>2
  <2> QED BY <2>1, <2>2, <2>3
<1>6. ASSUME NEW j \in 0..m - 1, j \in A PROVE j + 1 \in A
  <2>1. PICK p \in 1..m : p = j + 1 /\ p \in 0..m
    OBVIOUS
  <2>2. PICK G : G = segments[p]
    OBVIOUS
  <2>3. PICK c \in 1..n, e \in 1..n : c = cut[p] /\ e = Stop(cut, p, n) /\ c <= e
    BY <1>1, <1>2
  <2>4. Line(G, W, c, e) /\ c \in Nat /\ e \in Nat
    BY <1>1, <1>2, <2>2, <2>3 DEF Split
  <2>5. /\ IsFiniteSet({c, e}) /\ Cardinality({c, e}) \in Nat
        /\ Mandatory(G) \in Nat /\ Mandatory(G) <= Cardinality({c, e})
    BY ONLY <2>4, W \in Seq(S), InOrder(W), EndsOfSegment
  <2>6. E(p) = E(j) \cup {c, e}
    <3>1. 1..p = (1..j) \cup {p}
      BY <2>1
    <3> QED BY <2>3, <3>1
  <2>7. \A i \in E(j) : i \in Int /\ i < c
    <3> SUFFICES ASSUME NEW i \in E(j) PROVE i \in Int /\ i < c
      OBVIOUS
    <3>1. i \in 1..n
      BY <1>1, <1>2
    <3>2. j # 0 /\ i <= Stop(cut, j, n)
      BY <1>6
    <3>3. j \in DOMAIN cut /\ p \in DOMAIN cut
      BY <1>1, <1>2, <3>2
    <3>4. Stop(cut, j, n) = c - 1
      BY <2>1, <2>3, <3>3 DEF Stop
    <3> QED BY <3>1, <3>2, <3>4
  <2>8. IsFiniteSet(E(j)) /\ M(j) \in Nat /\ M(j) <= Cardinality(E(j)) /\ M(p) = M(j) + Mandatory(G)
    BY <1>4, <1>6, <2>1, <2>2
  <2> HIDE DEF E
  <2>9. E(j) \cap {c, e} = {}
    BY <2>3, <2>7
  <2>10. IsFiniteSet(E(p)) /\ Cardinality(E(p)) = Cardinality(E(j)) + Cardinality({c, e})
    <3>1. PICK B, C : B = E(j) /\ C = {c, e}
      OBVIOUS
    <3>2. IsFiniteSet(B) /\ IsFiniteSet(C) /\ B \cap C = {}
      BY <2>5, <2>8, <2>9, <3>1
    <3>3. IsFiniteSet(B \cup C) /\ Cardinality(B \cup C) = Cardinality(B) + Cardinality(C)
      BY ONLY <3>2, Disjoint
    <3> QED BY <2>6, <3>1, <3>3
  <2>11. M(p) \in Nat /\ M(p) <= Cardinality(E(p))
    <3>1. Cardinality(E(j)) \in Nat
      BY <2>8, FS_CardinalityType
    <3> QED BY <2>5, <2>8, <2>10, <3>1
  <2>12. \A i \in E(p) : p # 0 /\ i <= Stop(cut, p, n)
    BY <2>3, <2>6, <2>7
  <2> QED BY <2>1, <2>10, <2>11, <2>12
<1>7. m \in A
  <2> HIDE DEF A
  <2>1. \A j \in 0..m : j \in A
    BY <1>5, <1>6, StepsUpto
  <2> QED BY <2>1
<1>8. E(m) \in SUBSET Ends(W)
  BY <1>1, <1>2
<1> HIDE DEF E
<1>9. Cardinality(E(m)) <= Cardinality(Ends(W)) /\ Cardinality(E(m)) \in Nat
  <2>1. IsFiniteSet(Ends(W))
    BY EndsCounted
  <2> QED BY <1>8, <2>1, FS_Subset, FS_CardinalityType
<1>10. Cardinality({W[i] : i \in Ends(W)}) = Cardinality(Ends(W)) /\ Cardinality(Ends(W)) \in Nat
  BY EndsCounted
<1>11. M(m) \in Nat /\ M(m) <= Cardinality(E(m))
  BY <1>7
<1> QED BY <1>3, <1>9, <1>10, <1>11

-------------------------------------------------------------------------------
(* What the ends of the query are compared with (RouteKeepsEnds).          *)
EndRows(W) == {W[i] : i \in Ends(W)}

(* Segments that show the rows W within the budget.                        *)
Shows(segments, W, budget) ==
  LET shown == FlattenSeq(segments)
  IN /\ Len(shown) <= budget
     /\ \A i \in 1..Len(shown) - 1 : Before(shown[i], shown[i + 1])
     /\ EndRows(W) \subseteq ToSet(shown) /\ ToSet(shown) \subseteq ToSet(W)
     /\ \A s \in ToSet(segments) : {s[1], Last(s)} \subseteq EndRows(W)
     /\ Len(segments) = Cardinality({i \in 1..Len(W) : i = 1 \/ disconnected(W[i - 1], W[i])})

(* No row, and nothing to show.                                            *)
LEMMA ShowsNone ==
  ASSUME NEW W, Len(W) = 0, NEW budget \in Nat
  PROVE  Shows(<<>>, W, budget)
<1>1. FlattenSeq(<<>>) = <<>> /\ ToSet(<<>>) = {} /\ Len(<<>>) = 0
  BY DEF FlattenSeq, ToSet
<1>2. EndRows(W) = {}
  BY DEF EndRows, Ends
<1>3. {i \in 1..Len(W) : i = 1 \/ disconnected(W[i - 1], W[i])} = {}
  OBVIOUS
<1> QED BY <1>1, <1>2, <1>3, FS_EmptySet DEF Shows

(* Segments within the budget show what they are to show.                  *)
LEMMA ShowsAll ==
  ASSUME NEW S, NEW W \in Seq(S), InOrder(W), NEW segments, NEW cut, NEW n, n = Len(W), n # 0,
         Split(segments, cut, W, n, n), NEW budget \in Nat, Len(FlattenSeq(segments)) <= budget
  PROVE  Shows(segments, W, budget)
<1> DEFINE shown == FlattenSeq(segments)
<1>0. /\ n \in Nat /\ n \in 0..Len(W) /\ segments \in Seq(Seq(ToSet(W)))
      /\ \A j \in DOMAIN cut : Line(segments[j], W, cut[j], Stop(cut, j, n))
  BY DEF Split
<1>1. /\ DOMAIN cut = 1..Len(segments)
      /\ \A j \in DOMAIN cut : cut[j] \in Ends(W) /\ Stop(cut, j, n) \in Ends(W)
      /\ \A i \in Ends(W) : \E j \in DOMAIN cut : i = cut[j] \/ i = Stop(cut, j, n)
  <2>1. /\ DOMAIN cut = 1..Len(segments)
        /\ \A j \in DOMAIN cut : /\ cut[j] \in Ends(W) /\ Stop(cut, j, n) \in Ends(W)
                                 /\ cut[j] <= Stop(cut, j, n)
                                 /\ cut[j] \in 1..n /\ Stop(cut, j, n) \in 1..n
    BY Borders
  <2>2. \A i \in Ends(W) : \E j \in DOMAIN cut : i = cut[j] \/ i = Stop(cut, j, n)
    BY Borders
  <2> QED BY ONLY <2>1, <2>2
<1>2. /\ Line(shown, W, 1, n)
      /\ \A s \in ToSet(segments) : ToSet(s) \subseteq ToSet(shown)
  BY Connected
<1> HIDE DEF shown
<1>3. PICK l \in Nat : l = Len(shown) /\ shown \in Seq(ToSet(W))
  BY <1>2 DEF Line
<1>4. \A i \in 1..l - 1 : Before(shown[i], shown[i + 1])
  <2> SUFFICES ASSUME NEW i \in 1..l - 1 PROVE Before(shown[i], shown[i + 1])
    OBVIOUS
  <2>1. i \in 1..l /\ i + 1 \in 1..l /\ i < i + 1
    OBVIOUS
  <2> QED BY <1>2, <1>3, <2>1 DEF Line
<1>5. \A s \in ToSet(segments) : \E j \in DOMAIN cut : s = segments[j]
  <2>1. DOMAIN segments = DOMAIN cut
    BY <1>0, <1>1
  <2> QED BY <2>1 DEF ToSet
<1>6. ASSUME NEW j \in DOMAIN cut
      PROVE  /\ segments[j][1] = W[cut[j]] /\ Last(segments[j]) = W[Stop(cut, j, n)]
             /\ segments[j] \in ToSet(segments)
             /\ {W[cut[j]], W[Stop(cut, j, n)]} \subseteq ToSet(segments[j])
  <2>1. PICK s \in Seq(ToSet(W)) : s = segments[j] /\ Len(s) > 0
    BY <1>0 DEF Line
  <2>2. s[1] = W[cut[j]] /\ s[Len(s)] = W[Stop(cut, j, n)]
    BY <1>0, <2>1 DEF Line
  <2>3. s \in ToSet(segments)
    <3>1. DOMAIN segments = DOMAIN cut
      BY <1>0, <1>1
    <3> QED BY <2>1, <3>1 DEF ToSet
  <2>4. {s[1], s[Len(s)]} \subseteq ToSet(s)
    BY <2>1 DEF ToSet
  <2> QED BY <2>1, <2>2, <2>3, <2>4 DEF Last
<1>7. \A s \in ToSet(segments) : {s[1], Last(s)} \subseteq EndRows(W)
  <2> SUFFICES ASSUME NEW s \in ToSet(segments) PROVE s[1] \in EndRows(W) /\ Last(s) \in EndRows(W)
    OBVIOUS
  <2>1. PICK j \in DOMAIN cut : s = segments[j]
    BY <1>5
  <2>2. s[1] = W[cut[j]] /\ Last(s) = W[Stop(cut, j, n)]
    BY <1>6, <2>1
  <2>3. W[cut[j]] \in EndRows(W) /\ W[Stop(cut, j, n)] \in EndRows(W)
    BY <1>1 DEF EndRows
  <2> QED BY <2>2, <2>3
<1>8. EndRows(W) \subseteq ToSet(shown)
  <2> SUFFICES ASSUME NEW i \in Ends(W) PROVE W[i] \in ToSet(shown)
    BY DEF EndRows
  <2>1. PICK j \in DOMAIN cut : i = cut[j] \/ i = Stop(cut, j, n)
    BY <1>1
  <2>2. ToSet(segments[j]) \subseteq ToSet(shown)
    BY <1>2, <1>6
  <2>3. W[i] \in {W[cut[j]], W[Stop(cut, j, n)]}
    BY <2>1
  <2> QED BY <1>6, <2>2, <2>3
<1>9. ToSet(shown) \subseteq ToSet(W)
  BY <1>3 DEF ToSet
<1>10. Len(segments) = Cardinality(Starts(W, n))
  BY <1>0, SegmentsCounted
<1> QED BY <1>3, <1>4, <1>7, <1>8, <1>9, <1>10 DEF Shows, Starts, shown

(* The ordered rows are in order.                                          *)
LEMMA RowsInOrder ==
  ASSUME NEW S, Sortable(S), NEW W, W = Ordered(S)
  PROVE  W \in Seq(S) /\ InOrder(W)
<1>1. PICK n \in Nat : n = Cardinality(S) /\ W \in [1..n -> S]
  BY OrderedRows
<1>2. W \in Seq(S) /\ Len(W) = n
  BY <1>1
<1>3. \A i \in 1..n : W[i] \in S /\ Cardinality(Earlier(S, W[i])) = i - 1
  BY <1>1, OrderedRows
<1>4. ASSUME NEW i \in 1..n, NEW j \in 1..n
      PROVE  (i < j <=> Before(W[i], W[j])) /\ (i < j => W[i].id # W[j].id)
  <2>1. PICK a \in S, b \in S : a = W[i] /\ b = W[j]
    BY <1>3
  <2>2. Cardinality(Earlier(S, a)) = i - 1 /\ Cardinality(Earlier(S, b)) = j - 1
    BY <1>3, <2>1
  <2>3. Before(a, b) => i < j
    <3>1. Before(a, b) => Cardinality(Earlier(S, a)) < Cardinality(Earlier(S, b))
      BY EarlierCounts
    <3> QED BY <2>2, <3>1
  <2>4. Before(b, a) => j < i
    <3>1. Before(b, a) => Cardinality(Earlier(S, b)) < Cardinality(Earlier(S, a))
      BY EarlierCounts
    <3> QED BY <2>2, <3>1
  <2>5. a = b \/ Before(a, b) \/ Before(b, a)
    BY TotalOrder
  <2>6. i < j => a # b /\ ~(j < i)
    BY <2>2
  <2>7. a.id = b.id => a = b
    BY DEF Sortable
  <2> QED BY <2>1, <2>3, <2>4, <2>5, <2>6, <2>7
<1> QED BY <1>2, <1>4 DEF InOrder

-------------------------------------------------------------------------------
(* A route: asked for, being read, and drawn or refused.                   *)
RouteInv ==
  query # Absent =>
    /\ query.at = "counting" => query.maxPoints \in Nat
    /\ query.at = "reading" => \E k \in Nat : RouteTo(query, Whole(query.snapshot), k)
    /\ query.at = "drawn" => /\ query.count = Len(Whole(query.snapshot))
                             /\ Shows(query.segments, Whole(query.snapshot), query.maxPoints)
    /\ query.at = "refused" => Cardinality(EndRows(Whole(query.snapshot))) > query.maxPoints

(* Nothing that is added is seen by the query.                             *)
LEMMA AddUnseen ==
  ASSUME QueriesInv, Add
  PROVE  query' = query /\ (query # Absent => Whole(query.snapshot)' = Whole(query.snapshot))
<1>1. PICK w \in Writers :
        (\E new : Insert(w, new)) \/ Commit(w) \/ Rollback(w)
  BY DEF Add
<1>2. CASE (\E new : Insert(w, new)) \/ Rollback(w)
  <2>1. rows' = rows /\ query' = query
    BY <1>2 DEF Insert, Rollback
  <2> QED BY <2>1 DEF Whole, InSnapshot
<1>3. CASE Commit(w)
  <2>1. adding[w] # Absent /\ rows' = rows \cup adding[w] /\ query' = query
    BY <1>3 DEF Commit
  <2>2. query # Absent => InSnapshot(query.snapshot)' = InSnapshot(query.snapshot)
    BY <2>1 DEF QueriesInv, Stored, Unseen, QueryInv, InSnapshot
  <2> QED BY <2>1, <2>2 DEF Whole
<1> QED BY <1>1, <1>2, <1>3

(* It is kept when the query and what it sees are.                         *)
LEMMA RouteKept ==
  ASSUME RouteInv, query' = query,
         query # Absent => Whole(query.snapshot)' = Whole(query.snapshot)
  PROVE  RouteInv'
BY DEF RouteInv

(* The route begins with nothing.                                          *)
LEMMA CountedRoute ==
  ASSUME QueriesInv, RouteInv, CountRoute
  PROVE  RouteInv'
<1>1. /\ query # Absent /\ query.maxPoints \in Nat
      /\ query'.at = "reading" /\ query'.maxPoints = query.maxPoints
      /\ query'.segments = <<>> /\ query'.previous = <<>> /\ query'.count = 0
      /\ {"at", "snapshot", "maxPoints", "segments", "previous", "count"} \subseteq DOMAIN query'
      /\ query'.snapshot = query.snapshot /\ rows' = rows
  BY DEF CountRoute, RouteInv
<1>2. PICK W : W = Whole(query.snapshot)'
  OBVIOUS
<1>3. PICK S : W \in Seq(S)
  <2>1. W = Ordered(InSnapshot(query.snapshot))
    BY <1>1, <1>2 DEF Whole, InSnapshot
  <2>2. Sortable(InSnapshot(query.snapshot))
    BY Sortables DEF QueriesInv, Stored, InSnapshot
  <2> QED BY <2>1, <2>2, OrderedLength
<1>4. Split(<<>>, <<>>, W, 0, 0)
  <2>1. <<>> \in Seq(Seq(ToSet(W))) /\ Len(<<>>) = 0 /\ DOMAIN <<>> = {} /\ 1..0 = {}
    OBVIOUS
  <2>2. <<>> \in [1..0 -> 1..0]
    OBVIOUS
  <2>3. Starts(W, 0) = {}
    BY DEF Starts
  <2> QED BY <2>1, <2>2, <2>3 DEF Split
<1>5. RouteTo(query', W, 0)
  <2>1. <<>> \in [1..Len(<<>>) -> 1..0] /\ 0 \in 0..0 /\ 0 \in 0..Len(W)
    BY <1>3
  <2> QED BY <1>1, <1>4, <2>1 DEF RouteTo
<1> QED BY <1>1, <1>2, <1>5 DEF RouteInv

(* The stream has ended: the route is drawn, or the ends are too many.     *)
LEMMA RouteEnds ==
  ASSUME NEW S, NEW W \in Seq(S), InOrder(W), NEW r, RouteTo(r, W, Len(W)),
         NEW whole, whole = keepPrevious(r.segments, r.previous), NEW budget \in Nat
  PROVE  IF Sum(whole, Mandatory) > budget THEN Cardinality(EndRows(W)) > budget
         ELSE Shows(sampleSegments(whole, budget), W, budget)
<1>1. PICK n \in Nat : n = Len(W)
  OBVIOUS
<1>2. PICK cut, b : Split(r.segments, cut, W, n, b)
  BY <1>1 DEF RouteTo
<1>3. CASE n = 0
  <2>1. r.previous = <<>>
    BY <1>1, <1>3 DEF RouteTo
  <2>2. r.segments = <<>>
    <3>1. n \in 0..Len(W)
      BY <1>1
    <3> QED BY ONLY <1>2, <1>3, <3>1, W \in Seq(S), LastSegment
  <2>3. whole = <<>>
    BY <2>1, <2>2 DEF keepPrevious
  <2>4. Sum(<<>>, Mandatory) = 0
    BY SumAll, FoldNone
  <2>5. sampleSegments(<<>>, budget) = <<>>
    BY SampleAll, FoldNone DEF sampleSegments
  <2>6. Shows(<<>>, W, budget)
    BY <1>1, <1>3, ShowsNone
  <2>7. ~(0 > budget)
    OBVIOUS
  <2> QED BY <2>3, <2>4, <2>5, <2>6, <2>7
<1>4. CASE n # 0
  <2>1. n \in 1..Len(W) /\ n \in 0..Len(W)
    BY <1>1, <1>4
  <2>2. r.previous = <<W[n]>>
    BY <1>1, <1>4 DEF RouteTo
  <2>3. Split(whole, cut, W, n, n)
    <3>1. PICK s : s = r.segments
      OBVIOUS
    <3>2. Split(s, cut, W, n, b)
      BY <1>2, <3>1
    <3>3. Split(keepPrevious(s, <<W[n]>>), cut, W, n, n)
      BY ONLY <2>1, <3>2, W \in Seq(S), InOrder(W), SplitKept
    <3> QED BY <2>2, <3>1, <3>3
  <2>4. Sum(whole, Mandatory) <= Cardinality(EndRows(W)) /\ Cardinality(EndRows(W)) \in Nat
    <3>1. Sum(whole, Mandatory) <= Cardinality({W[i] : i \in Ends(W)})
      BY ONLY <1>1, <1>4, <2>3, W \in Seq(S), InOrder(W), MandatoryCounted
    <3>2. Cardinality({W[i] : i \in Ends(W)}) \in Nat
      BY EndsCounted
    <3> QED BY <3>1, <3>2 DEF EndRows
  <2>5. Sum(whole, Mandatory) \in Nat
    <3>1. whole \in Seq(Seq(ToSet(W)))
      BY <2>3 DEF Split
    <3>2. PICK j \in Nat : j = Len(whole) /\ j \in 0..Len(whole)
      BY <3>1
    <3>3. Fold("mandatory", 0, SubSeq(whole, 1, j)) \in Nat
      BY <3>1, <3>2, Sums
    <3>4. SubSeq(whole, 1, j) = whole
      BY <3>1, <3>2, UptoEnds
    <3>5. Fold("mandatory", 0, whole) \in Nat
      BY <3>3, <3>4
    <3> QED BY <3>5, SumAll
  <2>6. CASE Sum(whole, Mandatory) > budget
    BY <2>4, <2>5, <2>6
  <2>7. CASE ~(Sum(whole, Mandatory) > budget)
    <3>1. Sum(whole, Mandatory) <= budget
      BY <2>5, <2>7
    <3>2. /\ Split(sampleSegments(whole, budget), cut, W, n, n)
          /\ Len(FlattenSeq(sampleSegments(whole, budget))) <= budget
      BY ONLY <2>1, <2>3, <3>1, W \in Seq(S), budget \in Nat, Sampled
    <3>3. PICK s : s = sampleSegments(whole, budget)
      OBVIOUS
    <3>4. Split(s, cut, W, n, n) /\ Len(FlattenSeq(s)) <= budget
      BY <3>2, <3>3
    <3>5. Shows(s, W, budget)
      BY ONLY <1>1, <1>4, <3>4, W \in Seq(S), InOrder(W), budget \in Nat, ShowsAll
    <3> QED BY <2>7, <3>3, <3>5
  <2> QED BY <2>6, <2>7
<1> QED BY <1>3, <1>4

(* A batch keeps the route.                                                *)
LEMMA ReadRoute ==
  ASSUME QueriesInv, RouteInv, ReadBatch
  PROVE  RouteInv'
<1>1. /\ query # Absent /\ query.at = "reading" /\ UNCHANGED <<rows, lastId, adding>>
      /\ Sortable(InSnapshot(query.snapshot))
  BY Sortables DEF ReadBatch, QueriesInv, Stored, InSnapshot
<1>2. PICK S, W : S = InSnapshot(query.snapshot) /\ W = Whole(query.snapshot)
  OBVIOUS
<1>3. W \in Seq(S) /\ InOrder(W)
  BY <1>1, <1>2, RowsInOrder DEF Whole
<1>4. PICK k \in Nat : RouteTo(query, W, k)
  BY <1>1, <1>2 DEF RouteInv
<1>5. PICK n \in Nat : n = Len(W) /\ k \in 0..n
  BY <1>3, <1>4 DEF RouteTo
<1>6. PICK batch : batch = points(query.snapshot, BatchSize, query.previous)
  OBVIOUS
<1>7. PICK m \in 0..BatchSize : /\ k + m <= Len(W) /\ (m = BatchSize \/ k + m = Len(W))
                                /\ batch = SubSeq(W, k + 1, k + m)
  <2>1. Cursor(W, k, query.previous)
    BY <1>4 DEF Cursor, RouteTo
  <2>2. BatchSize \in Nat
    BY SizesAssumption
  <2>3. Reads(W, k, BatchSize, points(query.snapshot, BatchSize, query.previous))
    BY ONLY <1>1, <1>2, <2>1, <2>2, NextRows
  <2> QED BY <1>6, <2>3 DEF Reads
<1>8. m \in Nat /\ BatchSize \in Nat /\ Len(batch) = m
  <2>1. m \in Nat /\ BatchSize \in Nat
    BY SizesAssumption
  <2> QED BY <1>3, <1>7, <2>1, Part
<1>9. PICK r : r = FoldLeft(Take, query, batch)
  OBVIOUS
<1>10. PICK l \in 0..n : l = k + m /\ RouteTo(r, W, l) /\ Asked(r, query)
  <2>1. k + m \in 0..n
    BY <1>5, <1>7, <1>8
  <2>2. /\ RouteTo(FoldLeft(Take, query, SubSeq(W, k + 1, k + m)), W, k + m)
        /\ Asked(FoldLeft(Take, query, SubSeq(W, k + 1, k + m)), query)
    BY ONLY <1>3, <1>4, <1>7, <1>8, BatchRoute
  <2> QED BY <1>7, <1>9, <2>1, <2>2
<1>11. PICK budget \in Nat : budget = query.maxPoints /\ r.maxPoints = budget
  BY <1>4, <1>10 DEF RouteTo, Asked
<1>12. PICK whole : whole = keepPrevious(r.segments, r.previous)
  OBVIOUS
<1>13. query' = IF Len(r.segments) > budget THEN [r EXCEPT !.at = "refused"]
                ELSE IF m = BatchSize THEN r
                ELSE IF Sum(whole, Mandatory) > budget THEN [r EXCEPT !.at = "refused"]
                ELSE [r EXCEPT !.at = "drawn", !.segments = sampleSegments(whole, budget)]
  <2>1. query' = IF Len(r.segments) > query.maxPoints THEN [r EXCEPT !.at = "refused"]
                 ELSE IF Len(batch) = BatchSize THEN r
                 ELSE IF Sum(keepPrevious(r.segments, r.previous), Mandatory) > query.maxPoints
                 THEN [r EXCEPT !.at = "refused"]
                 ELSE [r EXCEPT !.at = "drawn",
                                !.segments = sampleSegments(keepPrevious(r.segments, r.previous),
                                                            query.maxPoints)]
    BY <1>6, <1>9 DEF ReadBatch
  <2> QED BY <1>8, <1>11, <1>12, <2>1
<1>14. /\ {"at", "snapshot", "maxPoints", "segments", "count"} \subseteq DOMAIN r
       /\ r.at = "reading" /\ r.snapshot = query.snapshot /\ r.count = l
  BY <1>1, <1>10 DEF RouteTo, Asked
<1>15. Cardinality(EndRows(W)) \in Nat
  BY <1>3, EndsCounted DEF EndRows
<1>16. query'.snapshot = query.snapshot /\ query'.maxPoints = budget
  BY <1>11, <1>13, <1>14
<1>17. Whole(query.snapshot)' = W
  BY <1>1, <1>2, <1>16 DEF Whole, InSnapshot
<1>18. CASE Len(r.segments) > budget
  <2>1. query'.at = "refused"
    BY <1>13, <1>14, <1>18
  <2>2. PICK cut, b, s : s = r.segments /\ Split(s, cut, W, l, b)
    BY <1>10 DEF RouteTo
  <2>3. l \in 0..Len(W)
    BY <1>5
  <2>4. Len(s) <= Cardinality({W[i] : i \in Ends(W)})
    BY ONLY <1>3, <2>2, <2>3, SegmentsCounted
  <2>5. s \in Seq(Seq(ToSet(W)))
    BY <2>2 DEF Split
  <2>6. Len(r.segments) \in Nat /\ Len(r.segments) <= Cardinality(EndRows(W))
    BY <2>2, <2>4, <2>5 DEF EndRows
  <2>7. Cardinality(EndRows(W)) > budget
    BY <1>15, <1>18, <2>6
  <2> QED BY <1>16, <1>17, <2>1, <2>7 DEF RouteInv
<1>19. CASE ~(Len(r.segments) > budget) /\ m = BatchSize
  <2>1. query' = r /\ l \in Nat
    BY <1>13, <1>19
  <2> QED BY <1>10, <1>14, <1>17, <2>1 DEF RouteInv
<1>20. CASE ~(Len(r.segments) > budget) /\ m # BatchSize
  <2>1. l = Len(W)
    BY <1>7, <1>10, <1>20
  <2>2. RouteTo(r, W, Len(W))
    BY <1>10, <2>1
  <2>3. IF Sum(whole, Mandatory) > budget THEN Cardinality(EndRows(W)) > budget
        ELSE Shows(sampleSegments(whole, budget), W, budget)
    BY ONLY <1>3, <1>12, <2>2, budget \in Nat, RouteEnds
  <2>4. CASE Sum(whole, Mandatory) > budget
    <3>1. query'.at = "refused"
      BY <1>13, <1>14, <1>20, <2>4
    <3> QED BY <1>16, <1>17, <2>3, <2>4, <3>1 DEF RouteInv
  <2>5. CASE ~(Sum(whole, Mandatory) > budget)
    <3>1. /\ query'.at = "drawn" /\ query'.segments = sampleSegments(whole, budget)
          /\ query'.count = l
      BY <1>13, <1>14, <1>20, <2>5
    <3> QED BY <1>16, <1>17, <2>1, <2>3, <2>5, <3>1 DEF RouteInv
  <2> QED BY <2>4, <2>5
<1> QED BY <1>18, <1>19, <1>20

(* Every step keeps it.                                                    *)
LEMMA NextRoutes ==
  ASSUME QueriesInv, RouteInv, [QueriesNext]_queriesVars
  PROVE  RouteInv'
<1>1. CASE Add
  BY <1>1, AddUnseen, RouteKept
<1>2. CASE OpenPages
  BY <1>2 DEF OpenPages, RouteInv
<1>3. CASE ReadPage
  <2>1. /\ {"at", "snapshot"} \subseteq DOMAIN query
        /\ \E k \in Nat : PagesTo(k, Whole(query.snapshot))
    BY <1>3 DEF ReadPage, QueriesInv, QueryInv
  <2>2. query'.at \in {"paging", "paged"}
    BY <1>3, <2>1 DEF ReadPage, PagesTo
  <2> QED BY <2>2 DEF RouteInv
<1>4. ASSUME NEW maxPoints \in Budgets, OpenRoute(maxPoints) PROVE RouteInv'
  <2>1. query'.at = "counting" /\ query'.maxPoints \in Nat
    BY <1>4, BudgetsAssumption DEF OpenRoute
  <2> QED BY <2>1 DEF RouteInv
<1>5. CASE CountRoute
  BY <1>5, CountedRoute
<1>6. CASE ReadBatch
  BY <1>6, ReadRoute
<1>7. CASE EndQuery
  BY <1>7 DEF EndQuery, RouteInv
<1>8. CASE UNCHANGED queriesVars
  <2>1. query' = query /\ rows' = rows
    BY <1>8 DEF queriesVars
  <2>2. Whole(query.snapshot)' = Whole(query.snapshot)
    BY <2>1 DEF Whole, InSnapshot
  <2> QED BY <2>1, <2>2, RouteKept
<1> QED BY <1>1, <1>2, <1>3, <1>4, <1>5, <1>6, <1>7, <1>8 DEF QueriesNext, Ask

(* However the stream is cut into batches, and whatever is added beside    *)
(* it, a route is drawn within the points asked for with both ends of      *)
(* every segment and no line across a gap, or the ends are too many.       *)
THEOREM RoutesKeepTheirEnds ==
  QueriesSpec => []RouteKeepsEnds
<1>1. QueriesInit => QueriesInv /\ RouteInv
  BY InitQueries DEF QueriesInit, RouteInv
<1>2. QueriesInv /\ RouteInv /\ [QueriesNext]_queriesVars => QueriesInv' /\ RouteInv'
  BY NextQueries, NextRoutes
<1>3. RouteInv => RouteKeepsEnds
  BY DEF RouteInv, RouteKeepsEnds, Shows, EndRows
<1> QED BY <1>1, <1>2, <1>3, PTL DEF QueriesSpec
===============================================================================
