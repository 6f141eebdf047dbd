------------------------ MODULE AdminRecovery_proofs ------------------------
(***************************************************************************)
(* Theorems about AdminRecovery for any number of codes and logins and any *)
(* values of the time limits and quotas.                                   *)
(***************************************************************************)
EXTENDS AdminRecovery, FiniteSetTheorems, TLAPS

-----------------------------------------------------------------------------
(* Lemmas                                                                  *)

(* Codes and notices are different mails, one of each for every challenge. *)
LEMMA MailKinds ==
  /\ \A c \in Ids : OTP(c) \in Mails /\ NOTICE(c) \in Mails /\ NOTICE(c) \in Notices
  /\ \A c, d \in Ids : OTP(c) # NOTICE(d)
  /\ \A c, d \in Ids : (OTP(c) = OTP(d) => c = d) /\ (NOTICE(c) = NOTICE(d) => c = d)
  /\ \A c \in Ids : OTP(c)[1] = "OTP" /\ OTP(c)[2] = c /\ NOTICE(c)[1] = "NOTICE"
  /\ Notices \subseteq Mails
BY DEF Mails, Notices, OTP, NOTICE

(* The outbox stays well formed when some of its mails keep their text or  *)
(* others get one.                                                         *)
LEMMA OutboxFormed ==
  ASSUME TypeOK, NEW mails \in SUBSET Mails, OutboxBecomes(mails)
  PROVE  payload' = mails /\ held' \subseteq payload' /\ tries' \in [Mails -> 0..MaxTries]
<1>1. 0 \in 0..MaxTries
  BY LimitsAssumption
<1> QED BY <1>1 DEF TypeOK, OutboxBecomes

-----------------------------------------------------------------------------
(* Types                                                                   *)

(* The types hold at first.                                                *)
LEMMA InitType == Init => TypeOK
<1> SUFFICES ASSUME Init PROVE TypeOK
  OBVIOUS
<1>1. 0 \in 0..MaxTime /\ 0 \in 0..MaxAttempts /\ 0 \in 0..MaxTries
  BY BoundsAssumption, LimitsAssumption
<1>2. 0 \in Versions
  BY BoundsAssumption DEF Versions
<1> QED BY <1>1, <1>2 DEF Init, TypeOK

(* Every step keeps the types.                                             *)
LEMMA NextType == TypeOK /\ [Next]_vars => TypeOK'
<1> SUFFICES ASSUME TypeOK, [Next]_vars PROVE TypeOK'
  OBVIOUS
<1>1. ASSUME NEW c \in Ids, Request(c) PROVE TypeOK'
  <2>1. Issue(c) /\ UNCHANGED <<now, worker>>
    BY <1>1 DEF Request
  <2>2. WithoutCodes \cup {OTP(c)} \in SUBSET Mails
    BY MailKinds DEF TypeOK, WithoutCodes
  <2>3. payload' \subseteq Mails /\ held' \subseteq payload' /\ tries' \in [Mails -> 0..MaxTries]
    BY <2>1, <2>2, OutboxFormed DEF Issue
  <2>4. challenge' \in [Ids -> {"none", "pending", "used", "deleted"}]
    BY <2>1 DEF Issue, Superseded, TypeOK
  <2>5. created' \in [Ids -> 0..MaxTime] /\ born' \in [Mails -> 0..MaxTime]
    BY <2>1 DEF Issue, TypeOK
  <2> QED BY <2>1, <2>3, <2>4, <2>5 DEF Issue, TypeOK, authVars
<1>2. ASSUME NEW c \in Ids, Confirm(c) PROVE TypeOK'
  <2>1. CASE WrongCode(c)
    <3>1. payload' \subseteq Mails /\ held' \subseteq payload' /\ tries' \in [Mails -> 0..MaxTries]
      <4> DEFINE left == IF attempts[c] + 1 >= MaxAttempts THEN payload \ {OTP(c)} ELSE payload
      <4>1. left \in SUBSET Mails /\ OutboxBecomes(left)
        BY <2>1 DEF TypeOK, WrongCode
      <4> HIDE DEF left
      <4> QED BY <4>1, OutboxFormed
    <3>2. attempts' \in [Ids -> 0..MaxAttempts]
      <4>1. attempts[c] + 1 \in 0..MaxAttempts
        BY <2>1, LimitsAssumption DEF WrongCode, Valid, TypeOK
      <4> QED BY <4>1, <2>1 DEF WrongCode, TypeOK
    <3>3. challenge' \in [Ids -> {"none", "pending", "used", "deleted"}]
      BY <2>1 DEF WrongCode, TypeOK
    <3> QED BY <3>1, <3>2, <3>3, <2>1, <1>2 DEF WrongCode, Confirm, TypeOK, authVars
  <2>2. CASE Recover(c)
    <3>1. payload' \subseteq Mails /\ held' \subseteq payload' /\ tries' \in [Mails -> 0..MaxTries]
      <4>1. (payload \ {OTP(c)}) \cup {NOTICE(c)} \in SUBSET Mails
        BY MailKinds DEF TypeOK
      <4> QED BY <4>1, <2>2, OutboxFormed DEF Recover
    <3>2. hash' \in Versions /\ sessions' \subseteq [by : Logins, hash : Versions]
      BY <2>2, BoundsAssumption DEF Recover, SessionsAfterRecovery, Versions, Ids
    <3> QED BY <3>1, <3>2, <2>2, <1>2 DEF Recover, Confirm, TypeOK
  <2> QED BY <2>1, <2>2, <1>2 DEF Confirm
<1>3. ASSUME NEW l \in Logins, BeginLogin(l) PROVE TypeOK'
  BY <1>3 DEF BeginLogin, TypeOK, codeVars, mailVars
<1>4. ASSUME NEW l \in Logins, IssueSession(l) PROVE TypeOK'
  <2>1. login[l] \in Versions
    BY <1>4 DEF IssueSession, TypeOK
  <2> QED BY <2>1, <1>4 DEF IssueSession, TypeOK, codeVars, mailVars
<1>5. ASSUME NEW s \in sessions, EndSession(s) PROVE TypeOK'
  BY <1>5 DEF EndSession, TypeOK, codeVars, mailVars
<1>6. ASSUME CleanUp PROVE TypeOK'
  <2>1. payload' \subseteq Mails /\ held' \subseteq payload' /\ tries' \in [Mails -> 0..MaxTries]
    <3>1. {m \in payload : ~Spent(m)} \in SUBSET Mails
      BY DEF TypeOK
    <3> QED BY <3>1, <1>6, OutboxFormed DEF CleanUp
  <2>2. challenge' \in [Ids -> {"none", "pending", "used", "deleted"}]
    BY <1>6 DEF CleanUp, TypeOK
  <2> QED BY <2>1, <2>2, <1>6 DEF CleanUp, TypeOK, authVars
<1>7. ASSUME NEW m \in Mails, Claim(m) PROVE TypeOK'
  <2>1. tries[m] + 1 \in 0..MaxTries /\ m \in payload
    BY <1>7, LimitsAssumption DEF Claim, Claimable, TypeOK
  <2> QED BY <2>1, <1>7 DEF Claim, TypeOK, codeVars, authVars
<1>8. ASSUME NEW m \in Mails, Release(m) PROVE TypeOK'
  BY <1>8 DEF Release, TypeOK, codeVars, authVars
<1>9. ASSUME Send PROVE TypeOK'
  BY <1>9 DEF Send, TypeOK, Idle, codeVars, authVars, mailVars
<1>10. ASSUME MarkSent PROVE TypeOK'
  <2>1. worker.at = "accepted" /\ worker \in [at : {"sending", "accepted", "failed"}, mail : Mails]
    BY <1>10 DEF MarkSent, TypeOK, Idle
  <2>2. CASE OutboxBecomes(payload \ {worker.mail})
             /\ settled' = settled \cup (Notices \cap {worker.mail}) /\ worker' = Idle
    <3>1. payload \ {worker.mail} \in SUBSET Mails
      BY DEF TypeOK
    <3>2. payload' \subseteq Mails /\ held' \subseteq payload' /\ tries' \in [Mails -> 0..MaxTries]
      BY <3>1, <2>2, OutboxFormed
    <3> QED BY <3>2, <2>2, <1>10 DEF MarkSent, TypeOK, codeVars, authVars
  <2>3. CASE worker' = [worker EXCEPT !.at = "failed"] /\ UNCHANGED <<payload, tries, held, settled>>
    BY <2>1, <2>3, <1>10 DEF MarkSent, TypeOK, codeVars, authVars
  <2> QED BY <2>2, <2>3, <1>10 DEF MarkSent
<1>11. ASSUME RecordFailure PROVE TypeOK'
  <2>1. CASE OutboxBecomes(AfterFailure(worker.mail))
             /\ settled' = settled \cup (Notices \cap (payload \ payload'))
    <3>1. AfterFailure(worker.mail) \in SUBSET Mails
      BY DEF TypeOK, AfterFailure
    <3>2. payload' \subseteq Mails /\ held' \subseteq payload' /\ tries' \in [Mails -> 0..MaxTries]
      BY <3>1, <2>1, OutboxFormed
    <3> QED BY <3>2, <2>1, <1>11 DEF RecordFailure, TypeOK, codeVars, authVars
  <2>2. CASE UNCHANGED <<payload, tries, held, settled>>
    BY <2>2, <1>11 DEF RecordFailure, TypeOK, codeVars, authVars
  <2> QED BY <2>1, <2>2, <1>11 DEF RecordFailure
<1>12. ASSUME Tick PROVE TypeOK'
  BY <1>12, BoundsAssumption DEF Tick, TypeOK, codeVars, authVars, mailVars
<1>13. ASSUME Restart PROVE TypeOK'
  BY <1>13 DEF Restart, TypeOK, codeVars, mailVars
<1>14. ASSUME UNCHANGED vars PROVE TypeOK'
  BY <1>14 DEF vars, codeVars, authVars, mailVars, TypeOK
<1> QED BY <1>1, <1>2, <1>3, <1>4, <1>5, <1>6, <1>7, <1>8, <1>9, <1>10, <1>11, <1>12, <1>13, <1>14
        DEF Next, WorkerStep

(* Every variable of a recovery keeps its type: no counter of attempts or  *)
(* tries passes its limit, and only mail with a text is leased.            *)
THEOREM TypeCorrect == Spec => []TypeOK
<1> QED BY InitType, NextType, PTL DEF Spec

-----------------------------------------------------------------------------
(* Sessions                                                                *)

(* Every session was issued under the password in force, whatever login a  *)
(* recovery overtook: the comparison that issues it and the change that    *)
(* ends the others are each one transaction.                               *)
THEOREM SessionsFollow == Spec => []SessionsFollowPassword
<1>1. Init => SessionsFollowPassword
  BY DEF Init, SessionsFollowPassword
<1>2. SessionsFollowPassword /\ [Next]_vars => SessionsFollowPassword'
  <2> SUFFICES ASSUME SessionsFollowPassword, [Next]_vars PROVE SessionsFollowPassword'
    OBVIOUS
  <2>1. CASE UNCHANGED <<hash, sessions>>
    BY <2>1 DEF SessionsFollowPassword
  <2>2. ASSUME NEW c \in Ids, Recover(c) PROVE SessionsFollowPassword'
    BY <2>2 DEF Recover, SessionsAfterRecovery, SessionsFollowPassword
  <2>3. ASSUME NEW l \in Logins, IssueSession(l) PROVE SessionsFollowPassword'
    <3>1. ASSUME NEW s \in sessions', s \notin sessions PROVE s.hash = hash
      BY <2>3, <3>1 DEF IssueSession, StillCurrent
    <3>2. hash' = hash
      BY <2>3 DEF IssueSession
    <3> QED BY <3>1, <3>2 DEF SessionsFollowPassword
  <2>4. ASSUME NEW s \in sessions, EndSession(s) PROVE SessionsFollowPassword'
    BY <2>4 DEF EndSession, SessionsFollowPassword
  <2> QED BY <2>1, <2>2, <2>3, <2>4
          DEF Next, Request, Issue, Confirm, WrongCode, BeginLogin, CleanUp, Claim, Release,
              WorkerStep, Send, MarkSent, RecordFailure, Tick, Restart, vars, authVars
<1> QED BY <1>1, <1>2, PTL DEF Spec

-----------------------------------------------------------------------------
(* Codes                                                                   *)

(* Codes are made in the order of their ids and use up the ones before:    *)
(* after a pending code there is none yet.                                 *)
Newest ==
  \A c, d \in Ids : c < d =>
    /\ challenge[c] = "pending" => challenge[d] = "none"
    /\ challenge[c] = "none" => challenge[d] = "none"

CodesInv == TypeOK /\ Newest /\ CodesErased

(* At first there is no code to speak of.                                  *)
LEMMA InitCodes == Init => CodesInv
<1> SUFFICES ASSUME Init PROVE CodesInv
  OBVIOUS
<1> QED BY InitType DEF Init, CodesInv, Newest, CodesErased

(* Every step keeps what is known of codes, sessions and the outbox.       *)
LEMMA NextCodes == CodesInv /\ [Next]_vars => CodesInv'
<1> SUFFICES ASSUME CodesInv, [Next]_vars PROVE CodesInv'
  OBVIOUS
<1> USE DEF CodesInv
<1>0. TypeOK /\ TypeOK'
  BY NextType
<1>1. CASE challenge' = challenge /\ payload' \subseteq payload
  BY <1>0, <1>1 DEF Newest, CodesErased, Pending
<1>2. ASSUME NEW c \in Ids, Issue(c) PROVE CodesInv'
  <2>1. payload' = WithoutCodes \cup {OTP(c)}
    BY <1>2 DEF Issue, OutboxBecomes
  <2>2. challenge' = Superseded(c) /\ challenge'[c] = "pending"
        /\ \A d \in Ids \ {c} : challenge'[d] # "pending" /\ (challenge'[d] = "none" <=> challenge[d] = "none")
    BY <1>0, <1>2 DEF Issue, Superseded, TypeOK
  <2>3. CodesErased'
    <3>1. ASSUME NEW d \in Ids, OTP(d) \in payload' PROVE d = c
      BY <2>1, <3>1, MailKinds DEF WithoutCodes
    <3> QED BY <3>1, <2>2 DEF CodesErased, Pending
  <2>4. Newest'
    <3>1. challenge[c] = "none" /\ \A d \in Ids : d < c => challenge[d] # "none"
      BY <1>2 DEF Issue
    <3>2. \A d \in Ids : c < d => challenge[d] = "none"
      BY <3>1 DEF Newest
    <3> QED BY <3>1, <3>2, <2>2 DEF Newest
  <2> QED BY <1>0, <2>3, <2>4
<1>3. ASSUME NEW c \in Ids, WrongCode(c) \/ Recover(c), challenge' # challenge PROVE CodesInv'
  <2>1. challenge' = [challenge EXCEPT ![c] = "used"]
        /\ \A d \in Ids : OTP(d) \in payload' => OTP(d) \in payload \ {OTP(c)}
    BY <1>3, MailKinds DEF WrongCode, Recover, OutboxBecomes
  <2>2. challenge[c] = "pending"
    BY <1>3 DEF WrongCode, Recover, Valid, Pending
  <2> QED BY <1>0, <2>1, <2>2 DEF TypeOK, Newest, CodesErased, Pending
<1>4. ASSUME CleanUp, challenge' # challenge PROVE CodesInv'
  <2>1. challenge' = [c \in Ids |-> IF Outdated(c) THEN "deleted" ELSE challenge[c]]
        /\ payload' = {m \in payload : ~Spent(m)}
    BY <1>4 DEF CleanUp, OutboxBecomes
  <2>2. Newest'
    BY <2>1 DEF Newest, Outdated, Kept
  <2>3. ASSUME NEW c \in Ids, OTP(c) \in payload' PROVE ~Outdated(c)
    <3>1. ~Expired(c)
      BY <2>1, <2>3, MailKinds DEF Spent, MailExpired
    <3> QED BY <3>1, <1>0, BoundsAssumption DEF Expired, Outdated, TypeOK
  <2>4. CodesErased'
    BY <2>1, <2>3 DEF CodesErased, Pending
  <2> QED BY <1>0, <2>2, <2>4
<1>5. ASSUME NEW c \in Ids, WrongCode(c) \/ Recover(c), challenge' = challenge PROVE CodesInv'
  <2>1. \A d \in Ids : OTP(d) \in payload' => OTP(d) \in payload
    BY <1>5, MailKinds DEF WrongCode, Recover, OutboxBecomes
  <2> QED BY <1>0, <1>5, <2>1 DEF Newest, CodesErased, Pending
<1> QED BY <1>1, <1>2, <1>3, <1>4, <1>5
        DEF Next, Request, Confirm, BeginLogin, IssueSession, EndSession, CleanUp, Claim, Release,
            WorkerStep, Send, MarkSent, RecordFailure, AfterFailure, Tick, Restart, OutboxBecomes,
            vars, codeVars, mailVars

(* A code that is used, replaced or exhausted has left the outbox, also    *)
(* while it was being sent: no step of the worker puts a text back.        *)
THEOREM CodesAreErased == Spec => []CodesErased
<1> QED BY InitCodes, NextCodes, PTL DEF Spec, CodesInv

(* A step that changes the password is the confirmation of the newest code.*)
LEMMA NewestStep == CodesInv /\ [Next]_vars =>
  (hash' # hash => \A d \in Ids : d > hash' => challenge[d] = "none")
<1> SUFFICES ASSUME CodesInv, [Next]_vars, hash' # hash
             PROVE  \A d \in Ids : d > hash' => challenge[d] = "none"
  OBVIOUS
<1>1. PICK c \in Ids : Recover(c)
  BY DEF Next, Request, Issue, Confirm, WrongCode, BeginLogin, IssueSession, EndSession, CleanUp,
         Claim, Release, WorkerStep, Send, MarkSent, RecordFailure, Tick, Restart, vars, authVars
<1>2. hash' = c /\ challenge[c] = "pending"
  BY <1>1 DEF Recover, Valid, Pending
<1> QED BY <1>2 DEF CodesInv, Newest, Ids

(* The password is changed by the newest code only.                        *)
THEOREM NewestRecovers == Spec => OnlyNewestRecovers
<1>1. CodesInv /\ [Next]_vars => [hash' # hash => \A d \in Ids : d > hash' => challenge[d] = "none"]_vars
  BY NewestStep
<1> QED BY <1>1, InitCodes, NextCodes, PTL DEF Spec, OnlyNewestRecovers

-----------------------------------------------------------------------------
(* Notices                                                                 *)

NoticeInv == TypeOK /\ NoticeNotDropped

(* A notice leaves the outbox only sent, tried out or expired.             *)
LEMMA NextNotice == NoticeInv /\ [Next]_vars => NoticeInv'
<1> SUFFICES ASSUME NoticeInv, [Next]_vars PROVE NoticeInv'
  OBVIOUS
<1> USE DEF NoticeInv
<1>0. TypeOK /\ TypeOK'
  BY NextType
<1>a. \A r \in recovered : NOTICE(r) \in Mails /\ NOTICE(r) \in Notices
  BY <1>0, MailKinds DEF TypeOK
<1>b. ASSUME NEW r \in recovered, born'[NOTICE(r)] = born[NOTICE(r)], now' \in {now, now + 1},
             NOTICE(r) \in payload \cup settled
               => NOTICE(r) \in payload' \cup settled' \/ MailExpired(NOTICE(r))
      PROVE  NOTICE(r) \in payload' \cup settled' \/ MailExpired(NOTICE(r))'
  <2>1. MailExpired(NOTICE(r)) => MailExpired(NOTICE(r))'
    BY <1>0, <1>a, <1>b, MailKinds, BoundsAssumption DEF MailExpired, TypeOK
  <2> QED BY <1>b, <2>1 DEF NoticeNotDropped
<1>1. ASSUME NEW c \in Ids, Recover(c), now' = now PROVE NoticeInv'
  <2>1. /\ payload' = (payload \ {OTP(c)}) \cup {NOTICE(c)} /\ settled' = settled
        /\ born' = [born EXCEPT ![NOTICE(c)] = now] /\ recovered' = recovered \cup {c}
    BY <1>1 DEF Recover, OutboxBecomes
  <2>2. ASSUME NEW r \in recovered, r # c
        PROVE  NOTICE(r) \in payload' \cup settled' \/ MailExpired(NOTICE(r))'
    <3>1. r \in Ids
      BY <1>0 DEF TypeOK
    <3>2. NOTICE(r) # NOTICE(c) /\ NOTICE(r) # OTP(c)
      BY <2>2, <3>1, MailKinds DEF NOTICE
    <3>3. born'[NOTICE(r)] = born[NOTICE(r)]
      BY <1>0, <1>a, <2>1, <3>2 DEF TypeOK
    <3>4. NOTICE(r) \in payload => NOTICE(r) \in payload'
      BY <2>1, <3>2
    <3> QED BY <1>1, <1>b, <2>1, <3>3, <3>4
  <2> QED BY <1>0, <2>1, <2>2 DEF NoticeNotDropped
<1>2. ASSUME NEW c \in Ids, Request(c) PROVE NoticeInv'
  <2>1. /\ UNCHANGED <<recovered, now, settled>> /\ born' = [born EXCEPT ![OTP(c)] = now]
        /\ payload' = WithoutCodes \cup {OTP(c)}
    BY <1>2 DEF Request, Issue, OutboxBecomes
  <2>2. \A r \in recovered : born'[NOTICE(r)] = born[NOTICE(r)]
    <3>1. \A r \in recovered : NOTICE(r) # OTP(c)
      BY <1>0, MailKinds DEF TypeOK
    <3> QED BY <1>0, <1>a, <2>1, <3>1 DEF TypeOK
  <2>3. \A r \in recovered : NOTICE(r) \in payload => NOTICE(r) \in payload'
    BY <1>0, <2>1, MailKinds DEF WithoutCodes, TypeOK
  <2> QED BY <1>0, <1>b, <2>1, <2>2, <2>3 DEF NoticeNotDropped
<1>3. ASSUME NEW c \in Ids, WrongCode(c), now' = now PROVE NoticeInv'
  <2>1. UNCHANGED <<recovered, born, settled>> /\ payload \ {OTP(c)} \subseteq payload'
    BY <1>3 DEF WrongCode, OutboxBecomes
  <2>2. \A r \in recovered : NOTICE(r) \in payload => NOTICE(r) \in payload'
    BY <1>0, <2>1, MailKinds DEF TypeOK
  <2> QED BY <1>0, <1>3, <1>b, <2>1, <2>2 DEF NoticeNotDropped
<1>4. ASSUME CleanUp PROVE NoticeInv'
  <2>1. UNCHANGED <<recovered, born, now>> /\ payload' = {m \in payload : ~Spent(m)}
        /\ settled' = settled \cup {m \in payload \cap Notices : tries[m] >= MaxTries}
    BY <1>4 DEF CleanUp, OutboxBecomes
  <2>2. \A r \in recovered : NOTICE(r) \in payload \cup settled
          => NOTICE(r) \in payload' \cup settled' \/ MailExpired(NOTICE(r))
    BY <1>a, <2>1 DEF Spent
  <2> QED BY <1>0, <1>b, <2>1, <2>2 DEF NoticeNotDropped
<1>5. ASSUME MarkSent \/ RecordFailure PROVE NoticeInv'
  <2>1. UNCHANGED <<recovered, born, now>>
        /\ Notices \cap (payload \cup settled) \subseteq payload' \cup settled'
    BY <1>5 DEF MarkSent, RecordFailure, OutboxBecomes, codeVars
  <2>2. \A r \in recovered : NOTICE(r) \in payload \cup settled => NOTICE(r) \in payload' \cup settled'
    BY <1>a, <2>1
  <2> QED BY <1>0, <1>b, <2>1, <2>2 DEF NoticeNotDropped
<1>6. ASSUME UNCHANGED <<recovered, born, payload, settled>>, now' \in {now, now + 1}
      PROVE  NoticeInv'
  BY <1>0, <1>6, <1>b DEF NoticeNotDropped
<1> QED BY <1>1, <1>2, <1>3, <1>4, <1>5, <1>6
        DEF Next, Confirm, BeginLogin, IssueSession, EndSession, Claim, Release, WorkerStep, Send,
            Tick, Restart, vars, codeVars, mailVars

(* The notice of every recovery stays in the outbox until it is sent, its  *)
(* tries are used up or it expires: no request, no later recovery and no   *)
(* cleanup loses it.                                                       *)
THEOREM NoticeKept == Spec => []NoticeNotDropped
<1>1. Init => NoticeInv
  BY InitType DEF Init, NoticeInv, NoticeNotDropped
<1> QED BY <1>1, NextNotice, PTL DEF Spec, NoticeInv

-----------------------------------------------------------------------------
(* Quotas                                                                  *)

Made == {c \in Ids : challenge[c] # "none"}
Within(t) == {c \in Made : created[c] <= t /\ t < created[c] + Hour}

(* A challenge that is gone from the table no longer counts.               *)
GoneUncounted ==
  \A c \in Made :
    created[c] <= now /\ (challenge[c] = "deleted" => created[c] + Hour <= now)

QuotaInv ==
  /\ CodesInv /\ GoneUncounted
  /\ \A t \in 0..now : Cardinality(Within(t)) <= Quota
  /\ \A c, d \in Made : c < d => created[c] + Cooldown <= created[d]

(* Sets of codes are finite, and a smaller one has a smaller number.       *)
LEMMA FiniteIds ==
  ASSUME NEW S \in SUBSET Ids
  PROVE  IsFiniteSet(S) /\ Cardinality(S) \in Nat
         /\ \A T \in SUBSET S : Cardinality(T) <= Cardinality(S)
<1>1. IsFiniteSet(Ids)
  BY FS_Interval, BoundsAssumption DEF Ids
<1>2. IsFiniteSet(S)
  BY <1>1, FS_Subset
<1> QED BY <1>2, FS_Subset, FS_CardinalityType

(* Challenges that change in no other way than from one status to another  *)
(* stay within the quotas.                                                 *)
LEMMA QuotaFrame ==
  ASSUME QuotaInv, CodesInv', UNCHANGED <<created, now>>,
         \A c \in Ids : challenge'[c] = "none" <=> challenge[c] = "none",
         \A c \in Ids : challenge'[c] = "deleted" => challenge[c] = "deleted" \/ created[c] + Hour <= now
  PROVE  QuotaInv'
<1>1. Made' = Made
  BY DEF Made
<1>2. \A t \in 0..now : Within(t)' = Within(t)
  BY <1>1 DEF Within
<1>3. GoneUncounted'
  BY <1>1 DEF QuotaInv, GoneUncounted, Made
<1>4. \A t \in 0..now' : Cardinality(Within(t)') <= Quota
  BY <1>2 DEF QuotaInv
<1> QED BY <1>1, <1>3, <1>4 DEF QuotaInv

(* A request that passes its limits is the only step that adds to a span.  *)
LEMMA QuotaIssue ==
  ASSUME QuotaInv, CodesInv', NEW c \in Ids, Request(c)
  PROVE  QuotaInv'
<1>1. /\ challenge[c] = "none" /\ Recent = {} /\ Cardinality(Hourly) < Quota /\ now' = now
      /\ created' = [created EXCEPT ![c] = now] /\ challenge' = Superseded(c)
      /\ created \in [Ids -> 0..MaxTime] /\ now \in Nat /\ Cooldown \in Nat /\ Hour \in Nat
  BY BoundsAssumption DEF QuotaInv, CodesInv, TypeOK, Request, Issue
<1>2. Made' = Made \cup {c} /\ c \notin Made
  BY <1>1 DEF Made, Superseded, QuotaInv, CodesInv, TypeOK
<1>3. \A d \in Made : created'[d] = created[d] /\ d # c /\ created[d] \in Nat /\ created[d] <= now
  BY <1>1, <1>2 DEF Made, QuotaInv, GoneUncounted
<1>4. \A d \in Made : Kept(d) \/ created[d] + Hour <= now
  BY DEF QuotaInv, GoneUncounted, Made, Kept, CodesInv, TypeOK
<1>5. GoneUncounted'
  BY <1>1, <1>2, <1>3 DEF GoneUncounted, Made, Superseded, QuotaInv
<1>6. ASSUME NEW t \in 0..now PROVE Cardinality(Within(t)') <= Quota
  <2>1. CASE t < now
    <3>1. Within(t)' = Within(t)
      BY <2>1, <1>1, <1>2, <1>3 DEF Within
    <3> QED BY <3>1 DEF QuotaInv
  <2>2. CASE t = now
    <3>1. Hourly \in SUBSET Ids /\ Hourly \cup {c} \in SUBSET Ids
      BY DEF Hourly
    <3>2. Within(t)' \subseteq Hourly \cup {c}
      BY <2>2, <1>1, <1>2, <1>3, <1>4 DEF Within, Hourly, Counted, Made
    <3>3. Cardinality(Hourly \cup {c}) <= Cardinality(Hourly) + 1 /\ Cardinality(Hourly) \in Nat
      BY <3>1, FiniteIds, FS_AddElement
    <3>4. Cardinality(Within(t)') <= Cardinality(Hourly \cup {c}) /\ Cardinality(Within(t)') \in Nat
          /\ Cardinality(Hourly \cup {c}) \in Nat
      BY <3>1, <3>2, FiniteIds
    <3> QED BY <3>3, <3>4, <1>1, LimitsAssumption
  <2> QED BY <2>1, <2>2, <1>1
<1>7. ASSUME NEW a \in Made', NEW b \in Made', a < b PROVE created'[a] + Cooldown <= created'[b]
  <2>1. CASE a \in Made /\ b \in Made
    BY <1>7, <2>1, <1>3 DEF QuotaInv
  <2>2. CASE a \in Made /\ b = c
    <3>1. created[a] + Cooldown <= now
      <4>1. CASE Kept(a)
        BY <4>1, <2>2, <1>1, <1>3 DEF Recent, Counted, Made
      <4>2. CASE created[a] + Hour <= now
        BY <4>2, <2>2, <1>1, <1>3, RetentionAssumption, BoundsAssumption
      <4> QED BY <2>2, <4>1, <4>2, <1>4
    <3> QED BY <3>1, <2>2, <1>1, <1>3
  <2>3. CASE a = c
    <3>1. challenge[b] = "none"
      BY <1>1, <1>7, <2>3, <1>2 DEF QuotaInv, CodesInv, Newest, Made
    <3> QED BY <3>1, <1>2, <1>7, <2>3 DEF Made, Ids
  <2> QED BY <1>2, <1>7, <2>1, <2>2, <2>3
<1>8. 0..now' = 0..now
  BY <1>1
<1> QED BY <1>5, <1>6, <1>7, <1>8 DEF QuotaInv

(* As time goes on, spans get no codes they did not have.                  *)
LEMMA QuotaTick ==
  ASSUME QuotaInv, CodesInv', Tick
  PROVE  QuotaInv'
<1>1. /\ now' = now + 1 /\ UNCHANGED <<challenge, created>> /\ Made' = Made
      /\ created \in [Ids -> 0..MaxTime] /\ now \in Nat /\ Hour \in Nat /\ Made \subseteq Ids
  BY BoundsAssumption DEF QuotaInv, CodesInv, TypeOK, Tick, codeVars, Made
<1>2. GoneUncounted'
  BY <1>1, BoundsAssumption DEF QuotaInv, GoneUncounted
<1>3. ASSUME NEW t \in 0..now' PROVE Cardinality(Within(t)') <= Quota
  <2>1. Within(t)' = Within(t)
    BY <1>1 DEF Within
  <2>2. CASE t <= now
    BY <1>1, <2>1, <2>2 DEF QuotaInv
  <2>3. CASE t = now + 1
    <3>1. Within(t) \subseteq Within(now) /\ Within(now) \in SUBSET Ids
      BY <1>1, <2>3 DEF Within, QuotaInv, GoneUncounted
    <3>2. Cardinality(Within(t)) <= Cardinality(Within(now)) /\ Cardinality(Within(t)) \in Nat
          /\ Cardinality(Within(now)) \in Nat
      BY <3>1, FiniteIds
    <3>3. Cardinality(Within(now)) <= Quota
      BY <1>1 DEF QuotaInv
    <3> QED BY <2>1, <3>2, <3>3, LimitsAssumption
  <2> QED BY <1>1, <2>2, <2>3
<1> QED BY <1>1, <1>2, <1>3 DEF QuotaInv

(* Every step keeps the limits of every span.                              *)
LEMMA NextQuota == QuotaInv /\ [Next]_vars => QuotaInv'
<1> SUFFICES ASSUME QuotaInv, [Next]_vars PROVE QuotaInv'
  OBVIOUS
<1>0. TypeOK /\ CodesInv'
  BY NextCodes DEF QuotaInv, CodesInv
<1>1. CASE UNCHANGED <<challenge, created, now>>
  BY <1>0, <1>1, QuotaFrame
<1>2. ASSUME NEW c \in Ids, Request(c) PROVE QuotaInv'
  BY <1>0, <1>2, QuotaIssue
<1>3. ASSUME NEW c \in Ids, Confirm(c) PROVE QuotaInv'
  <2>1. /\ UNCHANGED <<created, now>> /\ challenge[c] = "pending"
        /\ challenge' \in {challenge, [challenge EXCEPT ![c] = "used"]}
    BY <1>3 DEF Confirm, WrongCode, Recover, Valid, Pending
  <2> QED BY <1>0, <2>1, QuotaFrame DEF TypeOK
<1>4. ASSUME CleanUp PROVE QuotaInv'
  <2>1. /\ UNCHANGED <<created, now>>
        /\ \/ challenge' = challenge
           \/ challenge' = [c \in Ids |-> IF Outdated(c) THEN "deleted" ELSE challenge[c]]
    BY <1>4 DEF CleanUp
  <2>2. \A c \in Ids : Outdated(c) => challenge[c] # "none" /\ created[c] + Hour <= now
    BY <1>0, RetentionAssumption, BoundsAssumption DEF Outdated, Kept, TypeOK
  <2> QED BY <1>0, <2>1, <2>2, QuotaFrame
<1>5. CASE Tick
  BY <1>0, <1>5, QuotaTick
<1> QED BY <1>1, <1>2, <1>3, <1>4, <1>5
        DEF Next, BeginLogin, IssueSession, EndSession, Claim, Release, WorkerStep, Send, MarkSent,
            RecordFailure, Restart, vars, codeVars

(* However the requests, the cleanup and the clock interleave, no hour has *)
(* more codes than the quota and no two are made within the cooldown.      *)
THEOREM RequestsAreBounded == Spec => []RequestsBounded
<1>1. Init => QuotaInv
  <2> SUFFICES ASSUME Init PROVE QuotaInv
    OBVIOUS
  <2>1. CodesInv /\ Made = {} /\ \A t : Within(t) = {}
    BY InitCodes DEF Init, Made, Within
  <2>2. Cardinality({}) <= Quota
    BY FS_EmptySet, LimitsAssumption
  <2> QED BY <2>1, <2>2 DEF QuotaInv, GoneUncounted
<1>2. QuotaInv => RequestsBounded
  BY DEF QuotaInv, RequestsBounded, Made, Within
<1> QED BY <1>1, <1>2, NextQuota, PTL DEF Spec
=============================================================================
