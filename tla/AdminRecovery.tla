---------------------------- MODULE AdminRecovery ----------------------------
(***************************************************************************)
(* Recovery of the administrator's account by e-mail: one-time codes with  *)
(* their quotas, the change of the password, the outbox that mails codes   *)
(* and notices, and the logins and sessions a recovery has to invalidate.  *)
(*                                                                         *)
(* RecoveryService, RecoveryMailWorker and the login of AuthService.  Each *)
(* database transaction is SERIALIZABLE and locks the rows it decides      *)
(* about, hence one step; a login spans two of them with the key           *)
(* derivation in between, a mail three statements around the SMTP call.    *)
(***************************************************************************)
EXTENDS Naturals, FiniteSets

CONSTANTS Logins,        \* login requests that may be under way at once
          MaxRequests,   \* bound: challenges ever created
          MaxTime,       \* bound: end of the modelled time
          Cooldown,      \* 60 seconds between two codes
          Hour,          \* the span the quota of codes is counted over
          Ttl,           \* RECOVERY_TTL_MS
          Retention,     \* days a challenge is kept after it expired
          NoticeTtl,     \* lifetime of a notice in the outbox
          Quota,         \* codes per Hour
          MaxAttempts,   \* RECOVERY_MAX_ATTEMPTS
          MaxTries       \* deliveries tried per mail

ASSUME BoundsAssumption ==
  {MaxRequests, MaxTime, Cooldown, Hour, Ttl, Retention, NoticeTtl} \subseteq Nat
ASSUME LimitsAssumption == {Quota, MaxAttempts, MaxTries} \subseteq Nat \ {0}
(* A challenge is kept at least as long as a quota counts it.              *)
ASSUME RetentionAssumption == Cooldown <= Hour /\ Hour <= Ttl + Retention

Ids == 1..MaxRequests
Versions == 0..MaxRequests     \* the first password hash, or the one set by a challenge
Mails == {"OTP", "NOTICE"} \X Ids
OTP(c) == <<"OTP", c>>
NOTICE(c) == <<"NOTICE", c>>
Notices == {NOTICE(c) : c \in Ids}

VARIABLES
  now,         \* clock of the database and the process
  challenge,   \* Id -> "none", "pending", "used" (usedAt is set) or "deleted"
  created,     \* Id -> createdAt; expiresAt is Ttl later
  attempts,    \* Id -> wrong codes given
  recovered,   \* history: the challenges that set the password
  hash,        \* users.passwordHash of the administrator
  sessions,    \* rows of sessions: by which login, issued under which hash
  login,       \* Login -> hash read, while its key derivation runs
  payload,     \* mails that have their text in the outbox
  born,        \* Mail -> createdAt
  tries,       \* Mail -> deliveries begun, while it has its text
  held,        \* mails with a text whose lease or waiting time has not passed
  settled,     \* history: notices marked sent or tried as often as they may be
  worker       \* the mail of the running pass and where the pass is

codeVars == <<challenge, created, attempts, recovered>>
authVars == <<hash, sessions, login>>
mailVars == <<payload, born, tries, held, settled>>
vars == <<now, codeVars, authVars, mailVars, worker>>

NotHashing == MaxRequests + 1
NoMail == <<"none", 0>>
Idle == [at |-> "idle", mail |-> NoMail]

Init ==
  /\ now = 0
  /\ challenge = [c \in Ids |-> "none"]
  /\ created = [c \in Ids |-> 0]
  /\ attempts = [c \in Ids |-> 0]
  /\ recovered = {}
  /\ hash = 0
  /\ sessions = {}
  /\ login = [l \in Logins |-> NotHashing]
  /\ payload = {}
  /\ born = [m \in Mails |-> 0]
  /\ tries = [m \in Mails |-> 0]
  /\ held = {}
  /\ settled = {}
  /\ worker = Idle

Pending(c) == challenge[c] = "pending"
Expired(c) == created[c] + Ttl <= now
Kept(c) == challenge[c] \in {"pending", "used"}

(* What is left of the outbox when only these mails keep their text.  A    *)
(* row without its text is never read again: neither are its tries or its  *)
(* lease.                                                                  *)
OutboxBecomes(mails) ==
  /\ payload' = mails
  /\ tries' = [m \in Mails |-> IF m \in mails THEN tries[m] ELSE 0]
  /\ held' = held \cap mails

-----------------------------------------------------------------------------
(* Mutation: the counter of recent codes forgets the codes already used.   *)
CountedUnused(c) == Pending(c)
(* The codes the quotas of a request are counted over.                     *)
Counted(c) == Kept(c)

Recent == {c \in Ids : Counted(c) /\ created[c] + Cooldown > now}
Hourly == {c \in Ids : Counted(c) /\ created[c] + Hour > now}

(* Mutation: a new code leaves the earlier one pending.                    *)
SupersededNot(c) == [challenge EXCEPT ![c] = "pending"]
(* A new code uses up the one before it.                                   *)
Superseded(c) ==
  [d \in Ids |-> IF d = c THEN "pending"
                 ELSE IF challenge[d] = "pending" THEN "used"
                 ELSE challenge[d]]

(* Mutation: a new code clears the outbox, notices and all.                *)
WithoutCodesOrNotices == {}
(* The outbox without the codes it holds.                                  *)
WithoutCodes == {m \in payload : m[1] # "OTP"}

Issue(c) ==
  /\ challenge[c] = "none"
  /\ \A d \in Ids : d < c => challenge[d] # "none"
  /\ Recent = {}
  /\ Cardinality(Hourly) < Quota
  /\ challenge' = Superseded(c)
  /\ created' = [created EXCEPT ![c] = now]
  /\ OutboxBecomes(WithoutCodes \cup {OTP(c)})
  /\ born' = [born EXCEPT ![OTP(c)] = now]
  /\ UNCHANGED <<attempts, recovered, authVars, settled>>

(* A call over the limit of its address, a wrong address or a cooldown     *)
(* gets an answer and changes none of this.                                *)
Request(c) == Issue(c) /\ UNCHANGED <<now, worker>>

-----------------------------------------------------------------------------
(* Confirmation                                                            *)

Valid(c) == Pending(c) /\ ~Expired(c) /\ attempts[c] < MaxAttempts

WrongCode(c) ==
  /\ Valid(c)
  /\ attempts' = [attempts EXCEPT ![c] = @ + 1]
  /\ LET exhausted == attempts[c] + 1 >= MaxAttempts
     IN /\ challenge' = IF exhausted THEN [challenge EXCEPT ![c] = "used"] ELSE challenge
        /\ OutboxBecomes(IF exhausted THEN payload \ {OTP(c)} ELSE payload)
  /\ UNCHANGED <<created, recovered, authVars, born, settled>>

(* A recovery signs the administrator out everywhere.                      *)
SessionsAfterRecovery == {}

Recover(c) ==
  /\ Valid(c)
  /\ challenge' = [challenge EXCEPT ![c] = "used"]
  /\ recovered' = recovered \cup {c}
  /\ hash' = c
  /\ sessions' = SessionsAfterRecovery
  /\ OutboxBecomes((payload \ {OTP(c)}) \cup {NOTICE(c)})
  /\ born' = [born EXCEPT ![NOTICE(c)] = now]
  /\ UNCHANGED <<created, attempts, login, settled>>

(* Nothing changes for a code that is not valid any more, nor over the     *)
(* limit of an address, which is as good as not calling.                   *)
Confirm(c) == (WrongCode(c) \/ Recover(c)) /\ UNCHANGED <<now, worker>>

-----------------------------------------------------------------------------
(* Login: the stored hash is read and the key derived from the password    *)
(* typed; a wrong password ends here.                                      *)
BeginLogin(l) ==
  /\ login[l] = NotHashing
  /\ login' = [login EXCEPT ![l] = hash]
  /\ UNCHANGED <<now, codeVars, hash, sessions, mailVars, worker>>

(* Mutation: the session is issued for the hash read before the derivation.*)
StillCurrentUnchecked(l) == TRUE
(* The comparison under FOR SHARE, in the transaction of the session.      *)
StillCurrent(l) == login[l] = hash

IssueSession(l) ==
  /\ login[l] # NotHashing
  /\ sessions' = IF StillCurrent(l)
                 THEN sessions \cup {[by |-> l, hash |-> login[l]]}
                 ELSE sessions
  /\ login' = [login EXCEPT ![l] = NotHashing]
  /\ UNCHANGED <<now, codeVars, hash, mailVars, worker>>

(* Logout, or the end of the seven days: an expired row is honoured by     *)
(* nobody and deleted with the next session issued.                        *)
EndSession(s) ==
  /\ s \in sessions
  /\ sessions' = sessions \ {s}
  /\ UNCHANGED <<now, codeVars, hash, login, mailVars, worker>>

-----------------------------------------------------------------------------
(* The outbox worker: one pass at a time, one mail per pass                *)

MailExpired(m) ==
  IF m[1] = "OTP" THEN Expired(m[2]) ELSE born[m] + NoticeTtl <= now

(* Mail that will not be tried again.                                      *)
Spent(m) == MailExpired(m) \/ tries[m] >= MaxTries

Outdated(c) == Kept(c) /\ created[c] + Ttl + Retention < now

(* Up to three statements that commit on their own: the pass may fail      *)
(* before the last.  The deletion of mails without a text and of the       *)
(* limits per address does not show.                                       *)
CleanUp ==
  /\ worker = Idle
  /\ OutboxBecomes({m \in payload : ~Spent(m)})
  /\ settled' = settled \cup {m \in payload \cap Notices : tries[m] >= MaxTries}
  /\ \/ challenge' = [c \in Ids |-> IF Outdated(c) THEN "deleted" ELSE challenge[c]]
     \/ UNCHANGED challenge
  /\ UNCHANGED <<now, created, attempts, recovered, authVars, born, worker>>

(* Mail a pass may take, of a code only while the code can be used.        *)
Claimable(m) ==
  /\ m \in payload
  /\ tries[m] < MaxTries
  /\ ~MailExpired(m)
  /\ m \notin held
  /\ m[1] = "OTP" => Pending(m[2]) /\ ~Expired(m[2])

Claim(m) ==
  /\ worker = Idle
  /\ Claimable(m)
  /\ \A n \in Mails : Claimable(n) => born[m] <= born[n]
  /\ tries' = [tries EXCEPT ![m] = @ + 1]
  /\ held' = held \cup {m}
  /\ worker' = [at |-> "sending", mail |-> m]
  /\ UNCHANGED <<now, codeVars, authVars, payload, born, settled>>

(* SMTP accepts the mail, or the call fails: with the mail not sent, or    *)
(* with the answer lost.                                                   *)
Send ==
  /\ worker.at = "sending"
  /\ \E answer \in {"accepted", "failed"} : worker' = [worker EXCEPT !.at = answer]
  /\ UNCHANGED <<now, codeVars, authVars, mailVars>>

(* The mark, or its failure, which the same catch handles.                 *)
MarkSent ==
  /\ worker.at = "accepted"
  /\ \/ /\ OutboxBecomes(payload \ {worker.mail})
        /\ settled' = settled \cup (Notices \cap {worker.mail})
        /\ worker' = Idle
     \/ /\ worker' = [worker EXCEPT !.at = "failed"]
        /\ UNCHANGED <<payload, tries, held, settled>>
  /\ UNCHANGED <<now, codeVars, authVars, born>>

(* Mutation: a failed delivery puts the text claimed back.                 *)
AfterFailureRestored(m) ==
  IF tries[m] >= MaxTries THEN payload \ {m} ELSE payload \cup {m}
(* The text stays for the next try, unless this was the last.              *)
AfterFailure(m) == IF tries[m] >= MaxTries THEN payload \ {m} ELSE payload

(* The statement of the catch; when it fails too the lease runs out.       *)
RecordFailure ==
  /\ worker.at = "failed"
  /\ \/ /\ OutboxBecomes(AfterFailure(worker.mail))
        /\ settled' = settled \cup (Notices \cap (payload \ payload'))
     \/ UNCHANGED <<payload, tries, held, settled>>
  /\ worker' = Idle
  /\ UNCHANGED <<now, codeVars, authVars, born>>

(* The lease or the waiting time of a mail passes.                         *)
Release(m) ==
  /\ m \in held
  /\ held' = held \ {m}
  /\ UNCHANGED <<now, codeVars, authVars, payload, born, tries, settled, worker>>

-----------------------------------------------------------------------------
Tick ==
  /\ now < MaxTime
  /\ now' = now + 1
  /\ UNCHANGED <<codeVars, authVars, mailVars, worker>>

(* The process dies and starts again, at any moment and as often as it     *)
(* happens: what it was doing is forgotten.                                *)
Restart ==
  /\ login' = [l \in Logins |-> NotHashing]
  /\ worker' = Idle
  /\ UNCHANGED <<now, codeVars, hash, sessions, mailVars>>

WorkerStep == Send \/ MarkSent \/ RecordFailure

Next ==
  \/ \E c \in Ids : Request(c) \/ Confirm(c)
  \/ \E l \in Logins : BeginLogin(l) \/ IssueSession(l)
  \/ \E s \in sessions : EndSession(s)
  \/ CleanUp
  \/ \E m \in Mails : Claim(m) \/ Release(m)
  \/ WorkerStep
  \/ Tick
  \/ Restart

Spec == Init /\ [][Next]_vars

-----------------------------------------------------------------------------
TypeOK ==
  /\ now \in 0..MaxTime
  /\ challenge \in [Ids -> {"none", "pending", "used", "deleted"}]
  /\ created \in [Ids -> 0..MaxTime]
  /\ attempts \in [Ids -> 0..MaxAttempts]
  /\ recovered \subseteq Ids
  /\ hash \in Versions
  /\ sessions \subseteq [by : Logins, hash : Versions]
  /\ login \in [Logins -> Versions \cup {NotHashing}]
  /\ payload \subseteq Mails /\ held \subseteq payload /\ settled \subseteq Notices
  /\ born \in [Mails -> 0..MaxTime]
  /\ tries \in [Mails -> 0..MaxTries]
  /\ \/ worker = Idle
     \/ worker \in [at : {"sending", "accepted", "failed"}, mail : Mails]

(* Every session of the administrator was issued under the password in     *)
(* force: a recovery ends the sessions before it, and a login whose key    *)
(* derivation a recovery overtook gets none.                               *)
SessionsFollowPassword == \A s \in sessions : s.hash = hash

(* A code that was used, replaced or exhausted is not left readable in the *)
(* outbox, whatever the worker was doing with it at that moment.           *)
CodesErased == \A c \in Ids : OTP(c) \in payload => Pending(c)

(* The password is only ever changed by the newest code: once a newer one  *)
(* was requested no earlier code has any effect.                           *)
OnlyNewestRecovers ==
  [][hash' # hash => \A d \in Ids : d > hash' => challenge[d] = "none"]_vars

(* In any Hour at most Quota codes are created and no two within Cooldown, *)
(* although the rows that are counted get cleaned up.                      *)
RequestsBounded ==
  LET Made == {c \in Ids : challenge[c] # "none"}
  IN /\ \A t \in 0..now :
          Cardinality({c \in Made : created[c] <= t /\ t < created[c] + Hour}) <= Quota
     /\ \A c, d \in Made : c < d => created[c] + Cooldown <= created[d]

(* The notice of no recovery is dropped, whatever codes are requested,     *)
(* used and mailed after it: it waits in the outbox until it is sent, its  *)
(* tries are used up or it expired.                                        *)
NoticeNotDropped ==
  \A c \in recovered : \/ NOTICE(c) \in payload \cup settled
                       \/ MailExpired(NOTICE(c))

=============================================================================
