-------------------------- MODULE TelegramLink_proofs --------------------------
(***************************************************************************)
(* Theorems about TelegramLink for any number of guardians, chats, tokens, *)
(* messages and failures: its types, who gets connected to whom, and that  *)
(* it implements ChatLinks.                                                *)
(***************************************************************************)
EXTENDS TelegramLink, TLAPS

-------------------------------------------------------------------------------
(* The inductive invariant.  The poller works on a message that exists and *)
(* takes the token written in it; an unused token has made no connection,  *)
(* a used one just one, a revoked one none.                                *)

Working ==
  /\ poller.phase # "poll" => poller.id \in 1..Len(inbox) /\ poller.upto <= Len(inbox)
  /\ poller.phase = "consume" =>
       poller.token \in Tokens /\ inbox[poller.id].token = poller.token

Owners == \A t \in Tokens : Issued(t) => owner[t] = tokens[t].guardian

Once ==
  \A t \in Tokens :
    \/ used[t] = 0
    \/ used[t] = 1 /\ owner[t] # None /\ (Issued(t) => tokens[t].used)

Revoked == \A t \in revoked : ~Issued(t) /\ owner[t] # None /\ used[t] = 0

LinkTypes ==
  /\ linked \in [Guardians -> Chats \union {None}]
  /\ tokens \in [Tokens -> {None} \union TokenRows]
  /\ leaving \subseteq Guardians
  /\ owner \in [Tokens -> Guardians \union {None}]
  /\ used \in [Tokens -> Nat]
  /\ revoked \subseteq Tokens

PollTypes ==
  /\ updates \in [1..MaxUpdates -> {None, "RECEIVED", "PROCESSED", "FAILED"}]
  /\ inbox \in Seq([chat : Chats, token : Tokens \union {None}]) /\ Len(inbox) <= MaxUpdates
  /\ confirmed \in 1..(MaxUpdates + 1)
  /\ poller \in [phase : {"poll", "insert", "lookup", "consume", "mark"},
                 offset : 1..(MaxUpdates + 1) \union {None}, upto : 0..MaxUpdates,
                 id : 0..MaxUpdates, token : Tokens \union {None},
                 mark : {None, "PROCESSED", "FAILED", "THROWN"}]
  /\ faults \in 0..MaxFaults

LinkInv == LinkTypes /\ Owners /\ Once /\ Revoked /\ LinkedByConsent
PollInv == PollTypes /\ Working

Inv == LinkInv /\ PollInv

(* Nobody is connected at first.                                           *)
LEMMA InitInv == Init => Inv
<1> SUFFICES ASSUME Init PROVE Inv
  OBVIOUS
<1>1. LinkInv
  BY DEF Init, LinkInv, LinkTypes, Owners, Once, Revoked, LinkedByConsent, Issued
<1>2. PollInv
  BY ConstantsOK DEF Init, Idle, PollInv, PollTypes, Working
<1> QED BY <1>1, <1>2 DEF Inv

-------------------------------------------------------------------------------
(* The poll loop                                                           *)

(* A step that leaves the connections, the tokens and the messages alone.  *)
LEMMA LinksKept ==
  ASSUME LinkInv, UNCHANGED <<linked, tokens, owner, used, revoked, inbox>>,
         leaving' \subseteq Guardians
  PROVE  LinkInv'
BY DEF LinkInv, LinkTypes, Owners, Once, Revoked, LinkedByConsent, Issued

(* The loop has no update in its hands.                                    *)
LEMMA AtRest ==
  ASSUME PollInv, NEW o \in 1..(MaxUpdates + 1) \union {None},
         poller' = [Idle EXCEPT !.offset = o], UNCHANGED inbox,
         updates' \in [1..MaxUpdates -> {None, "RECEIVED", "PROCESSED", "FAILED"}],
         confirmed' \in 1..(MaxUpdates + 1), faults' \in 0..MaxFaults
  PROVE  PollInv'
BY ConstantsOK DEF PollInv, PollTypes, Working, Idle

(* A failure happens only while there is room for it.                      *)
LEMMA FaultType == PollTypes /\ Fault => faults' \in 0..MaxFaults
BY ConstantsOK DEF PollTypes, Fault

(* An update is handled and the loop takes the next.                       *)
LEMMA HandledInv ==
  ASSUME PollInv, poller.phase # "poll", Handled, UNCHANGED <<inbox, confirmed, faults>>,
         updates' \in [1..MaxUpdates -> {None, "RECEIVED", "PROCESSED", "FAILED"}]
  PROVE  PollInv'
<1>1. poller.id + 1 \in 1..(MaxUpdates + 1) /\ poller.upto \in 0..MaxUpdates /\ poller.upto <= Len(inbox)
  BY ConstantsOK DEF PollInv, PollTypes, Working
<1>2. CASE poller.id + 1 <= poller.upto
  <2>1. poller' = [Idle EXCEPT !.phase = "insert", !.offset = poller.id + 1,
                               !.upto = poller.upto, !.id = poller.id + 1]
    BY <1>2 DEF Handled, OffsetAfter
  <2>2. /\ poller.id + 1 \in 1..Len(inbox) /\ poller.id + 1 \in 0..MaxUpdates
        /\ poller.id + 1 \in 1..(MaxUpdates + 1)
    BY <1>1, <1>2, ConstantsOK DEF PollInv, PollTypes
  <2>3. /\ poller'.phase = "insert" /\ poller'.offset = poller.id + 1
        /\ poller'.upto = poller.upto /\ poller'.id = poller.id + 1
    BY <2>1 DEF Idle
  <2>4. PollTypes'
    BY <1>1, <2>1, <2>2 DEF PollInv, PollTypes, Idle
  <2> QED BY <1>1, <2>2, <2>3, <2>4 DEF PollInv, Working
<1>3. CASE ~(poller.id + 1 <= poller.upto)
  <2>1. poller' = [Idle EXCEPT !.offset = poller.id + 1]
    BY <1>3 DEF Handled, OffsetAfter
  <2> QED BY <1>1, <2>1, AtRest DEF PollInv, PollTypes
<1> QED BY <1>2, <1>3

(* The loop gives its batch up and fetches again.                          *)
LEMMA RetriesInv ==
  ASSUME PollInv, Retries, UNCHANGED inbox,
         updates' \in [1..MaxUpdates -> {None, "RECEIVED", "PROCESSED", "FAILED"}],
         confirmed' \in 1..(MaxUpdates + 1), faults' \in 0..MaxFaults
  PROVE  PollInv'
<1>1. poller.offset \in 1..(MaxUpdates + 1) \union {None}
  BY DEF PollInv, PollTypes
<1> QED BY <1>1, AtRest DEF Retries

(* The loop goes on to mark its update.                                    *)
LEMMA MarkingInv ==
  ASSUME PollInv, poller.phase # "poll", NEW status \in {"PROCESSED", "FAILED", "THROWN"},
         poller' = Marking(status), UNCHANGED <<updates, inbox, confirmed>>,
         faults' \in 0..MaxFaults
  PROVE  PollInv'
BY DEF PollInv, PollTypes, Working, Marking

(* The offset is one of the updates or the next.                           *)
LEMMA FromType == PollInv => From \in 1..(MaxUpdates + 1)
BY DEF PollInv, PollTypes, From

(* A fetch takes a batch and confirms what is before it.                   *)
LEMMA getUpdatesInv == PollInv /\ getUpdates => PollInv'
<1> SUFFICES ASSUME PollInv, getUpdates PROVE PollInv'
  OBVIOUS
<1>1. From \in 1..(MaxUpdates + 1) /\ confirmed' = From /\ UNCHANGED <<updates, inbox, faults>>
  BY FromType DEF getUpdates, tables
<1>2. CASE /\ From <= Len(inbox)
           /\ poller' = [poller EXCEPT !.phase = "insert", !.upto = Len(inbox), !.id = From]
  <2>1. From \in 1..Len(inbox) /\ Len(inbox) \in 0..MaxUpdates /\ From \in 0..MaxUpdates
    BY <1>1, <1>2, ConstantsOK DEF PollInv, PollTypes
  <2>2. PollTypes'
    BY <1>1, <1>2, <2>1 DEF PollInv, PollTypes
  <2>3. poller'.phase = "insert" /\ poller'.upto = Len(inbox) /\ poller'.id = From
    BY <1>2 DEF PollInv, PollTypes
  <2> QED BY <1>1, <2>1, <2>2, <2>3 DEF PollInv, Working
<1>3. CASE UNCHANGED poller
  BY <1>1, <1>3 DEF PollInv, PollTypes, Working
<1> QED BY <1>2, <1>3 DEF getUpdates

(* The poll loop keeps its own invariant.                                  *)
LEMMA PollSteps ==
  ASSUME PollInv, Poll \/ Crash
  PROVE  PollInv'
<1>1. CASE getUpdates
  BY <1>1, getUpdatesInv
<1>2. CASE InsertUpdate
  <2>1. CASE updates[poller.id] = None
    <3>1. /\ poller' = [poller EXCEPT !.phase = "lookup"] /\ poller.phase = "insert"
          /\ updates' = [updates EXCEPT ![poller.id] = "RECEIVED"]
          /\ UNCHANGED <<inbox, confirmed, faults>>
      BY <1>2, <2>1 DEF InsertUpdate, bot
    <3> QED BY <3>1 DEF PollInv, PollTypes, Working
  <2>2. CASE updates[poller.id] # None
    <3>1. Handled /\ poller.phase # "poll" /\ UNCHANGED <<updates, inbox, confirmed, faults>>
      BY <1>2, <2>2 DEF InsertUpdate, bot
    <3> QED BY <3>1, HandledInv DEF PollInv, PollTypes
  <2> QED BY <2>1, <2>2
<1>3. CASE InsertUnknown
  <2>1. updates' \in [1..MaxUpdates -> {None, "RECEIVED", "PROCESSED", "FAILED"}]
    BY <1>3 DEF InsertUnknown, PollInv, PollTypes
  <2>2. Retries /\ UNCHANGED <<inbox, confirmed>> /\ faults' \in 0..MaxFaults
    BY <1>3, FaultType DEF InsertUnknown, bot, PollInv
  <2> QED BY <2>1, <2>2, RetriesInv DEF PollInv, PollTypes
<1>4. CASE LookupToken
  <2>1. UNCHANGED <<updates, inbox, confirmed, faults>> /\ poller.phase = "lookup"
    BY <1>4 DEF LookupToken, tables, bot
  <2>2. ASSUME NEW t \in Tokens, Finds(t), poller' = [poller EXCEPT !.phase = "consume", !.token = t]
        PROVE  PollInv'
    BY <2>1, <2>2 DEF Finds, PollInv, PollTypes, Working
  <2>3. CASE poller' = Marking("PROCESSED")
    BY <2>1, <2>3, MarkingInv DEF PollInv, PollTypes
  <2> QED BY <1>4, <2>2, <2>3 DEF LookupToken
<1>5. CASE Connect \/ ConnectUnknown \/ ConnectRefused \/ ConnectFails
  <2>1. /\ poller.phase = "consume" /\ UNCHANGED <<updates, inbox, confirmed>>
        /\ \E status \in {"PROCESSED", "FAILED", "THROWN"} : poller' = Marking(status)
    BY <1>5 DEF Connect, ConnectUnknown, ConnectRefused, ConnectFails, Connects, tables, bot
  <2>2. UNCHANGED faults \/ Fault
    BY <1>5 DEF Connect, ConnectUnknown, ConnectRefused, ConnectFails
  <2>3. faults' \in 0..MaxFaults
    BY <2>2, FaultType DEF PollInv, PollTypes
  <2> QED BY <2>1, <2>3, MarkingInv
<1>6. CASE MarkUpdate
  <2>1. /\ poller.phase # "poll" /\ UNCHANGED <<inbox, confirmed, faults>>
        /\ updates' \in [1..MaxUpdates -> {None, "RECEIVED", "PROCESSED", "FAILED"}]
        /\ Retries \/ Handled
    BY <1>6 DEF MarkUpdate, bot, PollInv, PollTypes
  <2> QED BY <2>1, HandledInv, RetriesInv DEF PollInv, PollTypes
<1>7. CASE PollFails
  <2>1. Retries /\ UNCHANGED <<updates, inbox>> /\ faults' \in 0..MaxFaults
    BY <1>7, FaultType DEF PollFails, tables, PollInv
  <2>2. confirmed' \in 1..(MaxUpdates + 1)
    BY <1>7, FromType DEF PollFails, PollInv, PollTypes
  <2> QED BY <2>1, <2>2, RetriesInv DEF PollInv, PollTypes
<1>8. CASE Crash
  <2>1. UNCHANGED <<updates, inbox, confirmed>> /\ poller' = Idle /\ faults' \in 0..MaxFaults
    BY <1>8, FaultType DEF Crash, tables, bot, PollInv
  <2> QED BY <2>1, ConstantsOK DEF PollInv, PollTypes, Working, Idle
<1> QED BY <1>1, <1>2, <1>3, <1>4, <1>5, <1>6, <1>7, <1>8 DEF Poll

-------------------------------------------------------------------------------
(* Requests of guardians                                                   *)

(* A chat presents a token, its own or a made-up one.                      *)
LEMMA WriteToBotInv ==
  ASSUME Inv, NEW chat \in Chats, NEW t \in Tokens \union {None}, WriteToBot(chat, t)
  PROVE  Inv'
<1> DEFINE message == [chat |-> chat, token |-> t]
<1>1. /\ inbox' = Append(inbox, message) /\ Len(inbox) < MaxUpdates
      /\ UNCHANGED <<tables, confirmed, poller, leaving, faults, history>>
  BY DEF WriteToBot
<1>2. /\ inbox \in Seq([chat : Chats, token : Tokens \union {None}])
      /\ message \in [chat : Chats, token : Tokens \union {None}]
  BY DEF Inv, PollInv, PollTypes
<1> HIDE DEF message
<1>3. /\ inbox' \in Seq([chat : Chats, token : Tokens \union {None}])
      /\ Len(inbox') = Len(inbox) + 1 /\ DOMAIN inbox \subseteq DOMAIN inbox'
      /\ \A u \in DOMAIN inbox : inbox'[u] = inbox[u]
      /\ DOMAIN inbox = 1..Len(inbox) /\ Len(inbox) \in Nat
  BY <1>1, <1>2
<1>4. PollInv'
  BY <1>1, <1>3, ConstantsOK DEF Inv, PollInv, PollTypes, Working, tables
<1>5. LinkTypes' /\ Owners' /\ Once' /\ Revoked'
  BY <1>1 DEF Inv, LinkInv, LinkTypes, Owners, Once, Revoked, Issued, tables, history
<1>6. LinkedByConsent'
  <2> SUFFICES ASSUME NEW g \in Guardians, linked[g] # None
               PROVE  \E u \in DOMAIN inbox' : /\ inbox'[u].chat = linked[g]
                        /\ inbox'[u].token # None /\ owner[inbox'[u].token] = g
    BY <1>1 DEF LinkedByConsent, tables, history
  <2>1. PICK u \in DOMAIN inbox :
          inbox[u].chat = linked[g] /\ inbox[u].token # None /\ owner[inbox[u].token] = g
    BY DEF Inv, LinkInv, LinkedByConsent
  <2> QED BY <1>3, <2>1
<1> QED BY <1>4, <1>5, <1>6 DEF Inv, LinkInv

(* Tokens are deleted: those unused are revoked.                           *)
LEMMA Deleting ==
  ASSUME LinkInv, NEW gone \in SUBSET {t \in Tokens : Issued(t)}
  PROVE  /\ Kept(gone) \in [Tokens -> {None} \union TokenRows]
         /\ \A t \in Tokens : Kept(gone)[t] = IF t \in gone THEN None ELSE tokens[t]
         /\ \A t \in Unused(gone) : t \in gone /\ owner[t] # None /\ used[t] = 0
         /\ Unused(gone) \subseteq Tokens
<1>1. Kept(gone) \in [Tokens -> {None} \union TokenRows]
  BY DEF LinkInv, LinkTypes, Kept
<1>2. ASSUME NEW t \in Unused(gone) PROVE t \in gone /\ owner[t] # None /\ used[t] = 0
  <2>1. t \in gone /\ t \in Tokens /\ Issued(t) /\ ~tokens[t].used
    BY <1>2 DEF Unused
  <2>2. tokens[t] \in TokenRows
    BY <2>1 DEF Issued, LinkInv, LinkTypes
  <2>3. tokens[t].guardian \in Guardians
    BY <2>2 DEF TokenRows
  <2> QED BY <2>1, <2>3, ConstantsOK DEF LinkInv, Owners, Once
<1> QED BY <1>1, <1>2 DEF Kept, Unused

(* A new link revokes the unused tokens of its guardian.                   *)
LEMMA issueConnectLinkInv ==
  ASSUME LinkInv, NEW g \in Guardians, NEW t \in Tokens, issueConnectLink(g, t)
  PROVE  LinkInv'
<1> DEFINE gone == TokensOf(g) \union {x \in Tokens : Issued(x) /\ ~tokens[x].live}
           row  == [guardian |-> g, used |-> FALSE, live |-> TRUE]
<1>1. /\ owner[t] = None /\ owner' = [owner EXCEPT ![t] = g]
      /\ tokens' = [Kept(gone) EXCEPT ![t] = row]
      /\ revoked' = revoked \union Unused(gone)
      /\ UNCHANGED <<linked, inbox, leaving, used>>
  BY DEF issueConnectLink, bot
<1>2. gone \subseteq {x \in Tokens : Issued(x)}
  BY DEF TokensOf
<1>3. row \in TokenRows /\ row # None /\ row.guardian = g
  <2>1. row \in TokenRows
    BY DEF TokenRows
  <2> QED BY <2>1, NoneAssumption
<1>4. ~Issued(t)
  <2> SUFFICES ASSUME Issued(t) PROVE FALSE
    OBVIOUS
  <2>1. tokens[t] \in TokenRows
    BY DEF Issued, LinkInv, LinkTypes
  <2> QED BY <1>1, <2>1, ConstantsOK DEF LinkInv, Owners, TokenRows
<1> HIDE DEF gone, row
<1>5. LinkTypes'
  BY <1>1, <1>2, <1>3, Deleting DEF LinkInv, LinkTypes
<1>6. /\ \A x \in Tokens \ {t} : /\ owner'[x] = owner[x]
                                 /\ tokens'[x] = IF x \in gone THEN None ELSE tokens[x]
      /\ owner'[t] = g /\ tokens'[t] = row
  BY <1>1, <1>2, Deleting DEF LinkInv, LinkTypes
<1>7. Owners'
  BY <1>3, <1>6 DEF LinkInv, Owners, Issued
<1>8. Once' /\ Revoked'
  <2>1. used[t] = 0 /\ t \notin revoked
    BY <1>1 DEF LinkInv, Once, Revoked
  <2>2. t \notin gone
    BY <1>2, <1>4
  <2>3. Once'
    BY <1>1, <1>6, <2>1 DEF LinkInv, Once, Issued
  <2>4. ASSUME NEW x \in revoked' PROVE ~Issued(x)' /\ owner'[x] # None /\ used'[x] = 0
    <3>1. CASE x \in revoked
      BY <1>1, <1>6, <2>1, <3>1 DEF LinkInv, LinkTypes, Revoked, Issued
    <3>2. CASE x \in Unused(gone)
      BY <1>1, <1>2, <1>6, <2>2, <3>2, Deleting DEF Issued
    <3> QED BY <1>1, <2>4, <3>1, <3>2
  <2> QED BY <2>3, <2>4 DEF Revoked
<1>9. LinkedByConsent'
  <2> SUFFICES ASSUME NEW h \in Guardians, linked[h] # None
               PROVE  \E u \in DOMAIN inbox : /\ inbox[u].chat = linked[h]
                        /\ inbox[u].token # None /\ owner'[inbox[u].token] = h
    BY <1>1 DEF LinkedByConsent
  <2>1. PICK u \in DOMAIN inbox :
          inbox[u].chat = linked[h] /\ inbox[u].token # None /\ owner[inbox[u].token] = h
    BY DEF LinkInv, LinkedByConsent
  <2>2. owner'[inbox[u].token] = owner[inbox[u].token]
    BY <1>1, <2>1, ConstantsOK DEF LinkInv, LinkTypes
  <2> QED BY <2>1, <2>2
<1> QED BY <1>5, <1>7, <1>8, <1>9 DEF LinkInv

(* A disconnect ends the connection first,                                 *)
LEMMA disconnectInv ==
  ASSUME LinkInv, NEW g \in Guardians, disconnect(g)
  PROVE  LinkInv'
BY DEF disconnect, bot, history, LinkInv, LinkTypes, Owners, Once, Revoked, LinkedByConsent, Issued

(* and then revokes the unused tokens.                                     *)
LEMMA disconnectEndsInv ==
  ASSUME LinkInv, NEW g \in Guardians, disconnectEnds(g)
  PROVE  LinkInv'
<1> DEFINE gone == TokensOf(g)
<1>1. /\ tokens' = Kept(gone) /\ revoked' = revoked \union Unused(gone)
      /\ leaving' \subseteq Guardians
      /\ UNCHANGED <<linked, inbox, owner, used>>
  BY DEF disconnectEnds, bot, LinkInv, LinkTypes
<1>2. gone \subseteq {x \in Tokens : Issued(x)}
  BY DEF TokensOf
<1> HIDE DEF gone
<1>3. \A x \in Tokens : tokens'[x] = IF x \in gone THEN None ELSE tokens[x]
  BY <1>1, <1>2, Deleting
<1>4. LinkTypes'
  BY <1>1, <1>2, Deleting DEF LinkInv, LinkTypes
<1>5. Owners' /\ Once' /\ LinkedByConsent'
  BY <1>1, <1>3 DEF LinkInv, Owners, Once, LinkedByConsent, Issued
<1>6. ASSUME NEW x \in revoked' PROVE ~Issued(x)' /\ owner'[x] # None /\ used'[x] = 0
  <2>1. CASE x \in revoked
    BY <1>1, <1>3, <2>1 DEF LinkInv, LinkTypes, Revoked, Issued
  <2>2. CASE x \in Unused(gone)
    BY <1>1, <1>2, <1>3, <2>2, Deleting DEF Issued
  <2> QED BY <1>1, <1>6, <2>1, <2>2
<1> QED BY <1>4, <1>5, <1>6 DEF LinkInv, Revoked

(* A token runs out.                                                       *)
LEMMA ExpireInv ==
  ASSUME LinkInv, NEW t \in Tokens, Expire(t)
  PROVE  LinkInv'
<1> DEFINE row == [tokens[t] EXCEPT !.live = FALSE]
<1>1. /\ Issued(t) /\ tokens' = [tokens EXCEPT ![t] = row]
      /\ UNCHANGED <<linked, inbox, leaving, owner, used, revoked>>
  BY DEF Expire, bot, history
<1>2. tokens[t] \in TokenRows
  BY <1>1 DEF Issued, LinkInv, LinkTypes
<1>3. /\ row \in TokenRows /\ row # None
      /\ row.guardian = tokens[t].guardian /\ row.used = tokens[t].used
  BY <1>2, NoneAssumption DEF TokenRows
<1> HIDE DEF row
<1>4. tokens' \in [Tokens -> {None} \union TokenRows] /\ \A x \in Tokens : Issued(x)' <=> Issued(x)
  BY <1>1, <1>3 DEF LinkInv, LinkTypes, Issued
<1> QED BY <1>1, <1>3, <1>4 DEF LinkInv, LinkTypes, Owners, Once, Revoked, LinkedByConsent, Issued

(* An element of a sequence.                                               *)
LEMMA Element ==
  ASSUME NEW S, NEW s \in Seq(S), NEW i \in 1..Len(s)
  PROVE  s[i] \in S /\ i \in DOMAIN s
OBVIOUS

(* The message whose token is being consumed.                              *)
LEMMA InHands ==
  ASSUME PollInv, poller.phase = "consume"
  PROVE  /\ poller.token \in Tokens /\ poller.id \in DOMAIN inbox
         /\ inbox[poller.id].token = poller.token /\ inbox[poller.id].chat \in Chats
<1>1. /\ poller.token \in Tokens /\ poller.id \in 1..Len(inbox)
      /\ inbox[poller.id].token = poller.token
  BY DEF PollInv, Working
<1>2. inbox \in Seq([chat : Chats, token : Tokens \union {None}])
  BY DEF PollInv, PollTypes
<1>3. inbox[poller.id] \in [chat : Chats, token : Tokens \union {None}] /\ poller.id \in DOMAIN inbox
  BY <1>1, <1>2, Element
<1> QED BY <1>1, <1>3

(* A consumed token connects its guardian with the chat it came from.      *)
LEMMA ConnectsInv ==
  ASSUME Inv, Connects
  PROVE  LinkInv'
<1> DEFINE t == poller.token
           chat == inbox[poller.id].chat
           g == tokens[t].guardian
           row == [tokens[t] EXCEPT !.used = TRUE]
<1>1. /\ t \in Tokens /\ poller.id \in DOMAIN inbox /\ inbox[poller.id].token = t
      /\ chat \in Chats
  BY InHands DEF Connects, Inv
<1>2. /\ Issued(t) /\ ~tokens[t].used
      /\ tokens' = [tokens EXCEPT ![t] = row] /\ linked' = [linked EXCEPT ![g] = chat]
      /\ used' = [used EXCEPT ![t] = used[t] + 1]
      /\ UNCHANGED <<inbox, leaving, owner, revoked>>
  BY DEF Connects, Consumable, bot
<1>3. tokens[t] \in TokenRows
  BY <1>1, <1>2 DEF Issued, Inv, LinkInv, LinkTypes
<1>4. /\ row \in TokenRows /\ row # None /\ row.guardian = g /\ row.used = TRUE
      /\ g \in Guardians
  BY <1>3, NoneAssumption DEF TokenRows
<1>5. owner[t] = g /\ g # None /\ used[t] = 0
  BY <1>1, <1>2, <1>4, ConstantsOK DEF Inv, LinkInv, Owners, Once
<1> HIDE DEF t, chat, g, row
<1>6. LinkTypes'
  BY <1>1, <1>2, <1>4 DEF Inv, LinkInv, LinkTypes
<1>7. Owners' /\ Once'
  BY <1>1, <1>2, <1>4, <1>5 DEF Inv, LinkInv, LinkTypes, Owners, Once, Issued
<1>8. Revoked'
  BY <1>1, <1>2, <1>4 DEF Inv, LinkInv, LinkTypes, Revoked, Issued
<1>9. LinkedByConsent'
  <2> SUFFICES ASSUME NEW h \in Guardians, linked'[h] # None
               PROVE  \E u \in DOMAIN inbox : /\ inbox[u].chat = linked'[h]
                        /\ inbox[u].token # None /\ owner[inbox[u].token] = h
    BY <1>2 DEF LinkedByConsent
  <2>1. CASE h = g
    <3>1. linked'[h] = chat /\ t # None
      BY <1>1, <1>2, <1>4, <2>1, ConstantsOK DEF Inv, LinkInv, LinkTypes
    <3> QED BY <1>1, <1>5, <2>1, <3>1 DEF chat
  <2>2. CASE h # g
    BY <1>2, <2>2 DEF Inv, LinkInv, LinkTypes, LinkedByConsent
  <2> QED BY <2>1, <2>2
<1> QED BY <1>6, <1>7, <1>8, <1>9 DEF LinkInv

-------------------------------------------------------------------------------
(* All steps                                                               *)

(* Every step keeps the invariant.                                         *)
LEMMA NextInv == Inv /\ [Next]_vars => Inv'
<1> SUFFICES ASSUME Inv, [Next]_vars PROVE Inv'
  OBVIOUS
<1>1. ASSUME NEW g \in Guardians, disconnect(g) PROVE Inv'
  BY <1>1, disconnectInv DEF disconnect, bot, Inv, PollInv, PollTypes, Working
<1>2. ASSUME NEW g \in Guardians, disconnectEnds(g) PROVE Inv'
  BY <1>2, disconnectEndsInv DEF disconnectEnds, bot, Inv, PollInv, PollTypes, Working
<1>3. ASSUME NEW g \in Guardians, NEW t \in Tokens, issueConnectLink(g, t) PROVE Inv'
  BY <1>3, issueConnectLinkInv DEF issueConnectLink, bot, Inv, PollInv, PollTypes, Working
<1>4. ASSUME NEW t \in Tokens, Expire(t) PROVE Inv'
  BY <1>4, ExpireInv DEF Expire, bot, Inv, PollInv, PollTypes, Working
<1>5. ASSUME NEW chat \in Chats, NEW t \in Tokens \union {None}, WriteToBot(chat, t) PROVE Inv'
  BY <1>5, WriteToBotInv
<1>6. CASE Connect \/ ConnectUnknown
  BY <1>6, ConnectsInv, PollSteps DEF Connect, ConnectUnknown, Poll, Inv
<1>7. CASE \/ getUpdates \/ InsertUpdate \/ InsertUnknown \/ LookupToken
           \/ ConnectRefused \/ ConnectFails \/ MarkUpdate \/ PollFails \/ Crash
  <2>1. UNCHANGED <<linked, tokens, owner, used, revoked, inbox>> /\ leaving' \subseteq Guardians
    BY <1>7 DEF getUpdates, InsertUpdate, InsertUnknown, LookupToken, ConnectRefused, ConnectFails,
         MarkUpdate, PollFails, Crash, tables, bot, history, Inv, LinkInv, LinkTypes
  <2>2. PollInv'
    BY <1>7, PollSteps DEF Poll, Inv
  <2> QED BY <2>1, <2>2, LinksKept DEF Inv
<1>8. CASE UNCHANGED vars
  BY <1>8 DEF vars, tables, bot, history, Inv, LinkInv, LinkTypes, Owners, Once, Revoked,
       LinkedByConsent, Issued, PollInv, PollTypes, Working
<1> QED BY <1>1, <1>2, <1>3, <1>4, <1>5, <1>6, <1>7, <1>8 DEF Next, Requests, Poll

-------------------------------------------------------------------------------
(* Theorems                                                                *)

(* Every variable keeps its type.                                          *)
THEOREM TypeCorrect == Spec => []TypeOK
<1>1. Inv => TypeOK
  BY DEF Inv, LinkInv, PollInv, LinkTypes, PollTypes, TypeOK
<1> QED BY <1>1, InitInv, NextInv, PTL DEF Spec

(* A chat gets connected only to the guardian whose token it presented.    *)
THEOREM Consent == Spec => []LinkedByConsent
<1>1. Inv => LinkedByConsent
  BY DEF Inv, LinkInv
<1> QED BY <1>1, InitInv, NextInv, PTL DEF Spec

(* A token makes one connection at most.                                   *)
THEOREM LinksOnce == Spec => []TokensLinkOnce
<1>1. Inv => TokensLinkOnce
  BY DEF Inv, LinkInv, LinkTypes, Once, TokensLinkOnce
<1> QED BY <1>1, InitInv, NextInv, PTL DEF Spec

(* A token that was revoked unused stays unused.                           *)
THEOREM RevokedUseless == Spec => []RevokedNeverLink
<1>1. Inv => RevokedNeverLink
  BY DEF Inv, LinkInv, Revoked, RevokedNeverLink
<1> QED BY <1>1, InitInv, NextInv, PTL DEF Spec

(* A step that touches the connections is a step of ChatLinks.             *)
LEMMA StepLinks == Inv /\ [Next]_vars => [Links!Next]_linked
<1> SUFFICES ASSUME Inv, [Next]_vars PROVE [Links!Next]_linked
  OBVIOUS
<1>1. ASSUME NEW g \in Guardians, disconnect(g) PROVE Links!Next
  BY <1>1 DEF disconnect, Links!Next, Links!Unlink
<1>2. CASE Connect \/ ConnectUnknown
  <2> DEFINE t == poller.token
             chat == inbox[poller.id].chat
             g == tokens[t].guardian
  <2>1. /\ t \in Tokens /\ chat \in Chats /\ Issued(t)
        /\ FreeChat(g, chat) /\ linked' = [linked EXCEPT ![g] = chat]
    BY <1>2, InHands DEF Connect, ConnectUnknown, Connects, Consumable, Inv
  <2>2. g \in Guardians
    BY <2>1 DEF Issued, Inv, LinkInv, LinkTypes, TokenRows
  <2> HIDE DEF t, chat, g
  <2>3. Links!Link(g, chat)
    BY <2>1 DEF FreeChat, Links!Link, Links!Free
  <2> QED BY <2>1, <2>2, <2>3 DEF Links!Next
<1>3. CASE \/ \E g \in Guardians : disconnectEnds(g) \/ \E t \in Tokens : issueConnectLink(g, t)
           \/ \E t \in Tokens : Expire(t)
           \/ \E chat \in Chats, t \in Tokens \union {None} : WriteToBot(chat, t)
           \/ getUpdates \/ InsertUpdate \/ InsertUnknown \/ LookupToken
           \/ ConnectRefused \/ ConnectFails \/ MarkUpdate \/ PollFails \/ Crash
           \/ UNCHANGED vars
  BY <1>3 DEF disconnectEnds, issueConnectLink, Expire, WriteToBot, getUpdates, InsertUpdate,
       InsertUnknown, LookupToken, ConnectRefused, ConnectFails, MarkUpdate, PollFails, Crash,
       tables, vars
<1> QED BY <1>1, <1>2, <1>3 DEF Next, Requests, Poll

(* TelegramLink implements ChatLinks, on which the delivery queue is built.*)
THEOREM Refinement == Spec => ImplementsChatLinks
<1>1. Init => Links!Init
  BY DEF Init, Links!Init
<1> QED BY <1>1, InitInv, NextInv, StepLinks, PTL DEF Spec, ImplementsChatLinks, Links!Spec
================================================================================
