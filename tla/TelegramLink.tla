------------------------------ MODULE TelegramLink ------------------------------
(***************************************************************************)
(* Linking a guardian's account to a Telegram chat: the one-time link      *)
(* tokens of TelegramService, the updates it reads by long polling         *)
(* (TelegramPollingService) and the two statements of disconnect.  Every   *)
(* database statement or transaction is one step; the poller, the API      *)
(* requests of guardians and the passing of time interleave between them.  *)
(***************************************************************************)
EXTENDS Naturals, Sequences

CONSTANTS
  Guardians, Chats,
  Tokens,        \* the random link tokens, each issued at most once
  None,          \* "no value"; as a message, one that starts no connection
  MaxUpdates,    \* bound on the messages the chats write
  MaxFaults      \* bound on failed statements, failed requests and crashes

ASSUME ConstantsOK ==
  /\ MaxUpdates \in Nat /\ MaxFaults \in Nat
  /\ None \notin Chats \union Tokens \union Guardians

(* What a row of telegram_link_tokens says: whose it is, whether it has    *)
(* been used, whether it has not expired.                                  *)
TokenRows == [guardian : Guardians, used : BOOLEAN, live : BOOLEAN]

ASSUME NoneAssumption == None \notin TokenRows

VARIABLES
  linked,        \* telegram_connections: the CONNECTED chat of a guardian
  tokens,        \* telegram_link_tokens: guardian, used, live (not expired)
  updates,       \* telegram_webhook_updates: the status of each update ID
  inbox,         \* messages written to the bot; the position is the update ID
  confirmed,     \* Telegram keeps the updates from this ID on
  poller,        \* the poll loop and the update handleUpdate is working on
  leaving,       \* guardians between the two statements of disconnect
  faults,        \* failures so far
  owner,         \* history: the guardian each token was issued to
  used,          \* history: how many connections each token made
  revoked        \* history: unused tokens replaced by a new one or deleted

tables  == <<linked, tokens, updates>>
bot     == <<inbox, confirmed>>
history == <<owner, used, revoked>>
vars    == <<tables, bot, poller, leaving, faults, history>>

Idle == [phase |-> "poll", offset |-> None, upto |-> 0, id |-> 0, token |-> None, mark |-> None]

Init ==
  /\ linked = [g \in Guardians |-> None]
  /\ tokens = [t \in Tokens |-> None]
  /\ updates = [u \in 1..MaxUpdates |-> None]
  /\ inbox = <<>>
  /\ confirmed = 1
  /\ poller = Idle
  /\ leaving = {}
  /\ faults = 0
  /\ owner = [t \in Tokens |-> None]
  /\ used = [t \in Tokens |-> 0]
  /\ revoked = {}

Fault == faults < MaxFaults /\ faults' = faults + 1

Issued(t) == tokens[t] # None

-------------------------------------------------------------------------------
(* Guardians                                                               *)

TokensOf(g) == {t \in Tokens : Issued(t) /\ tokens[t].guardian = g}

KeptAll(gone) == tokens            \* mutation: the old links of a guardian stay

Kept(gone) == [t \in Tokens |-> IF t \in gone THEN None ELSE tokens[t]]

Unused(gone) == {t \in gone : ~tokens[t].used}

(* One transaction: the guardian's tokens and all expired ones make room.  *)
issueConnectLink(g, t) ==
  LET gone == TokensOf(g) \union {x \in Tokens : Issued(x) /\ ~tokens[x].live}
  IN /\ owner[t] = None
     /\ tokens' = [Kept(gone) EXCEPT ![t] = [guardian |-> g, used |-> FALSE, live |-> TRUE]]
     /\ owner' = [owner EXCEPT ![t] = g]
     /\ revoked' = revoked \union Unused(gone)
     /\ UNCHANGED <<linked, updates, bot, poller, leaving, faults, used>>

disconnect(g) ==
  /\ g \notin leaving
  /\ linked' = [linked EXCEPT ![g] = None]
  /\ leaving' = leaving \union {g}
  /\ UNCHANGED <<tokens, updates, bot, poller, faults, history>>

disconnectEnds(g) ==
  /\ g \in leaving
  /\ leaving' = leaving \ {g}
  /\ tokens' = Kept(TokensOf(g))
  /\ revoked' = revoked \union Unused(TokensOf(g))
  /\ UNCHANGED <<linked, updates, bot, poller, faults, owner, used>>

Expire(t) ==
  /\ Issued(t) /\ tokens[t].live
  /\ tokens' = [tokens EXCEPT ![t].live = FALSE]
  /\ UNCHANGED <<linked, updates, bot, poller, leaving, faults, history>>

(* Anyone who holds a link can open it in any chat, and more than once.    *)
WriteToBot(chat, t) ==
  /\ Len(inbox) < MaxUpdates
  /\ t \in {None} \union {x \in Tokens : owner[x] # None}
  /\ inbox' = Append(inbox, [chat |-> chat, token |-> t])
  /\ UNCHANGED <<tables, confirmed, poller, leaving, faults, history>>

-------------------------------------------------------------------------------
(* The poll loop.  Asking from an offset confirms the updates before it.   *)

From == IF poller.offset = None THEN confirmed ELSE poller.offset

getUpdates ==
  /\ poller.phase = "poll"
  /\ confirmed' = From
  /\ \/ /\ From <= Len(inbox)
        /\ poller' = [poller EXCEPT !.phase = "insert", !.upto = Len(inbox), !.id = From]
     \/ /\ From > Len(inbox) /\ From > confirmed    \* an empty answer
        /\ UNCHANGED poller
  /\ UNCHANGED <<tables, inbox, leaving, faults, history>>

OffsetAfter(u) == u + 1

(* The update is through; the next of the batch, or the next request.      *)
Handled ==
  LET next == OffsetAfter(poller.id)
  IN poller' = IF next <= poller.upto
               THEN [Idle EXCEPT !.phase = "insert", !.offset = next,
                                 !.upto = poller.upto, !.id = next]
               ELSE [Idle EXCEPT !.offset = next]

GivesUp == poller' = [Idle EXCEPT !.phase = "stopped"]   \* mutation: the loop ends

(* poll's catch: after a pause the same update is asked for again.         *)
Retries == poller' = [Idle EXCEPT !.offset = poller.offset]

(* INSERT ... ON CONFLICT DO NOTHING                                       *)
InsertUpdate ==
  /\ poller.phase = "insert"
  /\ IF updates[poller.id] = None
     THEN /\ updates' = [updates EXCEPT ![poller.id] = "RECEIVED"]
          /\ poller' = [poller EXCEPT !.phase = "lookup"]
     ELSE /\ Handled
          /\ UNCHANGED updates
  /\ UNCHANGED <<linked, tokens, bot, leaving, faults, history>>

(* The INSERT is committed, its answer is lost.                            *)
InsertUnknown ==
  /\ poller.phase = "insert" /\ Fault
  /\ updates' = [updates EXCEPT ![poller.id] = IF @ = None THEN "RECEIVED" ELSE @]
  /\ Retries
  /\ UNCHANGED <<linked, tokens, bot, leaving, history>>

ConsumableAgain(t) == Issued(t) /\ tokens[t].live    \* mutation: "usedAt" is ignored

Consumable(t) == Issued(t) /\ tokens[t].live /\ ~tokens[t].used

(* Mutation: the token is not looked up by its hash.                       *)
FindsAny(t) == Consumable(t)

Finds(t) == t = inbox[poller.id].token /\ Consumable(t)

Marking(status) == [poller EXCEPT !.phase = "mark", !.mark = status]

(* SELECT; without a usable token the chat is told so.                     *)
LookupToken ==
  /\ poller.phase = "lookup"
  /\ \/ \E t \in Tokens :
          /\ Finds(t)
          /\ poller' = [poller EXCEPT !.phase = "consume", !.token = t]
     \/ /\ \A t \in Tokens : ~Finds(t)
        /\ poller' = Marking("PROCESSED")
  /\ UNCHANGED <<tables, bot, leaving, faults, history>>

AnyChat(g, chat) == TRUE           \* mutation: no unique index on connected chats

FreeChat(g, chat) == \A other \in Guardians \ {g} : linked[other] # chat

(* The transaction of handleUpdate.  A token deleted, used or expired      *)
(* since the lookup fails it (FAILED), and so does a chat of another       *)
(* guardian, which is an answer all the same (PROCESSED).                  *)
Connects ==
  LET t    == poller.token
      chat == inbox[poller.id].chat
  IN /\ poller.phase = "consume"
     /\ Consumable(t) /\ FreeChat(tokens[t].guardian, chat)
     /\ tokens' = [tokens EXCEPT ![t].used = TRUE]
     /\ linked' = [linked EXCEPT ![tokens[t].guardian] = chat]
     /\ used' = [used EXCEPT ![t] = @ + 1]
     /\ UNCHANGED <<updates, bot, leaving, owner, revoked>>

Connect == Connects /\ poller' = Marking("PROCESSED") /\ UNCHANGED faults

ConnectUnknown == Connects /\ Fault /\ poller' = Marking("THROWN")

ConnectRefused ==
  LET t == poller.token
  IN /\ poller.phase = "consume"
     /\ \/ ~Consumable(t) /\ poller' = Marking("FAILED")
        \/ /\ Consumable(t) /\ ~FreeChat(tokens[t].guardian, inbox[poller.id].chat)
           /\ poller' = Marking("PROCESSED")
     /\ UNCHANGED <<tables, bot, leaving, faults, history>>

ConnectFails ==
  /\ poller.phase = "consume" /\ Fault
  /\ poller' = Marking("THROWN")
  /\ UNCHANGED <<tables, bot, leaving, history>>

(* markUpdate; after an unexpected error handleUpdate rethrows it.         *)
MarkUpdate ==
  /\ poller.phase = "mark"
  /\ updates' = [updates EXCEPT ![poller.id] =
                  IF poller.mark = "PROCESSED" THEN "PROCESSED" ELSE "FAILED"]
  /\ IF poller.mark = "THROWN" THEN Retries ELSE Handled
  /\ UNCHANGED <<linked, tokens, bot, leaving, faults, history>>

(* Any other request or statement of the loop fails; a request whose       *)
(* answer is lost has confirmed its offset.                                *)
PollFails ==
  /\ poller.phase # "consume" /\ Fault
  /\ Retries
  /\ confirmed' \in {confirmed, IF poller.phase = "poll" THEN From ELSE confirmed}
  /\ UNCHANGED <<tables, inbox, leaving, history>>

(* A restart forgets the offset, and a disconnect halfway through.         *)
Crash ==
  /\ Fault
  /\ poller' = Idle
  /\ leaving' = {}
  /\ UNCHANGED <<tables, bot, history>>

-------------------------------------------------------------------------------
Requests ==
  \/ \E g \in Guardians :
       disconnect(g) \/ disconnectEnds(g) \/ \E t \in Tokens : issueConnectLink(g, t)
  \/ \E t \in Tokens : Expire(t)
  \/ \E chat \in Chats, t \in Tokens \union {None} : WriteToBot(chat, t)

Poll ==
  \/ getUpdates \/ InsertUpdate \/ InsertUnknown \/ LookupToken
  \/ Connect \/ ConnectUnknown \/ ConnectRefused \/ ConnectFails
  \/ MarkUpdate \/ PollFails

Next == Requests \/ Poll \/ Crash

Spec == Init /\ [][Next]_vars

(* The loop goes on: requests and statements end, pauses pass.             *)
FairSpec == Spec /\ WF_vars(Poll)

-------------------------------------------------------------------------------
(* Properties                                                              *)

Links == INSTANCE ChatLinks

TypeOK ==
  /\ linked \in [Guardians -> Chats \union {None}]
  /\ tokens \in [Tokens -> {None} \union TokenRows]
  /\ updates \in [1..MaxUpdates -> {None, "RECEIVED", "PROCESSED", "FAILED"}]
  /\ inbox \in Seq([chat : Chats, token : Tokens \union {None}]) /\ Len(inbox) <= MaxUpdates
  /\ confirmed \in 1..(MaxUpdates + 1)
  /\ poller \in [phase : {"poll", "insert", "lookup", "consume", "mark"},
                 offset : 1..(MaxUpdates + 1) \union {None}, upto : 0..MaxUpdates,
                 id : 0..MaxUpdates, token : Tokens \union {None},
                 mark : {None, "PROCESSED", "FAILED", "THROWN"}]
  /\ leaving \subseteq Guardians
  /\ faults \in 0..MaxFaults
  /\ owner \in [Tokens -> Guardians \union {None}]
  /\ used \in [Tokens -> Nat]
  /\ revoked \subseteq Tokens

(* A guardian is connected to a chat only because that chat presented a    *)
(* token issued to this very guardian.                                     *)
LinkedByConsent ==
  \A g \in Guardians : linked[g] # None =>
    \E u \in DOMAIN inbox :
      /\ inbox[u].chat = linked[g]
      /\ inbox[u].token # None /\ owner[inbox[u].token] = g

(* A link connects one chat once, however often its update is fetched, its *)
(* transaction's answer lost or the link opened in other chats.            *)
TokensLinkOnce == \A t \in Tokens : used[t] <= 1

(* A link that was replaced by a newer one, or deleted by a finished       *)
(* disconnect, never connects a chat, even when the poller had found it    *)
(* before.                                                                 *)
RevokedNeverLink == \A t \in revoked : used[t] = 0

(* A confirmed update has been processed (telegram.service.ts:139: the     *)
(* worker processes an update "exactly once").                             *)
ConfirmedIsProcessed ==
  \A u \in 1..(confirmed - 1) : updates[u] \in {"PROCESSED", "FAILED"}

(* Every message to the bot is recorded in the end, through failed         *)
(* requests, failed statements and restarts.                               *)
EveryUpdateRecorded ==
  \A u \in 1..MaxUpdates : (u <= Len(inbox)) ~> (updates[u] # None)

(* Connections only come and go one at a time and never share a chat: what *)
(* the delivery queue assumes of them.                                     *)
ImplementsChatLinks == Links!Spec
===============================================================================
