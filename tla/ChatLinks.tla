------------------------------- MODULE ChatLinks -------------------------------
(***************************************************************************)
(* What the rest of the system may assume of telegram_connections: a       *)
(* guardian has at most one connected chat, and a chat at most one         *)
(* guardian.  TelegramLink implements this module; NotificationDelivery is *)
(* built on it.                                                            *)
(***************************************************************************)
CONSTANTS
  Guardians, Chats,
  None               \* "not connected"

VARIABLE linked      \* the connected chat of each guardian

Init == linked = [g \in Guardians |-> None]

Free(chat, g) == \A other \in Guardians \ {g} : linked[other] # chat

Link(g, chat) ==
  /\ Free(chat, g)
  /\ linked' = [linked EXCEPT ![g] = chat]

Unlink(g) == linked' = [linked EXCEPT ![g] = None]

Next == \E g \in Guardians : Unlink(g) \/ \E chat \in Chats : Link(g, chat)

Spec == Init /\ [][Next]_linked
===============================================================================
