----------------------------- MODULE MCTelegramLink -----------------------------
(***************************************************************************)
(* Instance of TelegramLink for TLC: two guardians, two chats.             *)
(***************************************************************************)
EXTENDS TelegramLink
===============================================================================
