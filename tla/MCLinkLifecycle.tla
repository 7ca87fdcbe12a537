-------------------------- MODULE MCLinkLifecycle --------------------------
(***************************************************************************)
(* LinkLifecycle for two chats, one of which can vouch for the other.      *)
(***************************************************************************)
EXTENDS LinkLifecycle

MCChats == 1..2
=============================================================================
