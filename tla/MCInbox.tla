------------------------------ MODULE MCInbox ------------------------------
(* Inbox on an instance small enough for TLC. *)
EXTENDS Inbox
=============================================================================
