----------------------------- MODULE MCTicketDesk ----------------------------
(* Two tabs and two workspaces; without a sign-in there is no key to send.     *)
EXTENDS TicketDesk, TLC

MCApiKeys == [key1 |-> "acme", key2 |-> "globex"]
=============================================================================
