--------------------------- MODULE MCBuddyPrototype ---------------------------
(* The prototype alone, with its own clients.                              *)
EXTENDS PrototypeClients
===============================================================================
