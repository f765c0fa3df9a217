--------------------------- MODULE MCCommandExchange ---------------------------
(* A ring of two entries and three requests: one is forgotten too early.     *)
EXTENDS CommandExchange

AllFaults == {"copy", "loss", "requester", "responder"}
================================================================================
