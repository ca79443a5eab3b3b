------------------------------- MODULE MCClient -------------------------------
(* An instance of Client: a queue that fills up within the calls made.      *)
EXTENDS Client

MCTypes == {"MARKET_START", "SHUTDOWN"}
==============================================================================
