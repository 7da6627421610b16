--------------------------- MODULE MCClientSession ---------------------------
(* The configurations client_*.cfg bound ClientSession to three attempts. *)
EXTENDS ClientSession
==============================================================================
