---------------------------- MODULE MCInputWindow ----------------------------
(* One session with windows, queues and allowances of two or three messages. *)
EXTENDS InputWindow
==============================================================================
