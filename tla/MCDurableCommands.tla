-------------------------- MODULE MCDurableCommands --------------------------
(* Small instances of DurableCommands.                                     *)
EXTENDS DurableCommands
=============================================================================
