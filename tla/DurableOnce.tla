------------------------------ MODULE DurableOnce ------------------------------
(***************************************************************************)
(* What a durable gameplay command promises, without revisions, keys,      *)
(* queues or retries.  Its effect reaches the database only while the      *)
(* player has no answer; "accepted" is said of a stored effect, and        *)
(* "rejected" only of an effect that is not stored and never will be.      *)
(* DurableCommands implements it.                                          *)
(***************************************************************************)
EXTENDS Naturals

CONSTANTS Token

VARIABLES
  executed,  \* the commands whose effect the database holds
  told       \* what the player was told of every command

vars == <<executed, told>>

Init ==
  /\ executed = {}
  /\ told = [t \in Token |-> "nothing"]

Commit(t) ==
  /\ told[t] = "nothing"
  /\ executed' = executed \cup {t}
  /\ UNCHANGED told

Accept(t) ==
  /\ told[t] = "nothing"
  /\ t \in executed
  /\ told' = [told EXCEPT ![t] = "accepted"]
  /\ UNCHANGED executed

Reject(t) ==
  /\ told[t] = "nothing"
  /\ t \notin executed
  /\ told' = [told EXCEPT ![t] = "rejected"]
  /\ UNCHANGED executed

Next == \E t \in Token : Commit(t) \/ Accept(t) \/ Reject(t)

Spec == Init /\ [][Next]_vars
=============================================================================
