------------------------------ MODULE FencedLease ------------------------------
(***************************************************************************)
(* What the login lease promises, without clocks, messages or processes.   *)
(* Tokens are issued in order.  At most one token is in use, a new one is  *)
(* issued only while none is, and the stored characters are written only   *)
(* under the token issued last.  CharacterLease implements it.             *)
(***************************************************************************)
EXTENDS Naturals, Sequences

CONSTANTS Character

VARIABLES
  issued,   \* the token issued last; 0 before the first
  holder,   \* the token in use, 0 when there is none
  stored    \* for every character, the tokens that wrote it, in order

vars == <<issued, holder, stored>>

Init ==
  /\ issued = 0
  /\ holder = 0
  /\ stored = [c \in Character |-> <<>>]

Issue ==
  /\ holder = 0
  /\ issued' = issued + 1
  /\ UNCHANGED <<holder, stored>>

Take ==
  /\ holder = 0
  /\ holder' = issued
  /\ UNCHANGED <<issued, stored>>

Drop ==
  /\ holder' = 0
  /\ UNCHANGED <<issued, stored>>

Write(c) ==
  /\ stored' = [stored EXCEPT ![c] = Append(@, issued)]
  /\ UNCHANGED <<issued, holder>>

Next == Issue \/ Take \/ Drop \/ \E c \in Character : Write(c)

Spec == Init /\ [][Next]_vars
=============================================================================
