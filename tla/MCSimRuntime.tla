---------------------------- MODULE MCSimRuntime ----------------------------
EXTENDS SimRuntime, TLC
MCTiming ==
  [a \in Ability |->
    IF a = "strike" THEN [windup |-> 2, active |-> 1, recovery |-> 0, cooldown |-> 2, dash |-> FALSE]
    ELSE [windup |-> 0, active |-> 1, recovery |-> 1, cooldown |-> 3, dash |-> TRUE]]
=============================================================================
