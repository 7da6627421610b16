--------------------------- MODULE MCDialogueSession ---------------------------
(* One NPC with an offer that is made once and small talk, and one object. *)
EXTENDS DialogueSession

CONSTANTS npc, object, offer, more, bye

Offers == [beat \in Beat |-> IF beat = offer THEN {more, End}
                             ELSE IF beat = more THEN {End} ELSE {}]
==============================================================================
