SPECIFICATION Spec
CONSTANTS
  npc = npc
  object = object
  offer = offer
  more = more
  bye = bye
  Target = {npc, object}
  Npc = {npc}
  Beat = {offer, more, bye}
  End = End
  Leads <- Offers
  Entry = {offer, bye}
  Once = {offer}
  Cooldown = 1
  InCap = 1
  OutCap = 2
  MaxSessions = 3
CHECK_DEADLOCK FALSE
INVARIANTS
  DialogueIsSound
  ChosenOnce
  PanelIsCurrent
