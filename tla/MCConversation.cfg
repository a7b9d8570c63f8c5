SPECIFICATION ConversationSpec
CONSTANTS
  Nothing = Nothing
  Chat = {x, y}
  Id = {m1, m2}
  MaxEvents = 4
SYMMETRY Symmetry
INVARIANTS EndsAgreeUnlessDisturbed DeliveredUnlessDisturbed ReadMeansSeenUnlessSwitched SentForAReason
CHECK_DEADLOCK FALSE
