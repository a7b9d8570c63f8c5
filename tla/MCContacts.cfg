SPECIFICATION Spec
CONSTANTS
  None = None
  Nick = {n, o}
  Chat = {x, y}
  MaxEvents = 4
  MaxWrites = 3
SYMMETRY Symmetry
INVARIANTS ContactsKeptUnlessDisturbed AnsweredHiddenUnlessRaced ShownUntilAnswered
CHECK_DEADLOCK FALSE
