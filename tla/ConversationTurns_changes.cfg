\* One conversation that may move from the intake to the project, three messages.
SPECIFICATION Spec
CONSTANTS
  c1 = c1
  c2 = c2
  Conversation <- OneConversation
  MaxTurns = 3
  MaxVersion = 2
  MaxFaults = 1
INVARIANTS ChangesAreLinked

