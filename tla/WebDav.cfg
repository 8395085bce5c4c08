CONSTANTS
  None = None
  Path <- Tree
  Content = {c1, c2}
  Puts <- InFolder
SPECIFICATION Spec
INVARIANTS
  TreeOK
  PutKeepsOne
PROPERTIES
  TornByCopy
  AnswersAreTrue
  ServesTree
