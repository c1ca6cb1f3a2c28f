SPECIFICATION Spec
CHECK_DEADLOCK FALSE
CONSTANTS
  NAtoms = 3
  Ents = {0, 1}
  Bits = {0, 1, 2}
  RulePool <- MCRules
  RuleLists <- MCLists
  SupPool <- MCSups
  FactPool <- MCFacts
  OpenPool <- MCOpen
  Statics = 2
  Sizes = {2, 3}
  MaxSolves = 2
INVARIANTS AppRowsSound
PROPERTIES ImplementsFamily
