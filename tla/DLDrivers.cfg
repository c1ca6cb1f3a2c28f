SPECIFICATION DSpec
CONSTANTS
  NAtoms = 3
  RulePool <- AllRules
  RuleLists <- Lists
  FactPool = {}
  MaxSups = 0
  MaxFacts = 0
INVARIANTS StackFits Confluence CompletionIsUnfounded
PROPERTIES ImplementsDLSolve
