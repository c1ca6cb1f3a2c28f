SPECIFICATION Spec
CONSTANTS
  NAtoms = 2
  RulePool <- ConflictPool
  FactPool = {2}
  RuleLists <- Triples
  MaxSups = 2
  MaxFacts = 1
INVARIANTS DefiniteIsLeastModel StallsComeFromAttackedCycles Coherence ProofsStayJustified
