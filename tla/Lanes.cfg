SPECIFICATION Spec
CONSTANTS
  Domain <- MCDomain
  MaxInstances = 8
  NAtoms = 26
  Progs <- MCProgs
  MaxEdits = 3
VIEW MCView
INVARIANTS
  RoutedQueryIsScalar
  StepIsTheScalarStep
  AcceptedNeverContests
  SilentNullIsWarned
CHECK_DEADLOCK FALSE
