SPECIFICATION Spec
CONSTANTS
  Domain <- MCDomain
  MaxInstances = 8
  NAtoms = 26
  Progs <- MCFed
  MaxEdits = 3
VIEW MCView
INVARIANT RoutedQueryIsScalar
CHECK_DEADLOCK FALSE
