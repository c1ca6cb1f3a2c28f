CONSTANTS
  Nums <- MCNums
  Bools <- MCBools
  Programs <- MCPrograms
SPECIFICATION Spec
INVARIANTS AcceptedIsStratified StrataAreLeast
