CONSTANTS
  Nums <- MCNums
  Bools <- MCBools
  Programs <- MCOrders
SPECIFICATION Spec
INVARIANT OnlyCyclesAreRejected
