SPECIFICATION Spec
CHECK_DEADLOCK FALSE
CONSTANTS
  hp = hp
  gold = gold
  NAtoms = 15
  Fluents = {0, 1, 12}
  Emits = {2}
  Actions = {3, 4, 11}
  PrimedOf <- MCPrimedOf
  Nums = {hp, gold}
  Guards <- MCGuards
  PGuards <- MCPGuards
  Excl <- SessionExcl
  Programs <- MCPrograms
  Stores <- MCStores
  Sessions <- SessionPrograms
  ActionSeqs <- MCActions
  HostFluents = {1}
  HostEdits = {1}
  SubLits <- SessionSubs
  MaxSubs = 1
  MaxTick = 2
INVARIANTS FluentsFollowTheFirings NumbersFollowFinalFirings ReceiptsReconcile RejectedStepChangesNothing ApplicableActionsFire SplitIsOnlyAHint SubscriptionsFollowTheState PrimedGuardsReadTheCommit
