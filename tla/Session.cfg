CONSTANTS
  MaxTargets = 16
  StoredId <- MCStoredId
  Domains <- MCDomains
  Judgments <- MCJudgments
  ActionList <- MCActionList
  ClickNames <- MCClickNames
  Proved <- MCProved
  Applies <- MCApplies
  Blockers <- MCBlockers
  BoxOf <- MCBoxOf
  MaxSlots = 5
  MaxMenu = 7
  Genesis <- MCGenesis
  StepOf <- MCStepOf
  CueOf <- MCCueOf
  Carts = {"pure", "script"}
  Scripts <- MCScripts
  Inputs <- MCInputs
  Story = "this"
  Foreign <- MCForeign
  MaxActions = 2
  MaxFx = 2
  Life = 2
  MaxTicks = 3
  MaxRuns = 2
  MaxLag = 2
  Windows <- MCWindows
SPECIFICATION Spec
INVARIANTS
  LogIsTheHistory
  LoadRestoresTheSave
  SubmitsWhatApplies
  ChoicesAreReachable
  ClicksHitWhatIsShown
CHECK_DEADLOCK FALSE
