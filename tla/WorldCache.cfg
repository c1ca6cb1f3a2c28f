SPECIFICATION Spec
CONSTANTS
  Fluents <- MCFluents
  Declared = {"open"}
  StaticPool = {"r1"}
  SupPool = {"s1"}
  Matchable <- MCMatchable
  Islands = {"view1", "view2"}
  Guarded = {"view2"}
  PosOf <- MCPosOf
  NegOf <- MCNegOf
  MaxCalls = 8
CHECK_DEADLOCK FALSE
INVARIANTS IndexMirrorsTheState MatchedLayerFollowsTheState JudgmentsAreCurrent TraceRulesExplainCurrentRows
PROPERTIES StepsUseTheCurrentRules
