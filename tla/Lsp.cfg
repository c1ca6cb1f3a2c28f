CONSTANTS
  Uris = {"a", "b"}
  Texts <- MCTexts
  Parsed <- MCParsed
  Spelled <- MCSpelled
  Cursors <- MCCursors
  Names <- MCNames
  MaxDiags = 2
  MaxMessages = 3
  MaxQueue = 2
SPECIFICATION Spec
INVARIANTS
  NavigationFollowsTheScreen
  CallsReadBothWays
  TextsArriveWhole
PROPERTIES
  SquigglesSettle
CHECK_DEADLOCK FALSE
