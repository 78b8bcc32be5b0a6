SPECIFICATION Spec
CONSTANTS
  LedColours = {"red", "white"}
  LedPrograms <- MCPrograms
  LedScenarios <- MCLedScenarios
  Tones = {0, 1, 2}
  Silent = 0
  Beeps <- MCBeeps
  MaxCommands = 3
  Isolated = {1}
  Header = {9}
  InputScenarios <- MCInputScenarios
  Slots = {1, 2, 3}
  Values = {0, 1}
  NoValue = NoValue
  RxDepth = 1
  CanScenarios <- MCCanScenarios
  Boards = {1, 2, 3}
  NameOf <- MCNames
  Preferred <- MCPreferred
  LastAddr = 251
  Null = 254
  ClaimScenarios <- MCClaimScenarios
  GwWorkers = {"w1", "w2"}
  GwCodes = {"e1"}
  GwScenarios <- MCGwScenarios
INVARIANTS NewestWins ToldTheLevel FramesIntact SegmentIsShared
PROPERTIES DriversSettle BusSettles
CHECK_DEADLOCK FALSE
