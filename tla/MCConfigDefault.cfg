SPECIFICATION ConfigSpec
CONSTANTS
  Relays = {1, 2}
  Pads = {9}
  NumberOf <- MCNumberOf
  Names = {"", "1", "2", "9", "a", "set"}
  NoName = ""
  Reserved = {"set", "read"}
  RowNames = {"", "m", "n"}
  Missing = Missing
  ConfigScenarios <- MCConfigScenarios
INVARIANTS StatusByDefault
CHECK_DEADLOCK FALSE
