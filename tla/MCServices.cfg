SPECIFICATION Spec
CONSTANTS
  FwTopics = {"a", "f"}
  ReadTopics = {"b", "f"}
  Rules = "rules"
  SessionScenarios <- MCScenarios
  Relays = {1, 2}
  Pads = {9}
  NumberOf <- MCNumberOf
  Names = {"", "1", "2", "9", "a", "set"}
  NoName = ""
  Reserved = {"set", "read"}
  RowNames = {"", "m", "n"}
  Missing = Missing
  ConfigScenarios <- MCConfigScenarios
INVARIANTS TopicsDistinct SavedIsKept FwHeldUnlessRaced
PROPERTIES SessionSettles
CHECK_DEADLOCK FALSE
