SPECIFICATION FairSpec
CONSTANT MaxChanges = 8
INVARIANTS OneStart
PROPERTIES LinksAreSeen
CHECK_DEADLOCK FALSE
