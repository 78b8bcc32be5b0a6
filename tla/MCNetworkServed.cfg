SPECIFICATION Spec
CONSTANT MaxChanges = 4
INVARIANTS ServedWhileUp
CHECK_DEADLOCK FALSE
