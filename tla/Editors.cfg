CONSTANTS
  Width = 8
  Docs <- MCDocs
  Item <- MCItem
  Names = {1, 2}
  MaxItems = 2
  MaxDepth = 3
  MaxCalls = 5
SPECIFICATION Spec
INVARIANTS EditsArrive
CHECK_DEADLOCK FALSE
