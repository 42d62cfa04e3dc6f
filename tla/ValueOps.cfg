CONSTANTS
  Width = 3
  Order <- MCOrder
  Docs <- MCDocs
  Item <- MCItem
  Fields <- MCFields
  UsedPaths <- MCPaths
  Position <- MCPosition
  MaxItems = 3
SPECIFICATION Spec
INVARIANTS OrderedRight ChangesRight PathsAgree 
PROPERTIES Implements
