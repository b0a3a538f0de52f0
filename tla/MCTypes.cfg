SPECIFICATION Spec
CONSTANTS
  Value <- MCValue
  Describe <- MCDescribe
  Attribute <- MCAttribute
  Entry <- MCEntry
  MaxTypes = 5
INVARIANTS OneIdPerKind FieldsApart TypesStable
PROPERTY TypesKept
CHECK_DEADLOCK FALSE
