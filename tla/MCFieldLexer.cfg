CONSTANTS
  MaxLength = 5
  Lines <- MCLines
SPECIFICATION Spec
INVARIANTS
  LexInvariant
  EveryInkInOneField
  FieldsAreWellFormed
  RefusalIsEarned
  CommentsAgree
PROPERTY
  Finishes
