CONSTANTS
  MaxLength = 4
  Lines <- MCLines
SPECIFICATION Spec
INVARIANT
  UnterminatedIsRefused
