SPECIFICATION Spec
CONSTANTS
  Names <- MCNames
  NameOrder <- MCNameOrder
  Kind <- MCKind
  Dirs <- MCDirs
  Statuses <- MCStatuses
  MaxBytes = 2
  MaxSecs = 2
  Nothing = Nothing
INVARIANTS
  TypeOK
  OneOrder
PROPERTIES
  RatesAreTrue
