\* Short texts of every token, printed values, both strategies.
SPECIFICATION Spec
CONSTANTS
  MaxDepth = 2
  IntDigits = 3
  Family <- Families
  Opening <- FamilyOpening
  Pieces <- FamilyPieces
  MaxPieces <- FamilyMax
  Values <- MCValues
INVARIANTS
  AcceptsGrammar
  EscapesMeanTheirUnits
  ReadsWhatWasBuilt
  MultiStopsBehindLast
CHECK_DEADLOCK FALSE
