SPECIFICATION JobSpec
CONSTANTS
  Workers = {w1, w2, w3}
  Confirmers = {c1}
  Mappings = {a, b}
  Suggested = Suggested
  MaxWrites = 2
  ConfirmAlone = TRUE
INVARIANTS ClaimIsExclusive 
PROPERTIES ImplementsImportLedger ProcessingEnds
