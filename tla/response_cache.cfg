SPECIFICATION Spec
CONSTANTS
  Ids <- MCIds
  Kind <- MCKind
  Catalogues <- MCCatalogues
  Requests = {r1, r2}
  Queries = {TRUE, FALSE}
  Null = Null
  Interruptions = TRUE
  MaxCalls = 3
  MaxKeys = 1
INVARIANTS
  TypeOK
  AnswersAreFresh
  NamesCoverWrites
\* The calls are bounded: after the last one nothing happens any more.
CHECK_DEADLOCK FALSE
SYMMETRY RequestSymmetry
