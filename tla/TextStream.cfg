CONSTANTS
  Width = 8
  Precision = 2
  Small = 3
  Large = 2
  Documents <- MCDocuments
  Followers <- MCFollowers
  Separators <- MCSeparators
  Foreign <- MCForeign
  Lost = {0, 1, 4, 9}
  MaxDocuments = 2
SPECIFICATION Spec
INVARIANTS ReadAsWritten StopsAtEnd
CHECK_DEADLOCK FALSE
