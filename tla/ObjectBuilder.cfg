\* Two names.  An Object has room for one change at first, then for two: a
\* second change merges, a lookup merges when two are unsorted.
CONSTANTS
  MaxKey = 2
  Val = {v}
  Fields <- MCFields
  Undefined = Undefined
  Unchanged = Unchanged
  NotObject = NotObject
  None = None
  InitialCapacity = 1
  LookupThreshold = 1
  MaxUnordered = 2

SPECIFICATION Spec

INVARIANTS
  WellKept
  AnswersAgree
  IterationSound

PROPERTY
  Implements
