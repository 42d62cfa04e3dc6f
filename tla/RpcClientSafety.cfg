\* Three threads, two pending-call objects, ids that wrap after two values.
CONSTANTS
  Thread = {t1, t2, t3}
  Call = {c1, c2}
  IdSpace = 2
  MaxId = 3
  NoThread = NoThread
  NoCall = NoCall

SPECIFICATION Spec
SYMMETRY ClientSymmetry

INVARIANTS
  TypeOK
  OnePlace
  NoMisdelivery
  NoUseAfterReturn
  ContextFirst

PROPERTY
  Implements

\* The program may have nothing left to do.
CHECK_DEADLOCK FALSE
