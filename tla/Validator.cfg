CONSTANTS
  Width = 8
  Native <- MCNative
  Subjects <- MCSubjects
  Variables <- MCVariables
  Plain <- MCPlain
  MaxLeft = 1
SPECIFICATION Spec
INVARIANTS VerdictRight RejectionsRight HistoryFree
