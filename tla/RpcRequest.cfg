\* Both forms of a request, and an application that answers more than once and
\* from inside the calls it gets.  Two workers besides creator and server can
\* each outlive exec and pass a copy on to one another.
CONSTANTS
  Worker = {w1, w2}
  MaxNotes = 2
  MaxReplies = 2
  OnceOnly = FALSE

SPECIFICATION FairSpec

INVARIANTS
  AnsweredOnce
  NeverSilent
  NotesAllowed

PROPERTIES
  AnswerIsLast
  EventuallyAnswered

\* Everybody may have let the request go.
CHECK_DEADLOCK FALSE
