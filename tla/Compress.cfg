\* Four sequences fill the table and two fit into the next one: the first
\* optimize code comes after eight characters, the second after fourteen.  Two
\* objects of each class, one after the other; codes on their way pile up to
\* two behind an optimize code.
CONSTANTS
  FirstCode = 2
  Ext = 4
  Base = 5
  Reserve = 2
  MaxChars = 14
  MaxStreams = 2
  MaxWire = 1
  Reuse = FALSE

SPECIFICATION FairSpec

INVARIANTS
  CodesRight
  TablesInStep

PROPERTIES
  Implements
  Drained

\* Everything was compressed, sent and read.
CHECK_DEADLOCK FALSE
