\* Four messages: two returned ones fill the channel and block the reader,
\* the others meet what is left in it.
CONSTANTS
  MaxPublishes = 4
  Capacity = 1
SPECIFICATION Spec
INVARIANTS TypeOK OkIsRouted BlameNeedsLostWait StuckNeedsLostWait
