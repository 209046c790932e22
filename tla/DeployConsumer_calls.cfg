\* Two builds, two processes; processes die, lose their consumer channel and
\* receive duplicates, any two times, but the calls they make succeed.
CONSTANTS
  Workers = {w1, w2}
  Deployments = {d1, d2}
  Malformed = {}
  MaxAttempts = 2
  NumBackoffs = 1
  Faults = {"dup", "crash", "unack"}
  MaxFaults = 2
  NoCopy = NoCopy
SPECIFICATION Spec
SYMMETRY Symmetry
INVARIANTS OneDriver OneOutcome Truthful
PROPERTIES TerminalSticky PromiseKept LockHonoured
