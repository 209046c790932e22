\* One build and one malformed message, two processes, any two faults of any kind.
\* MaxAttempts exceeds the retry queues, so the last one is reused.
CONSTANTS
  Workers = {w1, w2}
  Deployments = {d1, bad}
  Malformed = {bad}
  MaxAttempts = 3
  NumBackoffs = 1
  Faults = {"dup", "crash", "unack", "nopub", "link", "pub", "db", "stall"}
  MaxFaults = 2
  NoCopy = NoCopy
SPECIFICATION Spec
SYMMETRY Symmetry
INVARIANTS TypeOK NeverForgotten EventOrder DeadLetterAnnounced
