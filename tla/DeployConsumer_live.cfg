\* Liveness: no symmetry; every kind of fault.
CONSTANTS
  Workers = {w1, w2}
  Deployments = {d1}
  Malformed = {}
  MaxAttempts = 2
  NumBackoffs = 1
  Faults = {"dup", "crash", "unack", "nopub", "link", "pub", "db", "stall"}
  MaxFaults = 2
  NoCopy = NoCopy
SPECIFICATION FairSpec
PROPERTIES Answered Drains
