\* One failed publish after Complete.
CONSTANTS
  Workers = {w1}
  Deployments = {d1}
  Malformed = {}
  MaxAttempts = 3
  NumBackoffs = 1
  Faults = {"pub"}
  MaxFaults = 1
  NoCopy = NoCopy
SPECIFICATION Spec
INVARIANT OneOutcome
