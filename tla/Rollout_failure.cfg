\* A second update after a failed first one.
CONSTANTS
  Builds = {b1, b2}
  Replicas = 1
  Slots = {s1, s2}
  MaxGeneration = 2
  NoBuild = NoBuild
SPECIFICATION Spec
SYMMETRY Symmetry
INVARIANT FailureIsOwn
