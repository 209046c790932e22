\* Two updates of a Deployment with two replicas, the second by this worker or
\* by another one while this one watches.
CONSTANTS
  Builds = {b1, b2}
  Replicas = 2
  Slots = {s1, s2, s3}
  MaxGeneration = 2
  NoBuild = NoBuild
SPECIFICATION FairSpec
INVARIANTS TypeOK SuccessIsRolledOut
PROPERTY WaitEnds
