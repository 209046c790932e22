\* Three builds of one slug; one call may fail or lose its answer.
CONSTANTS
  b1 = b1
  b2 = b2
  b3 = b3
  app = app
  old = old
  new = new
  Builds = {b1, b2, b3}
  Slugs = {app}
  Services = {old, new}
  Slug <- MCSlug
  Service <- MCService
  MaxTries = 2
  MaxFaults = 1
  Nobody = Nobody
SPECIFICATION Spec
SYMMETRY MCSymmetry
INVARIANTS TypeOK ForeignUntouched DeployedAsAsked DownIsKnown
