\* Two builds of one service; no call fails.
CONSTANTS
  b1 = b1
  b2 = b2
  b3 = b3
  app = app
  old = old
  new = new
  Builds = {b1, b2}
  Slugs = {app}
  Services = {old, new}
  Slug <- MCSlug
  Service <- MCService
  MaxTries = 2
  MaxFaults = 0
  Nobody = Nobody
SPECIFICATION Spec
INVARIANT RacesAreHarmless
