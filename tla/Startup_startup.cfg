\* Two processes; names of at most six characters; an int32 of -16 .. 15.
CONSTANTS
  p1 = p1
  p2 = p2
  Processes = {p1, p2}
  None = None
  MaxLabel = 6
  ProjectWord <- MCProject
  ServiceWord <- MCService
  AppWord <- MCApp
  PrefixWord <- MCPrefix
  Half = 16
  Millisecond = 2
  Envs <- MCEnvs
  Texts <- MCTexts
  Requests <- MCEvents
  NamespacePrefixes <- MCPrefixes
  Settings <- MCSettings
  Builds = {1, 2}
  Tries = 3
SPECIFICATION MCSpec
SYMMETRY MCSymmetry
INVARIANTS TypeOK NothingLeftOpen TopologyIsConfigured RefusedMeansChanged
  SettingsAreUsable DefaultLeaseLasts LabelsAreValid
  TargetsTellApart EventIdsTellApart
