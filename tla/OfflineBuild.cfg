CONSTANTS
  A = A
  B = B
  G = G
  Root = Root
  NoVersion = NoVersion
  MaxVersion = 4
  MaxChanges = 1
  Source = {A, B, G}
  Commit = {}
  GoModule = G
  Manifests <- AllManifests
  Tag <- Tags
  Written <- AnyWritten
  Releases <- AllReleases
  Imports <- AnyImports
SPECIFICATION SpecProject
CHECK_DEADLOCK FALSE
INVARIANTS
  BuildsWhatIsLocked
  BuildIsWhole
  UpgradeTakesNewest
