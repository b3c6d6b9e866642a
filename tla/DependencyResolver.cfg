SPECIFICATION Spec
CONSTANTS
  A = A
  B = B
  C = C
  k = k
  Source = {A, B, C}
  MaxVersion = 2
  Commit = {k}
  GoModule = GoModule
  Manifests <- AllManifests
  Releases <- AllReleases
  NoVersion = NoVersion
  Root = Root
INVARIANTS
  SelectionIsClosed
  FloorsResolve
PROPERTIES
  Terminates
CHECK_DEADLOCK FALSE
