SPECIFICATION Spec
CONSTANTS
  s1 = s1
  s2 = s2
  h1 = h1
  h2 = h2
  Empty = Empty
  Null = Null
  Absent = Absent
  None = None
  Secrets = {s1, s2}
  Values <- Ciphertexts
  Handlers = {h1, h2}
  Paths <- MCPaths
  Deployments <- MCDeployments
INVARIANT OverlayTypeOK
PROPERTIES PinnedAnswers PlainStore
