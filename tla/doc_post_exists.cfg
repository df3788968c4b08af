SPECIFICATION Spec
CONSTANTS
  v1 = v1
  v2 = v2
  h1 = h1
  h2 = h2
  Empty = Empty
  Null = Null
  Absent = Absent
  None = None
  Slashed <- MCSlashed
  Values = {v1, v2}
  Base64 = {v1}
  Handlers = {h1, h2}
  Paths <- MCPaths
  Requests <- RacingRequests
  Faults = {}
  Watched <- NoPaths
  CanCrash = FALSE
PROPERTY DocPostExists
