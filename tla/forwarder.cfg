SPECIFICATION FairSpec
CONSTANTS
  None = None
  Servers <- MCServers
  Mounts <- MCMounts
  ServerOf <- MCServerOf
  Topologies <- MCTopologies
  Requests = {"r1", "r2"}
  MaxChildren = 1
  MaxStarts <- MCMaxStarts
INVARIANTS TypeOK ForwardsOnce HopsBounded LoopsAreReal
PROPERTIES Promise EveryCallEnds
\* Each request is sent once, and after the last one the servers idle.
CHECK_DEADLOCK FALSE
