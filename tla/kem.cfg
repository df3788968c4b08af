SPECIFICATION FairSpec
CONSTANTS
  None = None
  Clients <- MCClients
  Server = "server"
  KeyTypes <- MCKeyTypes
  Keys = {"old", "new"}
  Held = "old"
  Rewrites <- MCRewrites
  Requests <- MCRequests
  Names = {"u/", "u/k"}
  Skews <- MCSkews
  Life = 1
  MaxNow = 3
INVARIANTS KemTypeOK FailuresExplained RepliesNotEarly AuditTruth
PROPERTIES Promise CallsEnd
\* Calls are made once, and then the clock stops.
CHECK_DEADLOCK FALSE
