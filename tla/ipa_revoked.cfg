SPECIFICATION Spec
CONSTANTS
  h1 = h1
  h2 = h2
  c1 = c1
  c2 = c2
  c3 = c3
  None = None
  NoVault = NoVault
  NoData = NoData
  Handlers = {h1, h2}
  Serials = {c1, c2, c3}
  Payloads = {"p", "q"}
  Keys <- MCKeys
  Hosts <- MCHosts
  OtherHosts = {"LDAP/client1"}
  VaultOf <- MCVaultOf
  Scenarios <- CertScenarios
INVARIANT DocRemovedWhenRevoked
SYMMETRY Symmetry
