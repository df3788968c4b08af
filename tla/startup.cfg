SPECIFICATION FairSpec
CONSTANTS
  None = None
  Plugins <- MCPlugins
  Ipa = "auth:ipa"
  Files = {"x.key", "y.key"}
  Keys = {"k1", "k2", "k3"}
  Configs <- MCConfigs
  MaxDepth = 13
INVARIANTS StartupTypeOK Wired StartFailsForAReason RowsReadable
PROPERTY StartsEnd
