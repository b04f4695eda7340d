SPECIFICATION FairSpec
CONSTANTS
  object1 = object1
  old = old
  new = new
  Ambient = Ambient
  None = None
  Missing = Missing
  Absent = Absent
  Empty = Empty
  Objects = {object1}
  Namespace <- OneNamespace
  Specs <- FewSpecs
  ProviderConfigs <- FewConfigs
  Secrets = {{"token", "own"}, {"ca", "cert", "key"}}
  Versions = {old, new}
  Lifetime = 4
  Timeout = 2
  Patience = 3
  ExpiryDelta = 2
  RefreshBefore = 1
  RefreshSlack = 1
  Fallback = 3
  MaxEvents = 2
INVARIANTS TypeOK TokenAlive TLSAsNamed OneMechanism
PROPERTIES Reconnects
