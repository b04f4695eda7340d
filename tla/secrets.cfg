SPECIFICATION FairSpec
CONSTANTS
  async = async
  disposable = disposable
  secret = secret
  token = token
  user = user
  copy = copy
  key = key
  tok1 = tok1
  tok2 = tok2
  once = once
  creds = creds
  id = id
  Missing = Missing
  Empty = Empty
  Objects = {async, disposable}
  Replays = {disposable}
  Secrets = {secret}
  Keys = {token, copy, user, key}
  Labels = {"id"}
  Fields = {"id", "token", "auth", "creds"}
  HeaderFields = {"auth"}
  Values = {tok1, tok2, once, creds, id}
  JSONObjects = {creds}
  Numbers = {id}
  LabelValues = {id}
  Namespace <- TwoNamespaces
  Configs <- SharedConfigs
  Needs <- NeedsOfAsync
  Nulls = {tok2}
  Answers <- SharedAnswers
  MaxFaults = 2
CHECK_DEADLOCK FALSE
INVARIANTS TypeOK FromItsField Captured StaysAddressable
PROPERTIES Isolation Converges
