SPECIFICATION Spec
CONSTANTS
  a = a
  n = n
  w = w
  lo = lo
  pub = pub
  None = None
  Err = Err
  Callers = {s1, s2}
  Hosts = {a}
  Answers <- MCAnswers
  Configs <- MCConfigs
  Requests <- MCRequests
  Order = "ipv4first"
  TTL = 2
  MaxDelay = 1
INVARIANTS DialledChecked
PROPERTIES Decided Recovers
