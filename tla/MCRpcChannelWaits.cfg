SPECIFICATION FairSpec
CONSTANTS
  Server = {s1}
  Client = client
  Method = {login}
  Service = service
  PERMANENT = PERMANENT
  NULL = NULL
  Fd = {fd1}
PROPERTIES
  AnsweredCallsReturn
CHECK_DEADLOCK FALSE
