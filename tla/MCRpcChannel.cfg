\* Two runs of the server: the first may leave a session and its nodes behind.
SPECIFICATION FairSpec
CONSTANTS
  Server = {s1, s2}
  Client = client
  Method = {login, register}
  Service = service
  PERMANENT = PERMANENT
  NULL = NULL
  Fd = {fd1}
INVARIANTS
  TypeOK
  ExitsOnlyOnFault
  RegisteredUnlessOutlived
  ChannelMapsAgree
PROPERTIES
  StartsSettle
  CallsSettle
\* All servers may have ended, and a call that waits never returns.
CHECK_DEADLOCK FALSE
