\* Everything fails: tables, Redis, clients and the server.  The threads go on.
SPECIFICATION FairSpec
CONSTANTS
  User = {u1}
  Session = {u1}
  UserOf <- OneClientEach
  Thread = {t1, t2}
  Group = {}
  Method = {"Login", "Logout", "OneChat", "AddFriend"}
  MaxMessages = 2
  MaxCommands = 1
  MySqlFails = TRUE
  RedisFails = TRUE
  MayExit = TRUE
  MayCrash = TRUE
  NULL = NULL
INVARIANTS
  PushedInOrder
PROPERTIES
  ImplementsMailbox
  RequestsAreAnswered
  
CHECK_DEADLOCK FALSE
