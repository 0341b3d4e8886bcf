SPECIFICATION Spec
CONSTANTS
  User = {u1}
  Session = {u1, s2}
  UserOf <- AllOfOne
  Thread = {t1, t2}
  Group = {}
  Method = {"Login"}
  MaxMessages = 0
  MaxCommands = 2
  MySqlFails = FALSE
  RedisFails = FALSE
  MayExit = FALSE
  MayCrash = FALSE
  NULL = NULL
INVARIANTS
  NoDuplicateLogin
CHECK_DEADLOCK FALSE
