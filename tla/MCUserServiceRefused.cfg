SPECIFICATION Spec
CONSTANTS
  User = {u1}
  Session = {u1}
  UserOf <- AllOfOne
  Thread = {t1}
  Group = {}
  Method = {"Login", "Logout"}
  MaxMessages = 0
  MaxCommands = 2
  MySqlFails = FALSE
  RedisFails = FALSE
  MayExit = FALSE
  MayCrash = TRUE
  NULL = NULL
PROPERTIES
  RefusedIsLoggedIn
CHECK_DEADLOCK FALSE
