\* Nothing fails: two clients log in and out and chat.
SPECIFICATION Spec
CONSTANTS
  User = {u1, u2}
  Session = {u1, u2}
  UserOf <- OneClientEach
  Thread = {t1, t2}
  Group = {}
  Method = {"Login", "Logout", "OneChat"}
  MaxMessages = 2
  MaxCommands = 2
  MySqlFails = FALSE
  RedisFails = FALSE
  MayExit = FALSE
  MayCrash = FALSE
  NULL = NULL
SYMMETRY Symmetry
INVARIANTS
  TypeOK
  PushedInOrder
  PresenceAgrees
PROPERTIES
  ImplementsMailbox
CHECK_DEADLOCK FALSE
