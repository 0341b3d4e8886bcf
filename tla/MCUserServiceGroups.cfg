\* Three users and a group; a message goes to two; nobody logs out.
SPECIFICATION Spec
CONSTANTS
  User = {u1, u2, u3}
  Session = {u1, u2, u3}
  UserOf <- OneClientEach
  Thread = {t1, t2}
  Group = {g1}
  Method = {"Register", "Login", "CreateGroup", "AddGroup", "GroupChat"}
  MaxMessages = 2
  MaxCommands = 2
  MySqlFails = FALSE
  RedisFails = FALSE
  MayExit = FALSE
  MayCrash = FALSE
  NULL = NULL
SYMMETRY Symmetry
INVARIANTS
  GroupLettersReachMembers
PROPERTIES
  ImplementsMailbox
  OfflineMessagesAreStored
  JoinedWhenAnswered
CHECK_DEADLOCK FALSE
