------------------------------- MODULE Tables -------------------------------
(***************************************************************************)
(* The MySQL tables, with an operator for each statement that src/model    *)
(* executes for the service.  A statement is one step.  It may fail, which *)
(* every caller but those of insert (of users) and createGroup ignores.    *)
(***************************************************************************)
CONSTANTS
  User,        \* bound: the ids that the table of users can give out
  Group,       \* bound: the ids that the table of groups can give out
  MySqlFails   \* whether a statement may fail

ASSUME MySqlFailsAssumption == MySqlFails \in BOOLEAN

VARIABLES
  user,             \* the state of each user; "none" is no row
  offlinemessage,   \* the letters in the table
  friend,
  allgroup,
  groupuser         \* without the role; a row that is there is not added

tableVars == <<user, offlinemessage, friend, allgroup, groupuser>>

\* What earlier runs of the server have left; the messages of this one count.
InitTables ==
  /\ user \in [User -> {"none", "offline"}]
  /\ allgroup \in SUBSET Group
  /\ groupuser \in SUBSET (allgroup \X {u \in User : user[u] # "none"})
  /\ offlinemessage = {} /\ friend = {}

-----------------------------------------------------------------------------
(* UserModel *)

InsertUser ==
  /\ \/ \E u \in User : user[u] = "none" /\ user' = [user EXCEPT ![u] = "offline"]
     \/ (MySqlFails \/ \A u \in User : user[u] # "none") /\ UNCHANGED user
  /\ UNCHANGED <<offlinemessage, friend, allgroup, groupuser>>

\* What query can return: User() has no id and is offline.
QueryUser(u) == {user[u]} \cup (IF MySqlFails THEN {"none"} ELSE {})

UpdateState(u, state) ==
  /\ \/ user' = [user EXCEPT ![u] = IF @ = "none" THEN @ ELSE state]
     \/ MySqlFails /\ UNCHANGED user
  /\ UNCHANGED <<offlinemessage, friend, allgroup, groupuser>>

-----------------------------------------------------------------------------
(* OfflineMsgModel, FriendModel and GroupModel *)

InsertMessage(letter) ==
  /\ \/ offlinemessage' = offlinemessage \cup {letter}
     \/ MySqlFails /\ UNCHANGED offlinemessage
  /\ UNCHANGED <<user, friend, allgroup, groupuser>>

InsertFriend(u, v) ==
  /\ \/ friend' = friend \cup {<<u, v>>}
     \/ MySqlFails /\ UNCHANGED friend
  /\ UNCHANGED <<user, offlinemessage, allgroup, groupuser>>

\* createGroup that inserts a row; when it fails nothing changes.
CreateGroup(g) ==
  /\ g \notin allgroup
  /\ allgroup' = allgroup \cup {g}
  /\ UNCHANGED <<user, offlinemessage, friend, groupuser>>

CreateGroupFails == (MySqlFails \/ Group \subseteq allgroup) /\ UNCHANGED tableVars

AddGroup(u, g) ==
  /\ \/ groupuser' = groupuser \cup {<<g, u>>}
     \/ MySqlFails /\ UNCHANGED groupuser
  /\ UNCHANGED <<user, offlinemessage, friend, allgroup>>

\* A bug: the user is not left out.
QueryAllGroupUsers(u, g) == {{v \in User : <<g, v>> \in groupuser}}

\* What queryGroupUsers can return.
QueryGroupUsers(u, g) ==
  {{v \in User \ {u} : <<g, v>> \in groupuser}} \cup (IF MySqlFails THEN {{}} ELSE {})

=============================================================================
