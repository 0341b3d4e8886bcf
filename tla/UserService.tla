---------------------------- MODULE UserService -----------------------------
(***************************************************************************)
(* UserService (src/userservice.cc) on the threads of the server, with its *)
(* tables, Redis, and what RpcProvider does before and after it: the       *)
(* observer that pushes messages, and _userConnMap.                        *)
(*                                                                         *)
(* A session is a run of the client program for one user; it stands for    *)
(* its connection.  That a connection may come to be another client's is   *)
(* left to RpcProvider.  A session waits for the response to its request.  *)
(* The response goes out before the thread has changed _userConnMap.  The  *)
(* client is taken to receive and to understand it.                        *)
(***************************************************************************)
EXTENDS Tables, RedisClient, FiniteSets

CONSTANTS Session, Thread, NULL,
  Method,         \* what clients call
  UserOf,         \* the user of each session
  MayExit,        \* whether a client may end at any time
  MayCrash,       \* whether the server may
  MaxMessages     \* bound: the messages that are sent

ASSUME UserServiceAssumption ==
  /\ Thread # {} /\ IsFiniteSet(Thread)
  /\ Method \subseteq {"Login", "Logout", "Register", "OneChat", "GroupChat",
                       "AddFriend", "CreateGroup", "AddGroup"}
  /\ NULL \notin Session \cup User \cup Group
  /\ UserOf \in [Session -> User]
  /\ MayExit \in BOOLEAN /\ MayCrash \in BOOLEAN
  /\ MaxMessages \in Nat

VARIABLES
  at,           \* the next statement of each thread
  call,         \* its call, or NULL
  userConn,     \* _userConnMap
  client,       \* "out", "in" (logged in) or "gone"
  sent,         \* the number of messages that are composed
  pushed        \* the letters that reached a client, in order

serviceVars == <<at, call, userConn, client, sent, pushed>>
vars == <<serviceVars, tableVars, redisVars>>

Letter == [id : 1..MaxMessages, from : Session, to : User]

\* rest: who has still to get the message; to: the user the thread is at.
Call == [method : Method, session : Session, group : Group \cup {NULL},
         id : 0..MaxMessages, rest : SUBSET User, to : User \cup {NULL}, success : BOOLEAN]

ASSUME CallAssumption == NULL \notin Call

At == {"idle", "queryUser", "subscribe", "setOnline", "unsubscribe", "setOffline",
       "queryGroup", "queryMember", "publish", "store", "insertUser", "insertFriend",
       "createGroup", "addGroup", "respond", "manage"}

Caller(t) == UserOf[call[t].session]

\* The message of a thread to a user.
LetterTo(t, u) == [id |-> call[t].id, from |-> call[t].session, to |-> u]

Goto(t, place) == at' = [at EXCEPT ![t] = place]

-----------------------------------------------------------------------------
(* Requests *)

\* A bug: the call is kept.
EndKeepsCall(t) == Goto(t, "idle") /\ UNCHANGED call

End(t) == Goto(t, "idle") /\ call' = [call EXCEPT ![t] = NULL]

\* A bug: Logout does not unsubscribe.
StartKeepsChannel(m) ==
  CASE m = "Login"   -> "queryUser"
    [] m = "Logout"  -> "setOffline"
    [] m = "OneChat" -> "queryMember"

\* The first statement of each method.
Start(m) ==
  CASE m = "Login"       -> "queryUser"
    [] m = "Register"    -> "insertUser"
    [] m = "Logout"      -> "unsubscribe"
    [] m = "OneChat"     -> "queryMember"
    [] m = "AddFriend"   -> "insertFriend"
    [] m = "CreateGroup" -> "createGroup"
    [] m = "AddGroup"    -> "addGroup"
    [] m = "GroupChat"   -> "queryGroup"

\* A bug: the client does not wait for the response.
WaitingNever(s) == FALSE

Waiting(s) == \E t \in Thread : at[t] \notin {"idle", "manage"} /\ call[t].session = s

\* The client logs in and registers from one menu, the rest from another.
MayCall(s, m) ==
  /\ client[s] = IF m \in {"Login", "Register"} THEN "out" ELSE "in"
  /\ ~Waiting(s)

\* The bound on messages leaves room for those that are not composed yet.
MayCompose == sent + Cardinality({t \in Thread : at[t] = "queryGroup"}) < MaxMessages

\* A thread takes a request.  OneChat composes its message at once.
Request(t, s, m) ==
  /\ at[t] = "idle"
  /\ MayCall(s, m)
  /\ m \in {"OneChat", "GroupChat"} => MayCompose
  /\ \E g \in IF m \in {"AddGroup", "GroupChat"} THEN Group ELSE {NULL},
        u \in IF m \in {"AddFriend", "OneChat"} THEN User ELSE {NULL} :
       call' = [call EXCEPT ![t] =
         [method |-> m, session |-> s, group |-> g, to |-> u, success |-> TRUE,
          id   |-> IF m = "OneChat" THEN sent + 1 ELSE 0,
          rest |-> IF m = "OneChat" THEN {u} ELSE {}]]
  /\ sent' = IF m = "OneChat" THEN sent + 1 ELSE sent
  /\ Goto(t, Start(m))
  /\ UNCHANGED <<userConn, client, pushed, tableVars, redisVars>>

\* The menu the client shows next.
MenuAfter(menu, c) ==
  IF menu = "gone" \/ ~c.success THEN menu
  ELSE CASE c.method = "Login"  -> "in"
         [] c.method = "Logout" -> "out"
         [] OTHER -> menu

\* A bug: no response to a call that fails.
RespondSuccess(t) ==
  /\ at[t] = "respond" /\ call[t].success
  /\ client' = [client EXCEPT ![call[t].session] = MenuAfter(@, call[t])]
  /\ End(t)
  /\ UNCHANGED <<userConn, sent, pushed, tableVars, redisVars>>

\* SendRpcResponse: the client that waits learns the result.
Respond(t) ==
  /\ at[t] = "respond"
  /\ client' = [client EXCEPT ![call[t].session] = MenuAfter(@, call[t])]
  /\ IF call[t].method \in {"Login", "Logout"} /\ call[t].success
     THEN Goto(t, "manage") /\ UNCHANGED call ELSE End(t)
  /\ UNCHANGED <<userConn, sent, pushed, tableVars, redisVars>>

\* The end of OnMessageCallback; insert does not replace an entry.
Manage(t) ==
  /\ at[t] = "manage"
  /\ userConn' = [userConn EXCEPT ![Caller(t)] =
       IF call[t].method = "Logout" THEN NULL
       ELSE IF @ = NULL THEN call[t].session ELSE @]
  /\ End(t)
  /\ UNCHANGED <<client, sent, pushed, tableVars, redisVars>>

-----------------------------------------------------------------------------
(* Login and Logout *)

\* Login reads the user's row; the password may be wrong.
LoginQuery(t) ==
  /\ at[t] = "queryUser"
  /\ \E state \in QueryUser(Caller(t)), matches \in BOOLEAN :
       IF state = "offline" /\ matches
       THEN Goto(t, "subscribe") /\ UNCHANGED call
       ELSE Goto(t, "respond") /\ call' = [call EXCEPT ![t].success = FALSE]
  /\ UNCHANGED <<userConn, client, sent, pushed, tableVars, redisVars>>

Subscribe(t) ==
  /\ at[t] = "subscribe"
  /\ WriteCommand(<<"SUBSCRIBE", Caller(t)>>)
  /\ Goto(t, "setOnline")
  /\ UNCHANGED <<call, userConn, client, sent, pushed, tableVars>>

SetOnline(t) ==
  /\ at[t] = "setOnline"
  /\ UpdateState(Caller(t), "online")
  /\ Goto(t, "respond")
  /\ UNCHANGED <<call, userConn, client, sent, pushed, redisVars>>

Unsubscribe(t) ==
  /\ at[t] = "unsubscribe"
  /\ WriteCommand(<<"UNSUBSCRIBE", Caller(t)>>)
  /\ Goto(t, "setOffline")
  /\ UNCHANGED <<call, userConn, client, sent, pushed, tableVars>>

SetOffline(t) ==
  /\ at[t] = "setOffline"
  /\ UpdateState(Caller(t), "offline")
  /\ Goto(t, "respond")
  /\ UNCHANGED <<call, userConn, client, sent, pushed, redisVars>>

-----------------------------------------------------------------------------
(* OneChat and GroupChat *)

\* GroupChat reads the members but its caller, and composes the message.
QueryGroup(t) ==
  /\ at[t] = "queryGroup"
  /\ \E members \in QueryGroupUsers(Caller(t), call[t].group) :
       /\ call' = [call EXCEPT ![t].id = sent + 1, ![t].rest = members]
       /\ Goto(t, IF members = {} THEN "respond" ELSE "queryMember")
  /\ sent' = sent + 1
  /\ UNCHANGED <<userConn, client, pushed, tableVars, redisVars>>

\* The next of those who have to get the message: online or not?
QueryMember(t) ==
  /\ at[t] = "queryMember"
  /\ \E u \in call[t].rest :
       /\ call' = [call EXCEPT ![t].to = u]
       /\ \E state \in QueryUser(u) :
            Goto(t, IF state = "online" THEN "publish" ELSE "store")
  /\ UNCHANGED <<userConn, client, sent, pushed, tableVars, redisVars>>

\* Two bugs: nobody is struck off; the loop ends after the first.
SentAgain(t) == Goto(t, "queryMember") /\ UNCHANGED call
SentOnce(t)  == Goto(t, "respond") /\ call' = [call EXCEPT ![t].rest = {}]

\* On to the next, or to the end.
Sent(t) ==
  LET rest == call[t].rest \ {call[t].to}
  IN  /\ call' = [call EXCEPT ![t].rest = rest]
      /\ Goto(t, IF rest = {} THEN "respond" ELSE "queryMember")

\* A bug: OneChat goes on to store what it published.
PublishAndStore(t) ==
  /\ at[t] = "publish"
  /\ Publish(LetterTo(t, call[t].to))
  /\ Goto(t, "store")
  /\ UNCHANGED <<call, userConn, client, sent, pushed, tableVars>>

PublishLetter(t) ==
  /\ at[t] = "publish"
  /\ Publish(LetterTo(t, call[t].to))
  /\ Sent(t)
  /\ UNCHANGED <<userConn, client, sent, pushed, tableVars>>

StoreLetter(t) ==
  /\ at[t] = "store"
  /\ InsertMessage(LetterTo(t, call[t].to))
  /\ Sent(t)
  /\ UNCHANGED <<userConn, client, sent, pushed, redisVars>>

\* The observer reads a message and pushes it on the user's connection.
Observe ==
  /\ ReadChannel
  /\ LET letter == Head(channel)
         s      == userConn[letter.to]
     IN  pushed' = IF s # NULL /\ client[s] # "gone" THEN Append(pushed, letter) ELSE pushed
  /\ UNCHANGED <<at, call, userConn, client, sent, tableVars>>

-----------------------------------------------------------------------------
(* The other methods *)

Register(t) ==
  /\ at[t] = "insertUser"
  /\ InsertUser
  /\ call' = [call EXCEPT ![t].success = user' # user]
  /\ Goto(t, "respond")
  /\ UNCHANGED <<userConn, client, sent, pushed, redisVars>>

AddFriend(t) ==
  /\ at[t] = "insertFriend"
  /\ InsertFriend(Caller(t), call[t].to)
  /\ Goto(t, "respond")
  /\ UNCHANGED <<call, userConn, client, sent, pushed, redisVars>>

\* A bug: the creator is not added.
CreateGroupOnly(t) ==
  /\ at[t] = "createGroup"
  /\ \/ \E g \in Group : CreateGroup(g) /\ call' = [call EXCEPT ![t].group = g]
     \/ CreateGroupFails /\ UNCHANGED call
  /\ Goto(t, "respond")
  /\ UNCHANGED <<userConn, client, sent, pushed, redisVars>>

\* The group that is created has its creator added, by a second statement.
CreateGroupRow(t) ==
  /\ at[t] = "createGroup"
  /\ \/ \E g \in Group : /\ CreateGroup(g)
                         /\ call' = [call EXCEPT ![t].group = g]
                         /\ Goto(t, "addGroup")
     \/ CreateGroupFails /\ Goto(t, "respond") /\ UNCHANGED call
  /\ UNCHANGED <<userConn, client, sent, pushed, redisVars>>

AddGroupRow(t) ==
  /\ at[t] = "addGroup"
  /\ AddGroup(Caller(t), call[t].group)
  /\ Goto(t, "respond")
  /\ UNCHANGED <<call, userConn, client, sent, pushed, redisVars>>

-----------------------------------------------------------------------------
(* Failures of processes *)

\* A client ends; the server does nothing about its user.
Exit(s) ==
  /\ MayExit
  /\ client[s] # "gone"
  /\ client' = [client EXCEPT ![s] = "gone"]
  /\ UNCHANGED <<at, call, userConn, sent, pushed, tableVars, redisVars>>

\* The server ends and starts again, and so do its clients.
Crash ==
  /\ MayCrash
  /\ at' = [t \in Thread |-> "idle"]
  /\ userConn' = [u \in User |-> NULL]
  /\ client' = [s \in Session |-> IF client[s] = "gone" THEN "gone" ELSE "out"]
  /\ Reconnect
  /\ call' = [t \in Thread |-> NULL]
  /\ UNCHANGED <<sent, pushed, tableVars>>

-----------------------------------------------------------------------------

Init ==
  /\ InitTables /\ InitRedis
  /\ at = [t \in Thread |-> "idle"]
  /\ call = [t \in Thread |-> NULL]
  /\ userConn = [u \in User |-> NULL]
  /\ client = [s \in Session |-> "out"]
  /\ sent = 0 /\ pushed = <<>>

\* What a thread does once it has a request.
ThreadStep(t) ==
  \/ LoginQuery(t) \/ Subscribe(t) \/ SetOnline(t)
  \/ Unsubscribe(t) \/ SetOffline(t)
  \/ QueryGroup(t) \/ QueryMember(t) \/ PublishLetter(t) \/ StoreLetter(t)
  \/ Register(t) \/ AddFriend(t) \/ CreateGroupRow(t) \/ AddGroupRow(t)
  \/ Respond(t) \/ Manage(t)

RedisStep ==
  /\ RunCommand \/ Disconnect
  /\ UNCHANGED <<serviceVars, tableVars>>

Next ==
  \/ \E t \in Thread, s \in Session, m \in Method : Request(t, s, m)
  \/ \E t \in Thread : ThreadStep(t)
  \/ Observe
  \/ RedisStep
  \/ \E s \in Session : Exit(s)
  \/ Crash

Spec == Init /\ [][Next]_vars

\* Threads, observer and Redis go on with what they have begun.
FairSpec ==
  /\ Spec
  /\ \A t \in Thread : WF_vars(ThreadStep(t))
  /\ WF_vars(Observe)
  /\ WF_vars(RedisStep)

-----------------------------------------------------------------------------
(* Properties *)

(* Every variable has its type, and a thread has a call while it runs one. *)
TypeOK ==
  /\ user \in [User -> {"none", "offline", "online"}]
  /\ offlinemessage \subseteq Letter
  /\ friend \subseteq User \X User
  /\ allgroup \subseteq Group /\ groupuser \subseteq Group \X User
  /\ connected \in BOOLEAN
  /\ commands \in Seq({"SUBSCRIBE", "UNSUBSCRIBE"} \X User)
  /\ subscribed \subseteq User /\ channel \in Seq(Letter)
  /\ at \in [Thread -> At]
  /\ call \in [Thread -> Call \cup {NULL}]
  /\ \A t \in Thread : at[t] = "idle" <=> call[t] = NULL
  /\ userConn \in [User -> Session \cup {NULL}]
  /\ client \in [Session -> {"out", "in", "gone"}]
  /\ sent \in 0..MaxMessages
  /\ pushed \in Seq(Letter)

\* The letters that a thread has not sent yet, and all that are on their way.
Unsent(t) ==
  IF at[t] \in {"queryMember", "publish", "store"}
  THEN {LetterTo(t, u) : u \in call[t].rest} ELSE {}

Sending == (UNION {Unsent(t) : t \in Thread}) \cup {channel[i] : i \in DOMAIN channel}

(* Whatever fails, a message is stored or pushed for each of those it is   *)
(* for once at most, and never both stored and pushed.                     *)
MB == INSTANCE Mailbox WITH sending <- Sending, stored <- offlinemessage

ImplementsMailbox == MB!Spec

(* What one client sends to one user is pushed in the order it was sent.   *)
PushedInOrder ==
  \A i, j \in DOMAIN pushed :
    i < j /\ pushed[i].from = pushed[j].from /\ pushed[i].to = pushed[j].to
      => pushed[i].id < pushed[j].id

\* Whether Redis will have a channel subscribed to when it has run the commands.
WillBeSubscribed(u) ==
  LET Last(k, name) == commands[k] = <<name, u>> /\
                       \A j \in k + 1 .. Len(commands) : commands[j][2] # u
  IN  \/ \E k \in DOMAIN commands : Last(k, "SUBSCRIBE")
      \/ u \in subscribed /\ \A k \in DOMAIN commands : commands[k][2] # u

\* No thread is between the first and the last statement of u's Login or Logout.
Quiet(u) ==
  \A t \in Thread :
    at[t] \in {"subscribe", "setOnline", "unsubscribe", "setOffline", "respond"}
      => Caller(t) # u

(* The three places that know of a user's presence agree, between a login  *)
(* and a logout: its state in the table, the channel it is subscribed to,  *)
(* and its client.  For this nothing fails and a user has one client.      *)
PresenceAgrees ==
  \A u \in User : Quiet(u) =>
    /\ user[u] = "online" <=> WillBeSubscribed(u)
    /\ user[u] = "online" <=> \E s \in Session : UserOf[s] = u /\ client[s] = "in"

\* Every letter that is stored, pushed or on its way.
Letters == Sending \cup offlinemessage \cup {pushed[i] : i \in DOMAIN pushed}

(* Where only groups are written to: wherever the letters of one message   *)
(* are by now, they are for members of one group, and its sender is not    *)
(* among them.                                                             *)
GroupLettersReachMembers ==
  \A letter \in Letters : \E g \in Group : \A copy \in Letters :
    copy.id = letter.id =>
      <<g, copy.to>> \in groupuser /\ copy.to # UserOf[letter.from]

(* Where no statement fails, who is told that it created a group, or       *)
(* joined one, is a member of it: a message to the group will reach it.    *)
JoinedWhenAnswered ==
  [][\A t \in Thread :
       Respond(t) /\ call[t].method \in {"CreateGroup", "AddGroup"} /\ call[t].group # NULL
         => <<call[t].group, Caller(t)>> \in groupuser]_vars

(* Every request is answered, whatever the tables and Redis do.            *)
RequestsAreAnswered == \A s \in Session : Waiting(s) ~> ~Waiting(s)

(* No message stays on its way for ever.                                   *)
LettersSettle == Sending # {} ~> Sending = {}

(* OneChat says that a message is stored if the user is not online.  As    *)
(* long as nobody logs out, and no statement fails, so it is: when the     *)
(* letter for such a user goes, it is stored.                              *)
OfflineMessagesAreStored ==
  [][\A letter \in Sending :
       letter \notin Sending' /\ user[letter.to] # "online"
         => letter \in offlinemessage']_vars

-----------------------------------------------------------------------------
(* What comments of the code say, and the code does not do *)

(* Login says that duplicate login is not allowed: a user is logged in by  *)
(* one client at a time.                                                   *)
NoDuplicateLogin ==
  \A r, s \in Session :
    UserOf[r] = UserOf[s] /\ client[r] = "in" /\ client[s] = "in" => r = s

(* Login says that who is refused for being online has already logged in.  *)
RefusedIsLoggedIn ==
  [][\A t \in Thread :
       LoginQuery(t) /\ user[Caller(t)] = "online"
         => \E s \in Session : UserOf[s] = Caller(t) /\ client[s] = "in"]_vars

=============================================================================
