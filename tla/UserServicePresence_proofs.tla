-------------------- MODULE UserServicePresence_proofs ----------------------
(***************************************************************************)
(* Theorems about presence.  Where nobody logs out and no statement fails, *)
(* messages for users who are not online are stored; where nothing fails   *)
(* and a user has one client, the places that know of its presence agree.  *)
(***************************************************************************)
EXTENDS UserServiceMailbox_proofs

(***************************************************************************)
(* Messages for users who are not online.                                  *)
(***************************************************************************)

(* Who has a letter published is online; it remains so.                    *)
PublishedOnline ==
  /\ \A t \in Thread : at[t] = "publish" => user[call[t].to] = "online"
  /\ \A i \in DOMAIN channel : user[channel[i].to] = "online"

(* Nobody is set offline but by Logout.                                    *)
LEMMA OnlineStays ==
  ASSUME "Logout" \notin Method, IInv, CallAt, [Next]_vars
  PROVE  \A u \in User : user[u] = "online" => user'[u] = "online"
<1>1. StoresTyped /\ CallsTyped
  BY Parts
<1>2. CASE UNCHANGED user
  BY <1>2
<1>3. ASSUME NEW t \in Thread, ThreadStep(t), user' # user
      PROVE  \A u \in User : user[u] = "online" => user'[u] = "online"
  <2>1. CASE SetOnline(t)
    BY <1>1, <1>3, <2>1 DEF SetOnline, UpdateState, StoresTyped
  <2>2. CASE Register(t)
    BY <1>1, <1>3, <2>2 DEF Register, InsertUser, StoresTyped
  <2>3. CASE SetOffline(t)
    <3>1. at[t] = "setOffline" /\ call[t].method \in Method
      BY <1>1, <2>3, CallTyped DEF SetOffline
    <3> QED BY <3>1, UserServiceAssumption DEF CallAt, PlacesOf
  <2> QED BY <1>3, <2>1, <2>2, <2>3 DEF ThreadStep, LoginQuery, Subscribe, Unsubscribe,
     QueryGroup, QueryMember, PublishLetter, StoreLetter, AddFriend, CreateGroupRow,
     AddGroupRow, Respond, Manage, InsertMessage, InsertFriend, CreateGroup,
     CreateGroupFails, AddGroup, tableVars
<1> QED BY <1>2, <1>3 DEF Next, Request, Observe, RedisStep, Exit, Crash, vars, tableVars

(* A thread comes to publish after it has found its user online.           *)
LEMMA PublishAfterQuery ==
  ASSUME MySqlFails = FALSE, IInv, [Next]_vars, NEW t \in Thread, at'[t] = "publish"
  PROVE  \/ QueryMember(t) /\ user[call'[t].to] = "online" /\ UNCHANGED user
         \/ at[t] = "publish" /\ call'[t] = call[t]
<1>1. CallsTyped
  BY Parts
<1>2. CASE UNCHANGED <<at, call>>
  BY <1>2
<1>3. ASSUME NEW r \in Thread, r # t, ThreadStep(r) PROVE at[t] = "publish" /\ call'[t] = call[t]
  BY <1>1, <1>3 DEF ThreadStep, LoginQuery, Subscribe, SetOnline, Unsubscribe, SetOffline,
     QueryGroup, QueryMember, PublishLetter, StoreLetter, Register, AddFriend,
     CreateGroupRow, AddGroupRow, Respond, Manage, Goto, Sent, End, CallsTyped
<1>4. CASE QueryMember(t)
  <2>1. PICK u \in call[t].rest : /\ call' = [call EXCEPT ![t].to = u]
                                  /\ Goto(t, IF user[u] = "online" THEN "publish" ELSE "store")
                                  /\ UNCHANGED user
    BY <1>4 DEF QueryMember, QueryUser, tableVars
  <2>2. call'[t].to = u
    <3>1. call[t] \in Call
      BY <1>1, <1>4, CallTyped DEF QueryMember
    <3> QED BY <1>1, <2>1, <3>1 DEF Call, CallsTyped
  <2>3. user[u] = "online"
    BY <1>1, <2>1 DEF Goto, CallsTyped
  <2> QED BY <1>4, <2>1, <2>2, <2>3
<1>5. CASE ThreadStep(t) /\ ~QueryMember(t)
  BY <1>1, <1>5 DEF ThreadStep, LoginQuery, Subscribe, SetOnline, Unsubscribe, SetOffline,
     QueryGroup, PublishLetter, StoreLetter, Register, AddFriend,
     CreateGroupRow, AddGroupRow, Respond, Manage, Goto, Sent, End, CallsTyped
<1>6. ASSUME NEW r \in Thread, NEW s \in Session, NEW m \in Method, Request(r, s, m)
      PROVE  at[t] = "publish" /\ call'[t] = call[t]
  BY <1>1, <1>6, StartPlace DEF Request, Goto, CallsTyped
<1>7. CASE Crash
  BY <1>7 DEF Crash
<1> QED BY <1>2, <1>3, <1>4, <1>5, <1>6, <1>7
        DEF Next, Observe, RedisStep, Exit, vars, serviceVars

LEMMA PublishedOnlineStep ==
  ASSUME "Logout" \notin Method, MySqlFails = FALSE, IInv, CallAt, PublishedOnline, [Next]_vars
  PROVE  PublishedOnline'
<1>1. StoresTyped /\ CallsTyped /\ LettersTyped
  BY Parts
<1>2. \A u \in User : user[u] = "online" => user'[u] = "online"
  BY OnlineStays
<1>3. ASSUME NEW t \in Thread, at'[t] = "publish" PROVE user'[call'[t].to] = "online"
  <2>1. CASE QueryMember(t) /\ user[call'[t].to] = "online" /\ UNCHANGED user
    BY <2>1
  <2>2. CASE at[t] = "publish" /\ call'[t] = call[t]
    <3>1. call[t].to \in User
      BY <2>2, LetterSent
    <3> QED BY <1>2, <2>2, <3>1 DEF PublishedOnline
  <2> QED BY <1>3, <2>1, <2>2, PublishAfterQuery
<1>4. ASSUME NEW i \in DOMAIN channel' PROVE user'[channel'[i].to] = "online"
  <2>1. \A j \in DOMAIN channel : channel[j].to \in User
    <3>1. \A j \in DOMAIN channel : channel[j] \in Letter
      BY <1>1 DEF LettersTyped
    <3> QED BY <3>1 DEF Letter
  <2>2. CASE \E j \in DOMAIN channel : channel'[i] = channel[j]
    BY <1>2, <2>1, <2>2 DEF PublishedOnline
  <2>3. ASSUME NEW t \in Thread, PublishLetter(t),
               channel' = Append(channel, LetterTo(t, call[t].to))
        PROVE  user'[channel'[i].to] = "online"
    <3>1. PICK letter : letter = LetterTo(t, call[t].to)
      OBVIOUS
    <3>2. at[t] = "publish" /\ letter.to = call[t].to /\ letter.to \in User /\ letter \in Letter
      BY <2>3, <3>1, LetterSent DEF PublishLetter
    <3>3. (i \in DOMAIN channel /\ channel'[i] = channel[i]) \/ channel'[i] = letter
      BY <1>1, <2>3, <3>1, <3>2, AppendProperties DEF LettersTyped
    <3>4. user'[letter.to] = "online"
      BY <1>2, <3>2 DEF PublishedOnline
    <3> QED BY <2>2, <3>3, <3>4
  <2>4. CASE channel' = channel
    BY <2>2, <2>4
  <2>5. CASE channel' = <<>>
    BY <2>5
  <2>6. CASE Observe
    <3>1. channel \in Seq(Letter) /\ channel # <<>> /\ channel' = Tail(channel)
      BY <1>1, <2>6 DEF LettersTyped, Observe, ReadChannel
    <3>2. i + 1 \in DOMAIN channel /\ channel'[i] = channel[i + 1]
      BY <3>1, HeadTailProperties
    <3> QED BY <2>2, <3>2
  <2>7. ASSUME NEW t \in Thread, ThreadStep(t) PROVE user'[channel'[i].to] = "online"
    <3>1. CASE PublishLetter(t)
      BY <2>3, <2>4, <3>1 DEF PublishLetter, Publish
    <3>2. CASE ~PublishLetter(t)
      <4>1. channel' = channel
        BY <2>7, <3>2 DEF ThreadStep, LoginQuery, Subscribe, SetOnline, Unsubscribe,
           SetOffline, QueryGroup, QueryMember, StoreLetter, Register, AddFriend,
           CreateGroupRow, AddGroupRow, Respond, Manage, WriteCommand, redisVars
      <4> QED BY <2>4, <4>1
    <3> QED BY <3>1, <3>2
  <2>8. CASE RedisStep \/ Crash
    BY <2>4, <2>5, <2>8 DEF RedisStep, RunCommand, Disconnect, Crash, Reconnect
  <2>9. CASE UNCHANGED channel
    BY <2>4, <2>9
  <2> QED BY <2>6, <2>7, <2>8, <2>9 DEF Next, Request, Exit, vars, redisVars
<1> QED BY <1>3, <1>4 DEF PublishedOnline

(* A letter for a user who is not online is a thread's, which stores it.   *)
LEMMA OfflineStep ==
  ASSUME MySqlFails = FALSE, MayCrash = FALSE, IInv, CallAt, PublishedOnline, [Next]_vars,
         NEW letter \in Sending, letter \notin Sending', user[letter.to] # "online"
  PROVE  letter \in offlinemessage'
<1>1. CallsTyped
  BY Parts
<1>2. PICK t \in Thread : letter \in Unsent(t)
  BY InSending DEF PublishedOnline, ChannelLetters
<1>3. at[t] \in SendingPlace /\ at[t] # "idle" /\ letter \notin Unsent(t)'
  BY <1>2, UnsentLetters, InSending DEF SendingPlace
<1>4. ~(at'[t] = at[t] /\ call'[t] = call[t])
  BY <1>2, <1>3 DEF Unsent, LetterTo
<1>5. ASSUME NEW r \in Thread, ThreadStep(r) PROVE r = t
  BY <1>4, <1>5, CallGoesOn
<1>6. CASE QueryMember(t)
  <2>1. PICK u \in call[t].rest, p \in {"publish", "store"} :
          at' = [at EXCEPT ![t] = p] /\ call' = [call EXCEPT ![t].to = u]
    BY <1>6 DEF QueryMember, Goto
  <2>2. PICK c : c = [call[t] EXCEPT !.to = u]
    OBVIOUS
  <2>3. call[t] \in Call
    BY <1>1, <1>3, CallTyped
  <2>4. /\ c.session = call[t].session /\ c.id = call[t].id /\ c.rest = call[t].rest
        /\ at'[t] = p /\ call'[t] = c
    BY <1>1, <2>1, <2>2, <2>3 DEF Call, CallsTyped
  <2>5. Unsent(t)' = Unsent(t)
    BY <1>3, <2>4 DEF Unsent, LetterTo, SendingPlace
  <2> QED BY <1>2, <1>3, <2>5
<1>7. CASE PublishLetter(t)
  <2>1. at[t] = "publish" /\ user[call[t].to] = "online" /\ Sent(t)
    BY <1>7 DEF PublishLetter, PublishedOnline
  <2>2. LetterTo(t, call[t].to).to = call[t].to
    BY DEF LetterTo
  <2>3. Unsent(t)' = Unsent(t) \ {LetterTo(t, call[t].to)}
    BY <2>1, SentLetter
  <2> QED BY <1>2, <1>3, <2>1, <2>2, <2>3
<1>8. CASE StoreLetter(t)
  <2>1. at[t] = "store" /\ Sent(t)
    BY <1>8 DEF StoreLetter
  <2>2. Unsent(t)' = Unsent(t) \ {LetterTo(t, call[t].to)}
    BY <2>1, SentLetter
  <2>3. offlinemessage' = offlinemessage \cup {LetterTo(t, call[t].to)}
    BY <1>8 DEF StoreLetter, InsertMessage
  <2> QED BY <1>2, <1>3, <2>2, <2>3
<1>9. ASSUME NEW r \in Thread, NEW s \in Session, NEW m \in Method, Request(r, s, m)
      PROVE  FALSE
  BY <1>1, <1>3, <1>4, <1>9 DEF Request, Goto, CallsTyped
<1>10. CASE ThreadStep(t)
  BY <1>3, <1>6, <1>7, <1>8, <1>10 DEF ThreadStep, LoginQuery, Subscribe, SetOnline,
     Unsubscribe, SetOffline, QueryGroup, Register, AddFriend, CreateGroupRow, AddGroupRow,
     Respond, Manage, SendingPlace
<1>11. CASE UNCHANGED <<at, call>>
  BY <1>4, <1>11
<1> QED BY <1>5, <1>9, <1>10, <1>11
        DEF Next, Observe, RedisStep, Exit, Crash, vars, serviceVars

(* OneChat says that a message is stored if the user is not online.  As    *)
(* long as nobody logs out, no statement fails and the server runs on, so  *)
(* it is, though Redis fails and clients end.                              *)
THEOREM OfflineAreStored ==
  ASSUME "Logout" \notin Method, MySqlFails = FALSE, MayCrash = FALSE
  PROVE  Spec => OfflineMessagesAreStored
<1>1. Init => PublishedOnline
  BY DEF Init, InitRedis, PublishedOnline
<1>2. IInv /\ CallAt /\ PublishedOnline /\ [Next]_vars => PublishedOnline'
  BY PublishedOnlineStep
<1>3. IInv /\ CallAt /\ PublishedOnline /\ [Next]_vars =>
        [\A letter \in Sending :
           letter \notin Sending' /\ user[letter.to] # "online"
             => letter \in offlinemessage']_vars
  BY OfflineStep
<1> QED BY <1>1, <1>2, <1>3, Invariant, CallAtInvariant, PTL DEF Spec, OfflineMessagesAreStored

-----------------------------------------------------------------------------
(***************************************************************************)
(* Presence, where nothing fails and a user has one client.                *)
(***************************************************************************)

Command == {"SUBSCRIBE", "UNSUBSCRIBE"} \X User

(* Whether u's channel, of those in S, is subscribed to after commands q.  *)
Opens(q, S, u) ==
  \/ \E k \in DOMAIN q : /\ q[k] = <<"SUBSCRIBE", u>>
                         /\ \A j \in DOMAIN q : k < j => q[j][2] # u
  \/ u \in S /\ \A k \in DOMAIN q : q[k][2] # u

LEMMA WillOpen ==
  ASSUME StoresTyped, StoresTyped', NEW u
  PROVE  /\ WillBeSubscribed(u) <=> Opens(commands, subscribed, u)
         /\ WillBeSubscribed(u)' <=> Opens(commands', subscribed', u)
<1>1. ASSUME NEW q \in Seq(Command), NEW k \in DOMAIN q
      PROVE  (\A j \in k + 1 .. Len(q) : q[j][2] # u)
               <=> (\A j \in DOMAIN q : k < j => q[j][2] # u)
  <2>1. Len(q) \in Nat /\ DOMAIN q = 1 .. Len(q)
    OBVIOUS
  <2>2. \A j : j \in k + 1 .. Len(q) <=> j \in DOMAIN q /\ k < j
    BY <2>1
  <2> QED BY <2>2
<1>2. commands \in Seq(Command) /\ commands' \in Seq(Command)
  BY DEF StoresTyped, Command
<1>3. WillBeSubscribed(u) <=> Opens(commands, subscribed, u)
  BY <1>1, <1>2 DEF WillBeSubscribed, Opens
<1>4. WillBeSubscribed(u)' <=> Opens(commands', subscribed', u)
  BY <1>1, <1>2 DEF WillBeSubscribed, Opens
<1> QED BY <1>3, <1>4

(* The last command for a channel is the one that counts.                  *)
LEMMA OpensAppend ==
  ASSUME NEW q \in Seq(Command), NEW S, NEW u, NEW c \in Command
  PROVE  Opens(Append(q, c), S, u) <=>
           IF c[2] = u THEN c[1] = "SUBSCRIBE" ELSE Opens(q, S, u)
<1>1. PICK p : p = Append(q, c)
  OBVIOUS
<1>2. PICK n \in Nat : n = Len(q)
  OBVIOUS
<1>3. /\ DOMAIN q = 1 .. n /\ DOMAIN p = 1 .. (n + 1)
      /\ p[n + 1] = c /\ \A i \in 1 .. n : p[i] = q[i]
  BY <1>1, <1>2, AppendProperties
<1>4. c = <<c[1], c[2]>>
  BY DEF Command
<1>5. CASE c[2] = u
  <2>1. ~\A k \in DOMAIN p : p[k][2] # u
    BY <1>3, <1>5
  <2>2. \A k \in DOMAIN p : (\A j \in DOMAIN p : k < j => p[j][2] # u) => k = n + 1
    BY <1>3, <1>5
  <2>3. \A j \in DOMAIN p : ~(n + 1 < j)
    BY <1>3
  <2> QED BY <1>1, <1>3, <1>4, <1>5, <2>1, <2>2, <2>3 DEF Opens
<1>6. CASE c[2] # u
  <2>1. p[n + 1] # <<"SUBSCRIBE", u>> /\ p[n + 1][2] # u
    BY <1>3, <1>4, <1>6
  <2>2. (\A k \in DOMAIN p : p[k][2] # u) <=> (\A k \in DOMAIN q : q[k][2] # u)
    BY <1>3, <2>1
  <2>3. \A k \in 1 .. n : (\A j \in DOMAIN p : k < j => p[j][2] # u)
                          <=> (\A j \in DOMAIN q : k < j => q[j][2] # u)
    BY <1>3, <2>1
  <2>4. (\E k \in DOMAIN p : p[k] = <<"SUBSCRIBE", u>> /\ \A j \in DOMAIN p : k < j => p[j][2] # u)
        <=> \E k \in DOMAIN q : q[k] = <<"SUBSCRIBE", u>> /\ \A j \in DOMAIN q : k < j => q[j][2] # u
    <3>1. \A k \in DOMAIN p : p[k] = <<"SUBSCRIBE", u>> => k \in 1 .. n
      BY <1>3, <2>1
    <3>2. \A k \in 1 .. n : k \in DOMAIN p /\ k \in DOMAIN q /\ p[k] = q[k]
      BY <1>2, <1>3
    <3>3. DOMAIN q = 1 .. n
      BY <1>3
    <3>4. \A k \in 1 .. n :
            (p[k] = <<"SUBSCRIBE", u>> /\ \A j \in DOMAIN p : k < j => p[j][2] # u)
            <=> (q[k] = <<"SUBSCRIBE", u>> /\ \A j \in DOMAIN q : k < j => q[j][2] # u)
      BY <2>3, <3>2
    <3>5. (\E k \in DOMAIN p : p[k] = <<"SUBSCRIBE", u>> /\ \A j \in DOMAIN p : k < j => p[j][2] # u)
          <=> \E k \in 1 .. n : p[k] = <<"SUBSCRIBE", u>> /\ \A j \in DOMAIN p : k < j => p[j][2] # u
      BY <3>1, <3>2, Zenon
    <3> QED BY <3>3, <3>4, <3>5, Zenon
  <2>5. Opens(p, S, u) <=> Opens(q, S, u)
    BY <2>2, <2>4, Zenon DEF Opens
  <2> QED BY <1>1, <1>6, <2>5
<1> QED BY <1>5, <1>6

(* Running the first command leaves what the commands amount to.           *)
LEMMA OpensTail ==
  ASSUME NEW q \in Seq(Command), q # <<>>, NEW S, NEW T, NEW u,
         T = IF Head(q)[1] = "SUBSCRIBE" THEN S \cup {Head(q)[2]} ELSE S \ {Head(q)[2]}
  PROVE  Opens(Tail(q), T, u) <=> Opens(q, S, u)
<1>1. PICK r : r = Tail(q)
  OBVIOUS
<1>2. PICK n \in Nat \ {0} : n = Len(q)
  BY EmptySeq
<1>3. /\ DOMAIN q = 1 .. n /\ DOMAIN r = 1 .. (n - 1)
      /\ q[1] = Head(q) /\ \A i \in 1 .. (n - 1) : r[i] = q[i + 1]
  BY <1>1, <1>2, HeadTailProperties
<1>4. q[1] = <<q[1][1], q[1][2]>> /\ q[1][1] \in {"SUBSCRIBE", "UNSUBSCRIBE"}
  BY <1>3, HeadTailProperties DEF Command
<1>5. \A k \in 2 .. n : k - 1 \in 1 .. (n - 1) /\ r[k - 1] = q[k]
  BY <1>3
<1>6. \A k \in 2 .. n : (\A j \in DOMAIN q : k < j => q[j][2] # u)
                        <=> (\A j \in DOMAIN r : k - 1 < j => r[j][2] # u)
  <2> SUFFICES ASSUME NEW k \in 2 .. n
               PROVE  (\A j \in DOMAIN q : k < j => q[j][2] # u)
                        <=> (\A j \in DOMAIN r : k - 1 < j => r[j][2] # u)
    OBVIOUS
  <2>1. ASSUME \A j \in DOMAIN q : k < j => q[j][2] # u, NEW j \in DOMAIN r, k - 1 < j
        PROVE  r[j][2] # u
    <3>1. j + 1 \in DOMAIN q /\ k < j + 1 /\ r[j] = q[j + 1]
      BY <1>3, <2>1
    <3> QED BY <2>1, <3>1
  <2>2. ASSUME \A j \in DOMAIN r : k - 1 < j => r[j][2] # u, NEW j \in DOMAIN q, k < j
        PROVE  q[j][2] # u
    <3>1. j \in 2 .. n /\ k - 1 < j - 1
      BY <1>3, <2>2
    <3>2. j - 1 \in DOMAIN r /\ r[j - 1] = q[j]
      BY <1>3, <1>5, <3>1
    <3> QED BY <2>2, <3>1, <3>2
  <2> QED BY <2>1, <2>2
<1>7. CASE \E i \in DOMAIN r : r[i][2] = u
  <2>1. PICK i \in DOMAIN r : r[i][2] = u
    BY <1>7
  <2>2. i + 1 \in DOMAIN q /\ 1 < i + 1 /\ q[i + 1][2] = u
    BY <1>3, <2>1
  <2>3. (\E k \in DOMAIN q : q[k] = <<"SUBSCRIBE", u>> /\ \A j \in DOMAIN q : k < j => q[j][2] # u)
        => \E k \in DOMAIN r : r[k] = <<"SUBSCRIBE", u>> /\ \A j \in DOMAIN r : k < j => r[j][2] # u
    <3> SUFFICES ASSUME NEW k \in DOMAIN q, q[k] = <<"SUBSCRIBE", u>>,
                        \A j \in DOMAIN q : k < j => q[j][2] # u
                 PROVE  \E m \in DOMAIN r : r[m] = <<"SUBSCRIBE", u>>
                                            /\ \A j \in DOMAIN r : m < j => r[j][2] # u
      OBVIOUS
    <3>1. k \in 2 .. n
      BY <1>3, <2>2
    <3>2. k - 1 \in DOMAIN r /\ r[k - 1] = q[k]
      BY <1>3, <1>5, <3>1
    <3>3. \A j \in DOMAIN r : k - 1 < j => r[j][2] # u
      BY <1>6, <3>1
    <3> QED BY <3>2, <3>3
  <2>4. (\E k \in DOMAIN r : r[k] = <<"SUBSCRIBE", u>> /\ \A j \in DOMAIN r : k < j => r[j][2] # u)
        => \E k \in DOMAIN q : q[k] = <<"SUBSCRIBE", u>> /\ \A j \in DOMAIN q : k < j => q[j][2] # u
    <3> SUFFICES ASSUME NEW k \in DOMAIN r, r[k] = <<"SUBSCRIBE", u>>,
                        \A j \in DOMAIN r : k < j => r[j][2] # u
                 PROVE  \E m \in DOMAIN q : q[m] = <<"SUBSCRIBE", u>>
                                            /\ \A j \in DOMAIN q : m < j => q[j][2] # u
      OBVIOUS
    <3>1. k + 1 \in 2 .. n /\ (k + 1) - 1 = k /\ q[k + 1] = r[k]
      BY <1>3
    <3>2. ASSUME NEW j \in DOMAIN q, k + 1 < j
          PROVE  q[j][2] # u
      <4>1. n \in Nat /\ k \in 1 .. (n - 1) /\ j \in 1 .. n
        BY <1>2, <1>3
      <4>2. j \in 2 .. n /\ j - 1 \in 1 .. (n - 1) /\ k < j - 1
        BY <3>2, <4>1
      <4>3. q[j] = r[j - 1] /\ j - 1 \in DOMAIN r
        BY <1>3, <1>5, <4>2
      <4> QED BY <4>2, <4>3
    <3>3. k + 1 \in DOMAIN q /\ q[k + 1] = <<"SUBSCRIBE", u>>
      BY <1>3, <3>1
    <3> QED BY <3>2, <3>3
  <2> QED BY <1>1, <2>1, <2>2, <2>3, <2>4 DEF Opens
<1>8. CASE \A i \in DOMAIN r : r[i][2] # u
  <2>1. \A k \in 2 .. n : q[k][2] # u
    BY <1>3, <1>5, <1>8
  <2>2. Opens(r, T, u) <=> u \in T
    BY <1>8 DEF Opens
  <2>3. CASE q[1][2] = u
    <3>1. ~\A k \in DOMAIN q : q[k][2] # u
      BY <1>3, <2>3
    <3>2. \A j \in DOMAIN q : 1 < j => q[j][2] # u
      BY <1>3, <2>1
    <3>3. \A k \in DOMAIN q : q[k] = <<"SUBSCRIBE", u>> => k = 1
      BY <1>3, <2>1
    <3>4. Opens(q, S, u) <=> q[1] = <<"SUBSCRIBE", u>>
      BY <1>3, <3>1, <3>2, <3>3, SMTT(30) DEF Opens
    <3> QED BY <1>1, <1>3, <1>4, <2>2, <2>3, <3>4
  <2>4. CASE q[1][2] # u
    <3>1. \A k \in DOMAIN q : q[k][2] # u
      BY <1>3, <2>1, <2>4
    <3>2. Opens(q, S, u) <=> u \in S
      BY <3>1 DEF Opens
    <3> QED BY <1>1, <1>3, <2>2, <2>4, <3>2
  <2> QED BY <2>3, <2>4
<1> QED BY <1>7, <1>8

-----------------------------------------------------------------------------
(* The inductive invariant.                                                *)

OneClient == \A r, s \in Session : UserOf[r] = UserOf[s] => r = s

NothingFails == MySqlFails = FALSE /\ RedisFails = FALSE /\ MayExit = FALSE /\ MayCrash = FALSE

(* Calls that have not failed.                                             *)
Succeeds ==
  \A t \in Thread :
    at[t] \in {"queryUser", "subscribe", "setOnline"}
    \/ (at[t] # "idle" /\ call[t].method = "Logout")
    => call[t].success = TRUE

(* The menu a client called from.                                          *)
MenuOfCall ==
  \A t \in Thread : Busy(t) =>
    client[call[t].session] = IF call[t].method \in {"Login", "Register"} THEN "out" ELSE "in"

(* A thread has changed a part of its user's presence, or is about to, and *)
(* has not told its client.                                                *)
Changing(t) ==
  \/ at[t] \in {"subscribe", "setOnline", "unsubscribe", "setOffline"}
  \/ at[t] = "respond" /\ call[t].method \in {"Login", "Logout"} /\ call[t].success = TRUE

Halfway(t) ==
  /\ user[Caller(t)] = IF \/ at[t] \in {"subscribe", "setOnline"}
                          \/ at[t] = "respond" /\ call[t].method = "Logout"
                       THEN "offline" ELSE "online"
  /\ WillBeSubscribed(Caller(t)) <=>
       \/ at[t] \in {"setOnline", "unsubscribe"}
       \/ at[t] = "respond" /\ call[t].method = "Login"

Settled(u) ==
  /\ user[u] = "online" <=> WillBeSubscribed(u)
  /\ user[u] = "online" <=> \E s \in Session : UserOf[s] = u /\ client[s] = "in"

(* A user's presence is settled, unless a thread is changing it.           *)
PresenceOf(u) ==
  /\ \A t \in Thread : Changing(t) /\ Caller(t) = u => Halfway(t)
  /\ (\A t \in Thread : Changing(t) => Caller(t) # u) => Settled(u)

PresenceInv ==
  /\ connected = TRUE
  /\ Succeeds
  /\ MenuOfCall
  /\ \A u \in User : PresenceOf(u)

-----------------------------------------------------------------------------
(* What a step has to do with the presence of the users.                   *)

(* What u's presence is made of remains.                                   *)
SamePresence(u) ==
  /\ user'[u] = user[u] \/ (user[u] = "none" /\ user'[u] = "offline")
  /\ WillBeSubscribed(u)' <=> WillBeSubscribed(u)
  /\ \A s \in Session : UserOf[s] = u => client'[s] = client[s]

LEMMA PresenceKept ==
  ASSUME NEW u \in User, PresenceOf(u), SamePresence(u),
         \A t \in Thread :
           \/ at'[t] = at[t] /\ call'[t] = call[t]
           \/ (Changing(t) => Caller(t) # u) /\ (Changing(t)' => Caller(t)' # u)
  PROVE  PresenceOf(u)'
<1>1. ASSUME NEW t \in Thread, Changing(t)', Caller(t)' = u
      PROVE  Halfway(t)'
  <2>1. at'[t] = at[t] /\ call'[t] = call[t]
    BY <1>1
  <2>2. Changing(t) /\ Caller(t) = u
    BY <1>1, <2>1 DEF Changing, Caller
  <2>3. Halfway(t)
    BY <2>2 DEF PresenceOf
  <2>4. user'[u] = user[u] /\ (WillBeSubscribed(u)' <=> WillBeSubscribed(u))
    BY <2>2, <2>3 DEF Halfway, SamePresence
  <2> HIDE DEF WillBeSubscribed
  <2> QED BY <1>1, <2>1, <2>2, <2>3, <2>4 DEF Halfway
<1>2. ASSUME \A t \in Thread : Changing(t)' => Caller(t)' # u
      PROVE  Settled(u)'
  <2>1. ASSUME NEW t \in Thread, Changing(t) PROVE Caller(t) # u
    <3>1. CASE at'[t] = at[t] /\ call'[t] = call[t]
      <4>1. Changing(t)' /\ Caller(t)' = Caller(t)
        BY <2>1, <3>1 DEF Changing, Caller
      <4> QED BY <1>2, <4>1
    <3> QED BY <2>1, <3>1
  <2>2. Settled(u)
    BY <2>1 DEF PresenceOf
  <2>3. user'[u] = "online" <=> user[u] = "online"
    BY DEF SamePresence
  <2> HIDE DEF WillBeSubscribed
  <2> QED BY <2>2, <2>3 DEF Settled, SamePresence
<1> QED BY <1>1, <1>2 DEF PresenceOf

(* Steps of which no client learns, and that change nothing for a user.    *)
LEMMA NobodyMoves ==
  ASSUME \A u \in User : PresenceOf(u) /\ SamePresence(u),
         \A t \in Thread :
           \/ at'[t] = at[t] /\ call'[t] = call[t]
           \/ ~Changing(t) /\ ~Changing(t)'
  PROVE  \A u \in User : PresenceOf(u)'
BY PresenceKept

(* Steps of a thread that change its own user's presence.                  *)
LEMMA UserMoves ==
  ASSUME NEW t \in Thread, NEW u \in User,
         \A v \in User : PresenceOf(v), \A v \in User : v # u => SamePresence(v),
         \A r \in Thread : r # t => at'[r] = at[r] /\ call'[r] = call[r],
         \A r \in Thread : r # t /\ Changing(r) => Caller(r) # u,
         Changing(t) => Caller(t) = u,
         Changing(t)' => Caller(t)' = u /\ Halfway(t)',
         ~Changing(t)' => Settled(u)'
  PROVE  \A v \in User : PresenceOf(v)'
<1>1. ASSUME NEW v \in User, v # u PROVE PresenceOf(v)'
  BY <1>1, PresenceKept
<1>2. PresenceOf(u)'
  <2>1. \A r \in Thread : r # t /\ Changing(r)' => Caller(r)' # u
    BY DEF Changing, Caller
  <2> HIDE DEF Changing, Caller, Halfway, Settled
  <2> QED BY <2>1 DEF PresenceOf
<1> QED BY <1>1, <1>2

(* No other thread changes the presence of a thread's user.                *)
LEMMA OnlyCaller ==
  ASSUME OneClient, IInv, NEW t \in Thread, Busy(t)
  PROVE  \A r \in Thread : r # t /\ Changing(r) => Caller(r) # Caller(t)
<1> SUFFICES ASSUME NEW r \in Thread, Changing(r), Caller(r) = Caller(t)
             PROVE  r = t
  OBVIOUS
<1>1. Busy(r)
  BY DEF Changing, Busy
<1>2. call[r].session \in Session /\ call[t].session \in Session
  BY <1>1, Parts, CallTyped DEF Busy
<1> QED BY <1>1, <1>2 DEF OneClient, Caller, IInv, OneCall

-----------------------------------------------------------------------------
(* The steps of Login and Logout.                                          *)

(* What a thread that is running finds: its user's presence is halfway or  *)
(* settled, and no other thread is changing it.                            *)
LEMMA OwnUser ==
  ASSUME OneClient, IInv, PresenceInv, NEW t \in Thread, Busy(t)
  PROVE  /\ Caller(t) \in User /\ call[t].session \in Session /\ call[t].method \in Method
         /\ \A r \in Thread : r # t /\ Changing(r) => Caller(r) # Caller(t)
         /\ Changing(t) => Halfway(t)
         /\ ~Changing(t) => Settled(Caller(t))
<1>1. Caller(t) \in User /\ call[t].session \in Session /\ call[t].method \in Method
  BY Parts, CallTyped DEF Busy
<1>2. \A r \in Thread : r # t /\ Changing(r) => Caller(r) # Caller(t)
  BY OnlyCaller
<1>3. PresenceOf(Caller(t))
  BY <1>1 DEF PresenceInv
<1> HIDE DEF Changing, Halfway, Settled, Caller
<1> QED BY <1>1, <1>2, <1>3 DEF PresenceOf

(* Nothing that presence is made of changes.                               *)
LEMMA NoPresenceChanges ==
  ASSUME UNCHANGED <<user, commands, subscribed, client>>
  PROVE  \A u : SamePresence(u)
BY DEF SamePresence, WillBeSubscribed

(* subscribe and unsubscribe write their command.                          *)
LEMMA CommandOpens ==
  ASSUME RedisFails = FALSE, connected = TRUE, StoresTyped, StoresTyped',
         NEW u \in User, NEW name \in {"SUBSCRIBE", "UNSUBSCRIBE"},
         WriteCommand(<<name, u>>)
  PROVE  /\ WillBeSubscribed(u)' <=> name = "SUBSCRIBE"
         /\ \A v \in User : v # u => (WillBeSubscribed(v)' <=> WillBeSubscribed(v))
<1>1. /\ commands' = Append(commands, <<name, u>>) /\ subscribed' = subscribed
      /\ commands \in Seq(Command) /\ <<name, u>> \in Command
  BY DEF WriteCommand, StoresTyped, Command
<1>2. \A v : Opens(commands', subscribed', v) <=>
               IF u = v THEN name = "SUBSCRIBE" ELSE Opens(commands, subscribed, v)
  BY <1>1, OpensAppend
<1> QED BY <1>2, WillOpen

LEMMA LoginQueryPresence ==
  ASSUME OneClient, NothingFails, IInv, CallAt, PresenceInv, NEW t \in Thread, LoginQuery(t)
  PROVE  \A u \in User : PresenceOf(u)'
<1>1. /\ CallsTyped /\ at[t] = "queryUser" /\ Busy(t) /\ ~Changing(t)
      /\ UNCHANGED <<user, commands, subscribed, client>>
  BY Parts DEF LoginQuery, Busy, Changing, tableVars, redisVars
<1>2. \A u : SamePresence(u)
  BY <1>1, NoPresenceChanges
<1>3. \A u \in User : PresenceOf(u)
  BY DEF PresenceInv
<1>4. CASE user[Caller(t)] = "offline" /\ Goto(t, "subscribe") /\ UNCHANGED call
  <2>1. /\ at'[t] = "subscribe" /\ call'[t] = call[t]
        /\ \A r \in Thread : r # t => at'[r] = at[r] /\ call'[r] = call[r]
    BY <1>1, <1>4 DEF Goto, CallsTyped
  <2>2. PICK u \in User : u = Caller(t)
    BY <1>1, OwnUser
  <2>3. Caller(t)' = u /\ Changing(t)'
    BY <2>1, <2>2 DEF Caller, Changing
  <2>4. Settled(u)
    BY <1>1, <2>2, OwnUser
  <2>5. user'[u] = "offline" /\ ~WillBeSubscribed(u)'
    BY <1>1, <1>2, <1>4, <2>2, <2>4 DEF Settled, SamePresence
  <2>6. Halfway(t)'
    <3> HIDE DEF WillBeSubscribed
    <3> QED BY <2>1, <2>3, <2>5 DEF Halfway
  <2>7. \A r \in Thread : r # t /\ Changing(r) => Caller(r) # u
    BY <1>1, <2>2, OwnUser
  <2> HIDE DEF SamePresence, Changing, Halfway, Settled, PresenceOf, Caller
  <2> QED BY <1>1, <1>2, <1>3, <2>1, <2>2, <2>3, <2>6, <2>7, UserMoves
<1>5. CASE Goto(t, "respond") /\ call' = [call EXCEPT ![t].success = FALSE]
  <2>1. call'[t].success = FALSE
    <3>1. call[t] \in Call
      BY <1>1, CallTyped
    <3> QED BY <1>1, <1>5, <3>1 DEF Call, CallsTyped
  <2>2. at'[t] = "respond"
    BY <1>1, <1>5 DEF Goto, CallsTyped
  <2>3. ~Changing(t)'
    BY <2>1, <2>2 DEF Changing
  <2>4. \A r \in Thread : r # t => at'[r] = at[r] /\ call'[r] = call[r]
    BY <1>1, <1>5 DEF Goto, CallsTyped
  <2> QED BY <1>1, <1>2, <1>3, <2>3, <2>4, NobodyMoves
<1>6. QueryUser(Caller(t)) = {user[Caller(t)]}
  BY DEF QueryUser, NothingFails
<1> QED BY <1>4, <1>5, <1>6 DEF LoginQuery

(* A step of Login or Logout that does not end it.                         *)
LEMMA ChangeGoesOn ==
  ASSUME OneClient, IInv, PresenceInv, NEW t \in Thread, Changing(t), NEW p,
         Goto(t, p), UNCHANGED <<call, client>>,
         \A v \in User : v # Caller(t) => /\ user'[v] = user[v]
                                          /\ WillBeSubscribed(v)' <=> WillBeSubscribed(v),
         Changing(t)', Halfway(t)'
  PROVE  \A u \in User : PresenceOf(u)'
<1>1. CallsTyped /\ Busy(t)
  BY Parts DEF Changing, Busy
<1>2. PICK u \in User : u = Caller(t)
  BY <1>1, OwnUser
<1>3. /\ \A r \in Thread : r # t => at'[r] = at[r] /\ call'[r] = call[r]
      /\ Caller(t)' = u
  BY <1>1, <1>2 DEF Goto, CallsTyped, Caller
<1>4. \A v \in User : v # u => SamePresence(v)
  BY <1>2 DEF SamePresence
<1>5. \A r \in Thread : r # t /\ Changing(r) => Caller(r) # u
  BY <1>1, <1>2, OwnUser
<1>6. \A v \in User : PresenceOf(v)
  BY DEF PresenceInv
<1> HIDE DEF SamePresence, Changing, Halfway, Settled, PresenceOf, Caller
<1> QED BY <1>2, <1>3, <1>4, <1>5, <1>6, UserMoves

LEMMA SubscriptionPresence ==
  ASSUME OneClient, NothingFails, IInv, CallAt, PresenceInv, NEW t \in Thread,
         Subscribe(t) \/ Unsubscribe(t)
  PROVE  \A u \in User : PresenceOf(u)'
<1>1. /\ CallsTyped /\ StoresTyped /\ Busy(t) /\ Changing(t)
      /\ UNCHANGED <<call, client, user>> /\ connected = TRUE
  BY Parts DEF Subscribe, Unsubscribe, Busy, Changing, PresenceInv, tableVars
<1>2. StoresTyped'
  <2>1. IInv'
    BY SubscriptionInvariant
  <2> QED BY <2>1 DEF IInv, TypeOK, StoresTyped
<1>3. PICK u \in User : u = Caller(t)
  BY <1>1, OwnUser
<1>4. PICK name \in {"SUBSCRIBE", "UNSUBSCRIBE"}, p \in {"setOnline", "setOffline"} :
        /\ WriteCommand(<<name, u>>) /\ Goto(t, p)
        /\ \/ name = "SUBSCRIBE" /\ at[t] = "subscribe" /\ p = "setOnline"
           \/ name = "UNSUBSCRIBE" /\ at[t] = "unsubscribe" /\ p = "setOffline"
  BY <1>3 DEF Subscribe, Unsubscribe
<1>5. /\ WillBeSubscribed(u)' <=> name = "SUBSCRIBE"
      /\ \A v \in User : v # u => (WillBeSubscribed(v)' <=> WillBeSubscribed(v))
  BY <1>1, <1>2, <1>4, CommandOpens DEF NothingFails
<1> HIDE DEF WillBeSubscribed
<1>6. /\ at'[t] = p /\ call'[t] = call[t] /\ Caller(t)' = u
  BY <1>1, <1>3, <1>4 DEF Goto, CallsTyped, Caller
<1>7. Halfway(t)
  BY <1>1, OwnUser
<1>8. Changing(t)' /\ Halfway(t)'
  BY <1>1, <1>3, <1>4, <1>5, <1>6, <1>7 DEF Halfway, Changing
<1>9. \A v \in User : v # Caller(t) => /\ user'[v] = user[v]
                                       /\ WillBeSubscribed(v)' <=> WillBeSubscribed(v)
  BY <1>1, <1>3, <1>5
<1> QED BY <1>1, <1>4, <1>8, <1>9, ChangeGoesOn

LEMMA StatePresence ==
  ASSUME OneClient, NothingFails, IInv, CallAt, PresenceInv, NEW t \in Thread,
         SetOnline(t) \/ SetOffline(t)
  PROVE  \A u \in User : PresenceOf(u)'
<1>1. /\ CallsTyped /\ StoresTyped /\ Busy(t) /\ Changing(t)
      /\ UNCHANGED <<call, client, commands, subscribed>> /\ Goto(t, "respond")
  BY Parts DEF SetOnline, SetOffline, Busy, Changing, redisVars
<1>2. PICK u \in User : u = Caller(t)
  BY <1>1, OwnUser
<1>3. PICK state \in {"online", "offline"} :
        /\ UpdateState(u, state)
        /\ \/ state = "online" /\ at[t] = "setOnline"
           \/ state = "offline" /\ at[t] = "setOffline"
  BY <1>2 DEF SetOnline, SetOffline
<1>4. /\ call[t].method = IF state = "online" THEN "Login" ELSE "Logout"
      /\ call[t].success = TRUE
  <2>1. call[t].method \in {"Login", "Logout", "Register", "OneChat", "GroupChat",
                            "AddFriend", "CreateGroup", "AddGroup"}
    BY <1>1, OwnUser, UserServiceAssumption
  <2>2. call[t].method = IF state = "online" THEN "Login" ELSE "Logout"
    BY <1>3, <2>1 DEF CallAt, PlacesOf
  <2> QED BY <1>3, <2>2 DEF PresenceInv, Succeeds
<1>5. Halfway(t)
  BY <1>1, OwnUser
<1>6. /\ user'[u] = state /\ \A v \in User : v # u => user'[v] = user[v]
  BY <1>1, <1>2, <1>3, <1>5 DEF UpdateState, NothingFails, Halfway, StoresTyped
<1>7. \A v : WillBeSubscribed(v)' <=> WillBeSubscribed(v)
  BY <1>1 DEF WillBeSubscribed
<1> HIDE DEF WillBeSubscribed
<1>8. /\ at'[t] = "respond" /\ call'[t] = call[t] /\ Caller(t)' = u
  BY <1>1, <1>2 DEF Goto, CallsTyped, Caller
<1>9. Changing(t)' /\ Halfway(t)'
  BY <1>2, <1>3, <1>4, <1>5, <1>6, <1>7, <1>8 DEF Halfway, Changing
<1> QED BY <1>1, <1>2, <1>6, <1>7, <1>9, ChangeGoesOn

(* A Login or Logout that has succeeded is told to its client.             *)
LEMMA ChangeEnds ==
  ASSUME OneClient, NothingFails, IInv, CallAt, PresenceInv, NEW t \in Thread,
         Respond(t), Changing(t)
  PROVE  \A u \in User : PresenceOf(u)'
<1>1. /\ CallsTyped /\ StoresTyped /\ Busy(t) /\ at[t] = "respond" /\ Goto(t, "manage")
      /\ call[t].method \in {"Login", "Logout"} /\ call[t].success = TRUE
      /\ UNCHANGED <<user, call, commands, subscribed>>
  BY Parts DEF Respond, Busy, Changing, tableVars, redisVars
<1>2. PICK u \in User, s \in Session : u = Caller(t) /\ s = call[t].session /\ UserOf[s] = u
  BY <1>1, OwnUser DEF Caller
<1>3. client' = [client EXCEPT ![s] = IF call[t].method = "Login" THEN "in" ELSE "out"]
  <2>1. client[s] \in {"out", "in"}
    BY <1>1, <1>2 DEF PresenceInv, MenuOfCall
  <2>2. MenuAfter(client[s], call[t]) = IF call[t].method = "Login" THEN "in" ELSE "out"
    BY <1>1, <2>1 DEF MenuAfter
  <2> QED BY <1>2, <2>2 DEF Respond
<1>4. /\ client'[s] = IF call[t].method = "Login" THEN "in" ELSE "out"
      /\ \A r \in Session : r # s => client'[r] = client[r]
  BY <1>1, <1>2, <1>3 DEF StoresTyped
<1>5. Halfway(t)
  BY <1>1, OwnUser
<1>6. \A v : WillBeSubscribed(v)' <=> WillBeSubscribed(v)
  BY <1>1 DEF WillBeSubscribed
<1>7. /\ at'[t] = "manage" /\ call'[t] = call[t] /\ Caller(t)' = u
      /\ \A r \in Thread : r # t => at'[r] = at[r] /\ call'[r] = call[r]
  BY <1>1, <1>2 DEF Goto, CallsTyped, Caller
<1> HIDE DEF WillBeSubscribed
<1>8. Settled(u)'
  BY <1>1, <1>2, <1>4, <1>5, <1>6 DEF Halfway, Settled, OneClient
<1>9. ~Changing(t)'
  BY <1>7 DEF Changing
<1>10. \A v \in User : v # u => SamePresence(v)
  BY <1>1, <1>2, <1>4, <1>6 DEF SamePresence
<1>11. \A r \in Thread : r # t /\ Changing(r) => Caller(r) # u
  BY <1>1, <1>2, OwnUser
<1>12. \A v \in User : PresenceOf(v)
  BY DEF PresenceInv
<1> HIDE DEF SamePresence, Changing, Halfway, Settled, PresenceOf, Caller
<1> QED BY <1>2, <1>7, <1>8, <1>9, <1>10, <1>11, <1>12, UserMoves

-----------------------------------------------------------------------------
(* The steps that are about nobody's presence.                             *)

(* The menu of a client changes when it is told of a login or a logout.    *)
LEMMA MenuStays ==
  ASSUME StoresTyped, CallsTyped, NEW t \in Thread, Respond(t),
         call[t].method \notin {"Login", "Logout"} \/ call[t].success = FALSE
  PROVE  UNCHANGED client
<1>1. MenuAfter(client[call[t].session], call[t]) = client[call[t].session]
  <2>1. call[t].success \in BOOLEAN
    BY CallTyped DEF Respond
  <2> QED BY <2>1 DEF MenuAfter
<1>2. client' = [client EXCEPT ![call[t].session] = client[call[t].session]]
  BY <1>1 DEF Respond
<1> QED BY <1>2 DEF StoresTyped

LEMMA OtherMethodPresence ==
  ASSUME OneClient, NothingFails, IInv, CallAt, PresenceInv, NEW t \in Thread, ThreadStep(t),
         call[t].method \notin {"Login", "Logout"}
  PROVE  \A u \in User : PresenceOf(u)'
<1>1. /\ StoresTyped /\ CallsTyped /\ at[t] # "idle"
      /\ \/ at'[t] = "idle"
         \/ /\ at'[t] \in PlacesOf(call[t].method)
            /\ call'[t].method = call[t].method
      /\ \A r \in Thread : r # t => at'[r] = at[r] /\ call'[r] = call[r]
  BY Parts, CallGoesOn
<1>2. /\ call[t].session \in Session
      /\ call[t].method \in {"Register", "OneChat", "GroupChat", "AddFriend", "CreateGroup",
                             "AddGroup"}
  BY <1>1, CallTyped, UserServiceAssumption
<1>3. PlacesOf(call[t].method) \subseteq
        {"queryGroup", "queryMember", "publish", "store", "insertUser", "insertFriend",
         "createGroup", "addGroup", "respond"}
  BY <1>2 DEF PlacesOf
<1>4. ~Changing(t) /\ ~Changing(t)'
  BY <1>1, <1>2, <1>3 DEF Changing, CallAt
<1>5. at[t] \in PlacesOf(call[t].method)
  BY <1>1 DEF CallAt
<1>6. UNCHANGED <<commands, subscribed, client>>
  BY <1>1, <1>2, <1>3, <1>5, MenuStays
     DEF ThreadStep, LoginQuery, Subscribe, SetOnline, Unsubscribe, SetOffline, QueryGroup,
         QueryMember, PublishLetter, StoreLetter, Publish, Register, AddFriend,
         CreateGroupRow, AddGroupRow, Respond, Manage, redisVars
<1>7. \A u \in User : user'[u] = user[u] \/ (user[u] = "none" /\ user'[u] = "offline")
  <2>1. CASE Register(t)
    BY <1>1, <2>1 DEF Register, InsertUser, StoresTyped
  <2>2. CASE UNCHANGED user
    BY <2>2
  <2> QED BY <1>3, <1>5, <2>1, <2>2
     DEF ThreadStep, LoginQuery, Subscribe, SetOnline, Unsubscribe, SetOffline, QueryGroup,
         QueryMember, PublishLetter, StoreLetter, InsertMessage, AddFriend, InsertFriend,
         CreateGroupRow, CreateGroup, CreateGroupFails, AddGroupRow, AddGroup, Respond,
         Manage, tableVars
<1>8. \A u \in User : SamePresence(u) /\ PresenceOf(u)
  BY <1>6, <1>7 DEF SamePresence, WillBeSubscribed, PresenceInv
<1> QED BY <1>1, <1>4, <1>8, NobodyMoves

LEMMA ThreadPresence ==
  ASSUME OneClient, NothingFails, IInv, CallAt, PresenceInv, NEW t \in Thread, ThreadStep(t)
  PROVE  \A u \in User : PresenceOf(u)'
<1>1. /\ StoresTyped /\ CallsTyped /\ at[t] # "idle"
      /\ \A r \in Thread : r # t => at'[r] = at[r] /\ call'[r] = call[r]
      /\ \A u \in User : PresenceOf(u)
  BY Parts, CallGoesOn DEF PresenceInv
<1>2. CASE Manage(t) \/ (Respond(t) /\ ~Changing(t))
  <2>1. CASE call[t].method \in {"Login", "Logout"}
    <3>1. UNCHANGED client
      <4>1. ASSUME Respond(t), ~Changing(t) PROVE call[t].success = FALSE
        BY <1>1, <2>1, <4>1, CallTyped DEF Respond, Changing
      <4> QED BY <1>1, <1>2, <4>1, CallTyped, MenuStays DEF Manage
    <3>2. at[t] \in {"manage", "respond"} /\ at'[t] \in {"manage", "idle"}
      BY <1>1, <1>2 DEF Manage, Respond, End, Goto, CallsTyped
    <3>3. ~Changing(t) /\ ~Changing(t)'
      BY <1>2, <3>2 DEF Manage, Changing
    <3>4. \A u : SamePresence(u)
      BY <1>2, <3>1, NoPresenceChanges DEF Manage, Respond, tableVars, redisVars
    <3> QED BY <1>1, <3>3, <3>4, NobodyMoves
  <2> QED BY <2>1, OtherMethodPresence
<1>3. CASE Respond(t) /\ Changing(t)
  BY <1>3, ChangeEnds
<1>4. CASE \/ QueryGroup(t) \/ QueryMember(t) \/ PublishLetter(t) \/ StoreLetter(t)
           \/ Register(t) \/ AddFriend(t) \/ CreateGroupRow(t) \/ AddGroupRow(t)
  <2>1. at[t] \in {"queryGroup", "queryMember", "publish", "store", "insertUser",
                   "insertFriend", "createGroup", "addGroup"}
    BY <1>4 DEF QueryGroup, QueryMember, PublishLetter, StoreLetter, Register, AddFriend,
       CreateGroupRow, AddGroupRow
  <2>2. call[t].method \notin {"Login", "Logout"}
    BY <2>1 DEF CallAt, PlacesOf
  <2> QED BY <2>2, OtherMethodPresence
<1> QED BY <1>2, <1>3, <1>4, LoginQueryPresence, SubscriptionPresence, StatePresence
        DEF ThreadStep

(* A Logout finds its user's presence settled: the client is logged in.    *)
LEMMA RequestPresence ==
  ASSUME OneClient, IInv, PresenceInv, NEW t \in Thread, NEW s \in Session,
         NEW m \in Method, Request(t, s, m)
  PROVE  \A u \in User : PresenceOf(u)'
<1>1. PICK c \in Call :
        /\ at' = [at EXCEPT ![t] = Start(m)] /\ call' = [call EXCEPT ![t] = c]
        /\ c.method = m /\ c.session = s
  BY RequestCall
<1>2. /\ CallsTyped /\ at[t] = "idle" /\ ~Waiting(s) /\ ~Changing(t)
      /\ client[s] = IF m \in {"Login", "Register"} THEN "out" ELSE "in"
      /\ UNCHANGED <<user, commands, subscribed, client>>
  BY Parts DEF Request, MayCall, Changing, tableVars, redisVars
<1>3. /\ at'[t] = Start(m) /\ call'[t] = c
      /\ \A r \in Thread : r # t => at'[r] = at[r] /\ call'[r] = call[r]
  BY <1>1, <1>2 DEF CallsTyped
<1>4. \A u : SamePresence(u)
  BY <1>2, NoPresenceChanges
<1>5. \A u \in User : PresenceOf(u)
  BY DEF PresenceInv
<1>6. CASE m = "Logout"
  <2>1. PICK u \in User : u = UserOf[s]
    BY UserServiceAssumption
  <2>2. at'[t] = "unsubscribe" /\ Caller(t)' = u /\ Changing(t)'
    BY <1>1, <1>3, <1>6, <2>1 DEF Start, Caller, Changing
  <2>3. \A r \in Thread : Changing(r) => Caller(r) # u
    <3> SUFFICES ASSUME NEW r \in Thread, Changing(r), Caller(r) = u PROVE FALSE
      OBVIOUS
    <3>1. at[r] \notin {"idle", "manage"}
      BY DEF Changing
    <3>2. call[r].session = s
      BY <1>2, <2>1, <3>1, CallTyped DEF OneClient, Caller
    <3> QED BY <1>2, <3>1, <3>2 DEF Waiting
  <2>4. Settled(u)
    BY <1>5, <2>3 DEF PresenceOf
  <2>5. user[u] = "online" /\ WillBeSubscribed(u)
    BY <1>2, <1>6, <2>1, <2>4 DEF Settled
  <2>6. user'[u] = "online" /\ WillBeSubscribed(u)'
    BY <1>2, <1>4, <2>5 DEF SamePresence
  <2>7. Halfway(t)'
    <3> HIDE DEF WillBeSubscribed
    <3> QED BY <2>2, <2>6 DEF Halfway
  <2> HIDE DEF SamePresence, Changing, Halfway, Settled, PresenceOf, Caller
  <2> QED BY <1>2, <1>3, <1>4, <1>5, <2>2, <2>3, <2>7, UserMoves
<1>7. CASE m # "Logout"
  <2>1. Start(m) \notin {"subscribe", "setOnline", "unsubscribe", "setOffline", "respond"}
    BY <1>7, UserServiceAssumption DEF Start
  <2>2. ~Changing(t)'
    BY <1>3, <2>1 DEF Changing
  <2> QED BY <1>2, <1>3, <1>4, <1>5, <2>2, NobodyMoves
<1> QED BY <1>6, <1>7

(* Redis runs a command.                                                   *)
LEMMA RunCommandPresence ==
  ASSUME IInv, PresenceInv, RunCommand, UNCHANGED <<at, call, user, client>>, StoresTyped'
  PROVE  \A u \in User : PresenceOf(u)'
<1>1. StoresTyped /\ commands \in Seq(Command)
  BY Parts DEF StoresTyped, Command
<1>2. \A u : Opens(commands', subscribed', u) <=> Opens(commands, subscribed, u)
  BY <1>1, OpensTail DEF RunCommand
<1>3. \A u : WillBeSubscribed(u)' <=> WillBeSubscribed(u)
  BY <1>1, <1>2, WillOpen
<1> HIDE DEF WillBeSubscribed
<1>4. \A u \in User : SamePresence(u) /\ PresenceOf(u)
  BY <1>3 DEF SamePresence, PresenceInv
<1> QED BY <1>4, NobodyMoves

-----------------------------------------------------------------------------
(* The invariant holds in every reachable state.                           *)

LEMMA SucceedsStep ==
  ASSUME IInv, CallAt, Succeeds, [Next]_vars
  PROVE  Succeeds'
<1>1. CallsTyped
  BY Parts
<1>2. CASE UNCHANGED <<at, call>>
  BY <1>2 DEF Succeeds
<1>3. ASSUME NEW t \in Thread, ThreadStep(t) PROVE Succeeds'
  <2>1. /\ at[t] # "idle" /\ at[t] \in PlacesOf(call[t].method)
        /\ \/ at'[t] = "idle"
           \/ /\ call'[t].method = call[t].method
              /\ LoginQuery(t) \/ Register(t) \/ call'[t].success = call[t].success
        /\ \A r \in Thread : r # t => at'[r] = at[r] /\ call'[r] = call[r]
    BY <1>3, CallGoesOn DEF CallAt
  <2>2. ASSUME at'[t] # "idle", call'[t].method = "Logout" PROVE call'[t].success = TRUE
    <3>1. at[t] \notin {"queryUser", "insertUser"} /\ call[t].method = "Logout"
      BY <2>1, <2>2 DEF PlacesOf
    <3>2. ~LoginQuery(t) /\ ~Register(t)
      BY <3>1 DEF LoginQuery, Register
    <3> QED BY <2>1, <2>2, <3>1, <3>2 DEF Succeeds
  <2>3. ASSUME at'[t] \in {"queryUser", "subscribe", "setOnline"} PROVE call'[t].success = TRUE
    <3>1. /\ at[t] \in {"queryUser", "subscribe", "setOnline"}
          /\ call' = call
      BY <1>1, <1>3, <2>3
         DEF ThreadStep, LoginQuery, Subscribe, SetOnline, Unsubscribe, SetOffline, QueryGroup,
             QueryMember, PublishLetter, StoreLetter, Register, AddFriend, CreateGroupRow,
             AddGroupRow, Respond, Manage, Goto, Sent, End, CallsTyped
    <3> QED BY <3>1 DEF Succeeds
  <2> QED BY <2>1, <2>2, <2>3 DEF Succeeds
<1>4. ASSUME NEW t \in Thread, NEW s \in Session, NEW m \in Method, Request(t, s, m)
      PROVE  Succeeds'
  <2>1. PICK c \in Call :
          /\ at' = [at EXCEPT ![t] = Start(m)] /\ call' = [call EXCEPT ![t] = c]
          /\ c.success
    BY <1>4, RequestCall
  <2>2. c.success = TRUE
    BY <2>1, Zenon
  <2> QED BY <1>1, <2>1, <2>2 DEF Succeeds, CallsTyped
<1>5. CASE Crash
  BY <1>5 DEF Crash, Succeeds
<1> QED BY <1>2, <1>3, <1>4, <1>5
        DEF Next, Observe, RedisStep, Exit, vars, serviceVars

LEMMA MenuOfCallStep ==
  ASSUME NothingFails, IInv, CallAt, MenuOfCall, [Next]_vars
  PROVE  MenuOfCall'
<1>1. StoresTyped /\ CallsTyped
  BY Parts
<1>2. CASE UNCHANGED <<at, call, client>>
  BY <1>2 DEF MenuOfCall, Busy
<1>3. ASSUME NEW t \in Thread, ThreadStep(t) PROVE MenuOfCall'
  <2>1. /\ at[t] # "idle"
        /\ \/ at'[t] = "idle"
           \/ call'[t].method = call[t].method /\ call'[t].session = call[t].session
        /\ \A r \in Thread : r # t => at'[r] = at[r] /\ call'[r] = call[r]
    BY <1>3, CallGoesOn
  <2>2. CASE Respond(t)
    <3>1. Busy(t) /\ ~Busy(t)'
      BY <1>1, <2>2 DEF Respond, End, Goto, Busy, CallsTyped
    <3>2. PICK s \in Session : s = call[t].session
      BY <1>1, <2>1, CallTyped
    <3>3. \A r \in Session : r # s => client'[r] = client[r]
      BY <1>1, <2>2, <3>2 DEF Respond, StoresTyped
    <3>4. ASSUME NEW r \in Thread, Busy(r)'
          PROVE  /\ r # t /\ Busy(r) /\ call'[r] = call[r]
                 /\ call[r].session \in Session /\ call[r].session # s
      <4>1. r # t
        BY <3>1, <3>4
      <4>2. Busy(r) /\ call'[r] = call[r]
        BY <2>1, <3>4, <4>1 DEF Busy
      <4> QED BY <1>1, <3>1, <3>2, <4>1, <4>2, CallTyped DEF IInv, OneCall, Busy
    <3> HIDE DEF Busy
    <3> QED BY <3>3, <3>4 DEF MenuOfCall
  <2>3. CASE ~Respond(t)
    <3>1. UNCHANGED client
      BY <1>3, <2>3
         DEF ThreadStep, LoginQuery, Subscribe, SetOnline, Unsubscribe, SetOffline, QueryGroup,
             QueryMember, PublishLetter, StoreLetter, Register, AddFriend, CreateGroupRow,
             AddGroupRow, Manage
    <3>2. at[t] = "manage" => at'[t] = "idle"
      BY <1>1, <1>3
         DEF ThreadStep, LoginQuery, Subscribe, SetOnline, Unsubscribe, SetOffline, QueryGroup,
             QueryMember, PublishLetter, StoreLetter, Register, AddFriend, CreateGroupRow,
             AddGroupRow, Respond, Manage, End, Goto, CallsTyped
    <3> QED BY <2>1, <3>1, <3>2 DEF MenuOfCall, Busy
  <2> QED BY <2>2, <2>3
<1>4. ASSUME NEW t \in Thread, NEW s \in Session, NEW m \in Method, Request(t, s, m)
      PROVE  MenuOfCall'
  <2>1. PICK c \in Call :
          /\ at' = [at EXCEPT ![t] = Start(m)] /\ call' = [call EXCEPT ![t] = c]
          /\ c.method = m /\ c.session = s
    BY <1>4, RequestCall
  <2>2. /\ client[s] = IF m \in {"Login", "Register"} THEN "out" ELSE "in"
        /\ UNCHANGED client
    BY <1>4 DEF Request, MayCall
  <2>3. /\ call'[t] = c
        /\ \A r \in Thread : r # t => at'[r] = at[r] /\ call'[r] = call[r]
    BY <1>1, <2>1 DEF CallsTyped
  <2> QED BY <2>1, <2>2, <2>3 DEF MenuOfCall, Busy
<1> QED BY <1>2, <1>3, <1>4
        DEF Next, Observe, RedisStep, Exit, Crash, vars, serviceVars, NothingFails

LEMMA PresenceStep ==
  ASSUME OneClient, NothingFails, IInv, CallAt, PresenceInv, [Next]_vars
  PROVE  PresenceInv'
<1>1. Succeeds' /\ MenuOfCall'
  BY SucceedsStep, MenuOfCallStep DEF PresenceInv
<1>2. connected' = TRUE
  <2>1. ASSUME NEW t \in Thread, ThreadStep(t) PROVE connected' = connected
    BY <2>1 DEF ThreadStep, LoginQuery, Subscribe, SetOnline, Unsubscribe, SetOffline,
       QueryGroup, QueryMember, PublishLetter, StoreLetter, Register, AddFriend,
       CreateGroupRow, AddGroupRow, Respond, Manage, WriteCommand, Publish, redisVars
  <2> QED BY <2>1 DEF PresenceInv, Next, Request, Observe, ReadChannel, RedisStep, RunCommand,
             Disconnect, Exit, Crash, NothingFails, vars, redisVars
<1>3. ASSUME UNCHANGED <<at, call, user, commands, subscribed, client>>
      PROVE  \A u \in User : PresenceOf(u)'
  <2>1. \A u \in User : SamePresence(u) /\ PresenceOf(u)
    BY <1>3, NoPresenceChanges DEF PresenceInv
  <2> QED BY <1>3, <2>1, NobodyMoves
<1>4. CASE RedisStep
  <2>1. StoresTyped'
    <3>1. IInv'
      BY <1>4, RedisStepInvariant
    <3> QED BY <3>1 DEF IInv, TypeOK, StoresTyped
  <2>2. RunCommand /\ UNCHANGED <<at, call, user, client>>
    BY <1>4 DEF RedisStep, Disconnect, NothingFails, serviceVars, tableVars
  <2>3. \A u \in User : PresenceOf(u)'
    BY <2>1, <2>2, RunCommandPresence
  <2> QED BY <1>1, <1>2, <2>3 DEF PresenceInv
<1>5. CASE Observe \/ UNCHANGED vars
  BY <1>1, <1>2, <1>3, <1>5
     DEF PresenceInv, Observe, ReadChannel, vars, serviceVars, tableVars, redisVars
<1>6. ASSUME \A u \in User : PresenceOf(u)' PROVE PresenceInv'
  BY <1>1, <1>2, <1>6 DEF PresenceInv
<1> HIDE DEF PresenceInv
<1> QED BY <1>4, <1>5, <1>6, ThreadPresence, RequestPresence
        DEF Next, Exit, Crash, NothingFails

(* The three places that know of a user's presence agree, between a login  *)
(* and a logout: its state in the table, the channel it is subscribed to,  *)
(* and its client.  For this nothing fails and a user has one client.      *)
THEOREM PresenceAgreesAlways ==
  ASSUME OneClient, NothingFails
  PROVE  Spec => []PresenceAgrees
<1>1. Init => PresenceInv
  <2> SUFFICES ASSUME Init PROVE PresenceInv
    OBVIOUS
  <2>1. connected = TRUE /\ Succeeds /\ MenuOfCall
    BY DEF Init, InitRedis, Succeeds, MenuOfCall, Busy
  <2>2. \A t \in Thread : ~Changing(t)
    BY DEF Init, Changing
  <2>3. ASSUME NEW u \in User PROVE Settled(u)
    <3>1. ~WillBeSubscribed(u)
      BY DEF Init, InitRedis, WillBeSubscribed
    <3>2. user[u] # "online" /\ \A s \in Session : client[s] # "in"
      BY DEF Init, InitTables
    <3> HIDE DEF WillBeSubscribed
    <3> QED BY <3>1, <3>2 DEF Settled
  <2> HIDE DEF Changing, Settled
  <2> QED BY <2>1, <2>2, <2>3 DEF PresenceInv, PresenceOf
<1>2. IInv /\ CallAt /\ PresenceInv /\ [Next]_vars => PresenceInv'
  BY PresenceStep
<1>3. PresenceInv => PresenceAgrees
  <2> SUFFICES ASSUME PresenceInv, NEW u \in User, Quiet(u) PROVE Settled(u)
    BY DEF PresenceAgrees, Settled
  <2>1. \A t \in Thread : Changing(t) => Caller(t) # u
    BY DEF Quiet, Changing
  <2> HIDE DEF Changing, Settled, Caller
  <2> QED BY <2>1 DEF PresenceInv, PresenceOf
<1> QED BY <1>1, <1>2, <1>3, Invariant, CallAtInvariant, PTL DEF Spec

=============================================================================
