--------------------- MODULE UserServiceMailbox_proofs ----------------------
(***************************************************************************)
(* The user service implements Mailbox, for every number of users,         *)
(* sessions, threads and messages, whatever fails.                         *)
(***************************************************************************)
EXTENDS UserService_proofs

ChannelLetters == {channel[i] : i \in DOMAIN channel}

\* A step of Mailbox that composes nothing.
Settles ==
  \/ \E letter \in Sending : MB!Store(letter) \/ MB!Push(letter)
  \/ \E letters \in SUBSET Sending : MB!Lose(letters)

(* Letters that are no longer on their way, and neither stored nor pushed, *)
(* are lost.                                                               *)
LEMMA LoseStep ==
  ASSUME UNCHANGED <<sent, offlinemessage, pushed>>, Sending' \subseteq Sending
  PROVE  Settles
<1>1. Sending' = Sending \ (Sending \ Sending')
  OBVIOUS
<1> HIDE DEF Sending
<1>2. MB!Lose(Sending \ Sending')
  BY <1>1 DEF MB!Lose
<1> QED BY <1>2 DEF Settles

LEMMA InSending ==
  /\ \A x : x \in Sending <=> (\E t \in Thread : x \in Unsent(t)) \/ x \in ChannelLetters
  /\ \A x : x \in Sending' <=> (\E t \in Thread : x \in Unsent(t)') \/ x \in ChannelLetters'
BY DEF Sending, ChannelLetters

LEMMA SendingShrinks ==
  ASSUME \A t \in Thread : Unsent(t)' \subseteq Unsent(t),
         ChannelLetters' \subseteq Sending
  PROVE  Sending' \subseteq Sending
<1> SUFFICES ASSUME NEW x, x \in Sending' PROVE x \in Sending
  OBVIOUS
<1>1. CASE x \in ChannelLetters'
  BY <1>1
<1>2. CASE \E t \in Thread : x \in Unsent(t)'
  BY <1>2, InSending
<1> QED BY <1>1, <1>2, InSending

(* A thread that sends nothing next has nothing to send.                   *)
LEMMA OtherStatement ==
  ASSUME CallsTyped, NEW t \in Thread, at' = [at EXCEPT ![t] = at'[t]],
         \A r \in Thread : r # t => call'[r] = call[r],
         at'[t] \notin SendingPlace, UNCHANGED <<sent, pushed, offlinemessage, channel>>
  PROVE  Settles
<1>1. \A r \in Thread : r # t => at'[r] = at[r] /\ call'[r] = call[r]
  BY DEF CallsTyped
<1>2. \A r \in Thread : r # t => Unsent(r)' = Unsent(r)
  BY <1>1 DEF Unsent, LetterTo
<1>3. Unsent(t)' = {}
  BY DEF Unsent, SendingPlace
<1>4. \A r \in Thread : Unsent(r)' \subseteq Unsent(r)
  BY <1>2, <1>3
<1>5. ChannelLetters' \subseteq Sending
  <2>1. ChannelLetters' = ChannelLetters
    BY DEF ChannelLetters
  <2> QED BY <2>1, InSending
<1> QED BY <1>4, <1>5, SendingShrinks, LoseStep

(* Sent strikes off one letter, which is nowhere else.                     *)
LEMMA SentLetter ==
  ASSUME IInv, NEW t \in Thread, at[t] \in {"publish", "store"}, Sent(t)
  PROVE  /\ \A r \in Thread : r # t => Unsent(r)' = Unsent(r)
         /\ Unsent(t)' = Unsent(t) \ {LetterTo(t, call[t].to)}
         /\ \A r \in Thread : LetterTo(t, call[t].to) \notin Unsent(r)'
         /\ LetterTo(t, call[t].to) \notin ChannelLetters
<1> DEFINE letter == LetterTo(t, call[t].to)
<1>1. CallsTyped /\ LettersTyped
  BY Parts
<1>2. PICK p \in {"respond", "queryMember"}, c \in Call :
        /\ at' = [at EXCEPT ![t] = p] /\ call' = [call EXCEPT ![t] = c]
        /\ c.rest = call[t].rest \ {call[t].to}
        /\ c.id = call[t].id /\ c.session = call[t].session
        /\ p = "respond" <=> c.rest = {}
  BY <1>1, SentCall
<1>3. /\ at'[t] = p /\ call'[t] = c
      /\ \A r \in Thread : r # t => at'[r] = at[r] /\ call'[r] = call[r]
  BY <1>1, <1>2 DEF CallsTyped
<1>4. \A r \in Thread : r # t => Unsent(r)' = Unsent(r)
  BY <1>3 DEF Unsent, LetterTo
<1>5. /\ letter \in Unsent(t) /\ letter.id = call[t].id /\ call[t].id \in 1..sent
      /\ letter.from = call[t].session /\ letter.to = call[t].to
  BY LetterSent
<1>6. Unsent(t)' = Unsent(t) \ {letter}
  <2>1. Unsent(t) = {[id |-> c.id, from |-> c.session, to |-> u] : u \in call[t].rest}
    BY <1>2 DEF Unsent, LetterTo
  <2>2. Unsent(t)' = {[id |-> c.id, from |-> c.session, to |-> u] : u \in c.rest}
    BY <1>2, <1>3 DEF Unsent, LetterTo
  <2>3. letter = [id |-> c.id, from |-> c.session, to |-> call[t].to]
    BY <1>2 DEF LetterTo
  <2> QED BY <1>2, <2>1, <2>2, <2>3
<1>7. \A r \in Thread : r # t => letter \notin Unsent(r)
  <2> SUFFICES ASSUME NEW r \in Thread, r # t, letter \in Unsent(r) PROVE FALSE
    OBVIOUS
  <2>1. at[r] \in SendingPlace /\ letter.from = call[r].session
    BY UnsentLetters
  <2> QED BY <1>5, <2>1 DEF IInv, OneCall, Busy, SendingPlace
<1>8. letter \notin ChannelLetters
  <2> SUFFICES ASSUME NEW i \in DOMAIN channel, channel[i] = letter PROVE FALSE
    BY DEF ChannelLetters
  <2>1. Before(letter, letter)
    BY <1>5 DEF IInv, LettersInOrder
  <2> QED BY <1>1, <1>5, <2>1 DEF Before, LettersTyped
<1> QED BY <1>4, <1>6, <1>7, <1>8

LEMMA PublishLetterSettles ==
  ASSUME IInv, NEW t \in Thread, PublishLetter(t)
  PROVE  Settles
<1> DEFINE letter == LetterTo(t, call[t].to)
<1>1. /\ at[t] = "publish" /\ Sent(t) /\ UNCHANGED <<sent, pushed, offlinemessage>>
      /\ channel' = channel \/ channel' = Append(channel, letter)
      /\ LettersTyped
  BY Parts DEF PublishLetter, Publish, tableVars
<1>2. letter \in Unsent(t) /\ letter \in Letter
  BY <1>1, LetterSent
<1>3. letter \in Sending /\ ChannelLetters \subseteq Sending
  BY <1>2, InSending
<1>4. ChannelLetters' \subseteq ChannelLetters \cup {letter}
  <2>1. CASE channel' = channel
    BY <2>1 DEF ChannelLetters
  <2>2. CASE channel' = Append(channel, letter)
    <3> HIDE DEF letter
    <3>1. \A i \in DOMAIN channel' : \/ i \in DOMAIN channel /\ channel'[i] = channel[i]
                                     \/ channel'[i] = letter
      BY <1>1, <1>2, <2>2, AppendProperties DEF LettersTyped
    <3> QED BY <3>1 DEF ChannelLetters
  <2> QED BY <1>1, <2>1, <2>2
<1>5. \A r \in Thread : Unsent(r)' \subseteq Unsent(r)
  BY <1>1, SentLetter
<1> QED BY <1>1, <1>3, <1>4, <1>5, SendingShrinks, LoseStep

LEMMA StoreLetterSettles ==
  ASSUME IInv, NEW t \in Thread, StoreLetter(t)
  PROVE  Settles
<1> DEFINE letter == LetterTo(t, call[t].to)
<1>1. /\ at[t] = "store" /\ Sent(t) /\ UNCHANGED <<sent, pushed, channel>>
      /\ \/ offlinemessage' = offlinemessage
         \/ offlinemessage' = offlinemessage \cup {letter}
  BY DEF StoreLetter, InsertMessage, redisVars
<1>2. letter \in Unsent(t) /\ letter \in Sending
  BY <1>1, LetterSent, InSending
<1>3. ChannelLetters' = ChannelLetters
  BY <1>1 DEF ChannelLetters
<1>4. Sending' = Sending \ {letter}
  <2>1. /\ \A r \in Thread : r # t => Unsent(r)' = Unsent(r)
        /\ Unsent(t)' = Unsent(t) \ {letter}
        /\ \A r \in Thread : letter \notin Unsent(r)'
        /\ letter \notin ChannelLetters
    BY <1>1, SentLetter
  <2> HIDE DEF letter
  <2>2. \A x : x \in Sending' <=> x \in Sending /\ x # letter
    BY <1>3, <2>1, InSending
  <2> QED BY <2>2
<1>5. CASE offlinemessage' = offlinemessage
  BY <1>1, <1>4, <1>5, LoseStep
<1>6. CASE offlinemessage' = offlinemessage \cup {letter}
  BY <1>1, <1>2, <1>4, <1>6 DEF MB!Store, Settles
<1> QED BY <1>1, <1>5, <1>6

LEMMA ObserveSettles ==
  ASSUME IInv, Observe
  PROVE  Settles
<1> DEFINE letter == Head(channel)
<1>1. /\ LettersTyped /\ CallsTyped
      /\ channel # <<>> /\ channel' = Tail(channel)
      /\ pushed' = pushed \/ pushed' = Append(pushed, letter)
      /\ UNCHANGED <<at, call, sent, offlinemessage>>
  BY Parts DEF Observe, ReadChannel, tableVars
<1>2. /\ 1 \in DOMAIN channel /\ channel[1] = letter
      /\ \A i \in DOMAIN channel' : /\ i + 1 \in DOMAIN channel /\ 1 < i + 1
                                    /\ channel'[i] = channel[i + 1]
      /\ \A i \in DOMAIN channel : i # 1 => i - 1 \in DOMAIN channel' /\ (i - 1) + 1 = i
      /\ letter.id \in Nat
  <2>1. /\ channel \in Seq(Letter) /\ Tail(channel) \in Seq(Letter)
        /\ Len(Tail(channel)) = Len(channel) - 1
        /\ \A i \in 1 .. Len(Tail(channel)) : Tail(channel)[i] = channel[i + 1]
        /\ Head(channel) = channel[1] /\ Len(channel) \in Nat \ {0}
    BY <1>1, HeadTailProperties, EmptySeq DEF LettersTyped
  <2>2. \A l \in Letter : l.id \in Nat
    BY UserServiceAssumption DEF Letter
  <2>3. letter \in Letter
    BY <1>1, HeadTailProperties DEF LettersTyped
  <2> QED BY <1>1, <2>1, <2>2, <2>3
<1>3. \A t \in Thread : Unsent(t)' = Unsent(t)
  BY <1>1 DEF Unsent, LetterTo
<1>4. letter \in ChannelLetters
  BY <1>2 DEF ChannelLetters
<1> HIDE DEF letter
<1>5. ChannelLetters' = ChannelLetters \ {letter}
  <2>1. \A i \in DOMAIN channel' : channel'[i] # letter
    BY <1>2 DEF IInv, LettersInOrder, Before
  <2>2. \A i \in DOMAIN channel : channel[i] # letter => \E j \in DOMAIN channel' :
          channel'[j] = channel[i]
    <3> SUFFICES ASSUME NEW i \in DOMAIN channel, channel[i] # letter
                 PROVE  i - 1 \in DOMAIN channel' /\ channel'[i - 1] = channel[i]
      OBVIOUS
    <3> QED BY <1>2
  <2> QED BY <1>2, <2>1, <2>2 DEF ChannelLetters
<1>6. \A t \in Thread : letter \notin Unsent(t)
  BY <1>2 DEF IInv, LettersInOrder, Before
<1>7. Sending' = Sending \ {letter} /\ letter \in Sending
  <2>1. \A x : x \in Sending' <=> x \in Sending /\ x # letter
    BY <1>3, <1>5, <1>6, InSending
  <2> QED BY <1>4, <2>1, InSending
<1>8. CASE pushed' = pushed
  BY <1>1, <1>7, <1>8, LoseStep
<1>9. CASE pushed' = Append(pushed, letter)
  BY <1>1, <1>7, <1>9 DEF MB!Push, Settles
<1> QED BY <1>1, <1>8, <1>9 DEF letter

(* The statements of a thread that are not about letters.                  *)
OtherStep(t) ==
  \/ LoginQuery(t) \/ Subscribe(t) \/ SetOnline(t)
  \/ Unsubscribe(t) \/ SetOffline(t)
  \/ Register(t) \/ AddFriend(t) \/ CreateGroupRow(t) \/ AddGroupRow(t)
  \/ Respond(t) \/ Manage(t)

LEMMA OtherSettles ==
  ASSUME IInv, NEW t \in Thread, OtherStep(t)
  PROVE  Settles
<1>1. CallsTyped
  BY Parts
<1>2. \E p \in At \ SendingPlace : Goto(t, p)
  BY DEF OtherStep, LoginQuery, Subscribe, SetOnline, Unsubscribe, SetOffline, Register,
     AddFriend, CreateGroupRow, AddGroupRow, Respond, Manage, End, At, SendingPlace
<1>3. \A r \in Thread : r # t => call'[r] = call[r]
  BY <1>1 DEF OtherStep, LoginQuery, Subscribe, SetOnline, Unsubscribe, SetOffline, Register,
     AddFriend, CreateGroupRow, AddGroupRow, Respond, Manage, End, CallsTyped
<1>4. UNCHANGED <<sent, pushed, offlinemessage, channel>>
  BY DEF OtherStep, LoginQuery, Subscribe, SetOnline, Unsubscribe, SetOffline, Register,
     AddFriend, CreateGroupRow, AddGroupRow, Respond, Manage, WriteCommand, UpdateState,
     InsertUser, InsertFriend, CreateGroup, CreateGroupFails, AddGroup, tableVars, redisVars
<1>5. at' = [at EXCEPT ![t] = at'[t]] /\ at'[t] \notin SendingPlace
  BY <1>1, <1>2 DEF Goto, CallsTyped
<1> QED BY <1>1, <1>3, <1>4, <1>5, OtherStatement

LEMMA QueryMemberSettles ==
  ASSUME IInv, NEW t \in Thread, QueryMember(t)
  PROVE  Settles
<1>1. /\ CallsTyped /\ at[t] = "queryMember"
      /\ UNCHANGED <<sent, pushed, offlinemessage, channel>>
  BY Parts DEF QueryMember, tableVars, redisVars
<1>2. PICK u \in call[t].rest, p \in {"publish", "store"} :
        at' = [at EXCEPT ![t] = p] /\ call' = [call EXCEPT ![t].to = u]
  BY DEF QueryMember, Goto
<1>3. PICK c : c = [call[t] EXCEPT !.to = u]
  OBVIOUS
<1>4. call[t] \in Call
  BY <1>1, CallTyped
<1>5. c.session = call[t].session /\ c.id = call[t].id /\ c.rest = call[t].rest
  BY <1>3, <1>4 DEF Call
<1>6. call' = [call EXCEPT ![t] = c]
  BY <1>2, <1>3
<1>7. \A r \in Thread : Unsent(r)' \subseteq Unsent(r)
  BY <1>1, <1>2, <1>5, <1>6, UnsentShrinks DEF SendingPlace
<1>8. ChannelLetters' \subseteq Sending
  BY <1>1, InSending DEF ChannelLetters
<1> QED BY <1>1, <1>7, <1>8, SendingShrinks, LoseStep

(* Redis and the failures of processes lose letters, if anything.          *)
LEMMA FaultSettles ==
  ASSUME IInv, RedisStep \/ Crash \/ \E s \in Session : Exit(s)
  PROVE  Settles
<1>1. UNCHANGED <<sent, pushed, offlinemessage>>
  BY DEF RedisStep, Crash, Exit, serviceVars, tableVars
<1>2. channel' = channel \/ channel' = <<>>
  BY DEF RedisStep, RunCommand, Disconnect, Crash, Reconnect, Exit, redisVars
<1>3. \A t \in Thread : Unsent(t)' \subseteq Unsent(t)
  <2>1. CASE UNCHANGED <<at, call>>
    BY <2>1 DEF Unsent, LetterTo
  <2>2. CASE Crash
    BY <2>2 DEF Crash, Unsent
  <2> QED BY <2>1, <2>2 DEF RedisStep, Exit, serviceVars
<1>4. ChannelLetters' \subseteq Sending
  <2>1. ChannelLetters' \subseteq ChannelLetters
    BY <1>2 DEF ChannelLetters
  <2> QED BY <2>1, InSending
<1> QED BY <1>1, <1>3, <1>4, SendingShrinks, LoseStep

-----------------------------------------------------------------------------
(* Messages that are composed.                                             *)

(* A thread that composes a message has its letters to send, none before.  *)
LEMMA ComposeSends ==
  ASSUME CallsTyped, NEW t \in Thread, NEW p, NEW c,
         at' = [at EXCEPT ![t] = p], call' = [call EXCEPT ![t] = c],
         at[t] \notin SendingPlace, p \in SendingPlace <=> c.rest # {} ,
         c.session \in Session, c.rest \in SUBSET User, c.id = sent + 1,
         sent' = sent + 1, UNCHANGED <<pushed, channel, offlinemessage>>
  PROVE  \E s \in Session, U \in SUBSET User : MB!Send(s, U)
<1>1. /\ at'[t] = p /\ call'[t] = c
      /\ \A r \in Thread : r # t => at'[r] = at[r] /\ call'[r] = call[r]
  BY DEF CallsTyped
<1>2. \A r \in Thread : r # t => Unsent(r)' = Unsent(r)
  BY <1>1 DEF Unsent, LetterTo
<1>3. PICK new : new = {[id |-> sent + 1, from |-> c.session, to |-> u] : u \in c.rest}
  OBVIOUS
<1>4. Unsent(t) = {} /\ Unsent(t)' = new
  BY <1>1, <1>3 DEF Unsent, LetterTo, SendingPlace
<1>5. ChannelLetters' = ChannelLetters
  BY DEF ChannelLetters
<1>6. \A x : x \in Sending' <=> x \in Sending \/ x \in new
  BY <1>2, <1>4, <1>5, InSending
<1>7. Sending' = Sending \cup new
  BY <1>6
<1> QED BY <1>3, <1>7 DEF MB!Send

(* A request composes no message, but for OneChat.                         *)
LEMMA RequestSettles ==
  ASSUME IInv, NEW t \in Thread, NEW s \in Session, NEW m \in Method, Request(t, s, m),
         m # "OneChat"
  PROVE  Settles
<1>1. PICK c \in Call :
        /\ at' = [at EXCEPT ![t] = Start(m)] /\ call' = [call EXCEPT ![t] = c]
        /\ sent' = sent
  BY RequestCall
<1>2. /\ CallsTyped /\ UNCHANGED <<pushed, channel, offlinemessage>>
  BY Parts DEF Request, tableVars, redisVars
<1>3. Start(m) \notin SendingPlace
  BY StartPlace DEF SendingPlace
<1>4. /\ at' = [at EXCEPT ![t] = at'[t]] /\ at'[t] = Start(m)
      /\ \A r \in Thread : r # t => call'[r] = call[r]
  BY <1>1, <1>2 DEF CallsTyped
<1> QED BY <1>1, <1>2, <1>3, <1>4, OtherStatement

LEMMA OneChatSends ==
  ASSUME IInv, NEW t \in Thread, NEW s \in Session, "OneChat" \in Method,
         Request(t, s, "OneChat")
  PROVE  \E r \in Session, U \in SUBSET User : MB!Send(r, U)
<1>1. PICK c \in Call :
        /\ at' = [at EXCEPT ![t] = Start("OneChat")] /\ call' = [call EXCEPT ![t] = c]
        /\ c.session = s /\ c.id = sent + 1 /\ sent' = sent + 1
        /\ c.to \in User /\ c.rest = {c.to}
  BY RequestCall
<1>2. /\ CallsTyped /\ at[t] = "idle"
      /\ UNCHANGED <<pushed, channel, offlinemessage>>
  BY Parts DEF Request, tableVars, redisVars
<1>3. Start("OneChat") \in SendingPlace /\ at[t] \notin SendingPlace
  BY <1>2 DEF Start, SendingPlace
<1> QED BY <1>1, <1>2, <1>3, ComposeSends

LEMMA QueryGroupSends ==
  ASSUME IInv, NEW t \in Thread, QueryGroup(t)
  PROVE  \E s \in Session, U \in SUBSET User : MB!Send(s, U)
<1>1. PICK members \in QueryGroupUsers(Caller(t), call[t].group), c \in Call :
        /\ members \subseteq User
        /\ at' = [at EXCEPT ![t] = IF members = {} THEN "respond" ELSE "queryMember"]
        /\ call' = [call EXCEPT ![t] = c]
        /\ c.id = sent + 1 /\ c.rest = members /\ sent' = sent + 1
        /\ c.session = call[t].session
  BY QueryGroupCall
<1>2. /\ CallsTyped /\ at[t] = "queryGroup" /\ at[t] # "idle" /\ at[t] \notin SendingPlace
      /\ UNCHANGED <<pushed, channel, offlinemessage>>
  BY Parts DEF QueryGroup, SendingPlace, tableVars, redisVars
<1>3. call[t].session \in Session
  BY <1>2, CallTyped
<1>4. PICK p : p = IF members = {} THEN "respond" ELSE "queryMember"
  OBVIOUS
<1>5. p \in SendingPlace <=> c.rest # {}
  BY <1>1, <1>4 DEF SendingPlace
<1> QED BY <1>1, <1>2, <1>3, <1>4, <1>5, ComposeSends

-----------------------------------------------------------------------------
(* Whatever fails, a message is stored or pushed for each of those it is   *)
(* for once at most, and never both stored and pushed.                     *)
THEOREM Implements == Spec => ImplementsMailbox
<1>1. Init => MB!Init
  <2> SUFFICES ASSUME Init PROVE MB!Init
    OBVIOUS
  <2>1. ChannelLetters = {} /\ \A t \in Thread : Unsent(t) = {}
    BY DEF Init, InitRedis, ChannelLetters, Unsent
  <2>2. Sending = {}
    BY <2>1, InSending
  <2> QED BY <2>2 DEF Init, InitTables, MB!Init
<1>2. IInv /\ [Next]_vars => [MB!Next]_MB!vars
  <2> SUFFICES ASSUME IInv, [Next]_vars PROVE [MB!Next]_MB!vars
    OBVIOUS
  <2>1. Settles => MB!Next
    BY DEF Settles, MB!Next
  <2>2. (\E s \in Session, U \in SUBSET User : MB!Send(s, U)) => MB!Next
    BY DEF MB!Next
  <2>3. ASSUME NEW t \in Thread, ThreadStep(t) PROVE MB!Next
    BY <2>1, <2>2, <2>3, OtherSettles, QueryMemberSettles, PublishLetterSettles,
       StoreLetterSettles, QueryGroupSends DEF ThreadStep, OtherStep
  <2>4. CASE UNCHANGED vars
    <3>1. UNCHANGED <<at, call, sent, pushed, channel, offlinemessage>>
      BY <2>4 DEF vars, serviceVars, tableVars, redisVars
    <3>2. Sending' = Sending
      BY <3>1 DEF Sending, Unsent, LetterTo
    <3> QED BY <3>1, <3>2 DEF MB!vars
  <2>5. ASSUME NEW t \in Thread, NEW s \in Session, NEW m \in Method, Request(t, s, m)
        PROVE  MB!Next
    BY <2>1, <2>2, <2>5, RequestSettles, OneChatSends
  <2> QED BY <2>1, <2>3, <2>4, <2>5, ObserveSettles, FaultSettles DEF Next
<1> QED BY <1>1, <1>2, Invariant, PTL DEF Spec, ImplementsMailbox, MB!Spec

=============================================================================
