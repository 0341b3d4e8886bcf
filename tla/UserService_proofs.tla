------------------------- MODULE UserService_proofs -------------------------
(***************************************************************************)
(* Theorems about the user service, for every number of users, sessions,   *)
(* threads and messages, whatever fails: types, and the order of messages. *)
(***************************************************************************)
EXTENDS UserService, FiniteSetTheorems, SequenceTheorems, TLAPS

(***************************************************************************)
(* The inductive invariant.                                                *)
(***************************************************************************)

SendingPlace == {"queryMember", "publish", "store"}

(* What a thread needs of its call at its next statement.                  *)
CallsOK ==
  \A t \in Thread :
    /\ at[t] \in {"queryGroup", "addGroup"} => call[t].group \in Group
    /\ at[t] = "insertFriend" => call[t].to \in User
    /\ at[t] \in {"publish", "store"} => call[t].to \in call[t].rest
    /\ at[t] \in SendingPlace => call[t].id \in 1..sent

(* A client waits for the response to its one call.                        *)
Busy(t) == at[t] \notin {"idle", "manage"}
OneCall ==
  \A t, r \in Thread : Busy(t) /\ Busy(r) /\ call[t].session = call[r].session => t = r

(* There is room for the messages that are not composed yet.               *)
Composing == {t \in Thread : at[t] = "queryGroup"}
RoomToCompose == sent + Cardinality(Composing) <= MaxMessages

(* Of two letters of one client to one user, the first has the lower id.   *)
Before(a, b) == a.from = b.from /\ a.to = b.to => a.id < b.id

(* The letters of a client to a user go from its thread through the        *)
(* channel to the user in the order of their ids.                          *)
LettersInOrder ==
  /\ \A i, j \in DOMAIN pushed : i < j => Before(pushed[i], pushed[j])
  /\ \A i, j \in DOMAIN channel : i < j => Before(channel[i], channel[j])
  /\ \A i \in DOMAIN pushed, j \in DOMAIN channel : Before(pushed[i], channel[j])
  /\ \A t \in Thread : \A letter \in Unsent(t) :
       /\ \A i \in DOMAIN pushed : Before(pushed[i], letter)
       /\ \A i \in DOMAIN channel : Before(channel[i], letter)

(* No letter is of a message that is not composed.                         *)
IdsGiven ==
  /\ \A i \in DOMAIN pushed : pushed[i].id <= sent
  /\ \A i \in DOMAIN channel : channel[i].id <= sent

IInv ==
  TypeOK /\ CallsOK /\ OneCall /\ RoomToCompose /\ LettersInOrder /\ IdsGiven

(* The parts of the type invariant.                                        *)
StoresTyped ==
  /\ user \in [User -> {"none", "offline", "online"}]
  /\ offlinemessage \subseteq Letter
  /\ friend \subseteq User \X User
  /\ allgroup \subseteq Group /\ groupuser \subseteq Group \X User
  /\ connected \in BOOLEAN
  /\ commands \in Seq({"SUBSCRIBE", "UNSUBSCRIBE"} \X User)
  /\ subscribed \subseteq User
  /\ userConn \in [User -> Session \cup {NULL}]
  /\ client \in [Session -> {"out", "in", "gone"}]

CallsTyped ==
  /\ at \in [Thread -> At]
  /\ call \in [Thread -> Call \cup {NULL}]
  /\ \A t \in Thread : at[t] = "idle" <=> call[t] = NULL

LettersTyped ==
  /\ sent \in 0..MaxMessages
  /\ pushed \in Seq(Letter) /\ channel \in Seq(Letter)

LEMMA TypeParts == TypeOK <=> StoresTyped /\ CallsTyped /\ LettersTyped
BY DEF TypeOK, StoresTyped, CallsTyped, LettersTyped

-----------------------------------------------------------------------------
(* Calls and the letters that are still to send.                           *)

(* A thread that is not idle has a call, of a user.                        *)
LEMMA CallTyped ==
  ASSUME CallsTyped, NEW t \in Thread, at[t] # "idle"
  PROVE  /\ call[t] \in Call
         /\ call[t].method \in Method /\ call[t].session \in Session
         /\ call[t].group \in Group \cup {NULL} /\ call[t].id \in 0..MaxMessages
         /\ call[t].rest \in SUBSET User /\ call[t].to \in User \cup {NULL}
         /\ call[t].success \in BOOLEAN
         /\ Caller(t) \in User
<1>1. call[t] \in Call
  BY DEF CallsTyped
<1>2. call[t].session \in Session
  BY <1>1 DEF Call
<1> QED BY <1>1, <1>2, UserServiceAssumption DEF Call, Caller

LEMMA UnsentLetters ==
  ASSUME NEW t \in Thread, NEW letter \in Unsent(t)
  PROVE  /\ at[t] \in SendingPlace
         /\ letter.id = call[t].id /\ letter.from = call[t].session
         /\ letter.to \in call[t].rest
BY DEF Unsent, LetterTo, SendingPlace

LEMMA LetterTyped ==
  ASSUME CallsTyped, CallsOK, LettersTyped, NEW t \in Thread, at[t] \in SendingPlace,
         NEW u \in User
  PROVE  LetterTo(t, u) \in Letter
<1>1. /\ call[t].session \in Session /\ call[t].id \in 1..sent /\ sent \in Nat
      /\ sent <= MaxMessages /\ MaxMessages \in Nat
  BY CallTyped, UserServiceAssumption DEF CallsOK, SendingPlace, LettersTyped
<1> QED BY <1>1 DEF LetterTo, Letter

(* What a thread has still to send only shrinks as it goes on.             *)
LEMMA UnsentShrinks ==
  ASSUME CallsTyped, NEW t \in Thread, NEW p, NEW c,
         at' = [at EXCEPT ![t] = p], call' = [call EXCEPT ![t] = c],
         p \in SendingPlace => /\ at[t] \in SendingPlace
                               /\ c.id = call[t].id /\ c.session = call[t].session
                               /\ c.rest \subseteq call[t].rest
  PROVE  \A r \in Thread : Unsent(r)' \subseteq Unsent(r)
<1>1. at'[t] = p /\ call'[t] = c
  BY DEF CallsTyped
<1>2. Unsent(t)' \subseteq Unsent(t)
  BY <1>1 DEF Unsent, LetterTo, SendingPlace
<1>3. \A r \in Thread \ {t} : at'[r] = at[r] /\ call'[r] = call[r]
  BY DEF CallsTyped
<1>4. \A r \in Thread \ {t} : Unsent(r)' = Unsent(r)
  BY <1>3 DEF Unsent, LetterTo
<1> QED BY <1>2, <1>4

(* The room for messages does not shrink when no thread starts to compose. *)
LEMMA RoomStays ==
  ASSUME RoomToCompose, sent \in Nat, sent' = sent, Composing' \subseteq Composing
  PROVE  RoomToCompose'
<1>1. IsFiniteSet(Composing)
  BY FS_Subset, UserServiceAssumption DEF Composing
<1>2. /\ Cardinality(Composing') <= Cardinality(Composing)
      /\ Cardinality(Composing') \in Nat /\ Cardinality(Composing) \in Nat
  BY <1>1, FS_Subset, FS_CardinalityType
<1> QED BY <1>2, UserServiceAssumption DEF RoomToCompose

-----------------------------------------------------------------------------
(* Steps of a thread that compose nothing and publish nothing.             *)

LEMMA MoveCalls ==
  ASSUME IInv, NEW t \in Thread, NEW p \in At, NEW c \in Call \cup {NULL},
         at' = [at EXCEPT ![t] = p], call' = [call EXCEPT ![t] = c],
         sent' = sent,
         p = "idle" <=> c = NULL,
         p # "queryGroup",
         p = "addGroup" => c.group \in Group,
         p \notin {"idle", "manage"} => Busy(t) /\ c.session = call[t].session,
         p # "insertFriend",
         p \in {"publish", "store"} => c.to \in c.rest,
         p \in SendingPlace => at[t] \in SendingPlace /\ c.id = call[t].id
  PROVE  CallsTyped' /\ CallsOK' /\ OneCall' /\ RoomToCompose'
<1>1. CallsTyped /\ LettersTyped
  BY TypeParts DEF IInv
<1>2. /\ at'[t] = p /\ call'[t] = c
      /\ \A r \in Thread \ {t} : at'[r] = at[r] /\ call'[r] = call[r]
  BY <1>1 DEF CallsTyped
<1>3. CallsTyped'
  BY <1>1, <1>2 DEF CallsTyped
<1>4. CallsOK'
  BY <1>2 DEF IInv, CallsOK, SendingPlace
<1>5. OneCall'
  BY <1>2 DEF IInv, OneCall, Busy
<1>6. RoomToCompose'
  BY <1>1, <1>2, RoomStays DEF IInv, Composing, LettersTyped
<1> QED BY <1>3, <1>4, <1>5, <1>6

LEMMA MoveInvariant ==
  ASSUME IInv, NEW t \in Thread, NEW p \in At, NEW c \in Call \cup {NULL},
         at' = [at EXCEPT ![t] = p], call' = [call EXCEPT ![t] = c],
         UNCHANGED <<sent, pushed, channel>>, StoresTyped',
         p = "idle" <=> c = NULL,
         p # "queryGroup",
         p = "addGroup" => c.group \in Group,
         p \notin {"idle", "manage"} => Busy(t) /\ c.session = call[t].session,
         p # "insertFriend",
         p \in {"publish", "store"} => c.to \in c.rest,
         p \in SendingPlace => /\ at[t] \in SendingPlace
                               /\ c.id = call[t].id /\ c.session = call[t].session
                               /\ c.rest \subseteq call[t].rest
  PROVE  IInv'
<1>1. CallsTyped /\ LettersTyped
  BY TypeParts DEF IInv
<1>2. CallsTyped' /\ CallsOK' /\ OneCall' /\ RoomToCompose'
  BY MoveCalls
<1>3. TypeOK'
  BY <1>1, <1>2, TypeParts DEF TypeOK, StoresTyped, CallsTyped, LettersTyped
<1>4. LettersInOrder' /\ IdsGiven'
  BY <1>1, UnsentShrinks DEF IInv, LettersInOrder, IdsGiven, Before
<1> QED BY <1>2, <1>3, <1>4 DEF IInv

(* Steps of nobody's call.                                                 *)
LEMMA StoresInvariant ==
  ASSUME IInv, UNCHANGED <<at, call, sent, pushed, channel>>, StoresTyped'
  PROVE  IInv'
<1>1. TypeOK'
  BY TypeParts DEF IInv, TypeOK, StoresTyped
<1>2. CallsOK' /\ OneCall' /\ RoomToCompose'
  BY DEF IInv, CallsOK, OneCall, Busy, RoomToCompose, Composing
<1>3. LettersInOrder' /\ IdsGiven'
  BY DEF IInv, LettersInOrder, IdsGiven, Before, Unsent, LetterTo
<1> QED BY <1>1, <1>2, <1>3 DEF IInv

-----------------------------------------------------------------------------
(* Each step keeps the invariant.                                          *)

LEMMA Parts ==
  ASSUME IInv
  PROVE  StoresTyped /\ CallsTyped /\ LettersTyped /\ CallsOK
BY TypeParts DEF IInv

(* A thread goes on with its call as it is.                                *)
LEMMA GotoInvariant ==
  ASSUME IInv, NEW t \in Thread, Busy(t),
         NEW p \in {"subscribe", "setOnline", "setOffline", "respond", "manage"},
         Goto(t, p), UNCHANGED <<call, sent, pushed, channel>>, StoresTyped'
  PROVE  IInv'
<1>1. StoresTyped /\ CallsTyped /\ at[t] # "idle" /\ p \in At
  BY Parts DEF Busy, At
<1>2. call[t] \in Call /\ call[t] # NULL
  BY <1>1, CallTyped, CallAssumption
<1>3. at' = [at EXCEPT ![t] = p] /\ call' = [call EXCEPT ![t] = call[t]]
  BY <1>1 DEF Goto, CallsTyped
<1>4. p \notin {"idle", "queryGroup", "addGroup", "insertFriend"} \cup SendingPlace
  BY DEF SendingPlace
<1> QED BY <1>1, <1>2, <1>3, <1>4, MoveInvariant DEF SendingPlace

(* A call that fails is answered.                                          *)
LEMMA FailInvariant ==
  ASSUME IInv, NEW t \in Thread, Busy(t), NEW success \in BOOLEAN,
         Goto(t, "respond"), call' = [call EXCEPT ![t].success = success],
         UNCHANGED <<sent, pushed, channel>>, StoresTyped'
  PROVE  IInv'
<1> DEFINE c == [call[t] EXCEPT !.success = success]
<1>1. StoresTyped /\ CallsTyped /\ at[t] # "idle" /\ "respond" \in At
  BY Parts DEF Busy, At
<1>2. call[t] \in Call
  BY <1>1, CallTyped
<1>3. c \in Call /\ c # NULL /\ c.session = call[t].session
  BY <1>2, CallAssumption DEF Call
<1>4. at' = [at EXCEPT ![t] = "respond"] /\ call' = [call EXCEPT ![t] = c]
  BY DEF Goto
<1> HIDE DEF c
<1> QED BY <1>1, <1>3, <1>4, MoveInvariant DEF SendingPlace

LEMMA LoginInvariant ==
  ASSUME IInv, NEW t \in Thread, LoginQuery(t)
  PROVE  IInv'
<1>1. StoresTyped' /\ UNCHANGED <<sent, pushed, channel>> /\ Busy(t)
  BY Parts DEF LoginQuery, tableVars, redisVars, StoresTyped, Busy
<1> QED BY <1>1, GotoInvariant, FailInvariant DEF LoginQuery

LEMMA WriteCommandTyped ==
  ASSUME StoresTyped, NEW u \in User, NEW name \in {"SUBSCRIBE", "UNSUBSCRIBE"},
         WriteCommand(<<name, u>>)
  PROVE  /\ commands' \in Seq({"SUBSCRIBE", "UNSUBSCRIBE"} \X User)
         /\ UNCHANGED <<connected, subscribed, channel>>
<1> DEFINE S == {"SUBSCRIBE", "UNSUBSCRIBE"} \X User
<1>1. <<name, u>> \in S /\ commands \in Seq(S)
  BY DEF StoresTyped
<1> HIDE DEF S
<1>2. commands' \in Seq(S)
  BY <1>1, AppendProperties DEF WriteCommand
<1> QED BY <1>2 DEF WriteCommand, S

LEMMA SubscriptionInvariant ==
  ASSUME IInv, NEW t \in Thread, Subscribe(t) \/ Unsubscribe(t)
  PROVE  IInv'
<1>1. StoresTyped /\ CallsTyped /\ Busy(t)
  BY Parts DEF Subscribe, Unsubscribe, Busy
<1>2. Caller(t) \in User
  BY <1>1, CallTyped DEF Busy
<1>3. StoresTyped' /\ UNCHANGED <<call, sent, pushed, channel>>
  BY <1>1, <1>2, WriteCommandTyped DEF Subscribe, Unsubscribe, tableVars, StoresTyped
<1> QED BY <1>1, <1>3, GotoInvariant DEF Subscribe, Unsubscribe

LEMMA StateInvariant ==
  ASSUME IInv, NEW t \in Thread, SetOnline(t) \/ SetOffline(t)
  PROVE  IInv'
<1>1. StoresTyped /\ CallsTyped /\ Busy(t)
  BY Parts DEF SetOnline, SetOffline, Busy
<1>2. StoresTyped' /\ UNCHANGED <<call, sent, pushed, channel>>
  BY <1>1 DEF SetOnline, SetOffline, UpdateState, redisVars, StoresTyped
<1> QED BY <1>1, <1>2, GotoInvariant DEF SetOnline, SetOffline

LEMMA RowInvariant ==
  ASSUME IInv, NEW t \in Thread, AddFriend(t) \/ AddGroupRow(t)
  PROVE  IInv'
<1>1. StoresTyped /\ CallsTyped /\ CallsOK /\ Busy(t)
  BY Parts DEF AddFriend, AddGroupRow, Busy
<1>2. Caller(t) \in User
  BY <1>1, CallTyped DEF Busy
<1>3. StoresTyped' /\ UNCHANGED <<call, sent, pushed, channel>>
  BY <1>1, <1>2 DEF AddFriend, AddGroupRow, InsertFriend, AddGroup, redisVars, StoresTyped,
     CallsOK
<1> QED BY <1>1, <1>3, GotoInvariant DEF AddFriend, AddGroupRow

LEMMA RegisterInvariant ==
  ASSUME IInv, NEW t \in Thread, Register(t)
  PROVE  IInv'
<1>1. StoresTyped' /\ UNCHANGED <<sent, pushed, channel>> /\ Busy(t)
  BY Parts DEF Register, InsertUser, redisVars, StoresTyped, Busy
<1>2. (user' # user) \in BOOLEAN
  OBVIOUS
<1> QED BY <1>1, <1>2, FailInvariant DEF Register

LEMMA CreateGroupInvariant ==
  ASSUME IInv, NEW t \in Thread, CreateGroupRow(t)
  PROVE  IInv'
<1>1. /\ StoresTyped /\ CallsTyped /\ Busy(t)
      /\ UNCHANGED <<userConn, client, sent, pushed, redisVars>>
  BY Parts DEF CreateGroupRow, Busy
<1>2. CASE CreateGroupFails /\ Goto(t, "respond") /\ UNCHANGED call
  <2>1. StoresTyped'
    BY <1>1, <1>2 DEF CreateGroupFails, tableVars, redisVars, StoresTyped
  <2> QED BY <1>1, <1>2, <2>1, GotoInvariant DEF redisVars
<1>3. CASE \E g \in Group : /\ CreateGroup(g)
                            /\ call' = [call EXCEPT ![t].group = g]
                            /\ Goto(t, "addGroup")
  <2>1. PICK g \in Group : /\ CreateGroup(g)
                           /\ call' = [call EXCEPT ![t].group = g]
                           /\ Goto(t, "addGroup")
    BY <1>3
  <2>2. PICK c : c = [call[t] EXCEPT !.group = g]
    OBVIOUS
  <2>3. call[t] \in Call
    BY <1>1, CallTyped DEF Busy
  <2>4. c \in Call /\ c # NULL /\ c.session = call[t].session /\ c.group \in Group
    BY <2>2, <2>3, CallAssumption DEF Call
  <2>5. at' = [at EXCEPT ![t] = "addGroup"] /\ call' = [call EXCEPT ![t] = c]
    BY <2>1, <2>2 DEF Goto
  <2>6. StoresTyped'
    BY <1>1, <2>1 DEF CreateGroup, redisVars, StoresTyped
  <2> QED BY <1>1, <2>4, <2>5, <2>6, MoveInvariant DEF SendingPlace, At, redisVars
<1> QED BY <1>2, <1>3 DEF CreateGroupRow

LEMMA EndInvariant ==
  ASSUME IInv, NEW t \in Thread, End(t), UNCHANGED <<sent, pushed, channel>>, StoresTyped'
  PROVE  IInv'
BY MoveInvariant DEF End, Goto, At, SendingPlace

LEMMA RespondInvariant ==
  ASSUME IInv, NEW t \in Thread, Respond(t)
  PROVE  IInv'
<1>1. /\ StoresTyped /\ CallsTyped /\ Busy(t)
      /\ UNCHANGED <<userConn, sent, pushed, tableVars, redisVars>>
  BY Parts DEF Respond, Busy
<1>2. call[t].session \in Session
  BY <1>1, CallTyped DEF Busy
<1>3. MenuAfter(client[call[t].session], call[t]) \in {"out", "in", "gone"}
  BY <1>1, <1>2 DEF MenuAfter, StoresTyped
<1>4. client' = [client EXCEPT ![call[t].session] = MenuAfter(@, call[t])]
  BY DEF Respond
<1>5. StoresTyped'
  BY <1>1, <1>3, <1>4 DEF StoresTyped, tableVars, redisVars
<1> QED BY <1>1, <1>5, GotoInvariant, EndInvariant DEF Respond, redisVars

LEMMA ManageInvariant ==
  ASSUME IInv, NEW t \in Thread, Manage(t)
  PROVE  IInv'
<1>1. /\ StoresTyped /\ CallsTyped /\ End(t) /\ at[t] = "manage"
      /\ UNCHANGED <<client, sent, pushed, tableVars, redisVars>>
  BY Parts DEF Manage
<1>2. call[t].session \in Session
  BY <1>1, CallTyped
<1>3. userConn' \in [User -> Session \cup {NULL}]
  BY <1>1, <1>2 DEF Manage, StoresTyped
<1>4. StoresTyped'
  BY <1>1, <1>3 DEF StoresTyped, tableVars, redisVars
<1> QED BY <1>1, <1>4, EndInvariant DEF redisVars

-----------------------------------------------------------------------------
(* The steps that send letters.                                            *)

(* OneChat and GroupChat find out whether the next user is online.         *)
LEMMA QueryMemberInvariant ==
  ASSUME IInv, NEW t \in Thread, QueryMember(t)
  PROVE  IInv'
<1>1. /\ StoresTyped' /\ UNCHANGED <<sent, pushed, channel>>
      /\ at[t] = "queryMember" /\ Busy(t) /\ CallsTyped
  BY Parts DEF QueryMember, tableVars, redisVars, StoresTyped, Busy
<1>2. PICK u \in call[t].rest, p \in {"publish", "store"} :
        at' = [at EXCEPT ![t] = p] /\ call' = [call EXCEPT ![t].to = u]
  BY DEF QueryMember, Goto
<1>3. PICK c : c = [call[t] EXCEPT !.to = u]
  OBVIOUS
<1>4. call[t] \in Call /\ u \in User
  BY <1>1, <1>2, CallTyped
<1>5. /\ c \in Call /\ c # NULL /\ c.session = call[t].session /\ c.id = call[t].id
      /\ c.rest = call[t].rest /\ c.to = u
  BY <1>3, <1>4, CallAssumption DEF Call
<1>6. call' = [call EXCEPT ![t] = c]
  BY <1>2, <1>3
<1> QED BY <1>1, <1>2, <1>5, <1>6, MoveInvariant DEF SendingPlace, At

(* A thread strikes off whom it has sent the message.                      *)
LEMMA SentCall ==
  ASSUME CallsTyped, NEW t \in Thread, at[t] \in {"publish", "store"}, Sent(t)
  PROVE  \E p \in {"respond", "queryMember"}, c \in Call :
           /\ at' = [at EXCEPT ![t] = p] /\ call' = [call EXCEPT ![t] = c]
           /\ c.rest = call[t].rest \ {call[t].to}
           /\ c.id = call[t].id /\ c.session = call[t].session
           /\ c.method = call[t].method /\ c.success = call[t].success
           /\ c.group = call[t].group
           /\ p = "respond" <=> c.rest = {}
<1>1. PICK c : c = [call[t] EXCEPT !.rest = call[t].rest \ {call[t].to}]
  OBVIOUS
<1>2. call[t] \in Call
  BY CallTyped
<1>3. /\ c \in Call /\ c.rest = call[t].rest \ {call[t].to}
      /\ c.id = call[t].id /\ c.session = call[t].session
      /\ c.method = call[t].method /\ c.success = call[t].success
      /\ c.group = call[t].group
  BY <1>1, <1>2 DEF Call
<1> QED BY <1>1, <1>3 DEF Sent, Goto

(* The letter a thread sends.                                              *)
LEMMA LetterSent ==
  ASSUME IInv, NEW t \in Thread, at[t] \in {"publish", "store"}
  PROVE  /\ call[t].to \in User /\ call[t].to \in call[t].rest
         /\ LetterTo(t, call[t].to) \in Letter
         /\ LetterTo(t, call[t].to) \in Unsent(t)
         /\ LetterTo(t, call[t].to).id = call[t].id /\ call[t].id \in 1..sent
         /\ LetterTo(t, call[t].to).from = call[t].session
         /\ LetterTo(t, call[t].to).to = call[t].to
<1>1. CallsTyped /\ CallsOK /\ LettersTyped
  BY Parts
<1>2. call[t].to \in call[t].rest /\ call[t].rest \subseteq User /\ call[t].id \in 1..sent
  BY <1>1, CallTyped DEF CallsOK, SendingPlace
<1>3. LetterTo(t, call[t].to) \in Letter
  BY <1>1, <1>2, LetterTyped DEF SendingPlace
<1> QED BY <1>2, <1>3 DEF Unsent, LetterTo

LEMMA StoreLetterInvariant ==
  ASSUME IInv, NEW t \in Thread, StoreLetter(t)
  PROVE  IInv'
<1>1. /\ StoresTyped /\ CallsTyped /\ at[t] = "store" /\ Busy(t)
      /\ UNCHANGED <<sent, pushed, channel>>
  BY Parts DEF StoreLetter, Busy, redisVars
<1>2. StoresTyped'
  BY <1>1, LetterSent DEF StoreLetter, InsertMessage, redisVars, StoresTyped
<1>3. PICK p \in {"respond", "queryMember"}, c \in Call :
        /\ at' = [at EXCEPT ![t] = p] /\ call' = [call EXCEPT ![t] = c]
        /\ c.rest = call[t].rest \ {call[t].to}
        /\ c.id = call[t].id /\ c.session = call[t].session
  BY <1>1, SentCall DEF StoreLetter
<1>4. c # NULL
  BY CallAssumption
<1> QED BY <1>1, <1>2, <1>3, <1>4, MoveInvariant DEF SendingPlace, At

(* A letter that is published is no longer to send.                        *)
LEMMA PublishLetterInvariant ==
  ASSUME IInv, NEW t \in Thread, PublishLetter(t)
  PROVE  IInv'
<1> DEFINE letter == LetterTo(t, call[t].to)
<1>1. /\ StoresTyped /\ CallsTyped /\ LettersTyped /\ at[t] = "publish" /\ Busy(t)
      /\ UNCHANGED <<sent, pushed>>
  BY Parts DEF PublishLetter, Busy
<1>2. StoresTyped'
  BY <1>1 DEF PublishLetter, Publish, tableVars, StoresTyped
<1>3. PICK p \in {"respond", "queryMember"}, c \in Call :
        /\ at' = [at EXCEPT ![t] = p] /\ call' = [call EXCEPT ![t] = c]
        /\ c.rest = call[t].rest \ {call[t].to}
        /\ c.id = call[t].id /\ c.session = call[t].session
  BY <1>1, SentCall DEF PublishLetter
<1>4. c # NULL
  BY CallAssumption
<1>5. CASE channel' = channel
  BY <1>1, <1>2, <1>3, <1>4, <1>5, MoveInvariant DEF SendingPlace, At
<1>6. CASE channel' = Append(channel, letter)
  <2>1. CallsTyped' /\ CallsOK' /\ OneCall' /\ RoomToCompose'
    BY <1>1, <1>3, <1>4, MoveCalls DEF SendingPlace, At
  <2>2. /\ letter \in Letter /\ letter \in Unsent(t) /\ letter.id <= sent
        /\ letter.from = call[t].session /\ letter.to = call[t].to
    BY <1>1, LetterSent DEF LettersTyped
  <2> HIDE DEF letter
  <2>3. /\ channel' \in Seq(Letter) /\ Len(channel') = Len(channel) + 1
        /\ \A i \in DOMAIN channel : channel'[i] = channel[i]
        /\ channel'[Len(channel) + 1] = letter
        /\ DOMAIN channel' = DOMAIN channel \cup {Len(channel) + 1}
        /\ \A i \in DOMAIN channel : i \in Nat /\ i < Len(channel) + 1
    BY <1>1, <1>6, <2>2, AppendProperties DEF LettersTyped
  <2>4. TypeOK'
    BY <1>1, <1>2, <2>1, <2>3, TypeParts DEF TypeOK, StoresTyped, CallsTyped, LettersTyped
  <2>5. IdsGiven'
    BY <1>1, <2>2, <2>3 DEF IInv, IdsGiven
  <2>6. \A r \in Thread : Unsent(r)' \subseteq Unsent(r)
    BY <1>1, <1>3, UnsentShrinks DEF SendingPlace
  <2>7. \A r \in Thread : \A other \in Unsent(r)' : Before(letter, other)
    <3> SUFFICES ASSUME NEW r \in Thread, NEW other \in Unsent(r)'
                 PROVE  Before(letter, other)
      OBVIOUS
    <3>1. CASE r = t
      <4>1. other.to \in c.rest
        BY <1>1, <1>3, <3>1 DEF Unsent, LetterTo, CallsTyped
      <4> QED BY <1>3, <2>2, <4>1 DEF Before
    <3>2. CASE r # t
      <4>1. other.from = call[r].session /\ at[r] \in SendingPlace
        BY <2>6, UnsentLetters
      <4> QED BY <1>1, <2>2, <3>2, <4>1 DEF IInv, OneCall, Busy, SendingPlace, Before
    <3> QED BY <3>1, <3>2
  <2>8. LettersInOrder'
    <3>1. \A i, j \in DOMAIN pushed' : i < j => Before(pushed'[i], pushed'[j])
      BY <1>1 DEF IInv, LettersInOrder
    <3>2. \A i, j \in DOMAIN channel' : i < j => Before(channel'[i], channel'[j])
      BY <2>2, <2>3 DEF IInv, LettersInOrder
    <3>3. \A i \in DOMAIN pushed', j \in DOMAIN channel' : Before(pushed'[i], channel'[j])
      BY <1>1, <2>2, <2>3 DEF IInv, LettersInOrder
    <3>4. \A r \in Thread : \A other \in Unsent(r)' :
            /\ \A i \in DOMAIN pushed' : Before(pushed'[i], other)
            /\ \A i \in DOMAIN channel' : Before(channel'[i], other)
      BY <1>1, <2>3, <2>6, <2>7 DEF IInv, LettersInOrder
    <3> QED BY <3>1, <3>2, <3>3, <3>4 DEF LettersInOrder, Before
  <2> QED BY <2>1, <2>4, <2>5, <2>8 DEF IInv
<1> QED BY <1>5, <1>6 DEF PublishLetter, Publish

-----------------------------------------------------------------------------
(* The observer, Redis, and the failures of processes.                     *)

(* The observer takes the first letter and gives it to the client, if it   *)
(* is there.                                                               *)
LEMMA ObserveInvariant ==
  ASSUME IInv, Observe
  PROVE  IInv'
<1>1. /\ StoresTyped /\ CallsTyped /\ LettersTyped
      /\ channel # <<>> /\ channel' = Tail(channel)
      /\ pushed' = pushed \/ pushed' = Append(pushed, Head(channel))
      /\ UNCHANGED <<at, call, userConn, client, sent, tableVars, connected, commands,
                     subscribed>>
  BY Parts DEF Observe, ReadChannel
<1>2. /\ channel' \in Seq(Letter) /\ Head(channel) \in Letter /\ Head(channel) = channel[1]
      /\ 1 \in DOMAIN channel
      /\ \A i \in DOMAIN channel' : i + 1 \in DOMAIN channel /\ channel'[i] = channel[i + 1]
      /\ DOMAIN channel' \subseteq Nat /\ DOMAIN channel \subseteq Nat
      /\ \A i \in DOMAIN channel' : 1 < i + 1
  BY <1>1, HeadTailProperties DEF LettersTyped
<1>3. /\ pushed' \in Seq(Letter) /\ DOMAIN pushed \subseteq DOMAIN pushed'
      /\ \A i \in DOMAIN pushed : pushed'[i] = pushed[i] /\ i \in Nat /\ i < Len(pushed) + 1
      /\ \A i \in DOMAIN pushed' : i \notin DOMAIN pushed =>
           i = Len(pushed) + 1 /\ pushed'[i] = channel[1]
  <2>1. \A i \in DOMAIN pushed : i \in Nat /\ i < Len(pushed) + 1
    BY <1>1 DEF LettersTyped
  <2>2. CASE pushed' = pushed
    BY <1>1, <2>1, <2>2 DEF LettersTyped
  <2>3. CASE pushed' = Append(pushed, Head(channel))
    BY <1>1, <1>2, <2>1, <2>3, AppendProperties DEF LettersTyped
  <2> QED BY <1>1, <2>2, <2>3
<1>4. TypeOK'
  BY <1>1, <1>2, <1>3, TypeParts
     DEF TypeOK, StoresTyped, CallsTyped, LettersTyped, tableVars
<1>5. CallsOK' /\ OneCall' /\ RoomToCompose'
  BY <1>1 DEF IInv, CallsOK, OneCall, Busy, RoomToCompose, Composing
<1>6. IdsGiven'
  BY <1>1, <1>2, <1>3 DEF IInv, IdsGiven
<1>7. LettersInOrder'
  <2>1. \A i, j \in DOMAIN pushed' : i < j => Before(pushed'[i], pushed'[j])
    <3> SUFFICES ASSUME NEW i \in DOMAIN pushed', NEW j \in DOMAIN pushed', i < j
                 PROVE  Before(pushed'[i], pushed'[j])
      OBVIOUS
    <3>1. i \in DOMAIN pushed
      BY <1>3
    <3> QED BY <1>2, <1>3, <3>1 DEF IInv, LettersInOrder
  <2>2. \A i, j \in DOMAIN channel' : i < j => Before(channel'[i], channel'[j])
    BY <1>2 DEF IInv, LettersInOrder
  <2>3. \A i \in DOMAIN pushed', j \in DOMAIN channel' : Before(pushed'[i], channel'[j])
    BY <1>2, <1>3 DEF IInv, LettersInOrder
  <2>4. \A t \in Thread : \A letter \in Unsent(t)' :
          /\ \A i \in DOMAIN pushed' : Before(pushed'[i], letter)
          /\ \A i \in DOMAIN channel' : Before(channel'[i], letter)
    <3>1. \A t \in Thread : Unsent(t)' = Unsent(t)
      BY <1>1 DEF Unsent, LetterTo
    <3> QED BY <1>2, <1>3, <3>1 DEF IInv, LettersInOrder
  <2> QED BY <2>1, <2>2, <2>3, <2>4 DEF LettersInOrder, Before
<1> QED BY <1>4, <1>5, <1>6, <1>7 DEF IInv

LEMMA RedisStepInvariant ==
  ASSUME IInv, RedisStep
  PROVE  IInv'
<1>1. /\ StoresTyped /\ CallsTyped /\ LettersTyped
      /\ UNCHANGED <<at, call, userConn, client, sent, pushed, tableVars>>
  BY Parts DEF RedisStep, serviceVars
<1>2. CASE RunCommand
  <2> DEFINE S == {"SUBSCRIBE", "UNSUBSCRIBE"} \X User
  <2>1. commands \in Seq(S) /\ commands # <<>>
    BY <1>1, <1>2 DEF StoresTyped, RunCommand
  <2>2. commands' \in Seq(S) /\ Head(commands) \in S
    <3> HIDE DEF S
    <3> QED BY <1>2, <2>1, HeadTailProperties DEF RunCommand
  <2>3. subscribed' \subseteq User
    BY <1>1, <1>2, <2>2 DEF StoresTyped, RunCommand
  <2>4. StoresTyped' /\ channel' = channel
    BY <1>1, <1>2, <2>2, <2>3 DEF StoresTyped, RunCommand, tableVars
  <2> QED BY <1>1, <2>4, StoresInvariant
<1>3. CASE Disconnect
  <2>1. connected' = FALSE /\ commands' = <<>> /\ subscribed' = {} /\ channel' = <<>>
    BY <1>3 DEF Disconnect
  <2>2. TypeOK'
    <3>1. connected' \in BOOLEAN /\ subscribed' \subseteq User
      BY <2>1
    <3>2. commands' \in Seq({"SUBSCRIBE", "UNSUBSCRIBE"} \X User)
      BY <2>1, EmptySeq
    <3>3. StoresTyped'
      BY <1>1, <3>1, <3>2 DEF StoresTyped, tableVars
    <3>4. CallsTyped' /\ LettersTyped'
      BY <1>1, <2>1 DEF CallsTyped, LettersTyped
    <3> QED BY <3>3, <3>4 DEF TypeOK, StoresTyped, CallsTyped, LettersTyped
  <2>3. CallsOK' /\ OneCall' /\ RoomToCompose'
    BY <1>1 DEF IInv, CallsOK, OneCall, Busy, RoomToCompose, Composing
  <2>4. LettersInOrder' /\ IdsGiven'
    <3>1. \A t \in Thread : Unsent(t)' = Unsent(t)
      BY <1>1 DEF Unsent, LetterTo
    <3> QED BY <1>1, <2>1, <3>1 DEF IInv, LettersInOrder, IdsGiven, Before
  <2> QED BY <2>2, <2>3, <2>4 DEF IInv
<1> QED BY <1>2, <1>3 DEF RedisStep

LEMMA ExitInvariant ==
  ASSUME IInv, NEW s \in Session, Exit(s)
  PROVE  IInv'
<1>1. StoresTyped' /\ UNCHANGED <<at, call, sent, pushed, channel>>
  BY Parts DEF Exit, StoresTyped, tableVars, redisVars
<1> QED BY <1>1, StoresInvariant

(* After a crash nobody sends; what was pushed remains in order.           *)
LEMMA CrashInvariant ==
  ASSUME IInv, Crash
  PROVE  IInv'
<1>1. /\ StoresTyped /\ CallsTyped /\ LettersTyped
      /\ at' = [t \in Thread |-> "idle"] /\ call' = [t \in Thread |-> NULL]
      /\ connected' = TRUE /\ commands' = <<>> /\ subscribed' = {} /\ channel' = <<>>
      /\ UNCHANGED <<sent, pushed, tableVars>>
  BY Parts DEF Crash, Reconnect
<1>2. /\ userConn' \in [User -> Session \cup {NULL}]
      /\ client' \in [Session -> {"out", "in", "gone"}]
  BY DEF Crash
<1>3. TypeOK'
  BY <1>1, <1>2 DEF TypeOK, StoresTyped, CallsTyped, LettersTyped, tableVars, At
<1>4. CallsOK' /\ OneCall'
  BY <1>1 DEF CallsOK, OneCall, Busy, SendingPlace
<1>5. RoomToCompose'
  BY <1>1, RoomStays DEF IInv, Composing, LettersTyped
<1>6. LettersInOrder' /\ IdsGiven'
  <2>1. \A t \in Thread : Unsent(t)' = {}
    BY <1>1 DEF Unsent
  <2> QED BY <1>1, <2>1 DEF IInv, LettersInOrder, IdsGiven, Before
<1> QED BY <1>3, <1>4, <1>5, <1>6 DEF IInv

-----------------------------------------------------------------------------
(* Requests, and the messages that they compose.                           *)

LEMMA StartPlace ==
  ASSUME NEW m \in Method
  PROVE  /\ Start(m) \in {"queryUser", "insertUser", "unsubscribe", "queryMember",
                          "insertFriend", "createGroup", "addGroup", "queryGroup"}
         /\ Start(m) = "queryMember" <=> m = "OneChat"
         /\ Start(m) = "insertFriend" <=> m = "AddFriend"
         /\ Start(m) = "createGroup" <=> m = "CreateGroup"
         /\ Start(m) = "addGroup" <=> m = "AddGroup"
         /\ Start(m) = "queryGroup" <=> m = "GroupChat"
         /\ Start(m) = "queryUser" <=> m = "Login"
         /\ Start(m) = "unsubscribe" <=> m = "Logout"
BY UserServiceAssumption DEF Start

(* The call a thread begins with.                                          *)
LEMMA RequestCall ==
  ASSUME IInv, NEW t \in Thread, NEW s \in Session, NEW m \in Method, Request(t, s, m)
  PROVE  \E c \in Call :
           /\ at' = [at EXCEPT ![t] = Start(m)] /\ call' = [call EXCEPT ![t] = c]
           /\ c.method = m /\ c.session = s /\ c.success
           /\ c.group \in (IF m \in {"AddGroup", "GroupChat"} THEN Group ELSE {NULL})
           /\ m = "AddFriend" => c.to \in User
           /\ m = "OneChat" => /\ c.id = sent + 1 /\ sent' = sent + 1
                               /\ c.to \in User /\ c.rest = {c.to}
           /\ m # "OneChat" => sent' = sent
<1>1. PICK g \in IF m \in {"AddGroup", "GroupChat"} THEN Group ELSE {NULL},
           u \in IF m \in {"AddFriend", "OneChat"} THEN User ELSE {NULL} :
        call' = [call EXCEPT ![t] =
          [method |-> m, session |-> s, group |-> g, to |-> u, success |-> TRUE,
           id   |-> IF m = "OneChat" THEN sent + 1 ELSE 0,
           rest |-> IF m = "OneChat" THEN {u} ELSE {}]]
  BY DEF Request
<1>2. PICK c : c = [method |-> m, session |-> s, group |-> g, to |-> u, success |-> TRUE,
                    id   |-> IF m = "OneChat" THEN sent + 1 ELSE 0,
                    rest |-> IF m = "OneChat" THEN {u} ELSE {}]
  OBVIOUS
<1>3. sent \in Nat /\ MaxMessages \in Nat /\ (m = "OneChat" => sent + 1 <= MaxMessages)
  <2>1. Cardinality(Composing) \in Nat
    BY FS_Subset, FS_CardinalityType, UserServiceAssumption DEF Composing
  <2> QED BY <2>1, Parts, UserServiceAssumption
          DEF LettersTyped, Request, MayCompose, Composing
<1>4. c \in Call
  <2>1. /\ (IF m = "OneChat" THEN sent + 1 ELSE 0) \in 0..MaxMessages
        /\ (IF m = "OneChat" THEN {u} ELSE {}) \in SUBSET User
        /\ g \in Group \cup {NULL} /\ u \in User \cup {NULL}
    BY <1>1, <1>3
  <2> QED BY <1>2, <2>1 DEF Call
<1>5. /\ c.method = m /\ c.session = s /\ c.success = TRUE /\ c.group = g /\ c.to = u
      /\ c.id = (IF m = "OneChat" THEN sent + 1 ELSE 0)
      /\ c.rest = (IF m = "OneChat" THEN {u} ELSE {})
  BY <1>2
<1>6. /\ at' = [at EXCEPT ![t] = Start(m)] /\ call' = [call EXCEPT ![t] = c]
      /\ sent' = (IF m = "OneChat" THEN sent + 1 ELSE sent)
  BY <1>1, <1>2 DEF Request, Goto
<1> QED BY <1>1, <1>4, <1>5, <1>6

(* A thread composes: its letters have an id that no letter had.           *)
LEMMA ComposeLetters ==
  ASSUME IInv, NEW t \in Thread, NEW p, NEW c,
         at' = [at EXCEPT ![t] = p], call' = [call EXCEPT ![t] = c],
         c.id = sent + 1, sent' = sent + 1, UNCHANGED <<pushed, channel>>
  PROVE  LettersInOrder' /\ IdsGiven'
<1>1. CallsTyped /\ LettersTyped
  BY Parts
<1>2. /\ at'[t] = p /\ call'[t] = c /\ sent \in Nat
      /\ \A r \in Thread \ {t} : at'[r] = at[r] /\ call'[r] = call[r]
  BY <1>1 DEF CallsTyped, LettersTyped
<1>3. /\ \A i \in DOMAIN pushed : pushed[i].id \in Nat
      /\ \A i \in DOMAIN channel : channel[i].id \in Nat
  <2>1. /\ \A i \in DOMAIN pushed : pushed[i] \in Letter
        /\ \A i \in DOMAIN channel : channel[i] \in Letter
    BY <1>1 DEF LettersTyped
  <2>2. \A letter \in Letter : letter.id \in Nat
    BY UserServiceAssumption DEF Letter
  <2> QED BY <2>1, <2>2
<1>4. IdsGiven'
  BY <1>2, <1>3 DEF IInv, IdsGiven
<1>5. \A r \in Thread \ {t} : Unsent(r)' = Unsent(r)
  BY <1>2 DEF Unsent, LetterTo
<1>6. \A letter \in Unsent(t)' : letter.id = sent + 1
  BY <1>2 DEF Unsent, LetterTo
<1>7. \A letter \in Unsent(t)' : /\ \A i \in DOMAIN pushed : Before(pushed[i], letter)
                                 /\ \A i \in DOMAIN channel : Before(channel[i], letter)
  BY <1>2, <1>3, <1>6 DEF IInv, IdsGiven, Before
<1>8. LettersInOrder'
  BY <1>5, <1>7 DEF IInv, LettersInOrder, Before
<1> QED BY <1>4, <1>8

LEMMA RequestInvariant ==
  ASSUME IInv, NEW t \in Thread, NEW s \in Session, NEW m \in Method, Request(t, s, m)
  PROVE  IInv'
<1>1. PICK c \in Call :
        /\ at' = [at EXCEPT ![t] = Start(m)] /\ call' = [call EXCEPT ![t] = c]
        /\ c.method = m /\ c.session = s /\ c.success
        /\ c.group \in (IF m \in {"AddGroup", "GroupChat"} THEN Group ELSE {NULL})
        /\ m = "AddFriend" => c.to \in User
        /\ m = "OneChat" => /\ c.id = sent + 1 /\ sent' = sent + 1
                            /\ c.to \in User /\ c.rest = {c.to}
        /\ m # "OneChat" => sent' = sent
  BY RequestCall
<1>2. /\ StoresTyped /\ CallsTyped /\ LettersTyped /\ at[t] = "idle" /\ ~Waiting(s)
      /\ UNCHANGED <<userConn, client, pushed, tableVars, redisVars>>
      /\ m \in {"OneChat", "GroupChat"} => MayCompose
  BY Parts DEF Request, MayCall
<1>3. /\ at'[t] = Start(m) /\ call'[t] = c /\ c # NULL
      /\ \A r \in Thread \ {t} : at'[r] = at[r] /\ call'[r] = call[r]
  BY <1>1, <1>2, CallAssumption DEF CallsTyped
<1>4. /\ IsFiniteSet(Composing) /\ t \notin Composing
      /\ Cardinality(Composing) \in Nat /\ sent \in Nat /\ MaxMessages \in Nat
      /\ Composing' = IF m = "GroupChat" THEN Composing \cup {t} ELSE Composing
    BY <1>2, <1>3, StartPlace, FS_Subset, FS_CardinalityType, UserServiceAssumption
       DEF Composing, LettersTyped
<1>5. RoomToCompose' /\ sent' \in 0..MaxMessages
  <2>1. CASE m = "GroupChat"
    <3>1. Cardinality(Composing') = Cardinality(Composing) + 1
      BY <1>4, <2>1, FS_AddElement
    <3> QED BY <1>1, <1>2, <1>4, <2>1, <3>1 DEF RoomToCompose, MayCompose, Composing
  <2>2. CASE m = "OneChat"
    BY <1>1, <1>2, <1>4, <2>2 DEF RoomToCompose, MayCompose, Composing
  <2>3. CASE m \notin {"OneChat", "GroupChat"}
    BY <1>1, <1>2, <1>4, <2>3 DEF IInv, RoomToCompose, LettersTyped
  <2> QED BY <2>1, <2>2, <2>3
<1>6. TypeOK'
  <2>1. StoresTyped' /\ pushed' \in Seq(Letter) /\ channel' \in Seq(Letter)
    BY <1>2 DEF StoresTyped, LettersTyped, tableVars, redisVars
  <2>2. CallsTyped'
    BY <1>1, <1>2, <1>3, StartPlace DEF CallsTyped, At
  <2> QED BY <1>5, <2>1, <2>2 DEF TypeOK, StoresTyped, CallsTyped
<1>7. CallsOK'
  BY <1>1, <1>3, <1>4, StartPlace DEF IInv, CallsOK, SendingPlace
<1>8. OneCall'
  BY <1>1, <1>2, <1>3 DEF IInv, OneCall, Busy, Waiting
<1>9. LettersInOrder' /\ IdsGiven'
  <2>1. CASE m = "OneChat"
    BY <1>1, <1>2, <2>1, ComposeLetters DEF redisVars
  <2>2. CASE m # "OneChat"
    <3>1. Start(m) \notin SendingPlace
      BY <2>2, StartPlace DEF SendingPlace
    <3> QED BY <1>1, <1>2, <2>2, <3>1, UnsentShrinks
            DEF IInv, LettersInOrder, IdsGiven, Before, redisVars
  <2> QED BY <2>1, <2>2
<1> QED BY <1>5, <1>6, <1>7, <1>8, <1>9 DEF IInv

(* The call of a GroupChat that has read its group.                        *)
LEMMA QueryGroupCall ==
  ASSUME IInv, NEW t \in Thread, QueryGroup(t)
  PROVE  \E members \in QueryGroupUsers(Caller(t), call[t].group), c \in Call :
           /\ members \subseteq User
           /\ at' = [at EXCEPT ![t] = IF members = {} THEN "respond" ELSE "queryMember"]
           /\ call' = [call EXCEPT ![t] = c]
           /\ c.id = sent + 1 /\ c.rest = members /\ sent' = sent + 1
           /\ c.session = call[t].session /\ c.method = call[t].method
           /\ c.group = call[t].group /\ c.success = call[t].success
<1>1. PICK members \in QueryGroupUsers(Caller(t), call[t].group) :
        /\ call' = [call EXCEPT ![t].id = sent + 1, ![t].rest = members]
        /\ Goto(t, IF members = {} THEN "respond" ELSE "queryMember")
  BY DEF QueryGroup
<1>2. call[t] \in Call /\ sent \in Nat /\ MaxMessages \in Nat
  BY Parts, CallTyped, UserServiceAssumption DEF QueryGroup, LettersTyped
<1>3. sent + 1 <= MaxMessages
  <2>1. IsFiniteSet(Composing) /\ t \in Composing /\ Cardinality(Composing) \in Nat
    BY FS_Subset, FS_CardinalityType, UserServiceAssumption DEF Composing, QueryGroup
  <2>2. Cardinality(Composing) # 0
    BY <2>1, FS_EmptySet
  <2> QED BY <1>2, <2>1, <2>2 DEF IInv, RoomToCompose
<1>4. members \subseteq User
  BY DEF QueryGroupUsers
<1>5. PICK c : c = [call[t] EXCEPT !.id = sent + 1, !.rest = members]
  OBVIOUS
<1>6. /\ c \in Call /\ c.id = sent + 1 /\ c.rest = members
      /\ c.session = call[t].session /\ c.method = call[t].method
      /\ c.group = call[t].group /\ c.success = call[t].success
  <2>1. PICK d : d = [call[t] EXCEPT !.id = sent + 1]
    OBVIOUS
  <2>2. /\ d \in Call /\ d.id = sent + 1
        /\ d.session = call[t].session /\ d.method = call[t].method
        /\ d.group = call[t].group /\ d.success = call[t].success
    BY <1>2, <1>3, <2>1 DEF Call
  <2>3. c = [d EXCEPT !.rest = members]
    BY <1>5, <2>1
  <2> QED BY <1>4, <2>2, <2>3 DEF Call
<1>7. call' = [call EXCEPT ![t] = c]
  BY <1>1, <1>2, <1>5, Parts DEF CallsTyped
<1> QED BY <1>1, <1>4, <1>6, <1>7 DEF Goto, QueryGroup

LEMMA QueryGroupInvariant ==
  ASSUME IInv, NEW t \in Thread, QueryGroup(t)
  PROVE  IInv'
<1>1. PICK members \in QueryGroupUsers(Caller(t), call[t].group), c \in Call :
        /\ at' = [at EXCEPT ![t] = IF members = {} THEN "respond" ELSE "queryMember"]
        /\ call' = [call EXCEPT ![t] = c]
        /\ c.id = sent + 1 /\ sent' = sent + 1 /\ c.session = call[t].session
  BY QueryGroupCall
<1>2. /\ StoresTyped /\ CallsTyped /\ LettersTyped /\ at[t] = "queryGroup"
      /\ UNCHANGED <<userConn, client, pushed, tableVars, redisVars>>
  BY Parts DEF QueryGroup
<1>3. /\ at'[t] \in {"respond", "queryMember"} /\ call'[t] = c /\ c # NULL
      /\ \A r \in Thread \ {t} : at'[r] = at[r] /\ call'[r] = call[r]
      /\ at' \in [Thread -> At]
  BY <1>1, <1>2, CallAssumption DEF CallsTyped, At
<1>4. /\ IsFiniteSet(Composing) /\ t \in Composing /\ Composing' = Composing \ {t}
      /\ Cardinality(Composing) \in Nat /\ sent \in Nat /\ MaxMessages \in Nat
      /\ Cardinality(Composing') \in Nat
  BY <1>2, <1>3, FS_Subset, FS_CardinalityType, UserServiceAssumption
     DEF Composing, LettersTyped
<1>5. RoomToCompose' /\ sent' \in 0..MaxMessages
  <2>1. Cardinality(Composing') = Cardinality(Composing) - 1
    BY <1>4, FS_RemoveElement
  <2> QED BY <1>1, <1>4, <2>1 DEF IInv, RoomToCompose
<1>6. TypeOK'
  <2>1. StoresTyped' /\ pushed' \in Seq(Letter) /\ channel' \in Seq(Letter)
    BY <1>2 DEF StoresTyped, LettersTyped, tableVars, redisVars
  <2>2. CallsTyped'
    BY <1>1, <1>2, <1>3 DEF CallsTyped
  <2> QED BY <1>5, <2>1, <2>2 DEF TypeOK, StoresTyped, CallsTyped
<1>7. CallsOK'
  BY <1>1, <1>3, <1>4 DEF IInv, CallsOK, SendingPlace
<1>8. OneCall'
  BY <1>1, <1>2, <1>3 DEF IInv, OneCall, Busy
<1>9. LettersInOrder' /\ IdsGiven'
  BY <1>1, <1>2, ComposeLetters DEF redisVars
<1> QED BY <1>5, <1>6, <1>7, <1>8, <1>9 DEF IInv

-----------------------------------------------------------------------------
(* The invariant holds in every reachable state.                           *)

LEMMA InitInvariant == Init => IInv
<1> SUFFICES ASSUME Init PROVE IInv
  OBVIOUS
<1> USE DEF Init, InitTables, InitRedis
<1>1. StoresTyped
  BY DEF StoresTyped
<1>2. CallsTyped
  BY DEF CallsTyped, At
<1>3. LettersTyped
  BY UserServiceAssumption DEF LettersTyped
<1>4. CallsOK /\ OneCall
  BY DEF CallsOK, OneCall, Busy, SendingPlace
<1>5. RoomToCompose
  <2>1. Composing = {}
    BY DEF Composing
  <2> QED BY <2>1, FS_EmptySet, UserServiceAssumption DEF RoomToCompose
<1>6. LettersInOrder /\ IdsGiven
  BY DEF LettersInOrder, IdsGiven, Unsent
<1> QED BY <1>1, <1>2, <1>3, <1>4, <1>5, <1>6, TypeParts DEF IInv

LEMMA NextInvariant == IInv /\ [Next]_vars => IInv'
<1> SUFFICES ASSUME IInv, [Next]_vars PROVE IInv'
  OBVIOUS
<1>1. ASSUME NEW t \in Thread, ThreadStep(t) PROVE IInv'
  BY <1>1, LoginInvariant, SubscriptionInvariant, StateInvariant, QueryGroupInvariant,
     QueryMemberInvariant, PublishLetterInvariant, StoreLetterInvariant,
     RegisterInvariant, RowInvariant, CreateGroupInvariant, RespondInvariant,
     ManageInvariant DEF ThreadStep
<1>2. CASE UNCHANGED vars
  <2>1. StoresTyped' /\ UNCHANGED <<at, call, sent, pushed, channel>>
    BY <1>2, Parts DEF vars, serviceVars, tableVars, redisVars, StoresTyped
  <2> QED BY <2>1, StoresInvariant
<1> QED BY <1>1, <1>2, RequestInvariant, ObserveInvariant, RedisStepInvariant,
           ExitInvariant, CrashInvariant DEF Next

LEMMA Invariant == Spec => []IInv
BY InitInvariant, NextInvariant, PTL DEF Spec

-----------------------------------------------------------------------------
(* The statements of each method.                                          *)

PlacesOf(m) ==
  CASE m = "Login"       -> {"queryUser", "subscribe", "setOnline", "respond", "manage"}
    [] m = "Logout"      -> {"unsubscribe", "setOffline", "respond", "manage"}
    [] m = "Register"    -> {"insertUser", "respond"}
    [] m = "OneChat"     -> {"queryMember", "publish", "store", "respond"}
    [] m = "GroupChat"   -> {"queryGroup", "queryMember", "publish", "store", "respond"}
    [] m = "AddFriend"   -> {"insertFriend", "respond"}
    [] m = "CreateGroup" -> {"createGroup", "addGroup", "respond"}
    [] m = "AddGroup"    -> {"addGroup", "respond"}

(* A thread is at a statement of the method it runs.                       *)
CallAt == \A t \in Thread : at[t] # "idle" => at[t] \in PlacesOf(call[t].method)

(* A thread goes on with its call, which remains what it is, to a next     *)
(* statement of its method; or it ends it.                                 *)
LEMMA CallGoesOn ==
  ASSUME IInv, CallAt, NEW t \in Thread, ThreadStep(t)
  PROVE  /\ at[t] # "idle"
         /\ \/ at'[t] = "idle"
            \/ /\ at'[t] \in PlacesOf(call[t].method)
               /\ call'[t].method = call[t].method /\ call'[t].session = call[t].session
               /\ LoginQuery(t) \/ Register(t) \/ call'[t].success = call[t].success
         /\ \A r \in Thread : r # t => at'[r] = at[r] /\ call'[r] = call[r]
<1>1. CallsTyped
  BY Parts
<1>2. at[t] # "idle"
  BY DEF ThreadStep, LoginQuery, Subscribe, SetOnline, Unsubscribe, SetOffline,
     QueryGroup, QueryMember, PublishLetter, StoreLetter, Register, AddFriend,
     CreateGroupRow, AddGroupRow, Respond, Manage
<1>3. /\ call[t] \in Call /\ at[t] \in PlacesOf(call[t].method)
      /\ call[t].method \in {"Login", "Logout", "Register", "OneChat", "GroupChat",
                             "AddFriend", "CreateGroup", "AddGroup"}
  BY <1>1, <1>2, CallTyped, UserServiceAssumption DEF CallAt
<1>4. ASSUME NEW p, NEW c, at' = [at EXCEPT ![t] = p], call' = [call EXCEPT ![t] = c]
      PROVE  /\ at'[t] = p /\ call'[t] = c
             /\ \A r \in Thread : r # t => at'[r] = at[r] /\ call'[r] = call[r]
  BY <1>1, <1>4 DEF CallsTyped
<1>5. CASE \/ Subscribe(t) \/ SetOnline(t) \/ Unsubscribe(t) \/ SetOffline(t)
           \/ AddFriend(t) \/ AddGroupRow(t)
  <2>1. call' = [call EXCEPT ![t] = call[t]]
    BY <1>1, <1>5 DEF Subscribe, SetOnline, Unsubscribe, SetOffline, AddFriend, AddGroupRow,
       CallsTyped
  <2>2. \E p \in PlacesOf(call[t].method) : at' = [at EXCEPT ![t] = p]
    BY <1>3, <1>5 DEF Subscribe, SetOnline, Unsubscribe, SetOffline, AddFriend, AddGroupRow,
       Goto, PlacesOf
  <2> QED BY <1>2, <1>4, <2>1, <2>2
<1>6. CASE LoginQuery(t) \/ Register(t)
  <2>1. \E b : call' = [call EXCEPT ![t] = [call[t] EXCEPT !.success = b]]
    <3>1. call = [call EXCEPT ![t] = [call[t] EXCEPT !.success = call[t].success]]
      BY <1>1, <1>3 DEF CallsTyped, Call
    <3> QED BY <1>6, <3>1 DEF LoginQuery, Register
  <2>2. PICK c : /\ call' = [call EXCEPT ![t] = c]
                 /\ c.method = call[t].method /\ c.session = call[t].session
    BY <1>3, <2>1 DEF Call
  <2>3. \E p \in PlacesOf(call[t].method) : at' = [at EXCEPT ![t] = p]
    BY <1>3, <1>6 DEF LoginQuery, Register, Goto, PlacesOf
  <2>4. /\ at'[t] \in PlacesOf(call[t].method) /\ call'[t] = c
        /\ \A r \in Thread : r # t => at'[r] = at[r] /\ call'[r] = call[r]
    BY <1>4, <2>2, <2>3
  <2> QED BY <1>2, <1>6, <2>2, <2>4
<1>7. CASE QueryGroup(t)
  <2>1. PICK p \in {"respond", "queryMember"}, c \in Call :
          /\ at' = [at EXCEPT ![t] = p] /\ call' = [call EXCEPT ![t] = c]
          /\ c.method = call[t].method /\ c.session = call[t].session
          /\ c.success = call[t].success
    BY <1>7, QueryGroupCall
  <2>2. p \in PlacesOf(call[t].method)
    BY <1>3, <1>7, <2>1 DEF QueryGroup, PlacesOf
  <2> QED BY <1>2, <1>4, <2>1, <2>2
<1>8. CASE QueryMember(t)
  <2>1. PICK p \in {"publish", "store"}, u \in User :
          at' = [at EXCEPT ![t] = p] /\ call' = [call EXCEPT ![t].to = u]
    BY <1>1, <1>2, <1>8, CallTyped DEF QueryMember, Goto
  <2>2. PICK c : c = [call[t] EXCEPT !.to = u]
    OBVIOUS
  <2>3. /\ c.method = call[t].method /\ c.session = call[t].session
        /\ c.success = call[t].success
    BY <1>3, <2>2 DEF Call
  <2>4. p \in PlacesOf(call[t].method)
    BY <1>3, <1>8, <2>1 DEF QueryMember, PlacesOf
  <2> QED BY <1>2, <1>4, <2>1, <2>2, <2>3, <2>4
<1>9. CASE PublishLetter(t) \/ StoreLetter(t)
  <2>1. at[t] \in {"publish", "store"} /\ Sent(t)
    BY <1>9 DEF PublishLetter, StoreLetter
  <2>2. PICK p \in {"respond", "queryMember"}, c \in Call :
          /\ at' = [at EXCEPT ![t] = p] /\ call' = [call EXCEPT ![t] = c]
          /\ c.method = call[t].method /\ c.session = call[t].session
          /\ c.success = call[t].success
    BY <1>1, <2>1, SentCall
  <2>3. p \in PlacesOf(call[t].method)
    BY <1>3, <2>1, <2>2 DEF PlacesOf
  <2> QED BY <1>2, <1>4, <2>2, <2>3
<1>10. CASE CreateGroupRow(t)
  <2>1. PICK p \in {"addGroup", "respond"}, g \in Group \cup {NULL} :
          at' = [at EXCEPT ![t] = p] /\ call' = [call EXCEPT ![t].group = g]
    <3>1. call = [call EXCEPT ![t].group = call[t].group]
      BY <1>1, <1>3 DEF CallsTyped, Call
    <3>2. call[t].group \in Group \cup {NULL}
      BY <1>1, <1>2, CallTyped
    <3> QED BY <1>10, <3>1, <3>2 DEF CreateGroupRow, Goto
  <2>2. PICK c : c = [call[t] EXCEPT !.group = g]
    OBVIOUS
  <2>3. /\ c.method = call[t].method /\ c.session = call[t].session
        /\ c.success = call[t].success
    BY <1>3, <2>2 DEF Call
  <2>4. p \in PlacesOf(call[t].method)
    BY <1>3, <1>10, <2>1 DEF CreateGroupRow, PlacesOf
  <2> QED BY <1>2, <1>4, <2>1, <2>2, <2>3, <2>4
<1>11. CASE Respond(t) \/ Manage(t)
  <2>1. CASE End(t)
    BY <1>2, <1>4, <2>1 DEF End, Goto
  <2>2. CASE /\ Respond(t) /\ Goto(t, "manage") /\ UNCHANGED call
             /\ call[t].method \in {"Login", "Logout"}
    <3>1. call' = [call EXCEPT ![t] = call[t]]
      BY <1>1, <2>2 DEF CallsTyped
    <3>2. "manage" \in PlacesOf(call[t].method)
      BY <2>2 DEF PlacesOf
    <3> QED BY <1>2, <1>4, <2>2, <3>1, <3>2 DEF Goto
  <2> QED BY <1>11, <2>1, <2>2 DEF Respond, Manage
<1> QED BY <1>5, <1>6, <1>7, <1>8, <1>9, <1>10, <1>11 DEF ThreadStep

LEMMA CallAtInvariant == Spec => []CallAt
<1>1. Init => CallAt
  BY DEF Init, CallAt
<1>2. IInv /\ CallAt /\ [Next]_vars => CallAt'
  <2> SUFFICES ASSUME IInv, CallAt, [Next]_vars PROVE CallAt'
    OBVIOUS
  <2>1. CASE UNCHANGED <<at, call>>
    BY <2>1 DEF CallAt
  <2>2. ASSUME NEW t \in Thread, ThreadStep(t) PROVE CallAt'
    BY <2>2, CallGoesOn DEF CallAt
  <2>3. ASSUME NEW t \in Thread, NEW s \in Session, NEW m \in Method, Request(t, s, m)
        PROVE  CallAt'
    <3>1. PICK c \in Call :
            /\ at' = [at EXCEPT ![t] = Start(m)] /\ call' = [call EXCEPT ![t] = c]
            /\ c.method = m
      BY <2>3, RequestCall
    <3>2. Start(m) \in PlacesOf(m)
      BY UserServiceAssumption DEF Start, PlacesOf
    <3> QED BY <3>1, <3>2, Parts DEF CallAt, CallsTyped
  <2>4. CASE Crash
    BY <2>4 DEF Crash, CallAt
  <2> QED BY <2>1, <2>2, <2>3, <2>4
          DEF Next, Observe, RedisStep, Exit, vars, serviceVars
<1> QED BY <1>1, <1>2, Invariant, PTL DEF Spec

-----------------------------------------------------------------------------
(* Theorems about every behaviour.                                         *)

(* Every variable has its type, and a thread has a call while it runs one. *)
THEOREM TypeCorrect == Spec => []TypeOK
BY Invariant, PTL DEF IInv

(* What one client sends to one user is pushed in the order it was sent,   *)
(* though Login, Logout and the observer run beside it, and whatever fails. *)
THEOREM PushesInOrder == Spec => []PushedInOrder
<1>1. IInv => PushedInOrder
  BY DEF IInv, LettersInOrder, Before, PushedInOrder
<1> QED BY <1>1, Invariant, PTL

=============================================================================
