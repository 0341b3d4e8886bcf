---------------------- MODULE UserServiceGroups_proofs ----------------------
(***************************************************************************)
(* Theorems about groups.  Where the clients write to groups only, the     *)
(* letters of a message are for members of one group; where no statement   *)
(* fails, a user who is told to be in a group is in it.                    *)
(***************************************************************************)
EXTENDS UserServiceMailbox_proofs

(* Every letter is of a message that is composed.                          *)
LettersNumbered == \A letter \in Letters : letter.id \in Nat /\ letter.id <= sent

GroupInv == LettersNumbered /\ GroupLettersReachMembers

PushedLetters == {pushed[i] : i \in DOMAIN pushed}

LEMMA InLetters ==
  /\ Letters = Sending \cup offlinemessage \cup PushedLetters
  /\ Letters' = Sending' \cup offlinemessage' \cup PushedLetters'
BY DEF Letters, PushedLetters

LEMMA SendingTyped ==
  ASSUME IInv
  PROVE  Sending \subseteq Letter
<1>1. CallsTyped /\ CallsOK /\ LettersTyped
  BY Parts
<1>2. ASSUME NEW t \in Thread, NEW letter \in Unsent(t) PROVE letter \in Letter
  <2>1. at[t] \in SendingPlace /\ at[t] # "idle"
    BY UnsentLetters DEF SendingPlace
  <2>2. PICK u \in call[t].rest : letter = LetterTo(t, u)
    BY <2>1 DEF Unsent, SendingPlace
  <2>3. u \in User
    BY <1>1, <2>1, <2>2, CallTyped
  <2> QED BY <1>1, <2>1, <2>2, <2>3, LetterTyped
<1>3. ChannelLetters \subseteq Letter
  BY <1>1 DEF ChannelLetters, LettersTyped
<1> QED BY <1>2, <1>3, InSending

(* A step that composes nothing makes no letter.                           *)
LEMMA SettledLetters ==
  ASSUME IInv, Settles
  PROVE  Letters' \subseteq Letters /\ sent' = sent
<1>1. CASE \E letter \in Sending : MB!Store(letter)
  BY <1>1, InLetters DEF MB!Store, PushedLetters
<1>2. CASE \E letter \in Sending : MB!Push(letter)
  <2>1. PICK letter \in Sending : MB!Push(letter)
    BY <1>2
  <2>2. letter \in Letter /\ pushed \in Seq(Letter) /\ pushed' = Append(pushed, letter)
    BY <2>1, SendingTyped, Parts DEF LettersTyped, MB!Push
  <2>3. \A i \in DOMAIN pushed' : \/ i \in DOMAIN pushed /\ pushed'[i] = pushed[i]
                                  \/ pushed'[i] = letter
    BY <2>2, AppendProperties
  <2>4. PushedLetters' \subseteq PushedLetters \cup {letter}
    BY <2>3 DEF PushedLetters
  <2> QED BY <2>1, <2>4, InLetters DEF MB!Push
<1>3. CASE \E letters \in SUBSET Sending : MB!Lose(letters)
  BY <1>3, InLetters DEF MB!Lose, PushedLetters
<1> QED BY <1>1, <1>2, <1>3 DEF Settles

(* Nobody leaves a group.                                                  *)
LEMMA MembersStay ==
  ASSUME [Next]_vars
  PROVE  groupuser \subseteq groupuser'
<1>1. CASE UNCHANGED tableVars
  BY <1>1 DEF tableVars
<1>2. ASSUME NEW t \in Thread, ThreadStep(t) PROVE groupuser \subseteq groupuser'
  BY <1>2 DEF ThreadStep, LoginQuery, Subscribe, SetOnline, Unsubscribe, SetOffline,
     QueryGroup, QueryMember, PublishLetter, StoreLetter, Register, AddFriend,
     CreateGroupRow, AddGroupRow, Respond, Manage, UpdateState, InsertMessage, InsertUser,
     InsertFriend, CreateGroup, CreateGroupFails, AddGroup, tableVars
<1> QED BY <1>1, <1>2 DEF Next, Request, Observe, RedisStep, Exit, Crash, vars

LEMMA SettledGroups ==
  ASSUME IInv, GroupInv, Settles, groupuser \subseteq groupuser'
  PROVE  GroupInv'
<1>1. Letters' \subseteq Letters /\ sent' = sent
  BY SettledLetters
<1> HIDE DEF Letters
<1>2. LettersNumbered'
  BY <1>1 DEF GroupInv, LettersNumbered
<1>3. GroupLettersReachMembers'
  BY <1>1 DEF GroupInv, GroupLettersReachMembers
<1> QED BY <1>2, <1>3 DEF GroupInv

(* The letters of a new message are for members of the caller's group.     *)
LEMMA QueryGroupGroups ==
  ASSUME IInv, GroupInv, NEW t \in Thread, QueryGroup(t)
  PROVE  GroupInv'
<1>1. PICK members \in QueryGroupUsers(Caller(t), call[t].group), c \in Call :
        /\ members \subseteq User
        /\ at' = [at EXCEPT ![t] = IF members = {} THEN "respond" ELSE "queryMember"]
        /\ call' = [call EXCEPT ![t] = c]
        /\ c.id = sent + 1 /\ c.rest = members /\ sent' = sent + 1
        /\ c.session = call[t].session
  BY QueryGroupCall
<1>2. /\ CallsTyped /\ at[t] = "queryGroup" /\ sent \in Nat /\ call[t].group \in Group
      /\ UNCHANGED <<pushed, channel, offlinemessage, groupuser>>
  BY Parts DEF QueryGroup, LettersTyped, CallsOK, tableVars, redisVars
<1>3. /\ at'[t] = IF members = {} THEN "respond" ELSE "queryMember"
      /\ call'[t] = c
      /\ \A r \in Thread : r # t => at'[r] = at[r] /\ call'[r] = call[r]
  BY <1>1, <1>2 DEF CallsTyped
<1>4. \A r \in Thread : r # t => Unsent(r)' = Unsent(r)
  BY <1>3 DEF Unsent, LetterTo
<1>5. \A letter \in Unsent(t)' : /\ letter.id = sent + 1 /\ letter.from = call[t].session
                                 /\ letter.to \in members
  BY <1>1, <1>3 DEF Unsent, LetterTo
<1>6. \A letter \in Letters' : letter \in Letters \/ letter \in Unsent(t)'
  <2>1. ChannelLetters' = ChannelLetters /\ PushedLetters' = PushedLetters
    BY <1>2 DEF ChannelLetters, PushedLetters
  <2> QED BY <1>2, <1>4, <2>1, InSending, InLetters
<1>7. \A u \in members : <<call[t].group, u>> \in groupuser /\ u # Caller(t)
  BY DEF QueryGroupUsers
<1> HIDE DEF Letters, Unsent
<1>8. LettersNumbered'
  BY <1>1, <1>2, <1>5, <1>6 DEF GroupInv, LettersNumbered
<1>9. GroupLettersReachMembers'
  <2> SUFFICES ASSUME NEW letter \in Letters'
               PROVE  \E g \in Group : \A copy \in Letters' : copy.id = letter.id =>
                        <<g, copy.to>> \in groupuser /\ copy.to # UserOf[letter.from]
    BY <1>2 DEF GroupLettersReachMembers
  <2>1. CASE letter \in Letters
    <3>1. \A copy \in Letters' : copy.id = letter.id => copy \in Letters
      BY <1>2, <1>5, <1>6, <2>1 DEF GroupInv, LettersNumbered
    <3> QED BY <2>1, <3>1 DEF GroupInv, GroupLettersReachMembers
  <2>2. CASE letter \in Unsent(t)'
    <3>1. \A copy \in Letters' : copy.id = letter.id => copy \in Unsent(t)'
      BY <1>2, <1>5, <1>6, <2>2 DEF GroupInv, LettersNumbered
    <3> QED BY <1>2, <1>5, <1>7, <2>2, <3>1 DEF Caller
  <2> QED BY <1>6, <2>1, <2>2
<1> QED BY <1>8, <1>9 DEF GroupInv

(* Where only groups are written to: wherever the letters of one message   *)
(* are by now, they are for members of one group, and its sender is not    *)
(* among them.                                                             *)
THEOREM GroupLettersStayInGroup ==
  ASSUME "OneChat" \notin Method
  PROVE  Spec => []GroupLettersReachMembers
<1>1. Init => GroupInv
  <2> SUFFICES ASSUME Init PROVE GroupInv
    OBVIOUS
  <2>1. /\ ChannelLetters = {} /\ (\A t \in Thread : Unsent(t) = {})
        /\ offlinemessage = {} /\ PushedLetters = {}
    BY DEF Init, InitTables, InitRedis, ChannelLetters, Unsent, PushedLetters
  <2>2. Letters = {}
    BY <2>1, InSending, InLetters
  <2> QED BY <2>2 DEF GroupInv, LettersNumbered, GroupLettersReachMembers
<1>2. IInv /\ GroupInv /\ [Next]_vars => GroupInv'
  <2> SUFFICES ASSUME IInv, GroupInv, [Next]_vars PROVE GroupInv'
    OBVIOUS
  <2>1. Settles => GroupInv'
    BY SettledGroups, MembersStay
  <2>2. ASSUME NEW t \in Thread, ThreadStep(t) PROVE GroupInv'
    BY <2>1, <2>2, OtherSettles, QueryMemberSettles, PublishLetterSettles,
       StoreLetterSettles, QueryGroupGroups DEF ThreadStep, OtherStep
  <2>3. ASSUME NEW t \in Thread, NEW s \in Session, NEW m \in Method, Request(t, s, m)
        PROVE  GroupInv'
    BY <2>1, <2>3, RequestSettles
  <2>4. CASE UNCHANGED vars
    <3>1. UNCHANGED <<at, call, sent, pushed, channel, offlinemessage, groupuser>>
      BY <2>4 DEF vars, serviceVars, tableVars, redisVars
    <3>2. Letters' = Letters
      BY <3>1 DEF Letters, Sending, Unsent, LetterTo
    <3> QED BY <3>1, <3>2 DEF GroupInv, LettersNumbered, GroupLettersReachMembers
  <2> QED BY <2>1, <2>2, <2>3, <2>4, ObserveSettles, FaultSettles DEF Next
<1> QED BY <1>1, <1>2, Invariant, PTL DEF Spec, GroupInv

-----------------------------------------------------------------------------
(* Who creates a group, or joins one, is in it.                            *)

Joins(t) == call[t].method \in {"CreateGroup", "AddGroup"}

JoinedInv ==
  \A t \in Thread :
    /\ at[t] = "createGroup" => call[t].group = NULL
    /\ at[t] = "respond" /\ Joins(t) /\ call[t].group # NULL
         => <<call[t].group, Caller(t)>> \in groupuser

(* The threads of the others have nothing to do with it.                   *)
LEMMA JoinedOthers ==
  ASSUME JoinedInv, groupuser \subseteq groupuser', NEW r \in Thread,
         at'[r] = at[r], call'[r] = call[r]
  PROVE  /\ at'[r] = "createGroup" => call'[r].group = NULL
         /\ at'[r] = "respond" /\ Joins(r)' /\ call'[r].group # NULL
              => <<call'[r].group, Caller(r)'>> \in groupuser'
BY DEF JoinedInv, Joins, Caller

LEMMA JoinedStep ==
  ASSUME MySqlFails = FALSE, IInv, CallAt, JoinedInv, NEW t \in Thread, ThreadStep(t)
  PROVE  JoinedInv'
<1>1. CallsTyped /\ CallsOK
  BY Parts
<1>2. groupuser \subseteq groupuser'
  BY MembersStay DEF Next
<1>3. /\ at[t] # "idle"
      /\ \/ at'[t] = "idle"
         \/ /\ at'[t] \in PlacesOf(call[t].method)
            /\ call'[t].method = call[t].method /\ call'[t].session = call[t].session
      /\ \A r \in Thread : r # t => at'[r] = at[r] /\ call'[r] = call[r]
  BY CallGoesOn
<1>4. at'[t] # "createGroup"
  BY <1>1 DEF ThreadStep, LoginQuery, Subscribe, SetOnline, Unsubscribe, SetOffline,
     QueryGroup, QueryMember, PublishLetter, StoreLetter, Register, AddFriend,
     CreateGroupRow, AddGroupRow, Respond, Manage, Goto, Sent, End, CallsTyped
<1>5. ASSUME at'[t] = "respond", Joins(t)', call'[t].group # NULL
      PROVE  <<call'[t].group, Caller(t)'>> \in groupuser'
  <2>1. call[t].method \in {"CreateGroup", "AddGroup"} /\ Caller(t)' = Caller(t)
    BY <1>3, <1>5 DEF Joins, Caller
  <2>2. at[t] \in {"createGroup", "addGroup", "respond"}
    BY <1>3, <2>1 DEF CallAt, PlacesOf
  <2>3. CASE AddGroupRow(t)
    BY <1>1, <2>1, <2>3 DEF AddGroupRow, AddGroup
  <2>4. CASE CreateGroupRow(t)
    BY <1>1, <1>5, <2>4 DEF CreateGroupRow, Goto, JoinedInv, CallsTyped
  <2>5. CASE Respond(t)
    BY <1>1, <1>5, <2>5 DEF Respond, End, Goto, CallsTyped
  <2> QED BY <2>2, <2>3, <2>4, <2>5 DEF ThreadStep, LoginQuery, Subscribe, SetOnline,
             Unsubscribe, SetOffline, QueryGroup, QueryMember, PublishLetter, StoreLetter,
             Register, AddFriend, Manage
<1> QED BY <1>2, <1>3, <1>4, <1>5, JoinedOthers DEF JoinedInv

LEMMA JoinedRequest ==
  ASSUME IInv, JoinedInv, NEW t \in Thread, NEW s \in Session, NEW m \in Method,
         Request(t, s, m)
  PROVE  JoinedInv'
<1>1. PICK c \in Call :
        /\ at' = [at EXCEPT ![t] = Start(m)] /\ call' = [call EXCEPT ![t] = c]
        /\ c.group \in (IF m \in {"AddGroup", "GroupChat"} THEN Group ELSE {NULL})
  BY RequestCall
<1>2. /\ at'[t] = Start(m) /\ call'[t] = c
      /\ \A r \in Thread : r # t => at'[r] = at[r] /\ call'[r] = call[r]
  BY <1>1, Parts DEF CallsTyped
<1>3. Start(m) # "respond" /\ (Start(m) = "createGroup" => m = "CreateGroup")
  BY UserServiceAssumption DEF Start
<1>4. groupuser \subseteq groupuser'
  BY MembersStay DEF Next
<1> QED BY <1>1, <1>2, <1>3, <1>4, JoinedOthers DEF JoinedInv

LEMMA JoinedInvariant ==
  ASSUME MySqlFails = FALSE
  PROVE  Spec => []JoinedInv
<1>1. Init => JoinedInv
  BY DEF Init, JoinedInv
<1>2. IInv /\ CallAt /\ JoinedInv /\ [Next]_vars => JoinedInv'
  <2> SUFFICES ASSUME IInv, CallAt, JoinedInv, [Next]_vars PROVE JoinedInv'
    OBVIOUS
  <2>1. CASE UNCHANGED <<at, call>>
    BY <2>1, MembersStay, JoinedOthers DEF JoinedInv
  <2>2. CASE Crash
    BY <2>2 DEF Crash, JoinedInv
  <2> QED BY <2>1, <2>2, JoinedStep, JoinedRequest
          DEF Next, Observe, RedisStep, Exit, vars, serviceVars
<1> QED BY <1>1, <1>2, Invariant, CallAtInvariant, PTL DEF Spec

(* Where no statement fails, who is told that it created a group, or       *)
(* joined one, is a member of it: a message to the group will reach it.    *)
THEOREM JoinersAreMembers ==
  ASSUME MySqlFails = FALSE
  PROVE  Spec => JoinedWhenAnswered
<1>1. JoinedInv /\ [Next]_vars =>
        [\A t \in Thread :
           Respond(t) /\ call[t].method \in {"CreateGroup", "AddGroup"} /\ call[t].group # NULL
             => <<call[t].group, Caller(t)>> \in groupuser]_vars
  BY DEF JoinedInv, Joins, Respond
<1> QED BY <1>1, JoinedInvariant, PTL DEF Spec, JoinedWhenAnswered

=============================================================================
