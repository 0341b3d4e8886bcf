------------------------------ MODULE Mailbox -------------------------------
(***************************************************************************)
(* What the service promises of messages: each is addressed once, to some  *)
(* users, and its letter to each of them is stored, pushed or lost, once.  *)
(***************************************************************************)
EXTENDS Naturals, Sequences

CONSTANTS User, Session

VARIABLES
  sent,      \* the number of messages
  sending,   \* letters that are on their way
  stored,    \* letters in the table of offline messages
  pushed     \* letters given to clients, in order

vars == <<sent, sending, stored, pushed>>

Init == sent = 0 /\ sending = {} /\ stored = {} /\ pushed = <<>>

Send(s, U) ==
  /\ sent' = sent + 1
  /\ sending' = sending \cup {[id |-> sent + 1, from |-> s, to |-> u] : u \in U}
  /\ UNCHANGED <<stored, pushed>>

Store(letter) ==
  /\ sending' = sending \ {letter}
  /\ stored' = stored \cup {letter}
  /\ UNCHANGED <<sent, pushed>>

Push(letter) ==
  /\ sending' = sending \ {letter}
  /\ pushed' = Append(pushed, letter)
  /\ UNCHANGED <<sent, stored>>

Lose(letters) ==
  /\ sending' = sending \ letters
  /\ UNCHANGED <<sent, stored, pushed>>

Next ==
  \/ \E s \in Session, U \in SUBSET User : Send(s, U)
  \/ \E letter \in sending : Store(letter) \/ Push(letter)
  \/ \E letters \in SUBSET sending : Lose(letters)

Spec == Init /\ [][Next]_vars

=============================================================================
