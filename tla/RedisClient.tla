---------------------------- MODULE RedisClient -----------------------------
(***************************************************************************)
(* Redis (src/redis/redis.cc) and the Redis server behind it.  subscribe   *)
(* and unsubscribe write a command and do not wait for its reply; publish  *)
(* waits for its own, on another connection, and so may overtake them.     *)
(*                                                                         *)
(* A command may fail, which every caller ignores.  The threads use the    *)
(* two contexts without a lock: a command that is spoilt by another        *)
(* thread's is one that fails.                                             *)
(***************************************************************************)
EXTENDS Naturals, Sequences

CONSTANTS
  RedisFails,    \* whether a command, or the connection, may fail
  MaxCommands    \* bound: the commands the socket holds; a writer waits

ASSUME RedisClientAssumption == RedisFails \in BOOLEAN /\ MaxCommands \in Nat \ {0}

VARIABLES
  connected,    \* whether the context that subscribes is connected
  commands,     \* what was written on it and Redis has not run
  subscribed,   \* the channels Redis has this client subscribed to
  channel       \* what Redis sent on it and the observer has not read

redisVars == <<connected, commands, subscribed, channel>>

InitRedis ==
  /\ connected = TRUE
  /\ commands = <<>> /\ subscribed = {} /\ channel = <<>>

\* subscribe and unsubscribe.
WriteCommand(command) ==
  /\ \/ /\ connected /\ Len(commands) < MaxCommands
        /\ commands' = Append(commands, command)
     \/ (~connected \/ RedisFails) /\ UNCHANGED commands
  /\ UNCHANGED <<connected, subscribed, channel>>

Publish(letter) ==
  /\ \/ letter.to \in subscribed /\ channel' = Append(channel, letter)
     \/ (letter.to \notin subscribed \/ RedisFails) /\ UNCHANGED channel
  /\ UNCHANGED <<connected, commands, subscribed>>

\* A bug: the message stays.
PeekChannel == channel # <<>> /\ UNCHANGED redisVars

\* The observer reads a message.
ReadChannel ==
  /\ channel # <<>>
  /\ channel' = Tail(channel)
  /\ UNCHANGED <<connected, commands, subscribed>>

-----------------------------------------------------------------------------
(* The Redis server *)

RunCommand ==
  /\ commands # <<>>
  /\ LET u == Head(commands)[2]
     IN  subscribed' = IF Head(commands)[1] = "SUBSCRIBE"
                       THEN subscribed \cup {u} ELSE subscribed \ {u}
  /\ commands' = Tail(commands)
  /\ UNCHANGED <<connected, channel>>

(* The connection is lost: the observer ends, and nothing connects again.  *)
Disconnect ==
  /\ RedisFails
  /\ connected
  /\ connected' = FALSE
  /\ commands' = <<>> /\ subscribed' = {} /\ channel' = <<>>

(* The client starts again. *)
Reconnect ==
  /\ connected' = TRUE
  /\ commands' = <<>> /\ subscribed' = {} /\ channel' = <<>>

=============================================================================
