-------------------------------- MODULE Chat --------------------------------
(***************************************************************************)
(* The chat namespace: src/chat/chat.gateway.ts and chat.service.ts, with  *)
(* the guard of its events, src/guards/ws.guard.ts.                        *)
(*                                                                         *)
(* A socket is verified while its events already arrive.  A message goes   *)
(* to a Socket.IO room whose name each side computes from what it asked    *)
(* for: a call, or the other user of a direct conversation.  Messages are  *)
(* not kept; handlers run to their end, so each event is one action.       *)
(***************************************************************************)
EXTENDS Naturals

CONSTANTS
  Sockets,
  UserOf,      (* the user in the socket's token: its idx                  *)
  Payloads     (* what a client may name: <<roomType, targetIdx>>          *)

ASSUME UserOfAssumption == UserOf \in [Sockets -> Nat \ {0}]
ASSUME PayloadsAssumption == Payloads \subseteq {"call", "dm"} \X Nat

VARIABLES
  state,       (* "away", "verifying", "ready" (client.data.user is set)   *)
               (* or "closed"                                              *)
  token,       (* of its handshake: "valid", "invalid" or "none"           *)
  expired,     (* the sockets whose token is past its time                 *)
  rooms,       (* client.rooms: the names of the rooms a socket is in      *)
  joined,      (* history: the payloads it has joined with and not left    *)
  relayed      (* what the last step relayed: sender, payload, receivers   *)

vars == <<state, token, expired, rooms, joined, relayed>>

NoRelay == [from |-> "nobody", payload |-> <<>>, to |-> {}]

Init ==
  /\ state = [s \in Sockets |-> "away"]
  /\ token = [s \in Sockets |-> "none"]
  /\ expired = {}
  /\ rooms = [s \in Sockets |-> {}]
  /\ joined = [s \in Sockets |-> {}]
  /\ relayed = NoRelay

----------------------------------------------------------------------------

\* getRoomName(): both users of a direct conversation arrive at one name.
\* (Mutant: the pair is not sorted.)
RoomName_Unsorted(user, payload) ==
  IF payload[1] = "call" THEN <<"call", payload[2]>> ELSE <<"dm", user, payload[2]>>
RoomName(user, payload) ==
  LET target == payload[2] IN
  IF payload[1] = "call" THEN <<"call", target>>
  ELSE IF user < target THEN <<"dm", user, target>> ELSE <<"dm", target, user>>

Room(s, payload) == RoomName(UserOf[s], payload)

\* isValidIdx(), of the target.
ValidIdx(payload) == payload[2] > 0

\* The socket is closed, and Socket.IO takes it out of its rooms.
Closed(s) ==
  /\ state' = [state EXCEPT ![s] = "closed"]
  /\ rooms' = [rooms EXCEPT ![s] = {}]
  /\ joined' = [joined EXCEPT ![s] = {}]
  /\ UNCHANGED <<token, expired>>
  /\ relayed' = NoRelay

\* handleConnection(), up to verifyToken.
Connect(s) ==
  /\ state[s] = "away"
  /\ \E t \in {"valid", "invalid", "none"} : token' = [token EXCEPT ![s] = t]
  /\ state' = [state EXCEPT ![s] = IF token'[s] = "none" THEN "closed" ELSE "verifying"]
  /\ UNCHANGED <<expired, rooms, joined>>
  /\ relayed' = NoRelay

\* verifyToken answers.  If the socket has been closed meanwhile, nothing
\* comes of it.
Verified(s) ==
  /\ state[s] = "verifying"
  /\ state' = [state EXCEPT ![s] =
                 IF token[s] = "valid" /\ s \notin expired THEN "ready" ELSE "closed"]
  /\ UNCHANGED <<token, expired, rooms, joined>>
  /\ relayed' = NoRelay

\* WsGuard, on every event: the user is known and the token still good.
\* (Mutant: it looks at the token only.)
Admitted_TokenOnly(s) == s \notin expired
Admitted(s) == state[s] = "ready" /\ s \notin expired

Connected(s) == state[s] \in {"verifying", "ready"}

\* joinRoom(), with a valid target.
JoinChat(s, payload) ==
  /\ Admitted(s) /\ ValidIdx(payload)
  /\ rooms' = [rooms EXCEPT ![s] = @ \cup {Room(s, payload)}]
  /\ joined' = [joined EXCEPT ![s] = @ \cup {payload}]
  /\ UNCHANGED <<state, token, expired>>
  /\ relayed' = NoRelay

\* leaveRoom(), with a valid target; another changes nothing.
LeaveChat(s, payload) ==
  /\ Admitted(s) /\ ValidIdx(payload)
  /\ rooms' = [rooms EXCEPT ![s] = @ \ {Room(s, payload)}]
  /\ joined' = [joined EXCEPT ![s] = @ \ {payload}]
  /\ UNCHANGED <<state, token, expired>>
  /\ relayed' = NoRelay

\* The sender is in the room it writes to.
InRoom(s, payload) == Room(s, payload) \in rooms[s]

\* relayMessage(): to everybody else in the room.
SendMessage(s, payload) ==
  /\ Admitted(s) /\ ValidIdx(payload) /\ InRoom(s, payload)
  /\ relayed' = [from |-> s, payload |-> payload,
                 to |-> {t \in Sockets \ {s} : Room(s, payload) \in rooms[t]}]
  /\ UNCHANGED <<state, token, expired, rooms, joined>>

\* The events that end in disconnectWithAuthError(): refused by the guard, a
\* join or a message with an invalid target, a message to a room the sender is
\* not in.
Refuse(s, payload) ==
  /\ Admitted(s) /\ ValidIdx(payload) => ~InRoom(s, payload)
  /\ Closed(s)

Event(s) ==
  /\ Connected(s)
  /\ \E payload \in Payloads :
       JoinChat(s, payload) \/ LeaveChat(s, payload) \/ SendMessage(s, payload) \/ Refuse(s, payload)

\* The client goes.
Disconnect(s) == Connected(s) /\ Closed(s)

\* The token's time is over.
Expire(s) ==
  /\ s \notin expired
  /\ expired' = expired \cup {s}
  /\ UNCHANGED <<state, token, rooms, joined>>
  /\ relayed' = NoRelay

Next == \E s \in Sockets : Connect(s) \/ Verified(s) \/ Event(s) \/ Disconnect(s) \/ Expire(s)

Spec == Init /\ [][Next]_vars

----------------------------------------------------------------------------

Names == {RoomName(UserOf[s], payload) : s \in Sockets, payload \in Payloads}

TypeOK ==
  /\ state \in [Sockets -> {"away", "verifying", "ready", "closed"}]
  /\ token \in [Sockets -> {"valid", "invalid", "none"}]
  /\ expired \subseteq Sockets
  /\ rooms \in [Sockets -> SUBSET Names]
  /\ joined \in [Sockets -> SUBSET Payloads]
  /\ relayed # NoRelay => relayed.from \in Sockets /\ relayed.to \subseteq Sockets

\* What a payload means to the one who sends it: a call, or two users.
Conversation(user, payload) ==
  IF payload[1] = "call" THEN [call |-> payload[2], users |-> {}]
  ELSE [call |-> 0, users |-> {user, payload[2]}]

\* A message reaches exactly the sockets that have asked for the conversation
\* it is about: the other user of a direct conversation, on whichever side
\* each asked, and nobody else.
RelayExact ==
  [][relayed' \notin {relayed, NoRelay} =>
       relayed'.to = {t \in Sockets \ {relayed'.from} :
                        \E payload \in joined[t] :
                          Conversation(UserOf[t], payload)
                            = Conversation(UserOf[relayed'.from], relayed'.payload)}]_vars

\* Only a socket whose token was verified is in a room, and it has left them
\* all when it closes: nobody hears a call before being known or after going.
OnlyVerifiedHear == \A s \in Sockets : rooms[s] # {} => token[s] = "valid" /\ state[s] = "ready"

=============================================================================
