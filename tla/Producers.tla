----------------------------- MODULE Producers -----------------------------
(***************************************************************************)
(* How the participants of a call learn of each other's producers:         *)
(* src/calls/calls.service.ts (joinSession, produce, mediaNotification)    *)
(* over src/sfu/sfu.service.ts, for one room and one socket per user.      *)
(*                                                                         *)
(* A joining client is told of the producers there are in the answer to    *)
(* its request, and of all others by events sent to the Socket.IO room:    *)
(* new_producer and producer_closed.  known[s] is what client s makes of   *)
(* these messages, which Socket.IO delivers in the order they are sent.    *)
(* Operations of different users interleave at every await, and at the     *)
(* microtasks between a result and its use.                                *)
(***************************************************************************)
EXTENDS Naturals

CONSTANTS
  Sockets,
  MaxMade      (* bound on the producers a socket makes                    *)

VARIABLES
  connected,   (* the sockets that are connected                           *)
  ioRoom,      (* the sockets in the Socket.IO room of the call            *)
  admitted,    (* the participants of the registry                         *)
  peers,       (* SfuService: the peers of the media room                  *)
  open,        (* SfuService: the producers, <<socket, number>>            *)
  made,        (* socket -> the number of producers it has made            *)
  at,          (* socket -> where its user's operation is suspended        *)
  answer,      (* socket -> the producers of an answer not yet sent        *)
  known        (* the client of a socket: the producers it knows           *)

vars == <<connected, ioRoom, admitted, peers, open, made, at, answer, known>>

Stages == {"idle", "joinMedia", "rejoinMedia", "enterRoom", "entered", "rollback",
           "rollbackRoom", "answering", "producing", "announcing", "leaveMedia"}

Producer == Sockets \X Nat

Init ==
  /\ connected = Sockets
  /\ ioRoom = {} /\ admitted = {} /\ peers = {} /\ open = {}
  /\ made = [s \in Sockets |-> 0]
  /\ at = [s \in Sockets |-> "idle"]
  /\ answer = [s \in Sockets |-> {}]
  /\ known = [s \in Sockets |-> {}]

----------------------------------------------------------------------------

Goto(s, stage) == at' = [at EXCEPT ![s] = stage]

\* producers(): those of the other peers.
OfOthers(s) == {p \in open : p[1] # s}
Own(s) == {p \in open : p[1] = s}

\* Producers close: producer_closed goes to the Socket.IO room.
CloseProducers(closing, room) ==
  /\ open' = open \ closing
  /\ known' = [t \in Sockets |-> IF t \in room THEN known[t] \ closing ELSE known[t]]

\* attachSession(), up to sfu.join(): the room of the call may be the one the
\* socket is in already.
JoinBegin(s) ==
  /\ at[s] = "idle" /\ s \in connected
  /\ Goto(s, IF s \in admitted THEN "rejoinMedia" ELSE "joinMedia")
  /\ UNCHANGED <<connected, ioRoom, admitted, peers, open, made, answer, known>>

\* sfu.join() for a socket that is in the call: what it returns is the answer.
Rejoin(s) ==
  /\ at[s] = "rejoinMedia"
  /\ peers' = peers \cup {s}
  /\ answer' = [answer EXCEPT ![s] = OfOthers(s)]
  /\ Goto(s, "answering")
  /\ UNCHANGED <<connected, ioRoom, admitted, open, made, known>>

\* sfu.join() for another; it returns the producers of this moment too.
JoinMedia(s) ==
  /\ at[s] = "joinMedia"
  /\ peers' = peers \cup {s}
  /\ answer' = [answer EXCEPT ![s] = OfOthers(s)]
  /\ Goto(s, IF s \in connected THEN "enterRoom" ELSE "rollback")
  /\ UNCHANGED <<connected, ioRoom, admitted, open, made, known>>

\* client.join(); it does nothing for a socket that has disconnected.
EnterRoom(s) ==
  /\ at[s] = "enterRoom"
  /\ ioRoom' = IF s \in connected THEN ioRoom \cup {s} ELSE ioRoom
  /\ Goto(s, "entered")
  /\ UNCHANGED <<connected, admitted, peers, open, made, answer, known>>

\* The producers the answer names: they are listed again, now that the socket
\* hears the events.  (Mutant: those that sfu.join() returned.)
Listed_AtJoin(s) == answer[s]
Listed(s) == OfOthers(s)

\* The socket becomes a participant, unless it has disconnected, the room has
\* been deleted, or the media room was lost and listProducers() throws.
Admit(s) ==
  /\ at[s] = "entered"
  /\ \/ /\ s \in connected \cap peers
        /\ answer' = [answer EXCEPT ![s] = Listed(s)]
        /\ admitted' = admitted \cup {s}
        /\ Goto(s, "answering")
     \/ Goto(s, "rollback") /\ UNCHANGED <<answer, admitted>>
  /\ UNCHANGED <<connected, ioRoom, peers, open, made, known>>

\* sfu.leave(), then client.leave(), of a join that fails.
Rollback(s) ==
  /\ at[s] = "rollback"
  /\ peers' = peers \ {s}
  /\ CloseProducers(Own(s), ioRoom)
  /\ Goto(s, "rollbackRoom")
  /\ UNCHANGED <<connected, ioRoom, admitted, made, answer>>

RollbackRoom(s) ==
  /\ at[s] = "rollbackRoom"
  /\ ioRoom' = ioRoom \ {s}
  /\ known' = [known EXCEPT ![s] = {}]
  /\ Goto(s, "idle")
  /\ UNCHANGED <<connected, admitted, peers, open, made, answer>>

\* The answer to a join is sent.
Answer(s) ==
  /\ at[s] = "answering"
  /\ known' = [known EXCEPT ![s] = @ \cup answer[s]]
  /\ answer' = [answer EXCEPT ![s] = {}]
  /\ Goto(s, "idle")
  /\ UNCHANGED <<connected, ioRoom, admitted, peers, open, made>>

\* mediaRequest(): of participants only.
ProduceBegin(s) ==
  /\ at[s] = "idle" /\ s \in admitted \cap connected
  /\ Goto(s, "producing")
  /\ UNCHANGED <<connected, ioRoom, admitted, peers, open, made, answer, known>>

\* sfu.produce(): it fails without the peer, and may otherwise.
Produced(s) ==
  /\ at[s] = "producing"
  /\ \/ /\ s \in peers /\ made[s] < MaxMade
        /\ made' = [made EXCEPT ![s] = @ + 1]
        /\ open' = open \cup {<<s, made[s] + 1>>}
        /\ Goto(s, "announcing")
     \/ Goto(s, "idle") /\ UNCHANGED <<made, open>>
  /\ UNCHANGED <<connected, ioRoom, admitted, peers, answer, known>>

\* new_producer, when sfu.produce() has returned: to the others in the
\* Socket.IO room, participants or about to be.
Announce(s) ==
  /\ at[s] = "announcing"
  /\ known' = [t \in Sockets |->
                 IF t \in ioRoom \ {s} THEN known[t] \cup {<<s, made[s]>>} ELSE known[t]]
  /\ Goto(s, "idle")
  /\ UNCHANGED <<connected, ioRoom, admitted, peers, open, made, answer>>

\* closeResource() of a producer or of the transport it is on.
CloseProducer(s) ==
  /\ at[s] = "idle" /\ s \in admitted \cap connected \cap peers
  /\ \E closing \in SUBSET Own(s) : CloseProducers(closing, ioRoom)
  /\ UNCHANGED <<connected, ioRoom, admitted, peers, made, at, answer>>

\* A participant leaves, or has disconnected and is cleaned up: detach() up to
\* sfu.leave(), and what that closes.
Leave(s) ==
  /\ at[s] = "idle" /\ s \in admitted
  /\ admitted' = admitted \ {s}
  /\ ioRoom' = ioRoom \ {s}
  /\ known' = [known EXCEPT ![s] = {}]
  /\ Goto(s, "leaveMedia")
  /\ UNCHANGED <<connected, peers, open, made, answer>>

LeaveMedia(s) ==
  /\ at[s] = "leaveMedia"
  /\ peers' = peers \ {s}
  /\ CloseProducers(Own(s), ioRoom)
  /\ Goto(s, "idle")
  /\ UNCHANGED <<connected, ioRoom, admitted, made, answer>>

----------------------------------------------------------------------------

\* The client goes: Socket.IO takes the socket out of its rooms at once.
Disconnect(s) ==
  /\ s \in connected
  /\ connected' = connected \ {s}
  /\ ioRoom' = ioRoom \ {s}
  /\ UNCHANGED <<admitted, peers, open, made, at, answer, known>>

\* A transport fails.
TransportFails(s) ==
  /\ Own(s) # {}
  /\ CloseProducers(Own(s), ioRoom)
  /\ UNCHANGED <<connected, ioRoom, admitted, peers, made, at, answer>>

\* The worker dies: the media_room_closed handler removes the participants.
MediaRoomLost ==
  /\ peers # {}
  /\ open' = {} /\ peers' = {}
  /\ admitted' = {} /\ ioRoom' = ioRoom \ admitted
  /\ known' = [t \in Sockets |-> IF t \in admitted THEN {}
                                 ELSE IF t \in ioRoom THEN known[t] \ open ELSE known[t]]
  /\ UNCHANGED <<connected, made, at, answer>>

\* The room is deleted: closeRoom() ends with sfu.closeRoom(), when it has
\* detached every participant.
RoomDeleted ==
  /\ peers # {} /\ admitted = {}
  /\ peers' = {}
  /\ CloseProducers(open, ioRoom)
  /\ UNCHANGED <<connected, ioRoom, admitted, made, at, answer>>

Step(s) ==
  \/ JoinBegin(s) \/ Rejoin(s) \/ JoinMedia(s) \/ EnterRoom(s) \/ Admit(s) \/ Rollback(s)
  \/ RollbackRoom(s) \/ Answer(s) \/ ProduceBegin(s) \/ Produced(s) \/ Announce(s)
  \/ CloseProducer(s) \/ Leave(s) \/ LeaveMedia(s) \/ Disconnect(s) \/ TransportFails(s)

Next == (\E s \in Sockets : Step(s)) \/ MediaRoomLost \/ RoomDeleted

Spec == Init /\ [][Next]_vars

----------------------------------------------------------------------------

TypeOK ==
  /\ connected \subseteq Sockets /\ ioRoom \subseteq Sockets
  /\ admitted \subseteq Sockets /\ peers \subseteq Sockets
  /\ open \subseteq Producer
  /\ made \in [Sockets -> Nat]
  /\ at \in [Sockets -> Stages]
  /\ answer \in [Sockets -> SUBSET Producer]
  /\ known \in [Sockets -> SUBSET Producer]

\* A producer whose new_producer is about to be sent.
Unannounced(p) == at[p[1]] = "announcing" /\ p[2] = made[p[1]]

\* Nobody is missed: once a client has the answer to its join, it knows every
\* producer of the others, however their operations fell between its steps;
\* at most the announcement is on its way.
NobodyMissed ==
  \A s \in admitted \cap connected : \A p \in OfOthers(s) :
    at[s] = "answering" \/ Unannounced(p) \/ p \in known[s]

=============================================================================
