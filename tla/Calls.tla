------------------------------- MODULE Calls -------------------------------
(***************************************************************************)
(* Call sessions: src/calls/calls.service.ts with the registry of          *)
(* CallState, driven by src/calls/calls.gateway.ts (Socket.IO) and by the  *)
(* REST controllers.                                                       *)
(*                                                                         *)
(* Every operation runs under KeyedSerialExecutor, keyed by user: queue[u] *)
(* is the executor's queue as SerialQueue specifies it, and its head is    *)
(* the operation in progress.  at[u] is the await where it is suspended:   *)
(* an action is the code from one await to the next, or the effect of the  *)
(* awaited call in the SFU, in Socket.IO or in Core.                       *)
(*                                                                         *)
(* The SFU is seen through mediaPeers: a media room lives as long as it    *)
(* has peers.  Core is external: it keeps the members of each call.        *)
(***************************************************************************)
EXTENDS CallState, Naturals, Sequences

CONSTANTS
  InitialMembers,  (* Core's members when the process starts: Core outlives it *)
  Requests,        (* the operations clients may ask for                       *)
  DeletableRooms,  (* the rooms an owner may delete                            *)
  Faults,          (* subset of {"core", "createRouter", "routerClose"}        *)
  MaxRequests,     (* bound on the operations asked for                        *)
  MaxRouterCloses  (* bound on how often a media room is lost with its worker  *)

SocketKinds == {"join", "leave"}
RestKinds == {"restJoin", "restLeave", "leaveActive"}
Kinds == SocketKinds \cup RestKinds \cup {"disconnect", "evict"}
Operations ==
  [kind : Kinds, user : Users, socket : Sockets \cup {NoSocket}, room : Rooms \cup {NoRoom}]

\* What user u's queue may hold: REST operations name no socket, the others
\* one of the user's own; a disconnect names no room.
OperationsOf(u) ==
  {op \in Operations :
     /\ op.user = u
     /\ op.kind \in RestKinds <=> op.socket = NoSocket
     /\ op.kind = "disconnect" <=> op.room = NoRoom
     /\ op.socket # NoSocket => Owner[op.socket] = u}

ASSUME InitialMembersAssumption == InitialMembers \in [Rooms -> SUBSET Users]
ASSUME RequestsAssumption ==
  \A op \in Requests : op.kind \in SocketKinds \cup RestKinds /\ op \in OperationsOf(op.user)

VARIABLES
  connected,   (* the sockets that are connected                           *)
  registry,    (* CallStateService                                         *)
  clients,     (* the keys of CallsService.clients                         *)
  deleted,     (* CallsService.deletedRooms                                *)
  sioRooms,    (* socket -> the Socket.IO rooms it is in                   *)
  mediaPeers,  (* SfuService: room -> its peers                            *)
  members,     (* Core: room -> the users who are members of the call      *)
  unheard,     (* history: room -> the users who left it in Core by a REST *)
               (* request of which the answer was lost                     *)
  queue,       (* user -> the operations of the executor not yet settled   *)
  at,          (* user -> where the operation in progress is suspended     *)
  held,        (* user -> the participant the operation has detached       *)
  closing,     (* room -> how far its deletion is                          *)
  toEvict,     (* room -> the participants closeRoom has still to detach   *)
  requests,    (* operations asked for so far                              *)
  routerCloses (* media room -> the times it was lost: media_room_closed   *)

vars == <<connected, registry, clients, deleted, sioRooms, mediaPeers, members,
          unheard, queue, at, held, closing, toEvict, requests, routerCloses>>


Stages == {"start", "authorizing", "authorized", "joinMedia", "rejoinMedia", "joined",
           "evictCore", "enterRoom", "entered", "rollback", "rollbackRoom", "failed",
           "left", "detachMedia", "coreLeave"}

\* "lost": Core has deleted the room, and its answer was lost.
ClosingStages == {"open", "lost", "coreDeleted", "evicting", "evicted", "closeMedia", "closed"}

NoHeld == [socket |-> NoSocket, room |-> NoRoom]

Init ==
  /\ connected = Sockets
  /\ registry = EmptyRegistry
  /\ clients = {}
  /\ deleted = {}
  /\ sioRooms = [s \in Sockets |-> {}]
  /\ mediaPeers = [r \in Rooms |-> {}]
  /\ members = InitialMembers
  /\ unheard = [r \in Rooms |-> {}]
  /\ queue = [u \in Users |-> <<>>]
  /\ at = [u \in Users |-> "start"]
  /\ held = [u \in Users |-> NoHeld]
  /\ closing = [r \in Rooms |-> "open"]
  /\ toEvict = [r \in Rooms |-> {}]
  /\ requests = 0
  /\ routerCloses = [r \in Rooms |-> 0]

----------------------------------------------------------------------------
(* The operation in progress and how it goes on.                           *)

Idle(u) == queue[u] = <<>>
Op(u) == Head(queue[u])
InProgress(u, stage) == ~Idle(u) /\ at[u] = stage
Running(u, kind, stage) == InProgress(u, stage) /\ Op(u).kind = kind

\* The operation is suspended at its next await.
Goto(u, stage) ==
  /\ at' = [at EXCEPT ![u] = stage]
  /\ UNCHANGED <<queue, closing>>

\* The operation settles, and the one behind it may begin.  closeRoom awaits
\* the operations it has queued.
Return(u) ==
  /\ queue' = [queue EXCEPT ![u] = Tail(@)]
  /\ at' = [at EXCEPT ![u] = "start"]
  /\ closing' = IF Op(u).kind = "evict"
                THEN [closing EXCEPT ![Op(u).room] = "evicted"] ELSE closing

Enqueue(op) == queue' = [queue EXCEPT ![op.user] = Append(@, op)]

\* client.leave().  (Mutant: the socket stays in the Socket.IO room.)
LeaveSioRoom_Stays(s, r) == sioRooms
LeaveSioRoom(s, r) == [sioRooms EXCEPT ![s] = @ \ {r}]

\* The synchronous part of detach(), for a participant of user u.
Detach(u, s) ==
  LET r == registry.bySocket[s] IN
  /\ registry' = Remove(registry, s)
  /\ clients' = clients \ {s}
  /\ sioRooms' = IF s \in clients THEN LeaveSioRoom(s, r) ELSE sioRooms
  /\ held' = [held EXCEPT ![u] = [socket |-> s, room |-> r]]

\* A call to Core whose error is swallowed: it takes effect, or it fails.  That Core
\* has acted and its answer is lost is the first case: the caller goes on alike.
CoreMay(effect) ==
  \/ members' = effect
  \/ "core" \in Faults /\ UNCHANGED members

session == <<registry, clients, sioRooms, held>>
environment == <<connected, unheard, deleted, toEvict, requests, routerCloses>>

----------------------------------------------------------------------------
(* joinSession                                                             *)

\* authorize(): a deleted room is refused before Core is asked.
JoinBegin(u) ==
  /\ Running(u, "join", "start")
  /\ IF Op(u).room \in deleted THEN Return(u) ELSE Goto(u, "authorizing")
  /\ UNCHANGED <<session, environment, mediaPeers, members>>

\* Core answers with the participants of the call, or with an error.
JoinAuthorize(u) ==
  /\ Running(u, "join", "authorizing")
  /\ \/ u \in members[Op(u).room] /\ Goto(u, "authorized")
     \/ u \notin members[Op(u).room] /\ Return(u)
     \/ "core" \in Faults /\ Return(u)
  /\ UNCHANGED <<session, environment, mediaPeers, members>>

\* attachSession() up to sfu.join: a socket already in this room only joins
\* the media room again.
JoinAttach(u) ==
  /\ Running(u, "join", "authorized")
  /\ Goto(u, CASE Op(u).socket \notin connected -> "failed"
               [] registry.bySocket[Op(u).socket] = Op(u).room -> "rejoinMedia"
               [] OTHER -> "joinMedia")
  /\ UNCHANGED <<session, environment, mediaPeers, members>>

\* sfu.join(): creates the media room if there is none.
JoinMedia(u) ==
  LET r == Op(u).room IN
  /\ Running(u, "join", "joinMedia") \/ Running(u, "join", "rejoinMedia")
  /\ \/ /\ mediaPeers' = [mediaPeers EXCEPT ![r] = @ \cup {Op(u).socket}]
        /\ IF at[u] = "joinMedia" THEN Goto(u, "joined") ELSE Return(u)
     \/ /\ "createRouter" \in Faults /\ mediaPeers[r] = {}
        /\ Goto(u, "failed")
        /\ UNCHANGED mediaPeers
  /\ UNCHANGED <<session, environment, members>>

\* assertConnected(), after an await.
StillConnected(u) == Op(u).socket \in connected

\* The session that a join replaces.  (Mutant: none.)
Previous_None(u) == NoSocket
Previous(u) == registry.byUser[u]

\* The user's present session is detached, or the Socket.IO room is entered.
JoinReplace(u) ==
  /\ Running(u, "join", "joined")
  /\ \/ /\ ~StillConnected(u)
        /\ Goto(u, "rollback")
        /\ UNCHANGED session
     \/ /\ StillConnected(u) /\ Previous(u) # NoSocket
        /\ Goto(u, "detachMedia")
        /\ Detach(u, Previous(u))
     \/ /\ StillConnected(u) /\ Previous(u) = NoSocket
        /\ Goto(u, "entered")
        /\ sioRooms' = [sioRooms EXCEPT ![Op(u).socket] = @ \cup {Op(u).room}]
        /\ UNCHANGED <<registry, clients, held>>
  /\ UNCHANGED <<environment, mediaPeers, members>>

\* A former session in another room is given up in Core too.
JoinReplaceCore(u) ==
  /\ Running(u, "join", "evictCore")
  /\ CoreMay([members EXCEPT ![held[u].room] = @ \ {u}])
  /\ Goto(u, "enterRoom")
  /\ UNCHANGED <<session, environment, mediaPeers>>

JoinEnterRoom(u) ==
  /\ Running(u, "join", "enterRoom")
  /\ sioRooms' = [sioRooms EXCEPT ![Op(u).socket] = @ \cup {Op(u).room}]
  /\ Goto(u, "entered")
  /\ UNCHANGED <<registry, clients, held, environment, mediaPeers, members>>

\* What attachSession checks before it adds the participant: the socket is
\* there, the room is not deleted, and listProducers finds the media peer.
\* (Mutants: one of the last two checks is missing.)
MayAdmit_Deleted(u) == StillConnected(u) /\ Op(u).socket \in mediaPeers[Op(u).room]
MayAdmit_NoMedia(u) == StillConnected(u) /\ Op(u).room \notin deleted
MayAdmit(u) ==
  /\ StillConnected(u)
  /\ Op(u).room \notin deleted
  /\ Op(u).socket \in mediaPeers[Op(u).room]

JoinAdmit(u) ==
  /\ Running(u, "join", "entered")
  /\ IF MayAdmit(u)
     THEN /\ registry' = Add(registry, Op(u).socket, Op(u).room)
          /\ clients' = clients \cup {Op(u).socket}
          /\ Return(u)
     ELSE Goto(u, "rollback") /\ UNCHANGED <<registry, clients>>
  /\ UNCHANGED <<sioRooms, held, environment, mediaPeers, members>>

\* The media the failed join had allocated.  (Mutant: it is not released.)
WithoutMedia_Kept(s, r) == mediaPeers
WithoutMedia(s, r) == [mediaPeers EXCEPT ![r] = @ \ {s}]

JoinRollback(u) ==
  /\ Running(u, "join", "rollback")
  /\ mediaPeers' = WithoutMedia(Op(u).socket, Op(u).room)
  /\ Goto(u, "rollbackRoom")
  /\ UNCHANGED <<session, environment, members>>

JoinRollbackRoom(u) ==
  /\ Running(u, "join", "rollbackRoom")
  /\ sioRooms' = LeaveSioRoom(Op(u).socket, Op(u).room)
  /\ Goto(u, "failed")
  /\ UNCHANGED <<registry, clients, held, environment, mediaPeers, members>>

\* Whether the failed join must give the call up in Core: the socket is gone
\* and the user has no session.  (Mutant: never.)
MustLeaveCore_Never(u) == FALSE
MustLeaveCore(u) == Op(u).socket \notin connected /\ registry.byUser[u] = NoSocket

JoinFail(u) ==
  /\ Running(u, "join", "failed")
  /\ IF MustLeaveCore(u)
     THEN /\ held' = [held EXCEPT ![u] = [socket |-> Op(u).socket, room |-> Op(u).room]]
          /\ Goto(u, "coreLeave")
     ELSE Return(u) /\ UNCHANGED held
  /\ UNCHANGED <<registry, clients, sioRooms, environment, mediaPeers, members>>

Join(u) ==
  \/ JoinBegin(u) \/ JoinAuthorize(u) \/ JoinAttach(u) \/ JoinMedia(u) \/ JoinReplace(u)
  \/ JoinReplaceCore(u) \/ JoinEnterRoom(u) \/ JoinAdmit(u) \/ JoinRollback(u)
  \/ JoinRollbackRoom(u) \/ JoinFail(u)

----------------------------------------------------------------------------
(* leaveSession, disconnectSocket, leaveActiveCall, leaveCall and the      *)
(* operations of closeRoom: find the participant, detach it.               *)

\* The participant a disconnect is about: the socket's, if it has one.
\* (Mutants: the user's, whichever socket it is on; one whose Socket.IO rooms
\* still show it, though they are cleared by then.)
Disconnected_AnySocket(u) == registry.byUser[u]
Disconnected_BySioRooms(u) ==
  LET s == Op(u).socket IN IF registry.bySocket[s] \in sioRooms[s] THEN s ELSE NoSocket
Disconnected(u) ==
  LET s == Op(u).socket IN IF registry.bySocket[s] # NoRoom THEN s ELSE NoSocket

\* The participant an operation is about; the others name the room, and act
\* on the socket's participant or, from REST, on the user's.
Subject(u) ==
  LET own == IF Op(u).socket = NoSocket THEN registry.byUser[u] ELSE Op(u).socket
  IN  CASE Op(u).kind = "disconnect" -> Disconnected(u)
        [] Op(u).kind # "disconnect" /\ own # NoSocket /\ registry.bySocket[own] = Op(u).room -> own
        [] OTHER -> NoSocket

\* Where the operation looks the participant up; leaveCall asks Core first.
LeaveBegin(u) ==
  /\ ~Idle(u)
  /\ \/ at[u] = "start" /\ Op(u).kind \in {"leave", "disconnect", "leaveActive", "evict"}
     \/ Running(u, "restLeave", "left")
  /\ IF Subject(u) = NoSocket
     THEN Return(u) /\ UNCHANGED session
     ELSE Goto(u, "detachMedia") /\ Detach(u, Subject(u))
  /\ UNCHANGED <<environment, mediaPeers, members>>

\* Where a join goes on when the former session is detached: it is given up in
\* Core unless the new one is in the same room.  (Mutant: it always is.)
AfterReplacing_Core(u) == "evictCore"
AfterReplacing(u) == IF held[u].room = Op(u).room THEN "enterRoom" ELSE "evictCore"

\* sfu.leave() of detach(), and where the operation goes on.
DetachMedia(u) ==
  /\ InProgress(u, "detachMedia")
  /\ mediaPeers' = [mediaPeers EXCEPT ![held[u].room] = @ \ {held[u].socket}]
  /\ CASE Op(u).kind = "join" -> Goto(u, AfterReplacing(u))
       [] Op(u).kind \in {"leave", "disconnect", "leaveActive"} -> Goto(u, "coreLeave")
       [] OTHER -> Return(u)
  /\ UNCHANGED <<session, environment, members>>

\* syncCoreLeave(): a failure is logged and swallowed.
CoreLeave(u) ==
  /\ InProgress(u, "coreLeave")
  /\ CoreMay([members EXCEPT ![held[u].room] = @ \ {u}])
  /\ Return(u)
  /\ UNCHANGED <<session, environment, mediaPeers>>

\* Core makes u a member of the call in room r, or takes u out of it.
CoreJoins(u, r) ==
  /\ members' = [members EXCEPT ![r] = @ \cup {u}]
  /\ unheard' = [unheard EXCEPT ![r] = @ \ {u}]
CoreLeaves(u, r) == members' = [members EXCEPT ![r] = @ \ {u}]

\* joinCall(): only Core is concerned, and the operation ends whether Core refuses
\* (it refuses a room it has deleted), fails, or its answer is lost.
RestJoin(u) ==
  LET r == Op(u).room IN
  /\ Running(u, "restJoin", "start")
  /\ \/ closing[r] = "open" /\ CoreJoins(u, r)
     \/ /\ closing[r] # "open" \/ "core" \in Faults
        /\ UNCHANGED <<members, unheard>>
  /\ Return(u)
  /\ UNCHANGED <<session, mediaPeers, connected, deleted, toEvict, requests, routerCloses>>

\* leaveCall(): Core first; its failure, or its refusal of a user who is no
\* member, is thrown and leaves the session.  So does the loss of its answer,
\* when the user is no member any more.
RestLeave(u) ==
  LET r == Op(u).room IN
  /\ Running(u, "restLeave", "start")
  /\ \/ CoreLeaves(u, r) /\ Goto(u, "left") /\ UNCHANGED unheard
     \/ /\ "core" \in Faults \/ u \notin members[r]
        /\ Return(u) /\ UNCHANGED <<members, unheard>>
     \/ /\ "core" \in Faults /\ u \in members[r]
        /\ CoreLeaves(u, r) /\ Return(u)
        /\ unheard' = [unheard EXCEPT ![r] = @ \cup {u}]
  /\ UNCHANGED <<session, mediaPeers, connected, deleted, toEvict, requests, routerCloses>>

Step(u) ==
  Join(u) \/ LeaveBegin(u) \/ DetachMedia(u) \/ CoreLeave(u) \/ RestJoin(u) \/ RestLeave(u)

----------------------------------------------------------------------------
(* Deletion of a room: CallRoomsService.deleteCallRoomById and closeRoom.  *)

\* Core deletes the room, and with it the call and its members.  If its answer
\* is lost, deleteCallRoomById throws before closeRoom.
CoreDelete(r) ==
  /\ closing[r] = "open" /\ r \in DeletableRooms
  /\ \/ closing' = [closing EXCEPT ![r] = "coreDeleted"]
     \/ "core" \in Faults /\ closing' = [closing EXCEPT ![r] = "lost"]
  /\ members' = [members EXCEPT ![r] = {}]
  /\ UNCHANGED <<session, mediaPeers, unheard, connected, deleted, toEvict, requests, routerCloses,
                 queue, at>>

\* closeRoom's loop: queue the operation that detaches the next participant
\* and await it, or go on to the media room.
\* (Mutant: the loop does not run.)
EvictNext_None(r, todo) ==
  /\ closing' = [closing EXCEPT ![r] = "closeMedia"]
  /\ UNCHANGED <<queue, toEvict>>
EvictNext(r, todo) ==
  \/ /\ todo = {}
     /\ closing' = [closing EXCEPT ![r] = "closeMedia"]
     /\ UNCHANGED <<queue, toEvict>>
  \/ \E s \in todo :
       /\ Enqueue([kind |-> "evict", user |-> Owner[s], socket |-> s, room |-> r])
       /\ toEvict' = [toEvict EXCEPT ![r] = todo \ {s}]
       /\ closing' = [closing EXCEPT ![r] = "evicting"]

CloseRoom(r) ==
  /\ closing[r] = "coreDeleted"
  /\ deleted' = deleted \cup {r}
  /\ EvictNext(r, registry.members[r])
  /\ UNCHANGED <<session, mediaPeers, members, unheard, connected, requests, routerCloses, at>>

CloseRoomNext(r) ==
  /\ closing[r] = "evicted"
  /\ EvictNext(r, toEvict[r])
  /\ UNCHANGED <<session, mediaPeers, members, unheard, connected, deleted, requests, routerCloses, at>>

CloseRoomMedia(r) ==
  /\ closing[r] = "closeMedia"
  /\ mediaPeers' = [mediaPeers EXCEPT ![r] = {}]
  /\ closing' = [closing EXCEPT ![r] = "closed"]
  /\ UNCHANGED <<session, members, unheard, connected, deleted, toEvict, requests, routerCloses, queue, at>>

Deletion(r) == CloseRoom(r) \/ CloseRoomNext(r) \/ CloseRoomMedia(r)

----------------------------------------------------------------------------
(* What comes from outside.                                                *)

\* A client emits an event or calls the REST interface.
Request(op) ==
  /\ requests < MaxRequests
  /\ op.kind \in SocketKinds => op.socket \in connected
  /\ Enqueue(op)
  /\ requests' = requests + 1
  /\ UNCHANGED <<session, mediaPeers, members, unheard, connected, deleted, toEvict, routerCloses,
                 at, closing>>

\* A socket disconnects: Socket.IO clears its rooms, and the gateway's
\* handleDisconnect queues the clean-up.
Disconnect(s) ==
  /\ s \in connected
  /\ connected' = connected \ {s}
  /\ sioRooms' = [sioRooms EXCEPT ![s] = {}]
  /\ Enqueue([kind |-> "disconnect", user |-> Owner[s], socket |-> s, room |-> NoRoom])
  /\ UNCHANGED <<registry, clients, held, mediaPeers, members, unheard, deleted, toEvict, requests,
                 routerCloses, at, closing>>

\* A request about the minutes of a room, whose call Core will not show to a
\* user outside it: MeetingsService joins the user to the call, beside the
\* user's queue.
MeetingJoin(u, r) ==
  /\ requests < MaxRequests
  /\ u \notin members[r] /\ closing[r] = "open"
  /\ CoreJoins(u, r)
  /\ requests' = requests + 1
  /\ UNCHANGED <<session, mediaPeers, connected, deleted, toEvict, routerCloses,
                 queue, at, closing>>

\* A worker dies and with it the router of a media room: SfuService drops the
\* room, and the media_room_closed handler of CallsService drops its
\* participants at once, outside the users' queues.
RouterClose(r) ==
  LET gone == registry.members[r] IN
  /\ "routerClose" \in Faults /\ routerCloses[r] < MaxRouterCloses
  /\ mediaPeers[r] # {}
  /\ mediaPeers' = [mediaPeers EXCEPT ![r] = {}]
  /\ registry' = RemoveRoom(registry, r)
  /\ clients' = clients \ gone
  /\ sioRooms' = [s \in Sockets |-> IF s \in gone \cap clients THEN sioRooms[s] \ {r} ELSE sioRooms[s]]
  /\ routerCloses' = [routerCloses EXCEPT ![r] = @ + 1]
  /\ UNCHANGED <<held, members, unheard, connected, deleted, toEvict, requests, queue, at, closing>>

Next ==
  \/ \E u \in Users : Step(u) \/ \E r \in Rooms : MeetingJoin(u, r)
  \/ \E r \in Rooms : CoreDelete(r) \/ Deletion(r) \/ RouterClose(r)
  \/ \E op \in Requests : Request(op)
  \/ \E s \in Sockets : Disconnect(s)

Spec == Init /\ [][Next]_vars

\* The event loop resumes every operation whose await has settled, and Core
\* and the SFU answer every call at some time.
Fairness ==
  /\ \A u \in Users : WF_vars(Step(u))
  /\ \A r \in Rooms : WF_vars(Deletion(r))

FairSpec == Spec /\ Fairness

----------------------------------------------------------------------------
(* Properties                                                              *)

TypeOK ==
  /\ connected \subseteq Sockets
  /\ registry \in Registries
  /\ clients \subseteq Sockets
  /\ deleted \subseteq Rooms
  /\ sioRooms \in [Sockets -> SUBSET Rooms]
  /\ mediaPeers \in [Rooms -> SUBSET Sockets]
  /\ members \in [Rooms -> SUBSET Users]
  /\ unheard \in [Rooms -> SUBSET Users]
  /\ queue \in [Users -> Seq(Operations)]
  /\ \A u \in Users : queue[u] \in Seq(OperationsOf(u))
  /\ at \in [Users -> Stages]
  /\ held \in [Users -> [socket : Sockets \cup {NoSocket}, room : Rooms \cup {NoRoom}]]
  /\ closing \in [Rooms -> ClosingStages]
  /\ toEvict \in [Rooms -> SUBSET Sockets]
  /\ requests \in Nat
  /\ routerCloses \in [Rooms -> Nat]

\* The registry's three maps and the map of clients agree, and a user has one
\* session, although joins of several sockets, disconnects, deletions and
\* lost workers interleave.
SessionsConsistent ==
  /\ Consistent(registry)
  /\ clients = {s \in Sockets : registry.bySocket[s] # NoRoom}

\* An executor with nothing to do is at the start, and a join that has
\* detached the user's former session finds none until it adds its own.
JoinsExclusive ==
  \A u \in Users :
    /\ Idle(u) => at[u] = "start"
    /\ ~Idle(u) /\ Op(u).kind = "join" /\ at[u] \in {"detachMedia", "evictCore", "enterRoom", "entered"}
         => registry.byUser[u] = NoSocket

\* The inductive invariant behind SessionsConsistent.
SessionsInv == TypeOK /\ SessionsConsistent /\ JoinsExclusive

\* A participant always has its media peer: what it asks of the SFU is never
\* refused with "Peer has not joined this media room".
ParticipantHasMedia ==
  \A s \in Sockets, r \in Rooms : registry.bySocket[s] = r => s \in mediaPeers[r]

\* Once a user's operations have settled, a socket of theirs has a media peer
\* only where it is a participant: a join that fails or is overtaken by a
\* disconnect, a replacement or a deletion leaves nothing in the SFU.
NoOrphanMedia ==
  \A s \in Sockets, r \in Rooms :
    Idle(Owner[s]) /\ s \in mediaPeers[r] => registry.bySocket[s] = r

\* The same, of a socket that disconnects: whatever was in progress, its media
\* is rolled back.
DisconnectedHoldsNoMedia ==
  \A s \in Sockets \ connected, r \in Rooms : Idle(Owner[s]) => s \notin mediaPeers[r]

\* Then, too, a connected socket receives the broadcasts of a call room
\* exactly when it is a participant there.
BroadcastsReachParticipants ==
  \A s \in connected, r \in Rooms :
    Idle(Owner[s]) => (r \in sioRooms[s] <=> registry.bySocket[s] = r)

\* A user with a session and nothing in progress is a member of that call in
\* Core: no late leave for a former session undoes the membership of the present
\* one.  Two exceptions: Core has deleted the room (and the deletion is under way, or
\* its answer was lost and the room stays open here), and the user left by a REST
\* request of which the answer was lost, so that leaveCall has not detached them.
SessionHasMembership ==
  \A u \in Users :
    Idle(u) /\ registry.byUser[u] # NoSocket =>
      LET r == registry.bySocket[registry.byUser[u]]
      IN  u \in members[r] \/ closing[r] # "open" \/ u \in unheard[r]

\* Nobody enters a room after its deletion has begun, also not with a join
\* that Core had authorized before.
DeletedRoomNotRevived ==
  [][\A r \in deleted : registry'.members[r] \subseteq registry.members[r]]_vars

\* The disconnect or leave of a socket that was replaced leaves the session
\* of the replacement alone.
ReplacementSurvives ==
  [][\A u \in Users :
       LET s == registry.byUser[u] IN
       /\ s # NoSocket /\ ~Idle(u) /\ routerCloses' = routerCloses
       /\ Op(u).kind \in {"leave", "disconnect"} /\ Op(u).socket # s
       => registry'.byUser[u] = s]_vars

\* A socket that has disconnected loses its session and its media peers.
DisconnectReleases ==
  \A s \in Sockets :
    s \notin connected ~> /\ registry.bySocket[s] = NoRoom
                         /\ \A r \in Rooms : s \notin mediaPeers[r]

\* A join of room r by socket s is under way, and authorized.
Joining(s, r) ==
  LET u == Owner[s] IN
  /\ ~Idle(u) /\ at[u] \notin {"start", "authorizing"}
  /\ Op(u).kind = "join" /\ Op(u).socket = s /\ Op(u).room = r

\* When a socket disconnects that has a session, or is past the authorization
\* of a join, Core is told that the user left, unless the user has another
\* session by then.
DisconnectLeavesCore ==
  \A s \in Sockets, r \in Rooms :
    s \notin connected /\ (registry.bySocket[s] = r \/ Joining(s, r))
      ~> Owner[s] \notin members[r] \/ registry.byUser[Owner[s]] # NoSocket

\* The deletion of a room ends: every participant is detached and the media
\* room is gone.
DeletionCompletes ==
  \A r \in Rooms :
    closing[r] = "coreDeleted"
      ~> closing[r] = "closed" /\ registry.members[r] = {} /\ mediaPeers[r] = {}

\* What the operations of all users, the deletions and the lost workers do to a media
\* room is what SfuService promises of one: nothing beside its joins, leaves and closings
\* changes its peers, and a loss comes with media_room_closed.
Media(r) == INSTANCE MediaRoom WITH
  Peers <- Sockets, peers <- mediaPeers[r], notified <- routerCloses[r]

UsesMediaRooms ==
  /\ \A r \in Rooms : Media(r)!MediaInit
  /\ [][\A r \in Rooms : [Media(r)!MediaNext]_(Media(r)!mediaVars)]_vars

=============================================================================
