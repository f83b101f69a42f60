---------------------------- MODULE CallsProofs ----------------------------
(***************************************************************************)
(* Type correctness and consistency of the call sessions; that a deleted   *)
(* room is not entered again; and that the SFU, Socket.IO and Core follow  *)
(* the registry: for every set of users, sockets, rooms and requests, and  *)
(* whatever faults occur (NoOrphans alone needs workers that live).  At    *)
(* last, that the media rooms are used as MediaRoom allows.                *)
(***************************************************************************)
EXTENDS Calls, TLAPS

\* A map of sets stays one when an element is put into one of them.
LEMMA PutTyped ==
  ASSUME NEW S, NEW T, NEW f \in [S -> SUBSET T], NEW s \in S, NEW t \in T
  PROVE  [f EXCEPT ![s] = @ \cup {t}] \in [S -> SUBSET T]
OBVIOUS

\* A map of sets stays one when an element is dropped, also at a key that the
\* map does not have.
LEMMA DropTyped ==
  ASSUME NEW D, NEW S, NEW f \in [D -> SUBSET S], NEW x, NEW y
  PROVE  [f EXCEPT ![x] = @ \ {y}] \in [D -> SUBSET S]
<1>1. CASE x \in D
  BY <1>1
<1>2. CASE x \notin D
  <2>1. [f EXCEPT ![x] = @ \ {y}] = f
    BY <1>2
  <2> QED BY <2>1
<1> QED BY <1>1, <1>2

\* Every operation taken from a user's queue is well formed and the user's.
LEMMA OpInQueue ==
  ASSUME TypeOK, NEW u \in Users, ~Idle(u)
  PROVE  Op(u) \in OperationsOf(u) /\ Tail(queue[u]) \in Seq(OperationsOf(u))
BY DEF TypeOK, Idle, Op

\* The registry stays a registry under its operations.
LEMMA RegistryTyped ==
  ASSUME NEW reg \in Registries
  PROVE  /\ \A s \in Sockets, r \in Rooms : Add(reg, s, r) \in Registries
         /\ \A s \in Sockets : Remove(reg, s) \in Registries
         /\ \A r \in Rooms : RemoveRoom(reg, r) \in Registries
BY OwnerAssumption DEF Registries, Add, Remove, RemoveEntry, RemoveRoom

\* remove() keeps the maps in agreement, whatever the socket.
LEMMA RemoveConsistent ==
  ASSUME NEW reg \in Registries, Consistent(reg), NEW s \in Sockets
  PROVE  /\ Consistent(Remove(reg, s))
         /\ \A u \in Users : Remove(reg, s).byUser[u] \in {reg.byUser[u], NoSocket}
         /\ Remove(reg, s).byUser[Owner[s]] # s
         /\ \A t \in Sockets :
              Remove(reg, s).bySocket[t] # NoRoom <=> reg.bySocket[t] # NoRoom /\ t # s
         /\ \A r \in Rooms : Remove(reg, s).members[r] \subseteq reg.members[r]
BY OwnerAssumption, NoSocketAssumption, NoRoomAssumption
DEF Registries, Consistent, Remove, RemoveEntry

\* So does the removal of a whole room.
LEMMA RemoveRoomConsistent ==
  ASSUME NEW reg \in Registries, Consistent(reg), NEW r \in Rooms
  PROVE  /\ Consistent(RemoveRoom(reg, r))
         /\ \A u \in Users : RemoveRoom(reg, r).byUser[u] \in {reg.byUser[u], NoSocket}
         /\ \A t \in Sockets :
              RemoveRoom(reg, r).bySocket[t] # NoRoom
                <=> reg.bySocket[t] # NoRoom /\ t \notin reg.members[r]
         /\ \A q \in Rooms : RemoveRoom(reg, r).members[q] \subseteq reg.members[q]
<1> DEFINE new == RemoveRoom(reg, r)
<1> USE OwnerAssumption, NoSocketAssumption, NoRoomAssumption DEF Registries
<1>1. /\ reg.members \in [Rooms -> SUBSET Sockets]
      /\ new.members = [reg.members EXCEPT ![r] = {}]
      /\ \A t \in Sockets :
           new.bySocket[t] = IF t \in reg.members[r] THEN NoRoom ELSE reg.bySocket[t]
      /\ \A u \in Users :
           new.byUser[u] = IF reg.byUser[u] \in reg.members[r] THEN NoSocket ELSE reg.byUser[u]
  BY DEF RemoveRoom
<1> HIDE DEF new
<1>2. \A s \in Sockets, q \in Rooms : s \in new.members[q] <=> new.bySocket[s] = q
  BY <1>1 DEF Consistent
<1>3. \A s \in Sockets : new.bySocket[s] # NoRoom <=> new.byUser[Owner[s]] = s
  BY <1>1 DEF Consistent
<1>4. \A u \in Users : new.byUser[u] # NoSocket => Owner[new.byUser[u]] = u
  BY <1>1 DEF Consistent
<1>5. Consistent(new)
  BY <1>2, <1>3, <1>4 DEF Consistent
<1> QED BY <1>1, <1>5 DEF new

\* add() keeps them in agreement if the user has no session.
LEMMA AddConsistent ==
  ASSUME NEW reg \in Registries, Consistent(reg), NEW s \in Sockets, NEW r \in Rooms,
         reg.byUser[Owner[s]] = NoSocket
  PROVE  /\ Consistent(Add(reg, s, r))
         /\ \A u \in Users : u # Owner[s] => Add(reg, s, r).byUser[u] = reg.byUser[u]
         /\ \A t \in Sockets :
              Add(reg, s, r).bySocket[t] # NoRoom <=> reg.bySocket[t] # NoRoom \/ t = s
         /\ \A q \in Rooms \ {r} : Add(reg, s, r).members[q] = reg.members[q]
BY OwnerAssumption, NoSocketAssumption, NoRoomAssumption
DEF Registries, Consistent, Add

----------------------------------------------------------------------------
(* Type correctness                                                        *)

\* The parts of the type invariant that the executor's steps touch.
FlowOK ==
  /\ queue \in [Users -> Seq(Operations)]
  /\ \A u \in Users : queue[u] \in Seq(OperationsOf(u))
  /\ at \in [Users -> Stages]
  /\ closing \in [Rooms -> ClosingStages]

LEMMA GotoTyped ==
  ASSUME TypeOK, NEW u \in Users, NEW stage \in Stages, Goto(u, stage)
  PROVE  FlowOK'
BY DEF TypeOK, Goto, FlowOK

LEMMA ReturnTyped ==
  ASSUME TypeOK, NEW u \in Users, ~Idle(u), Return(u)
  PROVE  FlowOK'
<1>1. queue' \in [Users -> Seq(Operations)]
  BY DEF TypeOK, Return, Idle
<1>2. \A v \in Users : queue'[v] \in Seq(OperationsOf(v))
  BY OpInQueue DEF TypeOK, Return
<1>3. at' \in [Users -> Stages] /\ closing' \in [Rooms -> ClosingStages]
  BY DEF TypeOK, Return, Stages, ClosingStages
<1> QED BY <1>1, <1>2, <1>3 DEF FlowOK

LEMMA EnqueueTyped ==
  ASSUME TypeOK, NEW op \in Operations, op \in OperationsOf(op.user), Enqueue(op)
  PROVE  /\ queue' \in [Users -> Seq(Operations)]
         /\ \A u \in Users : queue'[u] \in Seq(OperationsOf(u))
<1>1. op.user \in Users
  BY DEF Operations
<1> QED BY <1>1 DEF TypeOK, Enqueue

LEMMA DetachTyped ==
  ASSUME TypeOK, NEW u \in Users, NEW s \in Sockets, Detach(u, s)
  PROVE  /\ registry' \in Registries
         /\ clients' \subseteq Sockets
         /\ sioRooms' \in [Sockets -> SUBSET Rooms]
         /\ held' \in [Users -> [socket : Sockets \cup {NoSocket}, room : Rooms \cup {NoRoom}]]
<1>1. registry' \in Registries
  BY RegistryTyped DEF TypeOK, Detach
<1>2. registry.bySocket[s] \in Rooms \cup {NoRoom}
  BY DEF TypeOK, Registries
<1> QED BY <1>1, <1>2 DEF TypeOK, Detach, LeaveSioRoom

\* What the operations of a kind name.
LEMMA JoinNames ==
  ASSUME TypeOK, NEW u \in Users, ~Idle(u)
  PROVE  /\ Op(u).kind = "join" => Op(u).socket \in Sockets /\ Op(u).room \in Rooms
         /\ Op(u).kind \in RestKinds => Op(u).room \in Rooms
         /\ Op(u).socket \in Sockets => Owner[Op(u).socket] = u
BY OpInQueue, NoSocketAssumption DEF OperationsOf, Operations, RestKinds

LEMMA SubjectTyped ==
  ASSUME TypeOK, NEW u \in Users, ~Idle(u), Subject(u) # NoSocket
  PROVE  Subject(u) \in Sockets
<1>1. Op(u).socket \in Sockets \cup {NoSocket} /\ registry.byUser[u] \in Sockets \cup {NoSocket}
  BY OpInQueue DEF TypeOK, Registries, OperationsOf, Operations
<1> QED BY <1>1 DEF Subject, Disconnected

LEMMA JoinTyped ==
  ASSUME TypeOK, NEW u \in Users, Join(u)
  PROVE  TypeOK'
<1> USE DEF InProgress, Running, session, environment
<1>0. ~Idle(u) /\ Op(u).kind = "join"
  BY DEF Join, JoinBegin, JoinAuthorize, JoinAttach, JoinMedia, JoinReplace, JoinReplaceCore,
         JoinEnterRoom, JoinAdmit, JoinRollback, JoinRollbackRoom, JoinFail
<1>a. /\ Op(u).socket \in Sockets /\ Op(u).room \in Rooms
      /\ \A stage \in Stages : Goto(u, stage) => FlowOK'
      /\ Return(u) => FlowOK'
  BY <1>0, JoinNames, GotoTyped, ReturnTyped
<1>1. CASE JoinBegin(u)
  BY <1>1, <1>a DEF JoinBegin, TypeOK, FlowOK, Stages
<1>2. CASE JoinAuthorize(u)
  BY <1>2, <1>a DEF JoinAuthorize, TypeOK, FlowOK, Stages
<1>3. CASE JoinAttach(u)
  <2>1. FlowOK'
    BY <1>3, <1>a DEF JoinAttach, Stages
  <2> QED BY <1>3, <2>1 DEF JoinAttach, TypeOK, FlowOK
<1>4. CASE JoinMedia(u)
  <2>1. FlowOK'
    BY <1>4, <1>a DEF JoinMedia, Stages
  <2>a. \/ UNCHANGED mediaPeers
        \/ mediaPeers' = [mediaPeers EXCEPT ![Op(u).room] = @ \cup {Op(u).socket}]
    BY <1>4 DEF JoinMedia
  <2>2. mediaPeers' \in [Rooms -> SUBSET Sockets]
    <3> DEFINE r == Op(u).room
               s == Op(u).socket
    <3>1. /\ mediaPeers \in [Rooms -> SUBSET Sockets] /\ r \in Rooms /\ s \in Sockets
          /\ UNCHANGED mediaPeers \/ mediaPeers' = [mediaPeers EXCEPT ![r] = @ \cup {s}]
      BY <2>a, <1>a DEF TypeOK
    <3> HIDE DEF r, s
    <3> QED BY <3>1, PutTyped
  <2> QED BY <1>4, <2>1, <2>2 DEF JoinMedia, TypeOK, FlowOK
<1>5. CASE JoinReplace(u)
  <2>1. FlowOK'
    BY <1>5, <1>a DEF JoinReplace, Stages
  <2>2. Previous(u) # NoSocket => Previous(u) \in Sockets
    BY DEF Previous, TypeOK, Registries
  <2>3. CASE StillConnected(u) /\ Previous(u) # NoSocket
    <3>1. Detach(u, Previous(u))
      BY <1>5, <2>3 DEF JoinReplace
    <3> QED BY <1>5, <2>1, <2>2, <2>3, <3>1, DetachTyped DEF JoinReplace, TypeOK, FlowOK
  <2>4. CASE ~(StillConnected(u) /\ Previous(u) # NoSocket)
    <3>1. UNCHANGED <<registry, clients, held>>
      BY <1>5, <2>4 DEF JoinReplace
    <3>2. \/ UNCHANGED sioRooms
          \/ sioRooms' = [sioRooms EXCEPT ![Op(u).socket] = @ \cup {Op(u).room}]
      BY <1>5, <2>4 DEF JoinReplace
    <3>3. sioRooms \in [Sockets -> SUBSET Rooms]
      BY DEF TypeOK
    <3>4. [sioRooms EXCEPT ![Op(u).socket] = @ \cup {Op(u).room}] \in [Sockets -> SUBSET Rooms]
      BY <1>a, <3>3, PutTyped
    <3>5. sioRooms' \in [Sockets -> SUBSET Rooms]
      BY <3>2, <3>3, <3>4
    <3> QED BY <1>5, <2>1, <3>1, <3>5 DEF JoinReplace, TypeOK, FlowOK
  <2> QED BY <2>3, <2>4
<1>6. CASE JoinReplaceCore(u)
  <2>1. FlowOK'
    BY <1>6, <1>a DEF JoinReplaceCore, Stages
  <2>2. members' \in [Rooms -> SUBSET Users]
    <3>1. [members EXCEPT ![held[u].room] = @ \ {u}] \in [Rooms -> SUBSET Users]
      BY DropTyped DEF TypeOK
    <3> QED BY <1>6, <3>1 DEF JoinReplaceCore, CoreMay, TypeOK
  <2> QED BY <1>6, <2>1, <2>2 DEF JoinReplaceCore, TypeOK, FlowOK
<1>7. CASE JoinEnterRoom(u)
  <2>1. FlowOK'
    BY <1>7, <1>a DEF JoinEnterRoom, Stages
  <2> QED BY <1>7, <1>a, <2>1 DEF JoinEnterRoom, TypeOK, FlowOK
<1>8. CASE JoinAdmit(u)
  <2>1. FlowOK'
    BY <1>8, <1>a DEF JoinAdmit, Stages
  <2>2. registry' \in Registries
    BY <1>8, <1>a, RegistryTyped DEF JoinAdmit, TypeOK
  <2> QED BY <1>8, <1>a, <2>1, <2>2 DEF JoinAdmit, TypeOK, FlowOK
<1>9. CASE JoinRollback(u)
  <2>1. FlowOK'
    BY <1>9, <1>a DEF JoinRollback, Stages
  <2> QED BY <1>9, <1>a, <2>1 DEF JoinRollback, WithoutMedia, TypeOK, FlowOK
<1>10. CASE JoinRollbackRoom(u)
  <2>1. FlowOK'
    BY <1>10, <1>a DEF JoinRollbackRoom, Stages
  <2> QED BY <1>10, <1>a, <2>1 DEF JoinRollbackRoom, LeaveSioRoom, TypeOK, FlowOK
<1>11. CASE JoinFail(u)
  <2>1. FlowOK'
    BY <1>11, <1>a DEF JoinFail, Stages
  <2>2. held' \in [Users -> [socket : Sockets \cup {NoSocket}, room : Rooms \cup {NoRoom}]]
    <3>1. [socket |-> Op(u).socket, room |-> Op(u).room]
             \in [socket : Sockets \cup {NoSocket}, room : Rooms \cup {NoRoom}]
      BY <1>a
    <3> QED BY <1>11, <3>1 DEF JoinFail, TypeOK
  <2> QED BY <1>11, <2>1, <2>2 DEF JoinFail, TypeOK, FlowOK
<1> QED BY <1>1, <1>2, <1>3, <1>4, <1>5, <1>6, <1>7, <1>8, <1>9, <1>10, <1>11 DEF Join

LEMMA LeaveTyped ==
  ASSUME TypeOK, NEW u \in Users, LeaveBegin(u) \/ DetachMedia(u) \/ CoreLeave(u)
  PROVE  TypeOK'
<1> USE DEF InProgress, Running, session, environment
<1>0. ~Idle(u)
  BY DEF LeaveBegin, DetachMedia, CoreLeave
<1>a. /\ \A stage \in Stages : Goto(u, stage) => FlowOK'
      /\ Return(u) => FlowOK'
  BY <1>0, GotoTyped, ReturnTyped
<1>1. CASE LeaveBegin(u)
  <2>1. FlowOK'
    BY <1>1, <1>a DEF LeaveBegin, Stages
  <2>2. CASE Subject(u) = NoSocket
    BY <1>1, <2>1, <2>2 DEF LeaveBegin, TypeOK, FlowOK
  <2>3. CASE Subject(u) # NoSocket
    <3>1. Detach(u, Subject(u)) /\ Subject(u) \in Sockets
      BY <1>0, <1>1, <2>3, SubjectTyped DEF LeaveBegin
    <3> QED BY <1>1, <2>1, <3>1, DetachTyped DEF LeaveBegin, TypeOK, FlowOK
  <2> QED BY <2>2, <2>3
<1>2. CASE DetachMedia(u)
  <2>1. FlowOK'
    BY <1>2, <1>a DEF DetachMedia, AfterReplacing, Stages
  <2>2. mediaPeers' \in [Rooms -> SUBSET Sockets]
    BY <1>2, DropTyped DEF DetachMedia, TypeOK
  <2> QED BY <1>2, <2>1, <2>2 DEF DetachMedia, TypeOK, FlowOK
<1>3. CASE CoreLeave(u)
  <2>1. FlowOK'
    BY <1>3, <1>a DEF CoreLeave
  <2>2. members' \in [Rooms -> SUBSET Users]
    <3>1. [members EXCEPT ![held[u].room] = @ \ {u}] \in [Rooms -> SUBSET Users]
      BY DropTyped DEF TypeOK
    <3> QED BY <1>3, <3>1 DEF CoreLeave, CoreMay, TypeOK
  <2> QED BY <1>3, <2>1, <2>2 DEF CoreLeave, TypeOK, FlowOK
<1> QED BY <1>1, <1>2, <1>3

LEMMA RestTyped ==
  ASSUME TypeOK, NEW u \in Users, RestJoin(u) \/ RestLeave(u)
  PROVE  TypeOK'
<1> USE DEF InProgress, Running, session, environment
<1>0. ~Idle(u) /\ Op(u).kind \in RestKinds
  BY DEF RestJoin, RestLeave, RestKinds
<1>a. /\ Op(u).room \in Rooms
      /\ \A stage \in Stages : Goto(u, stage) => FlowOK'
      /\ Return(u) => FlowOK'
  BY <1>0, JoinNames, GotoTyped, ReturnTyped
<1>1. FlowOK'
  BY <1>a DEF RestJoin, RestLeave, Stages
<1>2. members' \in [Rooms -> SUBSET Users] /\ unheard' \in [Rooms -> SUBSET Users]
  <2>1. members \in [Rooms -> SUBSET Users] /\ unheard \in [Rooms -> SUBSET Users]
    BY DEF TypeOK
  <2>2. ASSUME NEW f \in [Rooms -> SUBSET Users], NEW c \in Rooms
        PROVE  /\ [f EXCEPT ![c] = @ \cup {u}] \in [Rooms -> SUBSET Users]
               /\ [f EXCEPT ![c] = @ \ {u}] \in [Rooms -> SUBSET Users]
    OBVIOUS
  <2>3. CASE RestJoin(u)
    BY <1>a, <2>1, <2>2, <2>3 DEF RestJoin, CoreJoins
  <2>4. CASE RestLeave(u)
    BY <1>a, <2>1, <2>2, <2>4 DEF RestLeave, CoreLeaves
  <2> QED BY <2>3, <2>4
<1>3. /\ connected \subseteq Sockets /\ UNCHANGED <<session, mediaPeers, connected, deleted>>
      /\ UNCHANGED <<toEvict, requests, routerCloses>>
  BY DEF RestJoin, RestLeave, TypeOK
<1> QED BY <1>1, <1>2, <1>3 DEF TypeOK, FlowOK

LEMMA EvictNextTyped ==
  ASSUME TypeOK, NEW r \in Rooms, NEW todo \in SUBSET Sockets, EvictNext(r, todo), UNCHANGED at
  PROVE  FlowOK' /\ toEvict' \in [Rooms -> SUBSET Sockets]
<1>1. CASE UNCHANGED <<queue, toEvict>> /\ closing' = [closing EXCEPT ![r] = "closeMedia"]
  BY <1>1 DEF TypeOK, FlowOK, ClosingStages
<1>2. ASSUME NEW s \in todo,
             Enqueue([kind |-> "evict", user |-> Owner[s], socket |-> s, room |-> r]),
             toEvict' = [toEvict EXCEPT ![r] = todo \ {s}],
             closing' = [closing EXCEPT ![r] = "evicting"]
      PROVE  FlowOK' /\ toEvict' \in [Rooms -> SUBSET Sockets]
  <2> DEFINE op == [kind |-> "evict", user |-> Owner[s], socket |-> s, room |-> r]
  <2>1. op \in Operations /\ op \in OperationsOf(op.user)
    BY OwnerAssumption, NoSocketAssumption, NoRoomAssumption
    DEF Operations, OperationsOf, Kinds, RestKinds
  <2>2. /\ queue' \in [Users -> Seq(Operations)]
        /\ \A u \in Users : queue'[u] \in Seq(OperationsOf(u))
    BY <1>2, <2>1, EnqueueTyped
  <2> QED BY <1>2, <2>2 DEF TypeOK, FlowOK, ClosingStages
<1> QED BY <1>1, <1>2 DEF EvictNext

LEMMA DeletionTyped ==
  ASSUME TypeOK, NEW r \in Rooms, CoreDelete(r) \/ Deletion(r)
  PROVE  TypeOK'
<1> USE DEF session
<1>1. CASE CoreDelete(r)
  BY <1>1 DEF CoreDelete, TypeOK, ClosingStages
<1>2. CASE CloseRoom(r)
  <2>1. registry.members[r] \in SUBSET Sockets
    BY DEF TypeOK, Registries
  <2>2. FlowOK' /\ toEvict' \in [Rooms -> SUBSET Sockets]
    BY <1>2, <2>1, EvictNextTyped DEF CloseRoom
  <2> QED BY <1>2, <2>2 DEF CloseRoom, TypeOK, FlowOK
<1>3. CASE CloseRoomNext(r)
  <2>1. FlowOK' /\ toEvict' \in [Rooms -> SUBSET Sockets]
    BY <1>3, EvictNextTyped DEF CloseRoomNext, TypeOK
  <2> QED BY <1>3, <2>1 DEF CloseRoomNext, TypeOK, FlowOK
<1>4. CASE CloseRoomMedia(r)
  BY <1>4 DEF CloseRoomMedia, TypeOK, ClosingStages
<1> QED BY <1>1, <1>2, <1>3, <1>4 DEF Deletion

LEMMA OutsideTyped ==
  ASSUME TypeOK,
         \/ \E op \in Requests : Request(op)
         \/ \E s \in Sockets : Disconnect(s)
         \/ \E r \in Rooms : RouterClose(r)
         \/ \E u \in Users, r \in Rooms : MeetingJoin(u, r)
  PROVE  TypeOK'
<1> USE DEF session
<1>1. ASSUME NEW op \in Requests, Request(op) PROVE TypeOK'
  <2>1. op \in Operations /\ op \in OperationsOf(op.user)
    BY RequestsAssumption DEF OperationsOf
  <2>2. /\ queue' \in [Users -> Seq(Operations)]
        /\ \A u \in Users : queue'[u] \in Seq(OperationsOf(u))
    BY <1>1, <2>1, EnqueueTyped DEF Request
  <2> QED BY <1>1, <2>2 DEF Request, TypeOK
<1>2. ASSUME NEW s \in Sockets, Disconnect(s) PROVE TypeOK'
  <2> DEFINE op == [kind |-> "disconnect", user |-> Owner[s], socket |-> s, room |-> NoRoom]
  <2>1. op \in Operations /\ op \in OperationsOf(op.user)
    BY OwnerAssumption, NoSocketAssumption DEF Operations, OperationsOf, Kinds, RestKinds
  <2>2. /\ queue' \in [Users -> Seq(Operations)]
        /\ \A u \in Users : queue'[u] \in Seq(OperationsOf(u))
    BY <1>2, <2>1, EnqueueTyped DEF Disconnect
  <2> QED BY <1>2, <2>2 DEF Disconnect, TypeOK
<1>3. ASSUME NEW r \in Rooms, RouterClose(r) PROVE TypeOK'
  <2>1. registry' \in Registries
    BY <1>3, RegistryTyped DEF RouterClose, TypeOK
  <2> QED BY <1>3, <2>1 DEF RouterClose, TypeOK
<1>4. ASSUME NEW u \in Users, NEW r \in Rooms, MeetingJoin(u, r) PROVE TypeOK'
  <2>1. members' \in [Rooms -> SUBSET Users] /\ unheard' \in [Rooms -> SUBSET Users]
    BY <1>4 DEF MeetingJoin, CoreJoins, TypeOK
  <2> QED BY <1>4, <2>1 DEF MeetingJoin, TypeOK
<1> QED BY <1>1, <1>2, <1>3, <1>4

LEMMA NextTyped == TypeOK /\ [Next]_vars => TypeOK'
<1> SUFFICES ASSUME TypeOK, [Next]_vars PROVE TypeOK'
  OBVIOUS
<1>1. ASSUME NEW u \in Users, Step(u) PROVE TypeOK'
  BY <1>1, JoinTyped, LeaveTyped, RestTyped DEF Step
<1>2. ASSUME NEW r \in Rooms, CoreDelete(r) \/ Deletion(r) \/ RouterClose(r) PROVE TypeOK'
  BY <1>2, DeletionTyped, OutsideTyped
<1>3. CASE \E op \in Requests : Request(op)
  BY <1>3, OutsideTyped
<1>4. CASE \E s \in Sockets : Disconnect(s)
  BY <1>4, OutsideTyped
<1>5. ASSUME NEW u \in Users, NEW r \in Rooms, MeetingJoin(u, r) PROVE TypeOK'
  BY <1>5, OutsideTyped
<1>6. CASE UNCHANGED vars
  BY <1>6 DEF vars, TypeOK
<1> QED BY <1>1, <1>2, <1>3, <1>4, <1>5, <1>6 DEF Next

\* Every variable of the call sessions keeps its type: in particular a user's
\* queue only ever holds well-formed operations of that user.
THEOREM TypeCorrect == Spec => []TypeOK
<1>1. Init => TypeOK
  BY InitialMembersAssumption
  DEF Init, TypeOK, EmptyRegistry, Registries, NoHeld, Stages, ClosingStages
<1> QED BY <1>1, NextTyped, PTL DEF Spec

----------------------------------------------------------------------------
(* Consistency of the sessions                                             *)

\* Where a join relies on having detached the user's former session.
Detached == {"detachMedia", "evictCore", "enterRoom", "entered"}

\* A step of user u's operation keeps JoinsExclusive if it gives no other user
\* a session, and u's join goes on detached only without one.
LEMMA FlowExclusive ==
  ASSUME SessionsInv, NEW u \in Users, ~Idle(u),
         \A v \in Users \ {u} : registry'.byUser[v] \in {registry.byUser[v], NoSocket},
         NEW stage \in Stages,
         \/ Return(u)
         \/ /\ Goto(u, stage)
            /\ stage \in Detached /\ Op(u).kind = "join" => registry'.byUser[u] = NoSocket
  PROVE  JoinsExclusive'
<1> SUFFICES ASSUME NEW v \in Users
             PROVE  /\ Idle(v)' => at'[v] = "start"
                    /\ ~Idle(v)' /\ Op(v)'.kind = "join" /\ at'[v] \in Detached
                         => registry'.byUser[v] = NoSocket
  BY DEF JoinsExclusive, Detached
<1>1. CASE v # u
  <2>1. queue'[v] = queue[v] /\ at'[v] = at[v]
    BY <1>1 DEF SessionsInv, TypeOK, Goto, Return
  <2> QED BY <1>1, <2>1 DEF SessionsInv, JoinsExclusive, Idle, Op, Detached
<1>2. CASE v = u /\ Return(u)
  BY <1>2 DEF SessionsInv, TypeOK, Return, Detached
<1>3. CASE v = u /\ Goto(u, stage)
  <2>1. queue'[v] = queue[v] /\ at'[v] = stage
    BY <1>3 DEF SessionsInv, TypeOK, Goto
  <2> QED BY <1>2, <1>3, <2>1 DEF Idle, Op
<1> QED BY <1>1, <1>2, <1>3

\* So does a new operation, which changes no head of a queue in use.
LEMMA EnqueueExclusive ==
  ASSUME SessionsInv, NEW op \in Operations, op \in OperationsOf(op.user),
         Enqueue(op), UNCHANGED <<at, registry>>
  PROVE  JoinsExclusive'
<1> SUFFICES ASSUME NEW v \in Users
             PROVE  /\ Idle(v)' => at'[v] = "start"
                    /\ ~Idle(v)' /\ Op(v)'.kind = "join" /\ at'[v] \in Detached
                         => registry'.byUser[v] = NoSocket
  BY DEF JoinsExclusive, Detached
<1>0. op.user \in Users
  BY DEF Operations
<1>1. CASE v # op.user
  <2>1. queue'[v] = queue[v]
    BY <1>0, <1>1 DEF SessionsInv, TypeOK, Enqueue
  <2> QED BY <2>1 DEF SessionsInv, JoinsExclusive, Idle, Op, Detached
<1>2. CASE v = op.user
  <2>1. queue'[v] = Append(queue[v], op) /\ queue[v] \in Seq(Operations)
    BY <1>0, <1>2 DEF SessionsInv, TypeOK, Enqueue
  <2>2. CASE Idle(v)
    BY <2>1, <2>2 DEF SessionsInv, JoinsExclusive, Idle, Detached
  <2>3. CASE ~Idle(v)
    <3>1. Head(queue'[v]) = Head(queue[v]) /\ queue'[v] # <<>>
      BY <2>1, <2>3 DEF Idle
    <3> QED BY <2>3, <3>1 DEF SessionsInv, JoinsExclusive, Idle, Op, Detached
  <2> QED BY <2>2, <2>3
<1> QED BY <1>1, <1>2

\* detach() of one of the user's sockets keeps the sessions consistent.
LEMMA DetachConsistent ==
  ASSUME SessionsInv, NEW u \in Users, NEW s \in Sockets, Detach(u, s)
  PROVE  /\ SessionsConsistent'
         /\ \A v \in Users : registry'.byUser[v] \in {registry.byUser[v], NoSocket}
         /\ registry'.byUser[Owner[s]] # s
<1>1. registry \in Registries /\ Consistent(registry) /\ registry' = Remove(registry, s)
  BY DEF SessionsInv, TypeOK, SessionsConsistent, Detach
<1>2. clients' = clients \ {s}
  BY DEF Detach
<1>3. /\ Consistent(registry')
      /\ \A v \in Users : registry'.byUser[v] \in {registry.byUser[v], NoSocket}
      /\ registry'.byUser[Owner[s]] # s
      /\ \A t \in Sockets : registry'.bySocket[t] # NoRoom <=> registry.bySocket[t] # NoRoom /\ t # s
  BY <1>1, RemoveConsistent
<1> QED BY <1>2, <1>3 DEF SessionsInv, SessionsConsistent

LEMMA JoinConsistent ==
  ASSUME SessionsInv, NEW u \in Users, Join(u)
  PROVE  SessionsConsistent' /\ JoinsExclusive'
<1> USE DEF InProgress, Running, session, environment, Detached
<1>0. ~Idle(u) /\ Op(u).kind = "join"
  BY DEF Join, JoinBegin, JoinAuthorize, JoinAttach, JoinMedia, JoinReplace, JoinReplaceCore,
         JoinEnterRoom, JoinAdmit, JoinRollback, JoinRollbackRoom, JoinFail
<1>a. /\ Op(u).socket \in Sockets /\ Op(u).room \in Rooms /\ Owner[Op(u).socket] = u
      /\ registry \in Registries /\ Consistent(registry)
  BY <1>0, JoinNames DEF SessionsInv, TypeOK, SessionsConsistent
<1>b. registry.byUser[u] = NoSocket \/ at[u] \notin Detached
  BY <1>0 DEF SessionsInv, JoinsExclusive
<1>c. ASSUME UNCHANGED <<registry, clients>> PROVE SessionsConsistent'
  BY <1>c DEF SessionsInv, SessionsConsistent
<1>d. ASSUME UNCHANGED registry,
             \/ Return(u)
             \/ \E stage \in Stages \ Detached : Goto(u, stage)
             \/ registry.byUser[u] = NoSocket /\ \E stage \in Stages : Goto(u, stage)
      PROVE  JoinsExclusive'
  <2>1. PICK stage \in Stages :
          \/ Return(u)
          \/ Goto(u, stage) /\ (stage \in Detached => registry'.byUser[u] = NoSocket)
    BY <1>d DEF Stages
  <2> QED BY <1>0, <1>d, <2>1, FlowExclusive
<1>1. CASE JoinBegin(u)
  BY <1>1, <1>c, <1>d DEF JoinBegin, Stages
<1>2. CASE JoinAuthorize(u)
  BY <1>2, <1>c, <1>d DEF JoinAuthorize, Stages
<1>3. CASE JoinAttach(u)
  BY <1>3, <1>c, <1>d DEF JoinAttach, Stages
<1>4. CASE JoinMedia(u)
  BY <1>4, <1>c, <1>d DEF JoinMedia, Stages
<1>5. CASE JoinReplace(u)
  <2>1. CASE StillConnected(u) /\ Previous(u) # NoSocket
    <3>1. Detach(u, registry.byUser[u]) /\ Goto(u, "detachMedia") /\ registry.byUser[u] # NoSocket
      BY <1>5, <2>1 DEF JoinReplace, Previous
    <3>2. registry.byUser[u] \in Sockets /\ Owner[registry.byUser[u]] = u
      BY <1>a, <3>1 DEF Registries, Consistent
    <3>3. /\ SessionsConsistent'
          /\ \A v \in Users : registry'.byUser[v] \in {registry.byUser[v], NoSocket}
          /\ registry'.byUser[u] = NoSocket
      BY <3>1, <3>2, DetachConsistent
    <3> QED BY <1>0, <3>1, <3>3, FlowExclusive DEF Stages
  <2>2. CASE ~(StillConnected(u) /\ Previous(u) # NoSocket)
    BY <1>5, <2>2, <1>c, <1>d DEF JoinReplace, Previous, Stages
  <2> QED BY <2>1, <2>2
<1>6. CASE JoinReplaceCore(u)
  BY <1>6, <1>b, <1>c, <1>d DEF JoinReplaceCore, Stages
<1>7. CASE JoinEnterRoom(u)
  BY <1>7, <1>b, <1>c, <1>d DEF JoinEnterRoom, Stages
<1>8. CASE JoinAdmit(u)
  <2>1. CASE MayAdmit(u)
    <3>1. /\ registry' = Add(registry, Op(u).socket, Op(u).room)
          /\ clients' = clients \cup {Op(u).socket}
          /\ Return(u)
      BY <1>8, <2>1 DEF JoinAdmit
    <3>2. registry.byUser[Owner[Op(u).socket]] = NoSocket
      BY <1>8, <1>a, <1>b DEF JoinAdmit
    <3>3. /\ Consistent(registry')
          /\ \A v \in Users : v # u => registry'.byUser[v] = registry.byUser[v]
          /\ \A t \in Sockets :
               registry'.bySocket[t] # NoRoom <=> registry.bySocket[t] # NoRoom \/ t = Op(u).socket
      BY <1>a, <3>1, <3>2, AddConsistent
    <3>4. SessionsConsistent'
      BY <1>a, <3>1, <3>3 DEF SessionsInv, SessionsConsistent
    <3>5. "start" \in Stages
      BY DEF Stages
    <3> QED BY <1>0, <3>1, <3>3, <3>4, <3>5, FlowExclusive
  <2>2. CASE ~MayAdmit(u)
    BY <1>8, <2>2, <1>c, <1>d DEF JoinAdmit, Stages
  <2> QED BY <2>1, <2>2
<1>9. CASE JoinRollback(u)
  BY <1>9, <1>c, <1>d DEF JoinRollback, Stages
<1>10. CASE JoinRollbackRoom(u)
  BY <1>10, <1>c, <1>d DEF JoinRollbackRoom, Stages
<1>11. CASE JoinFail(u)
  BY <1>11, <1>c, <1>d DEF JoinFail, Stages
<1> QED BY <1>1, <1>2, <1>3, <1>4, <1>5, <1>6, <1>7, <1>8, <1>9, <1>10, <1>11 DEF Join

LEMMA StepConsistent ==
  ASSUME SessionsInv, NEW u \in Users, Step(u)
  PROVE  SessionsConsistent' /\ JoinsExclusive'
<1> USE DEF InProgress, Running, session, environment
<1>0. CASE Join(u)
  BY <1>0, JoinConsistent
<1>a. ASSUME UNCHANGED <<registry, clients>> PROVE SessionsConsistent'
  BY <1>a DEF SessionsInv, SessionsConsistent
<1>b. ASSUME UNCHANGED registry, ~Idle(u),
             \/ Return(u)
             \/ \E stage \in Stages \ Detached : Goto(u, stage)
             \/ /\ Op(u).kind # "join" \/ registry.byUser[u] = NoSocket
                /\ \E stage \in Stages : Goto(u, stage)
      PROVE  JoinsExclusive'
  <2>1. PICK stage \in Stages :
          \/ Return(u)
          \/ /\ Goto(u, stage)
             /\ stage \in Detached /\ Op(u).kind = "join" => registry'.byUser[u] = NoSocket
    BY <1>b DEF Stages
  <2> QED BY <1>b, <2>1, FlowExclusive
<1>1. CASE LeaveBegin(u)
  <2>1. CASE Subject(u) = NoSocket
    BY <1>1, <2>1, <1>a, <1>b DEF LeaveBegin
  <2>2. CASE Subject(u) # NoSocket
    <3>1. ~Idle(u) /\ Detach(u, Subject(u)) /\ Goto(u, "detachMedia") /\ Op(u).kind # "join"
      BY <1>1, <2>2 DEF LeaveBegin
    <3>2. Subject(u) \in Sockets
      BY <2>2, <3>1, SubjectTyped DEF SessionsInv
    <3>3. /\ SessionsConsistent'
          /\ \A v \in Users : registry'.byUser[v] \in {registry.byUser[v], NoSocket}
      BY <3>1, <3>2, DetachConsistent
    <3> QED BY <3>1, <3>3, FlowExclusive DEF Stages
  <2> QED BY <2>1, <2>2
<1>2. CASE DetachMedia(u)
  <2>1. Op(u).kind # "join" \/ registry.byUser[u] = NoSocket
    BY <1>2 DEF DetachMedia, SessionsInv, JoinsExclusive
  <2> QED BY <1>2, <2>1, <1>a, <1>b DEF DetachMedia, AfterReplacing, Stages
<1>3. CASE CoreLeave(u)
  BY <1>3, <1>a, <1>b DEF CoreLeave
<1>4. CASE RestJoin(u)
  BY <1>4, <1>a, <1>b DEF RestJoin
<1>5. CASE RestLeave(u)
  BY <1>5, <1>a, <1>b DEF RestLeave, Stages, Detached
<1> QED BY <1>0, <1>1, <1>2, <1>3, <1>4, <1>5 DEF Step

LEMMA DeletionConsistent ==
  ASSUME SessionsInv, NEW r \in Rooms, CoreDelete(r) \/ Deletion(r)
  PROVE  SessionsConsistent' /\ JoinsExclusive'
<1> USE DEF session
<1>0. SessionsConsistent' /\ UNCHANGED <<registry, at>>
  BY DEF Deletion, CoreDelete, CloseRoom, CloseRoomNext, CloseRoomMedia, EvictNext,
         SessionsInv, SessionsConsistent
<1>1. CASE UNCHANGED queue
  BY <1>0, <1>1 DEF SessionsInv, JoinsExclusive, Idle, Op
<1>2. ASSUME NEW s \in Sockets,
             Enqueue([kind |-> "evict", user |-> Owner[s], socket |-> s, room |-> r])
      PROVE  JoinsExclusive'
  <2> DEFINE op == [kind |-> "evict", user |-> Owner[s], socket |-> s, room |-> r]
  <2>1. op \in Operations /\ op \in OperationsOf(op.user)
    BY OwnerAssumption, NoSocketAssumption, NoRoomAssumption
    DEF Operations, OperationsOf, Kinds, RestKinds
  <2> QED BY <1>0, <1>2, <2>1, EnqueueExclusive
<1>3. registry.members[r] \subseteq Sockets /\ toEvict[r] \subseteq Sockets
  BY DEF SessionsInv, TypeOK, Registries
<1> QED BY <1>0, <1>1, <1>2, <1>3
        DEF Deletion, CoreDelete, CloseRoom, CloseRoomNext, CloseRoomMedia, EvictNext

LEMMA RouterCloseConsistent ==
  ASSUME SessionsInv, NEW r \in Rooms, RouterClose(r)
  PROVE  SessionsConsistent' /\ JoinsExclusive'
<1>1. /\ registry \in Registries /\ Consistent(registry)
      /\ registry' = RemoveRoom(registry, r)
      /\ clients' = clients \ registry.members[r]
      /\ UNCHANGED <<queue, at>>
  BY DEF SessionsInv, TypeOK, SessionsConsistent, RouterClose
<1>2. /\ Consistent(registry')
      /\ \A u \in Users : registry'.byUser[u] \in {registry.byUser[u], NoSocket}
      /\ \A t \in Sockets :
           registry'.bySocket[t] # NoRoom <=> registry.bySocket[t] # NoRoom /\ t \notin registry.members[r]
  BY <1>1, RemoveRoomConsistent
<1>3. SessionsConsistent'
  BY <1>1, <1>2 DEF SessionsInv, SessionsConsistent
<1>4. JoinsExclusive'
  BY <1>1, <1>2 DEF SessionsInv, JoinsExclusive, Idle, Op
<1> QED BY <1>3, <1>4

LEMMA NextConsistent == SessionsInv /\ [Next]_vars => SessionsInv'
<1> SUFFICES ASSUME SessionsInv, [Next]_vars PROVE SessionsConsistent' /\ JoinsExclusive'
  BY NextTyped DEF SessionsInv
<1>1. ASSUME NEW u \in Users, Step(u) PROVE SessionsConsistent' /\ JoinsExclusive'
  BY <1>1, StepConsistent
<1>2. ASSUME NEW r \in Rooms, CoreDelete(r) \/ Deletion(r) \/ RouterClose(r)
      PROVE  SessionsConsistent' /\ JoinsExclusive'
  BY <1>2, DeletionConsistent, RouterCloseConsistent
<1>3. ASSUME NEW op \in Requests, Request(op) PROVE SessionsConsistent' /\ JoinsExclusive'
  <2>1. op \in Operations /\ op \in OperationsOf(op.user)
    BY RequestsAssumption DEF OperationsOf
  <2>2. JoinsExclusive'
    BY <1>3, <2>1, EnqueueExclusive DEF Request, session
  <2> QED BY <1>3, <2>2 DEF Request, session, SessionsInv, SessionsConsistent
<1>4. ASSUME NEW s \in Sockets, Disconnect(s) PROVE SessionsConsistent' /\ JoinsExclusive'
  <2> DEFINE op == [kind |-> "disconnect", user |-> Owner[s], socket |-> s, room |-> NoRoom]
  <2>1. op \in Operations /\ op \in OperationsOf(op.user)
    BY OwnerAssumption, NoSocketAssumption DEF Operations, OperationsOf, Kinds, RestKinds
  <2>2. JoinsExclusive'
    BY <1>4, <2>1, EnqueueExclusive DEF Disconnect
  <2> QED BY <1>4, <2>2 DEF Disconnect, SessionsInv, SessionsConsistent
<1>5. ASSUME NEW u \in Users, NEW r \in Rooms, MeetingJoin(u, r)
      PROVE  SessionsConsistent' /\ JoinsExclusive'
  BY <1>5 DEF MeetingJoin, session, SessionsInv, SessionsConsistent, JoinsExclusive, Idle, Op
<1>6. CASE UNCHANGED vars
  BY <1>6 DEF vars, SessionsInv, SessionsConsistent, JoinsExclusive, Idle, Op
<1> QED BY <1>1, <1>2, <1>3, <1>4, <1>5, <1>6 DEF Next

LEMMA InitConsistent == Init => SessionsInv
<1>1. Init => TypeOK
  BY InitialMembersAssumption
  DEF Init, TypeOK, EmptyRegistry, Registries, NoHeld, Stages, ClosingStages
<1>2. Init => SessionsConsistent /\ JoinsExclusive
  BY OwnerAssumption, NoSocketAssumption, NoRoomAssumption
  DEF Init, SessionsConsistent, Consistent, EmptyRegistry, JoinsExclusive, Idle
<1> QED BY <1>1, <1>2 DEF SessionsInv

\* A user never has two sessions and the registry's maps never disagree,
\* however joins, disconnects, deletions and lost workers interleave.
THEOREM SessionsAlwaysConsistent == Spec => []SessionsConsistent
<1>1. SessionsInv => SessionsConsistent
  BY DEF SessionsInv
<1> QED BY <1>1, InitConsistent, NextConsistent, PTL DEF Spec

----------------------------------------------------------------------------
(* Deleted rooms                                                           *)

\* Only JoinAdmit gives a room a participant, and it has checked the room.
LEMMA DeletedMembersShrink ==
  ASSUME SessionsInv, Next, NEW r \in deleted
  PROVE  registry'.members[r] \subseteq registry.members[r]
<1> USE DEF session, environment
<1>0. /\ registry \in Registries /\ Consistent(registry) /\ r \in Rooms
      /\ \A s \in Sockets, q \in Rooms : Remove(registry, s).members[q] \subseteq registry.members[q]
      /\ \A q \in Rooms : RemoveRoom(registry, q).members[r] \subseteq registry.members[r]
  BY RemoveConsistent, RemoveRoomConsistent DEF SessionsInv, TypeOK, SessionsConsistent
<1>a. ASSUME NEW u \in Users, NEW s \in Sockets, Detach(u, s)
      PROVE  registry'.members[r] \subseteq registry.members[r]
  BY <1>0, <1>a DEF Detach
<1>1. ASSUME NEW u \in Users, Join(u) PROVE registry'.members[r] \subseteq registry.members[r]
  <2>1. CASE JoinReplace(u)
    <3>1. Previous(u) # NoSocket => Previous(u) \in Sockets
      BY <1>0 DEF Previous, Registries
    <3> QED BY <2>1, <3>1, <1>a DEF JoinReplace
  <2>2. CASE JoinAdmit(u) /\ MayAdmit(u)
    <3>1. Op(u).room # r /\ Op(u).socket \in Sockets
      BY <2>2, JoinNames DEF JoinAdmit, MayAdmit, Running, InProgress, SessionsInv
    <3> QED BY <1>0, <2>2, <3>1 DEF JoinAdmit, Add, Registries
  <2>3. CASE JoinAdmit(u) /\ ~MayAdmit(u)
    BY <2>3 DEF JoinAdmit
  <2> QED BY <1>1, <2>1, <2>2, <2>3
          DEF Join, JoinBegin, JoinAuthorize, JoinAttach, JoinMedia, JoinReplaceCore,
              JoinEnterRoom, JoinRollback, JoinRollbackRoom, JoinFail
<1>2. ASSUME NEW u \in Users, LeaveBegin(u) PROVE registry'.members[r] \subseteq registry.members[r]
  <2>1. Subject(u) # NoSocket => Subject(u) \in Sockets
    BY <1>2, SubjectTyped DEF LeaveBegin, SessionsInv
  <2> QED BY <1>2, <2>1, <1>a DEF LeaveBegin
<1>3. ASSUME NEW q \in Rooms, RouterClose(q) PROVE registry'.members[r] \subseteq registry.members[r]
  BY <1>0, <1>3 DEF RouterClose
<1> QED BY <1>1, <1>2, <1>3
        DEF Next, Step, DetachMedia, CoreLeave, RestJoin, RestLeave, CoreDelete, Deletion,
            CloseRoom, CloseRoomNext, CloseRoomMedia, Request, Disconnect, MeetingJoin

\* No join, however far it had got when the room was deleted, adds a
\* participant to a room in deletedRooms.
THEOREM DeletedRoomsStayEmpty == Spec => DeletedRoomNotRevived
<1>1. SessionsInv /\ [Next]_vars
        => [\A r \in deleted : registry'.members[r] \subseteq registry.members[r]]_vars
  BY DeletedMembersShrink
<1> QED BY <1>1, InitConsistent, NextConsistent, PTL DEF Spec, DeletedRoomNotRevived
----------------------------------------------------------------------------
(* The SFU, Socket.IO and Core follow the registry                         *)

\* A join of u is suspended at one of these stages; it is of socket s and room r.
JoinAt(u, stages) == ~Idle(u) /\ Op(u).kind = "join" /\ at[u] \in stages
JoiningAt(u, s, r, stages) == JoinAt(u, stages) /\ Op(u).socket = s /\ Op(u).room = r

OwnSockets(u) == {s \in Sockets : Owner[s] = u}
\* A member of the call in Core, or excused from being one.
Member(u, r) == u \in members[r] \/ closing[r] # "open" \/ u \in unheard[r]

\* A join begins with Core's consent, allocates a media peer, enters the Socket.IO
\* room and adds the participant last.
Consented == {"authorized", "joinMedia", "joined", "detachMedia", "evictCore", "enterRoom", "entered"}
Unadmitted == {"joinMedia", "joined", "detachMedia", "evictCore", "enterRoom", "entered",
               "rollback", "rollbackRoom"}
Allocated == {"joined", "detachMedia", "evictCore", "enterRoom", "entered", "rollback"}
Entered == {"entered", "rollback", "rollbackRoom"}

\* What an operation relies on when it goes on after an await.
StagesOK(u) ==
  /\ JoinAt(u, Unadmitted) => registry.bySocket[Op(u).socket] # Op(u).room
  /\ JoinAt(u, {"evictCore"}) => held[u].room # Op(u).room
  /\ InProgress(u, "detachMedia") =>
       registry.byUser[u] = NoSocket /\ held[u].socket \in OwnSockets(u)
  /\ InProgress(u, "coreLeave") => registry.byUser[u] = NoSocket

MembershipOK(u) ==
  /\ registry.byUser[u] # NoSocket =>
       LET r == registry.bySocket[registry.byUser[u]]
       IN  Member(u, r) \/ (Running(u, "restLeave", "left") /\ Op(u).room = r)
  /\ JoinAt(u, Consented) => Member(u, Op(u).room)

MediaOK(u) ==
  \A s \in OwnSockets(u), r \in Rooms : registry.bySocket[s] = r => s \in mediaPeers[r]

BroadcastsOK(u) ==
  \A s \in OwnSockets(u) \cap connected, r \in Rooms :
    /\ registry.bySocket[s] = r \/ JoiningAt(u, s, r, {"entered"}) => r \in sioRooms[s]
    /\ r \in sioRooms[s] => registry.bySocket[s] = r \/ JoiningAt(u, s, r, Entered)

UserOK(u) == StagesOK(u) /\ MembershipOK(u) /\ MediaOK(u) /\ BroadcastsOK(u)

\* Whatever else has a media peer is about to be admitted, rolled back or released.
OrphansOK(u) ==
  /\ JoinAt(u, {"rejoinMedia"}) => registry.bySocket[Op(u).socket] = Op(u).room
  /\ \A s \in OwnSockets(u), r \in Rooms :
       s \in mediaPeers[r] =>
         \/ registry.bySocket[s] = r
         \/ JoiningAt(u, s, r, Allocated)
         \/ InProgress(u, "detachMedia") /\ held[u] = [socket |-> s, room |-> r]

\* A deletion has at most one operation under way, and whoever is still in the room is
\* its subject or still to come.
Evicts(u, i, r) == queue[u][i].kind = "evict" /\ queue[u][i].room = r
EvictionOK(r) ==
  /\ \A u \in Users : \A i \in 1 .. Len(queue[u]) :
       Evicts(u, i, r) =>
         /\ closing[r] = "evicting"
         /\ registry.members[r] \subseteq toEvict[r] \cup {queue[u][i].socket}
  /\ \A u, v \in Users : \A i \in 1 .. Len(queue[u]), j \in 1 .. Len(queue[v]) :
       Evicts(u, i, r) /\ Evicts(v, j, r) => u = v /\ i = j
  /\ closing[r] = "evicted" => registry.members[r] \subseteq toEvict[r]
  /\ closing[r] \in {"closeMedia", "closed"} => registry.members[r] = {}
  /\ closing[r] \notin {"open", "lost", "coreDeleted"} => r \in deleted

AgreeInv ==
  /\ SessionsInv
  /\ \A u \in Users : UserOK(u)
  /\ \A r \in Rooms : EvictionOK(r)

\* A step leaves user v alone: of theirs nothing changes but what others may change.
Untouched(v) ==
  /\ at'[v] = at[v] /\ held'[v] = held[v]
  /\ at[v] = "start" \/ ((Idle(v)' <=> Idle(v)) /\ Op(v)' = Op(v))
  /\ registry'.byUser[v] = registry.byUser[v]
  /\ \A s \in OwnSockets(v) : registry'.bySocket[s] = registry.bySocket[s]
  /\ \A s \in OwnSockets(v) \cap connected' : s \in connected /\ sioRooms'[s] = sioRooms[s]
  /\ \A s \in OwnSockets(v), r \in Rooms :
       /\ s \in mediaPeers'[r] => s \in mediaPeers[r]
       /\ registry.bySocket[s] = r /\ s \in mediaPeers[r] => s \in mediaPeers'[r]
  /\ \A r \in Rooms : Member(v, r) => Member(v, r)'

LEMMA UntouchedKeeps ==
  ASSUME SessionsInv, NEW v \in Users, Untouched(v), UserOK(v)
  PROVE  UserOK(v)' /\ (OrphansOK(v) => OrphansOK(v)')
<1>0. /\ registry.byUser[v] # NoSocket =>
           /\ registry.byUser[v] \in OwnSockets(v)
           /\ registry.bySocket[registry.byUser[v]] \in Rooms
      /\ ~Idle(v) /\ Op(v).kind = "join" => Op(v).socket \in OwnSockets(v) /\ Op(v).room \in Rooms
      /\ OwnSockets(v)' = OwnSockets(v)
  BY JoinNames, NoSocketAssumption
  DEF SessionsInv, TypeOK, SessionsConsistent, Consistent, Registries, OwnSockets
<1>1. CASE at[v] = "start"
  <2>1. at'[v] = "start"
    BY <1>1 DEF Untouched
  <2>2. StagesOK(v)'
    BY <2>1 DEF StagesOK, JoinAt, InProgress, Unadmitted
  <2>3. MembershipOK(v)'
    BY <1>0, <1>1, <2>1 DEF UserOK, MembershipOK, JoinAt, Running, InProgress, Consented, Untouched
  <2>4. MediaOK(v)' /\ BroadcastsOK(v)'
    BY <1>0, <1>1, <2>1 DEF UserOK, MediaOK, BroadcastsOK, JoiningAt, JoinAt, Entered, Untouched
  <2>5. OrphansOK(v) => OrphansOK(v)'
    BY <1>0, <1>1, <2>1 DEF OrphansOK, JoiningAt, JoinAt, InProgress, Allocated, Untouched
  <2> QED BY <2>2, <2>3, <2>4, <2>5 DEF UserOK
<1>2. CASE at[v] # "start"
  <2>1. /\ at'[v] = at[v] /\ held'[v] = held[v]
        /\ Idle(v)' <=> Idle(v)
        /\ Op(v)' = Op(v)
    BY <1>2 DEF Untouched
  <2>2. StagesOK(v)'
    BY <1>0, <2>1 DEF UserOK, StagesOK, JoinAt, InProgress, Unadmitted, Untouched
  <2>3. MembershipOK(v)'
    BY <1>0, <2>1 DEF UserOK, MembershipOK, JoinAt, Running, InProgress, Consented, Untouched
  <2>4. MediaOK(v)' /\ BroadcastsOK(v)'
    BY <1>0, <2>1 DEF UserOK, MediaOK, BroadcastsOK, JoiningAt, JoinAt, Entered, Untouched
  <2>5. OrphansOK(v) => OrphansOK(v)'
    BY <1>0, <2>1 DEF OrphansOK, JoiningAt, JoinAt, InProgress, Allocated, Untouched
  <2> QED BY <2>2, <2>3, <2>4, <2>5 DEF UserOK
<1> QED BY <1>1, <1>2

\* The user's registry entries: one socket and its room, or nothing.
LEMMA OwnSession ==
  ASSUME SessionsInv, NEW u \in Users
  PROVE  /\ \A s \in OwnSockets(u) : registry.bySocket[s] # NoRoom <=> registry.byUser[u] = s
         /\ registry.byUser[u] # NoSocket =>
              /\ registry.byUser[u] \in OwnSockets(u)
              /\ registry.bySocket[registry.byUser[u]] \in Rooms
         /\ registry.byUser[u] = NoSocket => \A s \in OwnSockets(u) : registry.bySocket[s] = NoRoom
         /\ \A s \in Sockets : registry.bySocket[s] # NoRoom <=> s \in clients
BY NoSocketAssumption DEF SessionsInv, TypeOK, SessionsConsistent, Consistent, Registries, OwnSockets

\* A leave is about the user's session, or about none: then the user has none in the
\* room that it names.
LEMMA SubjectIsSession ==
  ASSUME SessionsInv, NEW u \in Users, ~Idle(u), Op(u).kind # "join"
  PROVE  /\ Subject(u) \in {NoSocket, registry.byUser[u]}
         /\ Subject(u) = NoSocket /\ Op(u).kind \in RestKinds /\ registry.byUser[u] # NoSocket =>
              registry.bySocket[registry.byUser[u]] # Op(u).room
         /\ Subject(u) = NoSocket /\ Op(u).kind = "evict" => registry.bySocket[Op(u).socket] # Op(u).room
<1>1. /\ Op(u) \in OperationsOf(u)
      /\ registry \in Registries
  BY OpInQueue DEF SessionsInv, TypeOK
<1>2. Op(u).socket # NoSocket => Op(u).socket \in OwnSockets(u)
  BY <1>1 DEF OperationsOf, Operations, OwnSockets
<1>3. Op(u).kind # "disconnect" => Op(u).room # NoRoom
  BY <1>1, NoRoomAssumption DEF OperationsOf, Operations
<1>4. Op(u).kind \in {"disconnect", "evict"} => Op(u).socket # NoSocket
  BY <1>1 DEF OperationsOf, RestKinds
<1>5. Op(u).kind \in RestKinds => Op(u).socket = NoSocket /\ Op(u).kind # "disconnect"
  BY <1>1 DEF OperationsOf, RestKinds
<1>6. CASE Op(u).kind = "disconnect"
  BY <1>2, <1>4, <1>5, <1>6, OwnSession DEF Subject, Disconnected
<1>7. CASE Op(u).kind # "disconnect" /\ Op(u).socket = NoSocket
  BY <1>3, <1>4, <1>7, OwnSession DEF Subject
<1>8. CASE Op(u).kind # "disconnect" /\ Op(u).socket # NoSocket
  BY <1>2, <1>3, <1>5, <1>8, OwnSession DEF Subject
<1> QED BY <1>6, <1>7, <1>8

\* detach() of the user's session takes it out of the registry and, with its room, into
\* the hands of the operation; other users keep theirs.
LEMMA DetachOwn ==
  ASSUME SessionsInv, NEW u \in Users, Detach(u, registry.byUser[u]), registry.byUser[u] # NoSocket
  PROVE  LET s == registry.byUser[u] IN
         /\ registry'.byUser[u] = NoSocket
         /\ \A t \in OwnSockets(u) : registry'.bySocket[t] = NoRoom
         /\ sioRooms'[s] = sioRooms[s] \ {registry.bySocket[s]}
         /\ \A t \in Sockets \ {s} : sioRooms'[t] = sioRooms[t]
         /\ held'[u] = [socket |-> s, room |-> registry.bySocket[s]]
         /\ \A v \in Users \ {u} : held'[v] = held[v] /\ registry'.byUser[v] = registry.byUser[v]
         /\ \A t \in Sockets : Owner[t] # u => registry'.bySocket[t] = registry.bySocket[t]
         /\ \A r \in Rooms : registry'.members[r] \subseteq registry.members[r]
         /\ \A r \in Rooms : registry.bySocket[s] = r => s \notin registry'.members[r]
<1> DEFINE s == registry.byUser[u]
<1>1. /\ s \in Sockets /\ Owner[s] = u /\ s \in clients
      /\ registry.bySocket[s] \in Rooms /\ registry.bySocket[s] # NoRoom
  BY OwnSession, NoRoomAssumption DEF OwnSockets
<1>2. /\ registry \in Registries
      /\ sioRooms \in [Sockets -> SUBSET Rooms]
      /\ held \in [Users -> [socket : Sockets \cup {NoSocket}, room : Rooms \cup {NoRoom}]]
  BY DEF SessionsInv, TypeOK
<1>3. registry' = RemoveEntry(registry, s)
  BY <1>1 DEF Detach, Remove
<1>4. sioRooms' = [sioRooms EXCEPT ![s] = @ \ {registry.bySocket[s]}]
  BY <1>1 DEF Detach, LeaveSioRoom
<1>5. held' = [held EXCEPT ![u] = [socket |-> s, room |-> registry.bySocket[s]]]
  BY DEF Detach
<1>6. /\ registry'.byUser[u] = NoSocket
      /\ \A v \in Users \ {u} : registry'.byUser[v] = registry.byUser[v]
      /\ registry'.bySocket[s] = NoRoom
      /\ \A t \in Sockets \ {s} : registry'.bySocket[t] = registry.bySocket[t]
      /\ registry'.members[registry.bySocket[s]] = registry.members[registry.bySocket[s]] \ {s}
      /\ \A r \in Rooms \ {registry.bySocket[s]} : registry'.members[r] = registry.members[r]
  BY <1>1, <1>2, <1>3 DEF RemoveEntry, Registries
<1>7. \A t \in OwnSockets(u) : registry'.bySocket[t] = NoRoom
  BY <1>1, <1>6, OwnSession DEF OwnSockets
<1> QED BY <1>1, <1>2, <1>4, <1>5, <1>6, <1>7

\* How an operation's step changes the executor.
LEMMA Going ==
  ASSUME SessionsInv, NEW u \in Users, ~Idle(u)
  PROVE  /\ \A stage \in Stages : Goto(u, stage) =>
              /\ at'[u] = stage /\ ~Idle(u)' /\ Op(u)' = Op(u)
              /\ \A v \in Users \ {u} : at'[v] = at[v]
              /\ UNCHANGED <<queue, closing>>
         /\ Return(u) =>
              /\ at'[u] = "start"
              /\ \A v \in Users \ {u} : at'[v] = at[v] /\ queue'[v] = queue[v]
              /\ \A r \in Rooms : closing[r] # "open" => closing'[r] # "open"
BY DEF SessionsInv, TypeOK, Goto, Return, Idle, Op

\* Nobody's operation touches another user.
LEMMA OthersUntouched ==
  ASSUME SessionsInv, NEW u \in Users, UserOK(u), Step(u), NEW v \in Users \ {u}
  PROVE  Untouched(v)
<1> USE DEF session, environment, InProgress, Running
<1>0. ~Idle(u)
  BY DEF Step, Join, JoinBegin, JoinAuthorize, JoinAttach, JoinMedia, JoinReplace, JoinReplaceCore,
         JoinEnterRoom, JoinAdmit, JoinRollback, JoinRollbackRoom, JoinFail, LeaveBegin, DetachMedia,
         CoreLeave, RestJoin, RestLeave
<1>1. /\ registry \in Registries
      /\ sioRooms \in [Sockets -> SUBSET Rooms]
      /\ mediaPeers \in [Rooms -> SUBSET Sockets]
      /\ members \in [Rooms -> SUBSET Users] /\ unheard \in [Rooms -> SUBSET Users]
      /\ held \in [Users -> [socket : Sockets \cup {NoSocket}, room : Rooms \cup {NoRoom}]]
      /\ Op(u).kind = "join" => Op(u).socket \in OwnSockets(u) /\ Op(u).room \in Rooms
      /\ \A s \in OwnSockets(v) : s \in Sockets /\ Owner[s] = v /\ s \notin OwnSockets(u)
  BY <1>0, JoinNames DEF SessionsInv, TypeOK, OwnSockets
<1>2. connected' = connected /\ (Return(u) \/ \E stage \in Stages : Goto(u, stage))
  BY DEF Step, Join, JoinBegin, JoinAuthorize, JoinAttach, JoinMedia, JoinReplace, JoinReplaceCore,
         JoinEnterRoom, JoinAdmit, JoinRollback, JoinRollbackRoom, JoinFail, LeaveBegin, DetachMedia,
         CoreLeave, RestJoin, RestLeave, AfterReplacing, Stages
<1>3. /\ at'[v] = at[v] /\ (Idle(v)' <=> Idle(v)) /\ Op(v)' = Op(v)
      /\ \A r \in Rooms : closing[r] # "open" => closing'[r] # "open"
  BY <1>0, <1>2, Going DEF Idle, Op
<1> DEFINE SameSession ==
             /\ held'[v] = held[v]
             /\ registry'.byUser[v] = registry.byUser[v]
             /\ \A s \in OwnSockets(v) :
                  registry'.bySocket[s] = registry.bySocket[s] /\ sioRooms'[s] = sioRooms[s]
<1>4. SameSession
  <2>1. ASSUME registry.byUser[u] # NoSocket, Detach(u, registry.byUser[u])
        PROVE  SameSession
    <3>1. registry.byUser[u] \in OwnSockets(u)
      BY <2>1, OwnSession
    <3>2. /\ \A t \in Sockets \ {registry.byUser[u]} : sioRooms'[t] = sioRooms[t]
          /\ held'[v] = held[v] /\ registry'.byUser[v] = registry.byUser[v]
          /\ \A t \in Sockets : Owner[t] # u => registry'.bySocket[t] = registry.bySocket[t]
      BY <2>1, DetachOwn
    <3> QED BY <1>1, <3>1, <3>2
  <2>2. CASE LeaveBegin(u)
    <3>1. CASE Subject(u) = NoSocket
      BY <2>2, <3>1 DEF LeaveBegin
    <3>2. CASE Subject(u) # NoSocket
      <4>1. Op(u).kind # "join"
        BY <2>2 DEF LeaveBegin
      <4>2. Subject(u) = registry.byUser[u]
        BY <1>0, <3>2, <4>1, SubjectIsSession
      <4> QED BY <2>1, <2>2, <3>2, <4>2 DEF LeaveBegin
    <3> QED BY <3>1, <3>2
  <2>3. CASE JoinReplace(u)
    <3>1. CASE Previous(u) # NoSocket /\ StillConnected(u)
      BY <2>1, <2>3, <3>1 DEF JoinReplace, Previous
    <3>2. CASE ~(Previous(u) # NoSocket /\ StillConnected(u))
      BY <1>1, <2>3, <3>2 DEF JoinReplace
    <3> QED BY <3>1, <3>2
  <2>4. CASE JoinAdmit(u)
    <3>1. CASE MayAdmit(u)
      <4>1. registry' = Add(registry, Op(u).socket, Op(u).room)
        BY <2>4, <3>1 DEF JoinAdmit
      <4>2. Op(u).socket \in Sockets /\ Owner[Op(u).socket] = u /\ Op(u).room \in Rooms
        BY <1>1, <2>4 DEF JoinAdmit, OwnSockets
      <4>3. /\ registry'.byUser[v] = registry.byUser[v]
            /\ \A s \in OwnSockets(v) : registry'.bySocket[s] = registry.bySocket[s]
        BY <1>1, <4>1, <4>2 DEF Add, Registries
      <4> QED BY <2>4, <4>3 DEF JoinAdmit
    <3>2. CASE ~MayAdmit(u)
      BY <2>4, <3>2 DEF JoinAdmit
    <3> QED BY <3>1, <3>2
  <2>5. CASE JoinEnterRoom(u) \/ JoinRollbackRoom(u)
    BY <1>1, <2>5 DEF JoinEnterRoom, JoinRollbackRoom, LeaveSioRoom
  <2>6. CASE JoinFail(u)
    BY <1>1, <2>6 DEF JoinFail
  <2> QED BY <2>2, <2>3, <2>4, <2>5, <2>6
      DEF Step, Join, JoinBegin, JoinAuthorize, JoinAttach, JoinMedia, JoinReplaceCore, JoinRollback,
          DetachMedia, CoreLeave, RestJoin, RestLeave
<1>5. \A s \in OwnSockets(v), r \in Rooms : s \in mediaPeers'[r] <=> s \in mediaPeers[r]
  <2>1. CASE JoinMedia(u) \/ JoinRollback(u)
    BY <1>1, <2>1 DEF JoinMedia, JoinRollback, WithoutMedia
  <2>2. CASE DetachMedia(u)
    <3>1. held[u].socket \in OwnSockets(u)
      BY <2>2 DEF DetachMedia, UserOK, StagesOK
    <3> QED BY <1>1, <2>2, <3>1 DEF DetachMedia
  <2> QED BY <2>1, <2>2
      DEF Step, Join, JoinBegin, JoinAuthorize, JoinAttach, JoinReplace, JoinReplaceCore,
          JoinEnterRoom, JoinAdmit, JoinRollbackRoom, JoinFail, LeaveBegin, CoreLeave, RestJoin, RestLeave
<1>6. \A r \in Rooms : (v \in members[r] => v \in members'[r]) /\ (v \in unheard[r] => v \in unheard'[r])
  <2>1. \A q \in Rooms \cup {NoRoom}, r \in Rooms :
          /\ v \in members[r] => v \in [members EXCEPT ![q] = @ \ {u}][r]
          /\ v \in members[r] => v \in [members EXCEPT ![q] = @ \cup {u}][r]
          /\ v \in unheard[r] => v \in [unheard EXCEPT ![q] = @ \ {u}][r]
          /\ v \in unheard[r] => v \in [unheard EXCEPT ![q] = @ \cup {u}][r]
    BY <1>1
  <2>2. held[u].room \in Rooms \cup {NoRoom} /\ (Op(u).kind \in RestKinds => Op(u).room \in Rooms)
    BY <1>0, <1>1, JoinNames DEF SessionsInv
  <2>3. CASE JoinReplaceCore(u) \/ CoreLeave(u)
    BY <2>1, <2>2, <2>3 DEF JoinReplaceCore, CoreLeave, CoreMay
  <2>4. CASE RestJoin(u) \/ RestLeave(u)
    BY <2>1, <2>2, <2>4 DEF RestJoin, RestLeave, CoreJoins, CoreLeaves, RestKinds
  <2> QED BY <2>3, <2>4
      DEF Step, Join, JoinBegin, JoinAuthorize, JoinAttach, JoinMedia, JoinReplace,
          JoinEnterRoom, JoinAdmit, JoinRollback, JoinRollbackRoom, JoinFail, LeaveBegin, DetachMedia
<1> QED BY <1>2, <1>3, <1>4, <1>5, <1>6 DEF Untouched, Member

\* What the user's next stage needs, stage by stage.
LEMMA JoinKeeps ==
  ASSUME SessionsInv, NEW u \in Users, UserOK(u), Join(u)
  PROVE  UserOK(u)' /\ (OrphansOK(u) => OrphansOK(u)')
<1> USE DEF session, environment, InProgress, Running
<1>0. ~Idle(u) /\ Op(u).kind = "join"
  BY DEF Join, JoinBegin, JoinAuthorize, JoinAttach, JoinMedia, JoinReplace, JoinReplaceCore,
         JoinEnterRoom, JoinAdmit, JoinRollback, JoinRollbackRoom, JoinFail
<1>a. /\ Op(u).socket \in OwnSockets(u) /\ Op(u).socket \in Sockets /\ Op(u).room \in Rooms
      /\ Owner[Op(u).socket] = u
      /\ OwnSockets(u) \subseteq Sockets /\ OwnSockets(u)' = OwnSockets(u)
      /\ at[u] \in Detached => registry.byUser[u] = NoSocket
      /\ sioRooms \in [Sockets -> SUBSET Rooms] /\ mediaPeers \in [Rooms -> SUBSET Sockets]
      /\ members \in [Rooms -> SUBSET Users] /\ unheard \in [Rooms -> SUBSET Users]
      /\ registry \in Registries /\ NoRoom \notin Rooms /\ NoSocket \notin Sockets
  BY <1>0, JoinNames, NoRoomAssumption, NoSocketAssumption
  DEF SessionsInv, TypeOK, OwnSockets, JoinsExclusive, Detached
<1>b. ASSUME NEW stage \in Stages, Goto(u, stage)
      PROVE  /\ at'[u] = stage /\ ~Idle(u)' /\ Op(u)' = Op(u) /\ closing' = closing
  BY <1>0, <1>b, Going
<1>c. ASSUME Return(u)
      PROVE  at'[u] = "start" /\ \A r \in Rooms : closing[r] # "open" => closing'[r] # "open"
  BY <1>0, <1>c, Going
<1>1. CASE JoinBegin(u)
  <2>1. at'[u] \in {"start", "authorizing"}
    BY <1>1, <1>b, <1>c DEF JoinBegin, Stages
  <2>2. at[u] = "start" /\ UNCHANGED <<registry, connected, sioRooms, mediaPeers, members, unheard>>
        /\ \A r \in Rooms : closing[r] # "open" => closing'[r] # "open"
    BY <1>1, <1>b, <1>c DEF JoinBegin, Stages
  <2>3. UserOK(u)'
    BY <1>a, <2>1, <2>2, OwnSession
    DEF UserOK, StagesOK, MembershipOK, MediaOK, BroadcastsOK, JoiningAt, JoinAt, Member,
        Consented, Unadmitted, Entered
  <2>4. OrphansOK(u) => OrphansOK(u)'
    BY <1>a, <2>1, <2>2 DEF OrphansOK, JoiningAt, JoinAt, Allocated
  <2> QED BY <2>3, <2>4
<1> DEFINE Same == UNCHANGED <<registry, connected, sioRooms, mediaPeers, members, unheard>>
<1>2. CASE JoinAuthorize(u)
  <2>1. /\ \/ at'[u] = "start"
           \/ at'[u] = "authorized" /\ Op(u)' = Op(u) /\ u \in members[Op(u).room]
        /\ \A r \in Rooms : closing[r] # "open" => closing'[r] # "open"
    BY <1>2, <1>b, <1>c DEF JoinAuthorize, Stages
  <2>2. at[u] = "authorizing" /\ Same
    BY <1>2 DEF JoinAuthorize
  <2>3. UserOK(u)'
    BY <1>a, <2>1, <2>2, OwnSession
    DEF UserOK, StagesOK, MembershipOK, MediaOK, BroadcastsOK, JoiningAt, JoinAt, Member,
        Consented, Unadmitted, Entered
  <2>4. OrphansOK(u) => OrphansOK(u)'
    BY <1>a, <2>1, <2>2 DEF OrphansOK, JoiningAt, JoinAt, Allocated
  <2> QED BY <2>3, <2>4
<1>3. CASE JoinAttach(u)
  <2>1. /\ \/ at'[u] = "failed"
           \/ at'[u] = "rejoinMedia" /\ registry.bySocket[Op(u).socket] = Op(u).room
           \/ at'[u] = "joinMedia" /\ registry.bySocket[Op(u).socket] # Op(u).room
        /\ Op(u)' = Op(u) /\ closing' = closing
    BY <1>3, <1>b DEF JoinAttach, Stages
  <2>2. at[u] = "authorized" /\ Same
    BY <1>3 DEF JoinAttach
  <2>3. UserOK(u)'
    BY <1>0, <1>a, <2>1, <2>2, OwnSession
    DEF UserOK, StagesOK, MembershipOK, MediaOK, BroadcastsOK, JoiningAt, JoinAt, Member,
        Consented, Unadmitted, Entered
  <2>4. OrphansOK(u) => OrphansOK(u)'
    BY <1>a, <2>1, <2>2 DEF OrphansOK, JoiningAt, JoinAt, Allocated
  <2> QED BY <2>3, <2>4
<1>4. CASE JoinMedia(u)
  <2>1. UNCHANGED <<registry, connected, sioRooms, members, unheard>>
    BY <1>4 DEF JoinMedia
  <2>2. CASE UNCHANGED mediaPeers /\ Goto(u, "failed")
    <3>1. at'[u] = "failed" /\ closing' = closing
      BY <2>2, <1>b DEF Stages
    <3>2. UserOK(u)'
      BY <1>0, <1>4, <1>a, <2>1, <2>2, <3>1, OwnSession
      DEF JoinMedia, UserOK, StagesOK, MembershipOK, MediaOK, BroadcastsOK, JoiningAt, JoinAt, Member,
          Consented, Unadmitted, Entered
    <3>3. OrphansOK(u) => OrphansOK(u)'
      BY <1>4, <1>a, <2>1, <2>2, <3>1 DEF JoinMedia, OrphansOK, JoiningAt, JoinAt, Allocated
    <3> QED BY <3>2, <3>3
  <2>3. ASSUME mediaPeers' = [mediaPeers EXCEPT ![Op(u).room] = @ \cup {Op(u).socket}],
               IF at[u] = "joinMedia" THEN Goto(u, "joined") ELSE Return(u)
        PROVE  UserOK(u)' /\ (OrphansOK(u) => OrphansOK(u)')
    <3>1. \A s \in OwnSockets(u), r \in Rooms :
            s \in mediaPeers'[r] <=> s \in mediaPeers[r] \/ (s = Op(u).socket /\ r = Op(u).room)
      BY <1>a, <2>3
    <3>2. CASE at[u] = "joinMedia"
      <4>1. at'[u] = "joined" /\ ~Idle(u)' /\ Op(u)' = Op(u) /\ closing' = closing
        BY <2>3, <3>2, <1>b DEF Stages
      <4>2. UserOK(u)'
        BY <1>0, <1>a, <2>1, <3>1, <3>2, <4>1, OwnSession
        DEF UserOK, StagesOK, MembershipOK, MediaOK, BroadcastsOK, JoiningAt, JoinAt, Member,
            Consented, Unadmitted, Entered
      <4>3. OrphansOK(u) => OrphansOK(u)'
        BY <1>0, <1>a, <2>1, <3>1, <3>2, <4>1 DEF OrphansOK, JoiningAt, JoinAt, Allocated
      <4> QED BY <4>2, <4>3
    <3>3. CASE at[u] = "rejoinMedia"
      <4>1. at'[u] = "start" /\ \A r \in Rooms : closing[r] # "open" => closing'[r] # "open"
        BY <2>3, <3>3, <1>c
      <4>2. UserOK(u)'
        BY <1>0, <1>a, <2>1, <3>1, <3>3, <4>1, OwnSession
        DEF UserOK, StagesOK, MembershipOK, MediaOK, BroadcastsOK, JoiningAt, JoinAt, Member,
            Consented, Unadmitted, Entered
      <4>3. OrphansOK(u) => OrphansOK(u)'
        BY <1>0, <1>a, <2>1, <3>1, <3>3, <4>1 DEF OrphansOK, JoiningAt, JoinAt, Allocated
      <4> QED BY <4>2, <4>3
    <3> QED BY <1>4, <3>2, <3>3 DEF JoinMedia
  <2> QED BY <1>4, <2>2, <2>3 DEF JoinMedia
<1>5. CASE JoinReplace(u)
  <2>0. at[u] = "joined" /\ UNCHANGED <<connected, mediaPeers, members, unheard>>
    BY <1>5 DEF JoinReplace
  <2>1. CASE ~StillConnected(u)
    <3>1. /\ Goto(u, "rollback") /\ UNCHANGED <<registry, sioRooms>>
      BY <1>5, <2>1 DEF JoinReplace
    <3>2. at'[u] = "rollback" /\ ~Idle(u)' /\ Op(u)' = Op(u) /\ closing' = closing
      BY <3>1, <1>b DEF Stages
    <3>3. UserOK(u)'
      BY <1>0, <1>a, <2>0, <3>1, <3>2, OwnSession
      DEF UserOK, StagesOK, MembershipOK, MediaOK, BroadcastsOK, JoiningAt, JoinAt, Member,
          Consented, Unadmitted, Entered
    <3>4. OrphansOK(u) => OrphansOK(u)'
      BY <1>0, <1>a, <2>0, <3>1, <3>2 DEF OrphansOK, JoiningAt, JoinAt, Allocated
    <3> QED BY <3>3, <3>4
  <2>2. CASE StillConnected(u) /\ Previous(u) # NoSocket
    <3>1. Goto(u, "detachMedia") /\ Detach(u, registry.byUser[u]) /\ registry.byUser[u] # NoSocket
      BY <1>5, <2>2 DEF JoinReplace, Previous
    <3>2. at'[u] = "detachMedia" /\ ~Idle(u)' /\ Op(u)' = Op(u) /\ closing' = closing
      BY <3>1, <1>b DEF Stages
    <3> DEFINE s == registry.byUser[u]
    <3>3. /\ registry'.byUser[u] = NoSocket
          /\ \A t \in OwnSockets(u) : registry'.bySocket[t] = NoRoom
          /\ sioRooms'[s] = sioRooms[s] \ {registry.bySocket[s]}
          /\ \A t \in Sockets \ {s} : sioRooms'[t] = sioRooms[t]
          /\ held'[u] = [socket |-> s, room |-> registry.bySocket[s]]
          /\ s \in OwnSockets(u)
          /\ registry.bySocket[s] \in Rooms
      BY <3>1, DetachOwn, OwnSession
    <3>4. StagesOK(u)' /\ MembershipOK(u)' /\ MediaOK(u)'
      BY <1>0, <1>a, <2>0, <3>2, <3>3
      DEF UserOK, StagesOK, MembershipOK, MediaOK, JoinAt, Member, Consented, Unadmitted
    <3>5. BroadcastsOK(u)'
      BY <1>0, <1>a, <2>0, <3>2, <3>3, OwnSession
      DEF UserOK, BroadcastsOK, JoiningAt, JoinAt, Entered
    <3>6. OrphansOK(u) => OrphansOK(u)'
      BY <1>0, <1>a, <2>0, <3>2, <3>3, OwnSession DEF OrphansOK, JoiningAt, JoinAt, Allocated
    <3> QED BY <3>4, <3>5, <3>6 DEF UserOK
  <2>3. CASE StillConnected(u) /\ Previous(u) = NoSocket
    <3>1. /\ Goto(u, "entered") /\ UNCHANGED registry /\ registry.byUser[u] = NoSocket
          /\ sioRooms' = [sioRooms EXCEPT ![Op(u).socket] = @ \cup {Op(u).room}]
      BY <1>5, <2>3 DEF JoinReplace, Previous
    <3>2. at'[u] = "entered" /\ ~Idle(u)' /\ Op(u)' = Op(u) /\ closing' = closing
      BY <3>1, <1>b DEF Stages
    <3>3. \A s \in OwnSockets(u), r \in Rooms :
            r \in sioRooms'[s] <=> r \in sioRooms[s] \/ (s = Op(u).socket /\ r = Op(u).room)
      BY <1>a, <3>1
    <3>4. StagesOK(u)' /\ MembershipOK(u)' /\ MediaOK(u)'
      BY <1>0, <1>a, <2>0, <3>1, <3>2
      DEF UserOK, StagesOK, MembershipOK, MediaOK, JoinAt, Member, Consented, Unadmitted
    <3>5. BroadcastsOK(u)'
      BY <1>0, <1>a, <2>0, <3>1, <3>2, <3>3
      DEF UserOK, BroadcastsOK, JoiningAt, JoinAt, Entered
    <3>6. OrphansOK(u) => OrphansOK(u)'
      BY <1>0, <1>a, <2>0, <3>1, <3>2 DEF OrphansOK, JoiningAt, JoinAt, Allocated
    <3> QED BY <3>4, <3>5, <3>6 DEF UserOK
  <2> QED BY <2>1, <2>2, <2>3
<1>6. CASE JoinReplaceCore(u)
  <2>1. /\ at[u] = "evictCore" /\ UNCHANGED <<registry, connected, sioRooms, mediaPeers, unheard>>
        /\ Goto(u, "enterRoom")
    BY <1>6 DEF JoinReplaceCore
  <2>2. at'[u] = "enterRoom" /\ ~Idle(u)' /\ Op(u)' = Op(u) /\ closing' = closing
    BY <2>1, <1>b DEF Stages
  <2>3. held[u].room # Op(u).room
    BY <1>0, <2>1 DEF UserOK, StagesOK, JoinAt
  <2>4. \A r \in Rooms : r # held[u].room => members'[r] = members[r]
    BY <1>6, <1>a DEF JoinReplaceCore, CoreMay
  <2>5. UserOK(u)'
    BY <1>0, <1>a, <2>1, <2>2, <2>3, <2>4
    DEF UserOK, StagesOK, MembershipOK, MediaOK, BroadcastsOK, JoiningAt, JoinAt, Member,
        Consented, Unadmitted, Entered, Detached
  <2>6. OrphansOK(u) => OrphansOK(u)'
    BY <1>0, <1>a, <2>1, <2>2 DEF OrphansOK, JoiningAt, JoinAt, Allocated
  <2> QED BY <2>5, <2>6
<1>7. CASE JoinEnterRoom(u)
  <2>1. /\ at[u] = "enterRoom" /\ UNCHANGED <<registry, connected, mediaPeers, members, unheard>>
        /\ Goto(u, "entered")
        /\ sioRooms' = [sioRooms EXCEPT ![Op(u).socket] = @ \cup {Op(u).room}]
    BY <1>7 DEF JoinEnterRoom
  <2>2. at'[u] = "entered" /\ ~Idle(u)' /\ Op(u)' = Op(u) /\ closing' = closing
    BY <2>1, <1>b DEF Stages
  <2>3. \A s \in OwnSockets(u), r \in Rooms :
          r \in sioRooms'[s] <=> r \in sioRooms[s] \/ (s = Op(u).socket /\ r = Op(u).room)
    BY <1>a, <2>1
  <2>4. StagesOK(u)' /\ MembershipOK(u)' /\ MediaOK(u)'
    BY <1>0, <1>a, <2>1, <2>2
    DEF UserOK, StagesOK, MembershipOK, MediaOK, JoinAt, Member, Consented, Unadmitted, Detached
  <2>5. BroadcastsOK(u)'
    BY <1>0, <1>a, <2>1, <2>2, <2>3 DEF UserOK, BroadcastsOK, JoiningAt, JoinAt, Entered
  <2>6. OrphansOK(u) => OrphansOK(u)'
    BY <1>0, <1>a, <2>1, <2>2 DEF OrphansOK, JoiningAt, JoinAt, Allocated
  <2> QED BY <2>4, <2>5, <2>6 DEF UserOK
<1>8. CASE JoinAdmit(u)
  <2>0. at[u] = "entered" /\ UNCHANGED <<connected, sioRooms, mediaPeers, members, unheard>>
    BY <1>8 DEF JoinAdmit
  <2>1. CASE MayAdmit(u)
    <3>1. /\ registry' = Add(registry, Op(u).socket, Op(u).room) /\ Return(u)
          /\ Op(u).socket \in mediaPeers[Op(u).room]
      BY <1>8, <2>1 DEF JoinAdmit, MayAdmit
    <3>2. at'[u] = "start" /\ \A r \in Rooms : closing[r] # "open" => closing'[r] # "open"
      BY <3>1, <1>c
    <3>3. /\ registry'.byUser[u] = Op(u).socket
          /\ registry'.bySocket[Op(u).socket] = Op(u).room
          /\ \A s \in OwnSockets(u) \ {Op(u).socket} : registry'.bySocket[s] = registry.bySocket[s]
      BY <1>a, <3>1 DEF Add, Registries
    <3>4. \A s \in OwnSockets(u) : registry.bySocket[s] = NoRoom
      BY <1>a, <2>0, OwnSession DEF Detached
    <3>5. StagesOK(u)' /\ MembershipOK(u)' /\ MediaOK(u)'
      BY <1>0, <1>a, <2>0, <3>1, <3>2, <3>3, <3>4
      DEF UserOK, StagesOK, MembershipOK, MediaOK, JoinAt, Member, Consented, Unadmitted
    <3>6. BroadcastsOK(u)'
      BY <1>0, <1>a, <2>0, <3>2, <3>3, <3>4 DEF UserOK, BroadcastsOK, JoiningAt, JoinAt, Entered
    <3>7. OrphansOK(u) => OrphansOK(u)'
      BY <1>0, <1>a, <2>0, <3>2, <3>3, <3>4 DEF OrphansOK, JoiningAt, JoinAt, Allocated
    <3> QED BY <3>5, <3>6, <3>7 DEF UserOK
  <2>2. CASE ~MayAdmit(u)
    <3>1. Goto(u, "rollback") /\ UNCHANGED registry
      BY <1>8, <2>2 DEF JoinAdmit
    <3>2. at'[u] = "rollback" /\ ~Idle(u)' /\ Op(u)' = Op(u) /\ closing' = closing
      BY <3>1, <1>b DEF Stages
    <3>3. UserOK(u)'
      BY <1>0, <1>a, <2>0, <3>1, <3>2
      DEF UserOK, StagesOK, MembershipOK, MediaOK, BroadcastsOK, JoiningAt, JoinAt, Member,
          Consented, Unadmitted, Entered, Detached
    <3>4. OrphansOK(u) => OrphansOK(u)'
      BY <1>0, <1>a, <2>0, <3>1, <3>2 DEF OrphansOK, JoiningAt, JoinAt, Allocated
    <3> QED BY <3>3, <3>4
  <2> QED BY <2>1, <2>2
<1>9. CASE JoinRollback(u)
  <2>1. /\ at[u] = "rollback" /\ UNCHANGED <<registry, connected, sioRooms, members, unheard>>
        /\ Goto(u, "rollbackRoom")
        /\ mediaPeers' = [mediaPeers EXCEPT ![Op(u).room] = @ \ {Op(u).socket}]
    BY <1>9 DEF JoinRollback, WithoutMedia
  <2>2. at'[u] = "rollbackRoom" /\ ~Idle(u)' /\ Op(u)' = Op(u) /\ closing' = closing
    BY <2>1, <1>b DEF Stages
  <2>3. \A s \in OwnSockets(u), r \in Rooms :
          s \in mediaPeers'[r] <=> s \in mediaPeers[r] /\ ~(s = Op(u).socket /\ r = Op(u).room)
    BY <1>a, <2>1
  <2>4. UserOK(u)'
    BY <1>0, <1>a, <2>1, <2>2, <2>3, OwnSession
    DEF UserOK, StagesOK, MembershipOK, MediaOK, BroadcastsOK, JoiningAt, JoinAt, Member,
        Consented, Unadmitted, Entered
  <2>5. OrphansOK(u) => OrphansOK(u)'
    BY <1>0, <1>a, <2>1, <2>2, <2>3 DEF OrphansOK, JoiningAt, JoinAt, Allocated
  <2> QED BY <2>4, <2>5
<1>10. CASE JoinRollbackRoom(u)
  <2>1. /\ at[u] = "rollbackRoom" /\ UNCHANGED <<registry, connected, mediaPeers, members, unheard>>
        /\ Goto(u, "failed")
        /\ sioRooms' = [sioRooms EXCEPT ![Op(u).socket] = @ \ {Op(u).room}]
    BY <1>10 DEF JoinRollbackRoom, LeaveSioRoom
  <2>2. at'[u] = "failed" /\ ~Idle(u)' /\ Op(u)' = Op(u) /\ closing' = closing
    BY <2>1, <1>b DEF Stages
  <2>3. \A s \in OwnSockets(u), r \in Rooms :
          r \in sioRooms'[s] <=> r \in sioRooms[s] /\ ~(s = Op(u).socket /\ r = Op(u).room)
    BY <1>a, <2>1
  <2>4. UserOK(u)'
    BY <1>0, <1>a, <2>1, <2>2, <2>3, OwnSession
    DEF UserOK, StagesOK, MembershipOK, MediaOK, BroadcastsOK, JoiningAt, JoinAt, Member,
        Consented, Unadmitted, Entered
  <2>5. OrphansOK(u) => OrphansOK(u)'
    BY <1>0, <1>a, <2>1, <2>2 DEF OrphansOK, JoiningAt, JoinAt, Allocated
  <2> QED BY <2>4, <2>5
<1>11. CASE JoinFail(u)
  <2>1. at[u] = "failed" /\ Same
    BY <1>11 DEF JoinFail
  <2>2. /\ at'[u] = "start" \/ (at'[u] = "coreLeave" /\ registry.byUser[u] = NoSocket)
        /\ \A r \in Rooms : closing[r] # "open" => closing'[r] # "open"
    BY <1>11, <1>b, <1>c DEF JoinFail, MustLeaveCore, Stages
  <2>3. UserOK(u)'
    BY <1>0, <1>a, <2>1, <2>2, OwnSession
    DEF UserOK, StagesOK, MembershipOK, MediaOK, BroadcastsOK, JoiningAt, JoinAt, Member,
        Consented, Unadmitted, Entered
  <2>4. OrphansOK(u) => OrphansOK(u)'
    BY <1>0, <1>a, <2>1, <2>2 DEF OrphansOK, JoiningAt, JoinAt, Allocated
  <2> QED BY <2>3, <2>4
<1> QED BY <1>1, <1>2, <1>3, <1>4, <1>5, <1>6, <1>7, <1>8, <1>9, <1>10, <1>11 DEF Join

\* The same of the other operations.
LEMMA LeaveKeeps ==
  ASSUME SessionsInv, NEW u \in Users, UserOK(u), Step(u), ~Join(u)
  PROVE  UserOK(u)' /\ (OrphansOK(u) => OrphansOK(u)')
<1> USE DEF session, environment, InProgress, Running
<1>0. ~Idle(u)
  BY DEF Step, LeaveBegin, DetachMedia, CoreLeave, RestJoin, RestLeave
<1>a. /\ Op(u).kind = "join" =>
           Op(u).socket \in OwnSockets(u) /\ Op(u).socket \in Sockets /\ Op(u).room \in Rooms
      /\ Op(u).kind \in RestKinds => Op(u).room \in Rooms
      /\ OwnSockets(u) \subseteq Sockets /\ OwnSockets(u)' = OwnSockets(u)
      /\ held[u].room \in Rooms \cup {NoRoom}
      /\ sioRooms \in [Sockets -> SUBSET Rooms] /\ mediaPeers \in [Rooms -> SUBSET Sockets]
      /\ members \in [Rooms -> SUBSET Users] /\ unheard \in [Rooms -> SUBSET Users]
      /\ registry \in Registries /\ NoRoom \notin Rooms /\ NoSocket \notin Sockets
  BY <1>0, JoinNames, NoRoomAssumption, NoSocketAssumption DEF SessionsInv, TypeOK, OwnSockets
<1>b. ASSUME NEW stage \in Stages, Goto(u, stage)
      PROVE  /\ at'[u] = stage /\ ~Idle(u)' /\ Op(u)' = Op(u) /\ closing' = closing
  BY <1>0, <1>b, Going
<1>c. ASSUME Return(u)
      PROVE  at'[u] = "start" /\ \A r \in Rooms : closing[r] # "open" => closing'[r] # "open"
  BY <1>0, <1>c, Going
<1>1. CASE LeaveBegin(u)
  <2>0. /\ UNCHANGED <<connected, mediaPeers, members, unheard>>
        /\ at[u] = "start" \/ (at[u] = "left" /\ Op(u).kind = "restLeave")
        /\ Op(u).kind # "join"
    BY <1>1 DEF LeaveBegin
  <2>1. CASE Subject(u) = NoSocket
    <3>1. Return(u) /\ UNCHANGED <<registry, sioRooms>>
      BY <1>1, <2>1 DEF LeaveBegin
    <3>2. at'[u] = "start" /\ \A r \in Rooms : closing[r] # "open" => closing'[r] # "open"
      BY <3>1, <1>c
    <3>3. Op(u).kind = "restLeave" /\ registry.byUser[u] # NoSocket =>
            registry.bySocket[registry.byUser[u]] # Op(u).room
      BY <1>0, <2>0, <2>1, SubjectIsSession DEF RestKinds
    <3>4. UserOK(u)'
      BY <1>a, <2>0, <3>1, <3>2, <3>3, OwnSession
      DEF UserOK, StagesOK, MembershipOK, MediaOK, BroadcastsOK, JoiningAt, JoinAt, Member,
          Consented, Unadmitted, Entered
    <3>5. OrphansOK(u) => OrphansOK(u)'
      BY <1>a, <2>0, <3>1, <3>2 DEF OrphansOK, JoiningAt, JoinAt, Allocated
    <3> QED BY <3>4, <3>5
  <2>2. CASE Subject(u) # NoSocket
    <3>1. Goto(u, "detachMedia") /\ Detach(u, registry.byUser[u]) /\ registry.byUser[u] # NoSocket
      <4>1. Subject(u) = registry.byUser[u]
        BY <1>0, <2>0, <2>2, SubjectIsSession
      <4> QED BY <1>1, <2>2, <4>1 DEF LeaveBegin
    <3>2. at'[u] = "detachMedia" /\ ~Idle(u)' /\ Op(u)' = Op(u) /\ closing' = closing
      BY <3>1, <1>b DEF Stages
    <3> DEFINE s == registry.byUser[u]
    <3>3. /\ registry'.byUser[u] = NoSocket
          /\ \A t \in OwnSockets(u) : registry'.bySocket[t] = NoRoom
          /\ sioRooms'[s] = sioRooms[s] \ {registry.bySocket[s]}
          /\ \A t \in Sockets \ {s} : sioRooms'[t] = sioRooms[t]
          /\ held'[u] = [socket |-> s, room |-> registry.bySocket[s]]
          /\ s \in OwnSockets(u)
          /\ registry.bySocket[s] \in Rooms
      BY <3>1, DetachOwn, OwnSession
    <3>4. StagesOK(u)' /\ MembershipOK(u)' /\ MediaOK(u)'
      BY <1>0, <1>a, <2>0, <3>2, <3>3
      DEF UserOK, StagesOK, MembershipOK, MediaOK, JoinAt, Member, Consented, Unadmitted
    <3>5. BroadcastsOK(u)'
      BY <1>0, <1>a, <2>0, <3>2, <3>3, OwnSession
      DEF UserOK, BroadcastsOK, JoiningAt, JoinAt, Entered
    <3>6. OrphansOK(u) => OrphansOK(u)'
      BY <1>0, <1>a, <2>0, <3>2, <3>3, OwnSession DEF OrphansOK, JoiningAt, JoinAt, Allocated
    <3> QED BY <3>4, <3>5, <3>6 DEF UserOK
  <2> QED BY <2>1, <2>2
<1>2. CASE DetachMedia(u)
  <2>1. /\ at[u] = "detachMedia" /\ UNCHANGED <<registry, held, connected, sioRooms, members, unheard>>
        /\ mediaPeers' = [mediaPeers EXCEPT ![held[u].room] = @ \ {held[u].socket}]
    BY <1>2 DEF DetachMedia
  <2>2. registry.byUser[u] = NoSocket /\ held[u].socket \in OwnSockets(u)
    BY <1>0, <2>1 DEF UserOK, StagesOK
  <2>3. /\ \/ at'[u] = "start" /\ Op(u).kind # "join"
           \/ at'[u] = "coreLeave" /\ Op(u).kind # "join" /\ Op(u)' = Op(u) /\ ~Idle(u)'
           \/ at'[u] = "enterRoom" /\ Op(u)' = Op(u) /\ ~Idle(u)'
           \/ at'[u] = "evictCore" /\ Op(u)' = Op(u) /\ ~Idle(u)' /\ held[u].room # Op(u).room
        /\ \A r \in Rooms : closing[r] # "open" => closing'[r] # "open"
    BY <1>2, <1>b, <1>c DEF DetachMedia, AfterReplacing, Stages
  <2>4. \A s \in OwnSockets(u) : registry.bySocket[s] = NoRoom
    BY <2>2, OwnSession
  <2>5. \A s \in OwnSockets(u), r \in Rooms :
          s \in mediaPeers'[r] <=> s \in mediaPeers[r] /\ ~(s = held[u].socket /\ r = held[u].room)
    BY <1>a, <2>1
  <2>6. StagesOK(u)' /\ MembershipOK(u)' /\ MediaOK(u)'
    BY <1>0, <1>a, <2>1, <2>2, <2>3, <2>4
    DEF UserOK, StagesOK, MembershipOK, MediaOK, JoinAt, Member, Consented, Unadmitted
  <2>7. BroadcastsOK(u)'
    BY <1>0, <1>a, <2>1, <2>3, <2>4 DEF UserOK, BroadcastsOK, JoiningAt, JoinAt, Entered
  <2>8. OrphansOK(u) => OrphansOK(u)'
    BY <1>0, <1>a, <2>1, <2>3, <2>4, <2>5 DEF OrphansOK, JoiningAt, JoinAt, Allocated
  <2> QED BY <2>6, <2>7, <2>8 DEF UserOK
<1>3. CASE CoreLeave(u)
  <2>1. /\ at[u] = "coreLeave" /\ UNCHANGED <<registry, held, connected, sioRooms, mediaPeers>>
        /\ at'[u] = "start"
    BY <1>3, <1>c DEF CoreLeave
  <2>2. registry.byUser[u] = NoSocket
    BY <1>0, <2>1 DEF UserOK, StagesOK
  <2>3. UserOK(u)'
    BY <1>a, <2>1, <2>2
    DEF UserOK, StagesOK, MembershipOK, MediaOK, BroadcastsOK, JoiningAt, JoinAt, Member,
        Consented, Unadmitted, Entered
  <2>4. OrphansOK(u) => OrphansOK(u)'
    BY <1>a, <2>1 DEF OrphansOK, JoiningAt, JoinAt, Allocated
  <2> QED BY <2>3, <2>4
<1>4. CASE RestJoin(u) \/ RestLeave(u)
  <2>1. /\ at[u] = "start" /\ UNCHANGED <<registry, held, connected, sioRooms, mediaPeers>>
        /\ Op(u).kind \in RestKinds
    BY <1>4 DEF RestJoin, RestLeave, RestKinds
  <2>2. /\ at'[u] \in {"start", "left"}
        /\ \A r \in Rooms : closing[r] # "open" => closing'[r] # "open"
    BY <1>4, <1>b, <1>c DEF RestJoin, RestLeave, Stages
  <2>3. \A r \in Rooms : u \in members[r] \/ u \in unheard[r] =>
          \/ u \in members'[r] \/ u \in unheard'[r]
          \/ at'[u] = "left" /\ ~Idle(u)' /\ Op(u)' = Op(u) /\ Op(u).kind = "restLeave" /\ Op(u).room = r
    BY <1>4, <1>a, <1>b, <2>1 DEF RestJoin, RestLeave, CoreJoins, CoreLeaves, Stages
  <2>4. UserOK(u)'
    BY <1>a, <2>1, <2>2, <2>3, OwnSession
    DEF UserOK, StagesOK, MembershipOK, MediaOK, BroadcastsOK, JoiningAt, JoinAt, Member,
        Consented, Unadmitted, Entered
  <2>5. OrphansOK(u) => OrphansOK(u)'
    BY <1>a, <2>1, <2>2 DEF OrphansOK, JoiningAt, JoinAt, Allocated
  <2> QED BY <2>4, <2>5
<1> QED BY <1>1, <1>2, <1>3, <1>4 DEF Step

----------------------------------------------------------------------------
(* Deletions                                                               *)

\* A room's deletion is where it was if no operation of it is added, and the room gains
\* no participant.
LEMMA EvictionFrame ==
  ASSUME NEW r \in Rooms, EvictionOK(r), NEW k \in [Users -> Nat],
         closing'[r] = closing[r], toEvict'[r] = toEvict[r], deleted \subseteq deleted',
         r \in deleted => registry'.members[r] \subseteq registry.members[r],
         \A v \in Users : \A i \in 1 .. Len(queue'[v]) :
           Evicts(v, i, r)' => /\ i + k[v] \in 1 .. Len(queue[v])
                               /\ queue'[v][i] = queue[v][i + k[v]]
  PROVE  EvictionOK(r)'
<1> USE DEF EvictionOK, Evicts
<1>1. ASSUME NEW v \in Users, NEW i \in 1 .. Len(queue'[v]), Evicts(v, i, r)'
      PROVE  /\ i + k[v] \in 1 .. Len(queue[v]) /\ Evicts(v, i + k[v], r)
             /\ queue'[v][i] = queue[v][i + k[v]]
  BY <1>1
<1>2. \A v \in Users : \A i \in 1 .. Len(queue'[v]) :
        Evicts(v, i, r)' =>
          /\ closing'[r] = "evicting"
          /\ registry'.members[r] \subseteq toEvict'[r] \cup {queue'[v][i].socket}
  <2> SUFFICES ASSUME NEW v \in Users, NEW i \in 1 .. Len(queue'[v]), Evicts(v, i, r)'
               PROVE  /\ closing'[r] = "evicting"
                      /\ registry'.members[r] \subseteq toEvict'[r] \cup {queue'[v][i].socket}
    OBVIOUS
  <2>1. /\ closing[r] = "evicting"
        /\ registry.members[r] \subseteq toEvict[r] \cup {queue[v][i + k[v]].socket}
        /\ queue'[v][i] = queue[v][i + k[v]]
    BY <1>1
  <2>2. r \in deleted
    BY <2>1
  <2> QED BY <2>1, <2>2
<1>3. \A u, v \in Users : \A i \in 1 .. Len(queue'[u]), j \in 1 .. Len(queue'[v]) :
        Evicts(u, i, r)' /\ Evicts(v, j, r)' => u = v /\ i = j
  <2> SUFFICES ASSUME NEW u \in Users, NEW v \in Users,
                      NEW i \in 1 .. Len(queue'[u]), NEW j \in 1 .. Len(queue'[v]),
                      Evicts(u, i, r)', Evicts(v, j, r)'
               PROVE  u = v /\ i = j
    OBVIOUS
  <2>1. /\ i + k[u] \in 1 .. Len(queue[u]) /\ Evicts(u, i + k[u], r)
        /\ j + k[v] \in 1 .. Len(queue[v]) /\ Evicts(v, j + k[v], r)
    BY <1>1
  <2>2. u = v /\ i + k[u] = j + k[v]
    BY <2>1
  <2>3. i \in Nat /\ j \in Nat /\ k[u] \in Nat
    OBVIOUS
  <2> QED BY <2>2, <2>3
<1> QED BY <1>2, <1>3

\* What an operation does to the deletions: the one it belongs to may go on, when the
\* participant is gone.
LEMMA StepEviction ==
  ASSUME AgreeInv, NEW u \in Users, Step(u), NEW r \in Rooms
  PROVE  EvictionOK(r)'
<1> USE DEF session, environment, InProgress, Running
<1>0. ~Idle(u)
  BY DEF Step, Join, JoinBegin, JoinAuthorize, JoinAttach, JoinMedia, JoinReplace, JoinReplaceCore,
         JoinEnterRoom, JoinAdmit, JoinRollback, JoinRollbackRoom, JoinFail, LeaveBegin, DetachMedia,
         CoreLeave, RestJoin, RestLeave
<1>1. /\ Return(u) \/ UNCHANGED <<queue, closing>>
      /\ toEvict' = toEvict /\ deleted' = deleted
  BY DEF Step, Join, JoinBegin, JoinAuthorize, JoinAttach, JoinMedia, JoinReplace, JoinReplaceCore,
         JoinEnterRoom, JoinAdmit, JoinRollback, JoinRollbackRoom, JoinFail, LeaveBegin, DetachMedia,
         CoreLeave, RestJoin, RestLeave, Goto
<1>2. r \in deleted => registry'.members[r] \subseteq registry.members[r]
  BY DeletedMembersShrink DEF AgreeInv, Next
<1>3. EvictionOK(r)
  BY DEF AgreeInv
<1>4. CASE UNCHANGED <<queue, closing>>
  <2> DEFINE k == [v \in Users |-> 0]
  <2>1. \A v \in Users : \A i \in 1 .. Len(queue'[v]) :
          i + k[v] \in 1 .. Len(queue[v]) /\ queue'[v][i] = queue[v][i + k[v]]
    BY <1>4
  <2>2. k \in [Users -> Nat]
    OBVIOUS
  <2> QED BY <1>1, <1>2, <1>3, <1>4, <2>1, <2>2, EvictionFrame
<1>5. CASE Return(u)
  <2>1. /\ queue \in [Users -> Seq(Operations)] /\ closing \in [Rooms -> ClosingStages]
        /\ queue[u] # <<>>
    BY <1>0 DEF AgreeInv, SessionsInv, TypeOK, Idle
  <2>2. /\ \A v \in Users \ {u} : queue'[v] = queue[v]
        /\ queue'[u] = Tail(queue[u])
    BY <1>5, <2>1 DEF Return
  <2> DEFINE k == [v \in Users |-> IF v = u THEN 1 ELSE 0]
  <2>3. \A v \in Users : \A i \in 1 .. Len(queue'[v]) :
          i + k[v] \in 1 .. Len(queue[v]) /\ queue'[v][i] = queue[v][i + k[v]]
    <3>1. \A i \in 1 .. Len(queue'[u]) :
            i + 1 \in 1 .. Len(queue[u]) /\ queue'[u][i] = queue[u][i + 1]
      BY <2>1, <2>2
    <3>2. \A v \in Users \ {u} : \A i \in 1 .. Len(queue'[v]) :
            i + 0 \in 1 .. Len(queue[v]) /\ queue'[v][i] = queue[v][i + 0]
      BY <2>2
    <3> QED BY <3>1, <3>2
  <2>4. k \in [Users -> Nat]
    OBVIOUS
  <2>5. CASE ~(Op(u).kind = "evict" /\ Op(u).room = r)
    <3>1. closing'[r] = closing[r]
      BY <1>5, <2>1, <2>5 DEF Return
    <3> QED BY <1>1, <1>2, <1>3, <2>3, <2>4, <3>1, EvictionFrame
  <2>6. CASE Op(u).kind = "evict" /\ Op(u).room = r
    <3>1. closing'[r] = "evicted"
      BY <1>5, <2>1, <2>6 DEF Return
    <3>2. 1 \in 1 .. Len(queue[u]) /\ Evicts(u, 1, r) /\ queue[u][1] = Op(u)
      BY <2>1, <2>6 DEF Evicts, Op
    <3>3. /\ closing[r] = "evicting" /\ r \in deleted
          /\ registry.members[r] \subseteq toEvict[r] \cup {Op(u).socket}
      BY <1>3, <3>2 DEF EvictionOK
    <3>4. Op(u).socket \in OwnSockets(u)
      BY <1>0, <2>6, OpInQueue DEF AgreeInv, SessionsInv, OperationsOf, Operations, OwnSockets, RestKinds
    <3>5. Op(u).socket \notin registry.members[r]
      <4>1. registry.bySocket[Op(u).socket] # r
        <5>1. CASE LeaveBegin(u)
          <6>1. Subject(u) = NoSocket
            <7>1. Goto(u, "detachMedia") => queue' = queue
              BY DEF Goto
            <7>2. Len(queue'[u]) # Len(queue[u])
              BY <2>1, <2>2
            <7> QED BY <5>1, <7>1, <7>2 DEF LeaveBegin
          <6> QED BY <1>0, <2>6, <6>1, SubjectIsSession DEF AgreeInv
        <5>2. CASE DetachMedia(u) \/ CoreLeave(u)
          <6>1. registry.byUser[u] = NoSocket
            BY <1>0, <5>2 DEF AgreeInv, UserOK, StagesOK, DetachMedia, CoreLeave
          <6> QED BY <3>4, <6>1, OwnSession, NoRoomAssumption DEF AgreeInv
        <5> QED BY <2>6, <5>1, <5>2
            DEF Step, Join, JoinBegin, JoinAuthorize, JoinAttach, JoinMedia, JoinReplace,
                JoinReplaceCore, JoinEnterRoom, JoinAdmit, JoinRollback, JoinRollbackRoom, JoinFail,
                RestJoin, RestLeave
      <4> QED BY <3>4, <4>1 DEF AgreeInv, SessionsInv, SessionsConsistent, Consistent, OwnSockets
    <3>6. ASSUME NEW v \in Users, NEW i \in 1 .. Len(queue'[v]), Evicts(v, i, r)' PROVE FALSE
      <4>1. i + k[v] \in 1 .. Len(queue[v]) /\ Evicts(v, i + k[v], r)
        BY <2>3, <3>6 DEF Evicts
      <4>2. v = u /\ i + k[v] = 1
        BY <1>3, <3>2, <4>1 DEF EvictionOK
      <4> QED BY <4>2
    <3> QED BY <1>1, <1>2, <3>1, <3>3, <3>5, <3>6 DEF EvictionOK
  <2> QED BY <2>5, <2>6
<1> QED BY <1>1, <1>4, <1>5

\* An operation that is queued leaves those before it where they are.
LEMMA EnqueueKeeps ==
  ASSUME SessionsInv, NEW op \in Operations, op \in OperationsOf(op.user), Enqueue(op)
  PROVE  /\ \A v \in Users : at[v] = "start" \/ ((Idle(v)' <=> Idle(v)) /\ Op(v)' = Op(v))
         /\ \A v \in Users : \A i \in 1 .. Len(queue'[v]) :
              \/ i \in 1 .. Len(queue[v]) /\ queue'[v][i] = queue[v][i]
              \/ v = op.user /\ i = Len(queue[v]) + 1 /\ queue'[v][i] = op
<1>1. /\ queue \in [Users -> Seq(Operations)] /\ op.user \in Users
      /\ \A v \in Users : Idle(v) => at[v] = "start"
  BY DEF SessionsInv, TypeOK, JoinsExclusive, Operations
<1>2. /\ \A v \in Users \ {op.user} : queue'[v] = queue[v]
      /\ queue'[op.user] = Append(queue[op.user], op)
  BY <1>1 DEF Enqueue
<1>3. ASSUME NEW v \in Users
      PROVE  at[v] = "start" \/ ((Idle(v)' <=> Idle(v)) /\ Op(v)' = Op(v))
  <2>1. CASE v = op.user /\ ~Idle(v)
    <3>1. queue'[v] # <<>> /\ Head(queue'[v]) = Head(queue[v])
      BY <1>1, <1>2, <2>1 DEF Idle
    <3> QED BY <2>1, <3>1 DEF Idle, Op
  <2>2. CASE v # op.user \/ Idle(v)
    BY <1>1, <1>2, <2>2 DEF Idle, Op
  <2> QED BY <2>1, <2>2
<1>4. ASSUME NEW v \in Users, NEW i \in 1 .. Len(queue'[v])
      PROVE  \/ i \in 1 .. Len(queue[v]) /\ queue'[v][i] = queue[v][i]
             \/ v = op.user /\ i = Len(queue[v]) + 1 /\ queue'[v][i] = op
  <2>1. CASE v = op.user
    <3>1. Len(queue'[v]) = Len(queue[v]) + 1
      BY <1>1, <1>2, <2>1
    <3> QED BY <1>1, <1>2, <1>4, <2>1, <3>1
  <2>2. CASE v # op.user
    BY <1>2, <1>4, <2>2
  <2> QED BY <2>1, <2>2
<1> QED BY <1>3, <1>4

\* The operations that closeRoom and the gateway queue themselves.
LEMMA OwnOperations ==
  ASSUME NEW s \in Sockets
  PROVE  /\ \A r \in Rooms :
              LET op == [kind |-> "evict", user |-> Owner[s], socket |-> s, room |-> r]
              IN  op \in Operations /\ op \in OperationsOf(op.user)
         /\ LET op == [kind |-> "disconnect", user |-> Owner[s], socket |-> s, room |-> NoRoom]
            IN  op \in Operations /\ op \in OperationsOf(op.user)
BY OwnerAssumption, NoSocketAssumption, NoRoomAssumption
DEF OperationsOf, Operations, Kinds, RestKinds, SocketKinds

LEMMA RequestOperations ==
  ASSUME NEW op \in Requests
  PROVE  op \in Operations /\ op \in OperationsOf(op.user) /\ op.kind # "evict"
BY RequestsAssumption DEF OperationsOf, SocketKinds, RestKinds

\* closeRoom's loop does with the queues and the deletion of its room what it says.
LEMMA EvictNextEffect ==
  ASSUME SessionsInv, NEW r \in Rooms, NEW todo \in SUBSET Sockets, EvictNext(r, todo)
  PROVE  /\ \A q \in Rooms \ {r} : closing'[q] = closing[q] /\ toEvict'[q] = toEvict[q]
         /\ \A v \in Users : at[v] = "start" \/ ((Idle(v)' <=> Idle(v)) /\ Op(v)' = Op(v))
         /\ \/ todo = {} /\ closing'[r] = "closeMedia" /\ queue' = queue
            \/ \E s \in todo :
                 /\ closing'[r] = "evicting" /\ toEvict'[r] = todo \ {s}
                 /\ \A v \in Users : \A i \in 1 .. Len(queue'[v]) :
                      \/ i \in 1 .. Len(queue[v]) /\ queue'[v][i] = queue[v][i]
                      \/ /\ v = Owner[s] /\ i = Len(queue[v]) + 1
                         /\ queue'[v][i].kind = "evict" /\ queue'[v][i].room = r
                         /\ queue'[v][i].socket = s
<1>1. closing \in [Rooms -> ClosingStages] /\ toEvict \in [Rooms -> SUBSET Sockets]
  BY DEF SessionsInv, TypeOK
<1>2. CASE todo = {} /\ closing' = [closing EXCEPT ![r] = "closeMedia"] /\ UNCHANGED <<queue, toEvict>>
  BY <1>1, <1>2 DEF Idle, Op
<1>3. ASSUME NEW s \in todo,
             Enqueue([kind |-> "evict", user |-> Owner[s], socket |-> s, room |-> r]),
             toEvict' = [toEvict EXCEPT ![r] = todo \ {s}],
             closing' = [closing EXCEPT ![r] = "evicting"]
      PROVE  /\ \A q \in Rooms \ {r} : closing'[q] = closing[q] /\ toEvict'[q] = toEvict[q]
             /\ \A v \in Users : at[v] = "start" \/ ((Idle(v)' <=> Idle(v)) /\ Op(v)' = Op(v))
             /\ closing'[r] = "evicting" /\ toEvict'[r] = todo \ {s}
             /\ \A v \in Users : \A i \in 1 .. Len(queue'[v]) :
                  \/ i \in 1 .. Len(queue[v]) /\ queue'[v][i] = queue[v][i]
                  \/ /\ v = Owner[s] /\ i = Len(queue[v]) + 1
                     /\ queue'[v][i].kind = "evict" /\ queue'[v][i].room = r
                     /\ queue'[v][i].socket = s
  <2> DEFINE op == [kind |-> "evict", user |-> Owner[s], socket |-> s, room |-> r]
  <2>1. op \in Operations /\ op \in OperationsOf(op.user) /\ Enqueue(op)
    BY <1>3, OwnOperations
  <2>2. op.user = Owner[s] /\ op.kind = "evict" /\ op.room = r /\ op.socket = s
    OBVIOUS
  <2> HIDE DEF op
  <2>3. /\ \A v \in Users : at[v] = "start" \/ ((Idle(v)' <=> Idle(v)) /\ Op(v)' = Op(v))
        /\ \A v \in Users : \A i \in 1 .. Len(queue'[v]) :
             \/ i \in 1 .. Len(queue[v]) /\ queue'[v][i] = queue[v][i]
             \/ v = op.user /\ i = Len(queue[v]) + 1 /\ queue'[v][i] = op
    BY <2>1, EnqueueKeeps
  <2> QED BY <1>1, <1>3, <2>2, <2>3
<1> QED BY <1>2, <1>3 DEF EvictNext

\* What comes from outside the users' operations touches nobody's session; only a lost
\* worker takes participants away.
LEMMA OutsideUntouched ==
  ASSUME AgreeInv, NEW v \in Users,
         \/ \E r \in Rooms : CoreDelete(r) \/ Deletion(r)
         \/ \E op \in Requests : Request(op)
         \/ \E s \in Sockets : Disconnect(s)
         \/ \E u \in Users, r \in Rooms : MeetingJoin(u, r)
  PROVE  Untouched(v)
<1> USE DEF session, AgreeInv
<1>1. /\ members \in [Rooms -> SUBSET Users] /\ unheard \in [Rooms -> SUBSET Users]
      /\ mediaPeers \in [Rooms -> SUBSET Sockets]
      /\ sioRooms \in [Sockets -> SUBSET Rooms] /\ closing \in [Rooms -> ClosingStages]
      /\ toEvict \in [Rooms -> SUBSET Sockets] /\ registry \in Registries
      /\ OwnSockets(v) \subseteq Sockets
  BY DEF SessionsInv, TypeOK, OwnSockets
<1>2. ASSUME NEW r \in Rooms, CoreDelete(r) PROVE Untouched(v)
  BY <1>1, <1>2 DEF CoreDelete, Untouched, Member, Idle, Op
<1>3. ASSUME NEW r \in Rooms, NEW todo \in SUBSET Sockets, EvictNext(r, todo), closing[r] # "open",
             UNCHANGED <<session, mediaPeers, members, unheard, connected, at>>
      PROVE  Untouched(v)
  <2>1. /\ \A q \in Rooms \ {r} : closing'[q] = closing[q]
        /\ at[v] = "start" \/ ((Idle(v)' <=> Idle(v)) /\ Op(v)' = Op(v))
        /\ closing'[r] # "open"
    BY <1>3, EvictNextEffect
  <2> QED BY <1>3, <2>1 DEF Untouched, Member
<1>4. ASSUME NEW r \in Rooms, CloseRoom(r) PROVE Untouched(v)
  BY <1>1, <1>3, <1>4 DEF CloseRoom, Registries
<1>5. ASSUME NEW r \in Rooms, CloseRoomNext(r) PROVE Untouched(v)
  BY <1>1, <1>3, <1>5 DEF CloseRoomNext
<1>6. ASSUME NEW r \in Rooms, CloseRoomMedia(r) PROVE Untouched(v)
  <2>1. \A s \in Sockets : registry.bySocket[s] # r
    BY <1>6 DEF CloseRoomMedia, EvictionOK, SessionsInv, SessionsConsistent, Consistent
  <2> QED BY <1>1, <1>6, <2>1 DEF CloseRoomMedia, Untouched, Member, Idle, Op
<1>7. ASSUME NEW op \in Requests, Request(op) PROVE Untouched(v)
  <2>1. at[v] = "start" \/ ((Idle(v)' <=> Idle(v)) /\ Op(v)' = Op(v))
    BY <1>7, RequestOperations, EnqueueKeeps DEF Request
  <2> QED BY <1>7, <2>1 DEF Request, Untouched, Member
<1>8. ASSUME NEW s \in Sockets, Disconnect(s) PROVE Untouched(v)
  <2>1. at[v] = "start" \/ ((Idle(v)' <=> Idle(v)) /\ Op(v)' = Op(v))
    BY <1>8, OwnOperations, EnqueueKeeps DEF Disconnect
  <2> QED BY <1>1, <1>8, <2>1 DEF Disconnect, Untouched, Member
<1>9. ASSUME NEW u \in Users, NEW r \in Rooms, MeetingJoin(u, r) PROVE Untouched(v)
  BY <1>1, <1>9 DEF MeetingJoin, CoreJoins, Untouched, Member, Idle, Op
<1> QED BY <1>2, <1>4, <1>5, <1>6, <1>7, <1>8, <1>9 DEF Deletion

\* A lost worker takes a room's participants out of the registry and of the Socket.IO
\* room as it takes their media.
LEMMA RouterCloseKeeps ==
  ASSUME SessionsInv, NEW r \in Rooms, RouterClose(r), NEW v \in Users, UserOK(v)
  PROVE  UserOK(v)'
<1> USE DEF InProgress, Running
<1>1. /\ UNCHANGED <<at, queue, held, members, unheard, closing, connected>>
      /\ registry' = RemoveRoom(registry, r)
      /\ registry \in Registries /\ Consistent(registry)
      /\ clients = {s \in Sockets : registry.bySocket[s] # NoRoom}
      /\ mediaPeers \in [Rooms -> SUBSET Sockets] /\ sioRooms \in [Sockets -> SUBSET Rooms]
      /\ NoRoom \notin Rooms /\ NoSocket \notin Sockets
  BY NoRoomAssumption, NoSocketAssumption
  DEF RouterClose, SessionsInv, TypeOK, SessionsConsistent
<1>2. \A s \in Sockets :
        registry'.bySocket[s] = IF registry.bySocket[s] = r THEN NoRoom ELSE registry.bySocket[s]
  BY <1>1 DEF RemoveRoom, Consistent
<1>3. /\ registry'.byUser[v] \in {registry.byUser[v], NoSocket}
      /\ registry'.byUser[v] # NoSocket => registry.bySocket[registry.byUser[v]] # r
  BY <1>1 DEF RemoveRoom, Consistent, Registries
<1>4. \A s \in Sockets :
        sioRooms'[s] = IF registry.bySocket[s] = r THEN sioRooms[s] \ {r} ELSE sioRooms[s]
  BY <1>1 DEF RouterClose, Consistent
<1>5. \A q \in Rooms \ {r} : mediaPeers'[q] = mediaPeers[q]
  BY <1>1 DEF RouterClose
<1>6. /\ OwnSockets(v) \subseteq Sockets /\ OwnSockets(v)' = OwnSockets(v)
      /\ ~Idle(v) /\ Op(v).kind = "join" => Op(v).socket \in OwnSockets(v) /\ Op(v).room \in Rooms
      /\ registry.byUser[v] # NoSocket => registry.byUser[v] \in OwnSockets(v)
      /\ Idle(v)' = Idle(v) /\ Op(v)' = Op(v)
  BY <1>1, JoinNames, OwnSession DEF SessionsInv, OwnSockets, Idle, Op
<1>7. StagesOK(v)'
  BY <1>1, <1>2, <1>3, <1>6 DEF UserOK, StagesOK, JoinAt, Unadmitted
<1>8. MembershipOK(v)'
  BY <1>1, <1>2, <1>3, <1>6 DEF UserOK, MembershipOK, JoinAt, Consented, Member
<1>9. MediaOK(v)'
  BY <1>1, <1>2, <1>5, <1>6 DEF UserOK, MediaOK
<1>10. BroadcastsOK(v)'
  <2>1. \A s \in OwnSockets(v) : JoiningAt(v, s, r, {"entered"}) => registry.bySocket[s] # r
    BY DEF UserOK, StagesOK, JoiningAt, JoinAt, Unadmitted
  <2>2. \A stages : \A s \in OwnSockets(v), q \in Rooms :
          JoiningAt(v, s, q, stages)' <=> JoiningAt(v, s, q, stages)
    BY <1>1, <1>6 DEF JoiningAt, JoinAt
  <2>3. ASSUME NEW s \in OwnSockets(v) \cap connected, NEW q \in Rooms
        PROVE  /\ registry'.bySocket[s] = q \/ JoiningAt(v, s, q, {"entered"}) => q \in sioRooms'[s]
               /\ q \in sioRooms'[s] => registry'.bySocket[s] = q \/ JoiningAt(v, s, q, Entered)
    <3>1. /\ registry.bySocket[s] = q \/ JoiningAt(v, s, q, {"entered"}) => q \in sioRooms[s]
          /\ q \in sioRooms[s] => registry.bySocket[s] = q \/ JoiningAt(v, s, q, Entered)
      BY DEF UserOK, BroadcastsOK
    <3>2. /\ s \in Sockets /\ NoRoom # q
          /\ registry'.bySocket[s] = IF registry.bySocket[s] = r THEN NoRoom ELSE registry.bySocket[s]
          /\ sioRooms'[s] = IF registry.bySocket[s] = r THEN sioRooms[s] \ {r} ELSE sioRooms[s]
      BY <1>1, <1>2, <1>4, <1>6
    <3>3. JoiningAt(v, s, r, {"entered"}) => registry.bySocket[s] # r
      BY <2>1
    <3> HIDE DEF JoiningAt, OwnSockets
    <3>4. CASE registry.bySocket[s] = r
      BY <3>1, <3>2, <3>3, <3>4
    <3>5. CASE registry.bySocket[s] # r
      BY <3>1, <3>2, <3>5
    <3> QED BY <3>4, <3>5
  <2> QED BY <1>1, <1>6, <2>2, <2>3 DEF BroadcastsOK
<1> QED BY <1>7, <1>8, <1>9, <1>10 DEF UserOK

\* A room's deletion is where it was if no operation of it is added.
LEMMA EvictionSame ==
  ASSUME NEW r \in Rooms, EvictionOK(r),
         closing'[r] = closing[r], toEvict'[r] = toEvict[r], deleted \subseteq deleted',
         r \in deleted => registry'.members[r] \subseteq registry.members[r],
         \A v \in Users : \A i \in 1 .. Len(queue'[v]) :
           Evicts(v, i, r)' => i \in 1 .. Len(queue[v]) /\ queue'[v][i] = queue[v][i]
  PROVE  EvictionOK(r)'
<1> DEFINE k == [v \in Users |-> 0]
<1>1. k \in [Users -> Nat]
  OBVIOUS
<1>2. \A v \in Users : \A i \in 1 .. Len(queue'[v]) :
        Evicts(v, i, r)' =>
          i + k[v] \in 1 .. Len(queue[v]) /\ queue'[v][i] = queue[v][i + k[v]]
  OBVIOUS
<1> HIDE DEF k
<1> QED BY <1>1, <1>2, EvictionFrame

\* closeRoom's loop has nobody under way when it takes the next participant or ends.
LEMMA EvictNextKeeps ==
  ASSUME AgreeInv, NEW r \in Rooms, NEW todo \in SUBSET Sockets, EvictNext(r, todo),
         closing[r] \in {"coreDeleted", "evicted"}, registry.members[r] \subseteq todo,
         r \in deleted', deleted' \subseteq deleted \cup {r}, deleted \subseteq deleted',
         registry' = registry, NEW q \in Rooms
  PROVE  EvictionOK(q)'
<1> USE DEF AgreeInv
<1>0. /\ EvictionOK(r) /\ EvictionOK(q)
      /\ \A u \in Users : \A i \in 1 .. Len(queue[u]) : ~Evicts(u, i, r)
  BY DEF EvictionOK
<1>1. CASE q # r
  <2>1. closing'[q] = closing[q] /\ toEvict'[q] = toEvict[q]
    BY <1>1, EvictNextEffect
  <2>2. \A v \in Users : \A i \in 1 .. Len(queue'[v]) :
          Evicts(v, i, q)' => i \in 1 .. Len(queue[v]) /\ queue'[v][i] = queue[v][i]
    BY <1>1, EvictNextEffect DEF Evicts
  <2> QED BY <1>0, <2>1, <2>2, EvictionSame
<1>2. CASE q = r
  <2>1. CASE todo = {} /\ closing'[r] = "closeMedia" /\ queue' = queue
    BY <1>0, <1>2, <2>1 DEF EvictionOK, Evicts
  <2>2. ASSUME NEW s \in todo,
               closing'[r] = "evicting", toEvict'[r] = todo \ {s},
               \A v \in Users : \A i \in 1 .. Len(queue'[v]) :
                 \/ i \in 1 .. Len(queue[v]) /\ queue'[v][i] = queue[v][i]
                 \/ /\ v = Owner[s] /\ i = Len(queue[v]) + 1
                    /\ queue'[v][i].kind = "evict" /\ queue'[v][i].room = r
                    /\ queue'[v][i].socket = s
        PROVE  EvictionOK(q)'
    <3>1. \A v \in Users : \A i \in 1 .. Len(queue'[v]) :
            Evicts(v, i, r)' => v = Owner[s] /\ i = Len(queue[v]) + 1 /\ queue'[v][i].socket = s
      BY <1>0, <2>2 DEF Evicts
    <3> QED BY <1>2, <2>2, <3>1 DEF EvictionOK, Evicts
  <2> QED BY <2>1, <2>2, EvictNextEffect
<1> QED BY <1>1, <1>2

\* The deletions under every step.
LEMMA NextEviction ==
  ASSUME AgreeInv, [Next]_vars, NEW q \in Rooms
  PROVE  EvictionOK(q)'
<1> USE DEF session
<1>0. /\ EvictionOK(q)
      /\ closing \in [Rooms -> ClosingStages] /\ registry \in Registries
      /\ toEvict \in [Rooms -> SUBSET Sockets]
  BY DEF AgreeInv, SessionsInv, TypeOK
<1>1. ASSUME NEW u \in Users, Step(u) PROVE EvictionOK(q)'
  BY <1>1, StepEviction
<1>2. ASSUME UNCHANGED <<queue, closing, toEvict, deleted>>,
             registry'.members[q] \subseteq registry.members[q]
      PROVE  EvictionOK(q)'
  BY <1>0, <1>2, EvictionSame DEF Evicts
<1>3. ASSUME NEW r \in Rooms, CoreDelete(r) PROVE EvictionOK(q)'
  <2>1. CASE q = r
    BY <1>0, <1>3, <2>1 DEF CoreDelete, EvictionOK, Evicts
  <2>2. CASE q # r
    BY <1>0, <1>3, <2>2, EvictionSame DEF CoreDelete, Evicts
  <2> QED BY <2>1, <2>2
<1>4. ASSUME NEW r \in Rooms, CloseRoom(r) PROVE EvictionOK(q)'
  <2>1. registry.members[r] \in SUBSET Sockets
    BY <1>0 DEF Registries
  <2> QED BY <1>4, <2>1, EvictNextKeeps DEF CloseRoom
<1>5. ASSUME NEW r \in Rooms, CloseRoomNext(r) PROVE EvictionOK(q)'
  <2>1. /\ toEvict[r] \in SUBSET Sockets /\ r \in deleted
        /\ registry.members[r] \subseteq toEvict[r]
    BY <1>0, <1>5 DEF CloseRoomNext, AgreeInv, EvictionOK
  <2> QED BY <1>5, <2>1, EvictNextKeeps DEF CloseRoomNext
<1>6. ASSUME NEW r \in Rooms, CloseRoomMedia(r) PROVE EvictionOK(q)'
  <2>1. CASE q = r
    BY <1>0, <1>6, <2>1 DEF CloseRoomMedia, EvictionOK, Evicts
  <2>2. CASE q # r
    BY <1>0, <1>6, <2>2, EvictionSame DEF CloseRoomMedia, Evicts
  <2> QED BY <2>1, <2>2
<1>7. ASSUME NEW r \in Rooms, RouterClose(r) PROVE EvictionOK(q)'
  <2>1. registry'.members[q] \subseteq registry.members[q]
    BY <1>0, <1>7, RemoveRoomConsistent DEF RouterClose, AgreeInv, SessionsInv, SessionsConsistent
  <2> QED BY <1>2, <1>7, <2>1 DEF RouterClose
<1>8. ASSUME NEW op, op \in Operations, op \in OperationsOf(op.user), op.kind # "evict", Enqueue(op),
             UNCHANGED <<closing, toEvict, deleted, registry>>
      PROVE  EvictionOK(q)'
  <2>1. \A v \in Users : \A i \in 1 .. Len(queue'[v]) :
          Evicts(v, i, q)' => i \in 1 .. Len(queue[v]) /\ queue'[v][i] = queue[v][i]
    BY <1>8, EnqueueKeeps DEF Evicts, AgreeInv
  <2> QED BY <1>0, <1>8, <2>1, EvictionSame
<1>9. ASSUME NEW op \in Requests, Request(op) PROVE EvictionOK(q)'
  BY <1>8, <1>9, RequestOperations DEF Request
<1>10. ASSUME NEW s \in Sockets, Disconnect(s) PROVE EvictionOK(q)'
  BY <1>8, <1>10, OwnOperations DEF Disconnect
<1>11. ASSUME NEW u \in Users, NEW r \in Rooms, MeetingJoin(u, r) PROVE EvictionOK(q)'
  BY <1>2, <1>11 DEF MeetingJoin
<1>12. CASE UNCHANGED vars
  BY <1>2, <1>12 DEF vars
<1> QED BY <1>1, <1>3, <1>4, <1>5, <1>6, <1>7, <1>9, <1>10, <1>11, <1>12 DEF Next, Deletion

\* What a user's session rests on under every step.
LEMMA NextUser ==
  ASSUME AgreeInv, [Next]_vars, NEW v \in Users
  PROVE  UserOK(v)' /\ ("routerClose" \notin Faults /\ OrphansOK(v) => OrphansOK(v)')
<1>0. SessionsInv /\ \A u \in Users : UserOK(u)
  BY DEF AgreeInv
<1>1. ASSUME Untouched(v)
      PROVE  UserOK(v)' /\ (OrphansOK(v) => OrphansOK(v)')
  BY <1>0, <1>1, UntouchedKeeps
<1>2. ASSUME NEW u \in Users, Step(u)
      PROVE  UserOK(v)' /\ (OrphansOK(v) => OrphansOK(v)')
  <2>1. CASE u = v
    BY <1>0, <1>2, <2>1, JoinKeeps, LeaveKeeps DEF Step
  <2>2. CASE u # v
    BY <1>0, <1>1, <1>2, <2>2, OthersUntouched
  <2> QED BY <2>1, <2>2
<1>3. ASSUME NEW r \in Rooms, RouterClose(r)
      PROVE  UserOK(v)' /\ ("routerClose" \notin Faults => OrphansOK(v)')
  <2>1. "routerClose" \in Faults
    BY <1>3 DEF RouterClose
  <2> QED BY <1>0, <1>3, <2>1, RouterCloseKeeps
<1>4. CASE UNCHANGED vars
  <2>1. Untouched(v)
    BY <1>4 DEF vars, Untouched, Member, Idle, Op
  <2> QED BY <1>1, <2>1
<1>5. CASE \/ \E r \in Rooms : CoreDelete(r) \/ Deletion(r)
           \/ \E op \in Requests : Request(op)
           \/ \E s \in Sockets : Disconnect(s)
           \/ \E u \in Users, r \in Rooms : MeetingJoin(u, r)
  BY <1>1, <1>5, OutsideUntouched
<1> QED BY <1>2, <1>3, <1>4, <1>5 DEF Next

LEMMA NextAgree == AgreeInv /\ [Next]_vars => AgreeInv'
BY NextConsistent, NextUser, NextEviction DEF AgreeInv

LEMMA InitAgree == Init => AgreeInv /\ \A u \in Users : OrphansOK(u)
<1> SUFFICES ASSUME Init PROVE AgreeInv /\ \A u \in Users : OrphansOK(u)
  OBVIOUS
<1> USE DEF Init, EmptyRegistry
<1>1. SessionsInv
  BY InitConsistent
<1>2. ASSUME NEW u \in Users PROVE UserOK(u) /\ OrphansOK(u)
  BY NoRoomAssumption
  DEF UserOK, StagesOK, MembershipOK, MediaOK, BroadcastsOK, OrphansOK, JoiningAt, JoinAt,
      InProgress, Idle, OwnSockets
<1>3. ASSUME NEW r \in Rooms PROVE EvictionOK(r)
  BY DEF EvictionOK
<1> QED BY <1>1, <1>2, <1>3 DEF AgreeInv

LEMMA InvariantAgree == Spec => []AgreeInv
BY InitAgree, NextAgree, PTL DEF Spec

----------------------------------------------------------------------------
(* Theorems                                                                *)

\* At every moment of every interleaving, and also when workers die, a participant of the
\* registry has its media peer in the SFU.
THEOREM ParticipantsHaveMedia == Spec => []ParticipantHasMedia
<1>1. AgreeInv => ParticipantHasMedia
  BY OwnerAssumption DEF AgreeInv, UserOK, MediaOK, ParticipantHasMedia, OwnSockets
<1> QED BY <1>1, InvariantAgree, PTL

\* Once a user's operations have settled, the Socket.IO room that a connected socket hears
\* is the one the registry says it is in, and no other.
THEOREM BroadcastsAlwaysReach == Spec => []BroadcastsReachParticipants
<1>1. AgreeInv => BroadcastsReachParticipants
  BY OwnerAssumption
  DEF AgreeInv, SessionsInv, TypeOK, UserOK, BroadcastsOK, BroadcastsReachParticipants, JoiningAt,
      JoinAt, OwnSockets
<1> QED BY <1>1, InvariantAgree, PTL

\* Once a user's operations have settled, a user with a session is a member of the call in
\* Core, unless Core has deleted the room or the user left it by a REST request of which the
\* answer was lost: neither a late leave nor a replacement undoes it, and no other failure.
THEOREM SessionsHaveMembership == Spec => []SessionHasMembership
<1>1. AgreeInv => SessionHasMembership
  BY DEF AgreeInv, UserOK, MembershipOK, SessionHasMembership, Member, Running, InProgress
<1> QED BY <1>1, InvariantAgree, PTL

\* As long as no worker dies, a settled user holds no media outside their session.  (With
\* dying workers the code does leak, as the run calls_rejoin_leak shows.)
THEOREM NoOrphans ==
  ASSUME "routerClose" \notin Faults
  PROVE  Spec => []NoOrphanMedia
<1> DEFINE Inv == AgreeInv /\ \A u \in Users : OrphansOK(u)
<1>1. Inv /\ [Next]_vars => Inv'
  BY NextAgree, NextUser
<1>2. Inv => NoOrphanMedia
  BY OwnerAssumption DEF OrphansOK, NoOrphanMedia, JoiningAt, JoinAt, InProgress, OwnSockets
<1> HIDE DEF Inv
<1>3. Init => Inv
  BY InitAgree DEF Inv
<1> QED BY <1>1, <1>2, <1>3, PTL DEF Spec

\* A leave or a disconnect of a socket that another one has replaced never ends the
\* replacement's session.
THEOREM ReplacementAlwaysSurvives == Spec => ReplacementSurvives
<1>1. ASSUME AgreeInv, [Next]_vars, NEW u \in Users, registry.byUser[u] # NoSocket, ~Idle(u),
             routerCloses' = routerCloses, Op(u).kind \in {"leave", "disconnect"},
             Op(u).socket # registry.byUser[u]
      PROVE  registry'.byUser[u] = registry.byUser[u]
  <2>0. SessionsInv /\ \A v \in Users : UserOK(v)
    BY <1>1 DEF AgreeInv
  <2>1. CASE Step(u)
    <3>1. Op(u).socket # NoSocket
      BY <1>1, <2>0, OpInQueue DEF SessionsInv, OperationsOf, RestKinds
    <3>2. Subject(u) = NoSocket
      BY <1>1, <2>0, <3>1, SubjectIsSession DEF Subject, Disconnected
    <3>3. LeaveBegin(u) \/ DetachMedia(u) \/ CoreLeave(u)
      BY <1>1, <2>1
      DEF Step, Join, JoinBegin, JoinAuthorize, JoinAttach, JoinMedia, JoinReplace, JoinReplaceCore,
          JoinEnterRoom, JoinAdmit, JoinRollback, JoinRollbackRoom, JoinFail, Running, RestJoin,
          RestLeave
    <3> QED BY <3>2, <3>3 DEF LeaveBegin, DetachMedia, CoreLeave, session
  <2>2. CASE Untouched(u)
    BY <2>2 DEF Untouched
  <2>3. ASSUME NEW v \in Users \ {u}, Step(v) PROVE Untouched(u)
    BY <2>0, <2>3, OthersUntouched
  <2>4. ASSUME NEW r \in Rooms, RouterClose(r) PROVE FALSE
    BY <1>1, <2>0, <2>4 DEF RouterClose, SessionsInv, TypeOK
  <2>5. CASE UNCHANGED vars
    BY <2>5 DEF vars
  <2> QED BY <1>1, <2>1, <2>2, <2>3, <2>4, <2>5, OutsideUntouched DEF Next
<1>2. AgreeInv /\ [Next]_vars => [\A u \in Users :
       LET s == registry.byUser[u] IN
       /\ s # NoSocket /\ ~Idle(u) /\ routerCloses' = routerCloses
       /\ Op(u).kind \in {"leave", "disconnect"} /\ Op(u).socket # s
       => registry'.byUser[u] = s]_vars
  BY <1>1
<1> QED BY <1>2, InvariantAgree, PTL DEF Spec, ReplacementSurvives

----------------------------------------------------------------------------
(* What the operations do to the media rooms                               *)

MediaStep(r) == [Media(r)!MediaNext]_(Media(r)!mediaVars)

\* The ways in which an operation changes the peers of a room.
LEMMA MediaChanges ==
  ASSUME TypeOK, NEW r \in Rooms, UNCHANGED routerCloses
  PROVE  /\ UNCHANGED mediaPeers => MediaStep(r)
         /\ \A x : \A s \in Sockets :
              mediaPeers' = [mediaPeers EXCEPT ![x] = @ \cup {s}] => MediaStep(r)
         /\ \A x, s : mediaPeers' = [mediaPeers EXCEPT ![x] = @ \ {s}] => MediaStep(r)
         /\ \A x : mediaPeers' = [mediaPeers EXCEPT ![x] = {}] => MediaStep(r)
<1>1. /\ mediaPeers \in [Rooms -> SUBSET Sockets]
      /\ \A x, y : [mediaPeers EXCEPT ![x] = y][r] = IF x = r THEN y ELSE mediaPeers[r]
  BY DEF TypeOK
<1>2. UNCHANGED mediaPeers => MediaStep(r)
  BY DEF MediaStep, Media!mediaVars
<1>3. ASSUME NEW x, NEW s \in Sockets, mediaPeers' = [mediaPeers EXCEPT ![x] = @ \cup {s}]
      PROVE  MediaStep(r)
  <2>1. mediaPeers'[r] = mediaPeers[r] \/ mediaPeers'[r] = mediaPeers[r] \cup {s}
    BY <1>1, <1>3
  <2> QED BY <2>1 DEF MediaStep, Media!mediaVars, Media!MediaNext, Media!Admit
<1>4. ASSUME NEW x, NEW s, mediaPeers' = [mediaPeers EXCEPT ![x] = @ \ {s}]
      PROVE  MediaStep(r)
  <2>1. mediaPeers'[r] = mediaPeers[r] \/ mediaPeers'[r] = mediaPeers[r] \ {s}
    BY <1>1, <1>4
  <2>2. mediaPeers'[r] = mediaPeers[r] \/ (s \in Sockets /\ mediaPeers'[r] = mediaPeers[r] \ {s})
    BY <1>1, <2>1
  <2> QED BY <2>2 DEF MediaStep, Media!mediaVars, Media!MediaNext, Media!Remove
<1>5. ASSUME NEW x, mediaPeers' = [mediaPeers EXCEPT ![x] = {}]
      PROVE  MediaStep(r)
  <2>1. mediaPeers'[r] = mediaPeers[r] \/ mediaPeers'[r] = {}
    BY <1>1, <1>5
  <2> QED BY <2>1 DEF MediaStep, Media!mediaVars, Media!MediaNext, Media!Close
<1> QED BY <1>2, <1>3, <1>4, <1>5

LEMMA OperationsUseRooms ==
  ASSUME TypeOK, NEW u \in Users, Step(u), NEW r \in Rooms
  PROVE  MediaStep(r)
<1> USE DEF session, environment, Running, InProgress
<1>1. CASE JoinMedia(u)
  <2>1. Op(u).socket \in Sockets /\ UNCHANGED routerCloses
    BY <1>1, JoinNames DEF JoinMedia
  <2>2. \/ UNCHANGED mediaPeers
        \/ mediaPeers' = [mediaPeers EXCEPT ![Op(u).room] = @ \cup {Op(u).socket}]
    BY <1>1 DEF JoinMedia
  <2> QED BY <2>1, <2>2, MediaChanges
<1>2. CASE JoinRollback(u)
  <2>1. /\ UNCHANGED routerCloses
        /\ mediaPeers' = [mediaPeers EXCEPT ![Op(u).room] = @ \ {Op(u).socket}]
    BY <1>2 DEF JoinRollback, WithoutMedia
  <2> QED BY <2>1, MediaChanges
<1>3. CASE DetachMedia(u)
  <2>1. /\ UNCHANGED routerCloses
        /\ mediaPeers' = [mediaPeers EXCEPT ![held[u].room] = @ \ {held[u].socket}]
    BY <1>3 DEF DetachMedia
  <2> QED BY <2>1, MediaChanges
<1>4. CASE ~(JoinMedia(u) \/ JoinRollback(u) \/ DetachMedia(u))
  <2>1. UNCHANGED <<mediaPeers, routerCloses>>
    BY <1>4 DEF Step, Join, JoinBegin, JoinAuthorize, JoinAttach, JoinReplace, JoinReplaceCore,
                JoinEnterRoom, JoinAdmit, JoinRollbackRoom, JoinFail, LeaveBegin, CoreLeave, RestJoin,
                RestLeave
  <2> QED BY <2>1, MediaChanges
<1> QED BY <1>1, <1>2, <1>3, <1>4

LEMMA OutsideUsesRooms ==
  ASSUME TypeOK, [Next]_vars, \A u \in Users : ~Step(u), NEW r \in Rooms
  PROVE  MediaStep(r)
<1>1. ASSUME NEW q \in Rooms, RouterClose(q)
      PROVE  MediaStep(r)
  <2>1. /\ mediaPeers[q] # {}
        /\ mediaPeers'[r] = IF r = q THEN {} ELSE mediaPeers[r]
        /\ routerCloses'[r] = IF r = q THEN routerCloses[r] + 1 ELSE routerCloses[r]
    BY <1>1 DEF RouterClose, TypeOK
  <2> QED BY <2>1 DEF MediaStep, Media!mediaVars, Media!MediaNext, Media!Lose
<1>2. ASSUME NEW q \in Rooms, CloseRoomMedia(q)
      PROVE  MediaStep(r)
  <2>1. UNCHANGED routerCloses /\ mediaPeers' = [mediaPeers EXCEPT ![q] = {}]
    BY <1>2 DEF CloseRoomMedia
  <2> QED BY <2>1, MediaChanges
<1>3. CASE UNCHANGED <<mediaPeers, routerCloses>>
  BY <1>3, MediaChanges
<1>4. ASSUME NEW q \in Rooms, CoreDelete(q) \/ CloseRoom(q) \/ CloseRoomNext(q)
      PROVE  UNCHANGED <<mediaPeers, routerCloses>>
  BY <1>4 DEF CoreDelete, CloseRoom, CloseRoomNext
<1>5. ASSUME \/ \E op \in Requests : Request(op)
             \/ \E s \in Sockets : Disconnect(s)
             \/ \E u \in Users, q \in Rooms : MeetingJoin(u, q)
             \/ UNCHANGED vars
      PROVE  UNCHANGED <<mediaPeers, routerCloses>>
  BY <1>5 DEF Request, Disconnect, MeetingJoin, vars
<1> QED BY <1>1, <1>2, <1>3, <1>4, <1>5 DEF Next, Deletion

\* The operations of all users, the deletions and the lost workers treat a media room as
\* SfuService promises to keep it (sfu.join, leave and closeRoom, media_room_closed).  That
\* it keeps the promise is RoomIsMediaRoom of SfuProofs.
THEOREM RoomsUsedAsPromised == Spec => UsesMediaRooms
<1>1. Init => \A r \in Rooms : Media(r)!MediaInit
  BY DEF Init, Media!MediaInit
<1>2. ASSUME TypeOK, [Next]_vars
      PROVE  \A r \in Rooms : MediaStep(r)
  BY <1>2, OperationsUseRooms, OutsideUsesRooms
<1>3. TypeOK /\ [Next]_vars => [\A r \in Rooms : [Media(r)!MediaNext]_(Media(r)!mediaVars)]_vars
  BY <1>2 DEF MediaStep
<1> QED BY <1>1, <1>3, TypeCorrect, PTL DEF Spec, UsesMediaRooms

=============================================================================
