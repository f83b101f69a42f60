-------------------------------- MODULE Sfu --------------------------------
(***************************************************************************)
(* One media room of src/sfu/sfu.service.ts.  Rooms share nothing: the     *)
(* service's executor is keyed by room, and `queue' is the room's queue as *)
(* SerialQueue specifies it.                                               *)
(*                                                                         *)
(* mediasoup is external.  It owns routers, transports, producers and      *)
(* consumers, here numbered in the order it makes them: made[i] says what  *)
(* number i is, `open' which of them are not closed.  Closing one closes   *)
(* what is on it and calls the service's `close' listeners in the same     *)
(* step; a consumer hears of the end of its producer later.  `held' are    *)
(* the resources in the maps of the service's peers.                       *)
(*                                                                         *)
(* An operation asks mediasoup for one thing and awaits it.  Meanwhile a   *)
(* worker may die, a transport fail or the service stop.  What was asked   *)
(* of something that has closed is refused, or, for the kinds in Late,     *)
(* comes all the same.                                                     *)
(***************************************************************************)
EXTENDS Naturals, Sequences

CONSTANTS
  Peers,
  Tags,         (* media tags of producers                                 *)
  Late,         (* subset of {"router", "transport"}                       *)
  MaxRequests,  (* bound on the operations asked for                       *)
  MaxQueue,     (* bound on the operations that wait at a time             *)
  MaxFaults     (* bound on dead workers and failed transports             *)

VARIABLES
  room,         (* this.rooms: the number of the room's router, or 0       *)
  peers,        (* the peers of the room                                   *)
  held,         (* the resources in the maps of its peers                  *)
  made,         (* mediasoup: what each resource is                        *)
  open,         (* mediasoup: the resources that are not closed            *)
  belated,      (* history: those entered when their transport had closed  *)
  queue,        (* the operations of the executor not yet settled          *)
  awaiting,     (* what the operation in progress has asked mediasoup for  *)
  stopping,
  notified,     (* how often media_room_closed was emitted                 *)
  deaths,       (* workers of the room that have died                      *)
  requests, faults

vars == <<room, peers, held, made, open, belated, queue, awaiting, stopping, notified, deaths,
          requests, faults>>

Directions == {"send", "recv"}
Made == Directions \cup {"router", "producer", "consumer"}
Kinds == Made \cup {"use", "nothing"}

\* A resource: its kind and peer, the router or transport it is on, and the
\* tag of a producer or the producer of a consumer.
Resource(kind, peer, on, of) == [kind |-> kind, peer |-> peer, on |-> on, of |-> of]
Idle == Resource("nothing", "none", 0, 0)

Init ==
  /\ room = 0
  /\ peers = {} /\ held = {}
  /\ made = <<>> /\ open = {} /\ belated = {}
  /\ queue = <<>> /\ awaiting = Idle
  /\ stopping = FALSE
  /\ notified = 0 /\ deaths = 0
  /\ requests = 0 /\ faults = 0

----------------------------------------------------------------------------
(* mediasoup.                                                              *)

Numbers == 1 .. Len(made)
Routers == {i \in Numbers : made[i].kind = "router"}

\* The resource and what it is on.
Bases(i) ==
  LET on == made[i].on IN {i, on} \cup (IF on = 0 THEN {} ELSE {made[on].on})

\* What closes with the given resources.
ClosedWith(these) == {i \in open : Bases(i) \cap these # {}}

\* Resources close, and the `close' listeners take them out of the maps.
CloseAll(these) ==
  /\ open' = open \ ClosedWith(these)
  /\ held' = held \ ClosedWith(these)

----------------------------------------------------------------------------
(* The service.                                                            *)

Op == Head(queue)
Running(kind) == queue # <<>> /\ awaiting = Idle /\ Op.kind = kind

\* The operation settles.
Return == queue' = Tail(queue) /\ awaiting' = Idle

HeldBy(p) == {i \in held : made[i].peer = p}

\* context(): the room is open and the peer in it.
InContext(p) == room \in open /\ p \in peers

\* closeRoomNow(): the room leaves the map before its router is closed, so
\* that the router's listener does not take this for a loss.  (Mutant: after.)
RoomClosed_Late ==
  /\ room' = 0 /\ peers' = {}
  /\ CloseAll({room})
  /\ notified' = notified + 1
RoomClosed ==
  /\ room' = 0 /\ peers' = {}
  /\ CloseAll({room})
  /\ UNCHANGED notified

unchangedOutside == UNCHANGED <<belated, stopping, deaths, requests, faults>>

\* Whether join finds the room.  (Mutant: it does not look.)
RoomExists_Ignored == FALSE
RoomExists == room # 0

\* join(), up to createRouter(); there may be no worker.
Join ==
  /\ Running("join")
  /\ \/ stopping /\ Return /\ UNCHANGED peers
     \/ /\ ~stopping /\ RoomExists
        /\ peers' = peers \cup {Op.peer}
        /\ Return
     \/ /\ ~stopping /\ ~RoomExists
        /\ \/ awaiting' = Resource("router", Op.peer, 0, 0) /\ UNCHANGED queue
           \/ Return
        /\ UNCHANGED peers
  /\ UNCHANGED <<room, held, made, open, notified>> /\ unchangedOutside

\* Whether a router that has come is kept.
KeepRouter == ~stopping

\* join(), when the router has come.
JoinCreated ==
  /\ awaiting.kind = "router"
  /\ made' = Append(made, awaiting)
  /\ IF KeepRouter
     THEN /\ room' = Len(made')
          /\ peers' = {Op.peer}
          /\ open' = open \cup {Len(made')}
     ELSE UNCHANGED <<room, peers, open>>
  /\ Return
  /\ UNCHANGED <<held, notified>> /\ unchangedOutside

\* createTransport(): an existing one of the direction is handed out again.
CreateTransport ==
  /\ Running("createTransport")
  /\ IF InContext(Op.peer) /\ ~\E i \in HeldBy(Op.peer) : made[i].kind = Op.arg
     THEN awaiting' = Resource(Op.arg, Op.peer, room, 0) /\ UNCHANGED queue
     ELSE Return
  /\ UNCHANGED <<room, peers, held, made, open, notified>> /\ unchangedOutside

\* transport(): one of the peer's own, of the right direction.  (Mutant:
\* anybody's.)
MayUse_Anybodys(p, t, direction) == InContext(p) /\ t \in held /\ made[t].kind = direction
MayUse(p, t, direction) == InContext(p) /\ t \in HeldBy(p) /\ made[t].kind = direction

\* The media tag is taken.  (Mutant: never.)
TagTaken_Never(p, tag) == FALSE
TagTaken(p, tag) == \E i \in HeldBy(p) : made[i].kind = "producer" /\ made[i].of = tag

Produce ==
  /\ Running("produce")
  /\ IF MayUse(Op.peer, Op.on, "send") /\ ~TagTaken(Op.peer, Op.arg)
     THEN awaiting' = Resource("producer", Op.peer, Op.on, Op.arg) /\ UNCHANGED queue
     ELSE Return
  /\ UNCHANGED <<room, peers, held, made, open, notified>> /\ unchangedOutside

\* consume(): of a producer of another peer; an existing consumer is handed
\* out again.
Consume ==
  /\ Running("consume")
  /\ IF /\ MayUse(Op.peer, Op.on, "recv")
        /\ Op.arg \in held \ HeldBy(Op.peer) /\ made[Op.arg].kind = "producer"
        /\ ~\E i \in HeldBy(Op.peer) : made[i].kind = "consumer" /\ made[i].of = Op.arg
     THEN awaiting' = Resource("consumer", Op.peer, Op.on, Op.arg) /\ UNCHANGED queue
     ELSE Return
  /\ UNCHANGED <<room, peers, held, made, open, notified>> /\ unchangedOutside

\* The router of a resource to be made.
RouterOf(a) == IF a.kind \in Directions THEN a.on ELSE made[a.on].on

\* Whether mediasoup may hand out what was asked for.  (The answer to a request
\* and the failure of its transport may be read together: the listener then
\* closes the transport before the awaiting operation goes on.)
Delivers(a) ==
  \/ a.on \in open
  \/ RouterOf(a) \notin open /\ "router" \in Late
  \/ RouterOf(a) \in open /\ "transport" \in Late

\* ensureLive(): the room is still the one the operation began in; the transport
\* is not looked at.  (Mutant: no check.)
EnsureLive_Unchecked(a) == TRUE
EnsureLive(a) == room = RouterOf(a) /\ room \in open

\* The transport, producer or consumer has come: it goes into the peer's map
\* or is closed.
Created ==
  LET new == Len(made') IN
  /\ awaiting.kind \in Directions \cup {"producer", "consumer"}
  /\ Delivers(awaiting)
  /\ made' = Append(made, awaiting)
  /\ IF EnsureLive(awaiting)
     THEN /\ open' = open \cup {new} /\ held' = held \cup {new}
          /\ belated' = belated \cup (IF awaiting.on \in open THEN {} ELSE {new})
     ELSE UNCHANGED <<open, held, belated>>
  /\ Return
  /\ UNCHANGED <<room, peers, notified, stopping, deaths, requests, faults>>

\* mediasoup refuses, whatever was asked: the operation throws.
Refused ==
  /\ awaiting # Idle
  /\ Return
  /\ UNCHANGED <<room, peers, held, made, open, notified>> /\ unchangedOutside

\* The requests that make and close nothing, of one of the peer's own:
\* connectTransport(), which answers at once when the transport is connected,
\* restartIce(), resumeConsumer(), setPreferredLayers(), setProducerPaused().
Use ==
  /\ Running("use")
  /\ \/ InContext(Op.peer) /\ Op.on \in HeldBy(Op.peer)
        /\ awaiting' = Resource("use", Op.peer, Op.on, 0) /\ UNCHANGED queue
     \/ Return
  /\ UNCHANGED <<room, peers, held, made, open, notified>> /\ unchangedOutside

\* mediasoup has done it.
Used ==
  /\ awaiting.kind = "use"
  /\ Return
  /\ UNCHANGED <<room, peers, held, made, open, notified>> /\ unchangedOutside

\* closeResource(), of one of the peer's own.
CloseResource ==
  /\ Running("close")
  /\ IF InContext(Op.peer) /\ Op.on \in HeldBy(Op.peer)
     THEN CloseAll({Op.on})
     ELSE UNCHANGED <<open, held>>
  /\ Return
  /\ UNCHANGED <<room, peers, made, notified>> /\ unchangedOutside

\* What a leaving peer closes.
ClosePeer(p) == HeldBy(p)

\* The last peer is leaving.
IsLast(p) == peers = {p}

\* leave(): the last peer takes the room with it.
Leave ==
  /\ Running("leave")
  /\ \/ Op.peer \notin peers /\ UNCHANGED <<room, peers, held, open, notified>>
     \/ Op.peer \in peers /\ IsLast(Op.peer) /\ RoomClosed
     \/ /\ Op.peer \in peers /\ ~IsLast(Op.peer)
        /\ peers' = peers \ {Op.peer}
        /\ CloseAll(ClosePeer(Op.peer))
        /\ UNCHANGED <<room, notified>>
  /\ Return
  /\ UNCHANGED made /\ unchangedOutside

CloseRoom ==
  /\ Running("closeRoom")
  /\ IF room # 0 THEN RoomClosed ELSE UNCHANGED <<room, peers, held, open, notified>>
  /\ Return
  /\ UNCHANGED made /\ unchangedOutside

Step ==
  \/ Join \/ JoinCreated \/ CreateTransport \/ Produce \/ Consume \/ Created
  \/ Refused \/ Use \/ Used \/ CloseResource \/ Leave \/ CloseRoom

----------------------------------------------------------------------------
(* What happens outside the queue.                                         *)

\* onModuleDestroy().
Destroy ==
  /\ ~stopping
  /\ stopping' = TRUE
  /\ IF room # 0 THEN RoomClosed ELSE UNCHANGED <<room, peers, held, open, notified>>
  /\ UNCHANGED <<made, belated, queue, awaiting, deaths, requests, faults>>

\* The worker dies, and the router with it: the router's listener drops the
\* room and emits media_room_closed.
WorkerDies ==
  /\ faults < MaxFaults
  /\ \E router \in open \cap Routers :
       /\ CloseAll({router})
       /\ IF room = router
          THEN room' = 0 /\ peers' = {} /\ notified' = notified + 1
          ELSE UNCHANGED <<room, peers, notified>>
  /\ faults' = faults + 1 /\ deaths' = deaths + 1
  /\ UNCHANGED <<made, belated, queue, awaiting, stopping, requests>>

\* The DTLS connection of a transport fails: its listener closes it.
TransportFails ==
  /\ faults < MaxFaults
  /\ \E t \in held : made[t].kind \in Directions /\ CloseAll({t})
  /\ faults' = faults + 1
  /\ UNCHANGED <<room, peers, made, belated, queue, awaiting, stopping, notified, deaths, requests>>

\* mediasoup tells a consumer that its producer has closed.
ProducerGone ==
  /\ \E c \in open : made[c].kind = "consumer" /\ made[c].of \notin open /\ CloseAll({c})
  /\ UNCHANGED <<room, peers, made, belated, queue, awaiting, stopping, notified, deaths, requests,
                 faults>>

\* The operations CallsService may ask for: it passes on the media requests
\* of participants only, and a participant has its peer.
Asked ==
  [kind : {"join", "leave"}, peer : Peers, on : {0}, arg : {0}]
  \cup [kind : {"closeRoom"}, peer : {"none"}, on : {0}, arg : {0}]
  \cup [kind : {"createTransport"}, peer : peers, on : {0}, arg : Directions]
  \cup [kind : {"produce"}, peer : peers, on : held, arg : Tags]
  \cup [kind : {"consume"}, peer : peers, on : held, arg : held]
  \cup [kind : {"use", "close"}, peer : peers, on : held, arg : {0}]

Ask ==
  /\ requests < MaxRequests /\ Len(queue) < MaxQueue
  /\ \E op \in Asked : queue' = Append(queue, op)
  /\ requests' = requests + 1
  /\ UNCHANGED <<room, peers, held, made, open, belated, awaiting, stopping, notified, deaths, faults>>

Next == Step \/ Destroy \/ WorkerDies \/ TransportFails \/ ProducerGone \/ Ask

Spec == Init /\ [][Next]_vars

----------------------------------------------------------------------------

TypeOK ==
  /\ room \in 0 .. Len(made)
  /\ peers \subseteq Peers
  /\ held \subseteq Numbers /\ open \subseteq Numbers /\ belated \subseteq Numbers
  /\ \A i \in Numbers : made[i].kind \in Made /\ made[i].on \in 0 .. i - 1
  /\ awaiting.kind \in Kinds
  /\ awaiting # Idle => queue # <<>>
  /\ stopping \in BOOLEAN
  /\ notified \in Nat /\ deaths \in Nat

\* Nothing leaks: what mediasoup has open is in the maps of the present
\* peers, what is in the maps is open, and the room's router is the only one,
\* although rooms and transports close while something is being made.  A room
\* exists as long as it has peers (CallsService takes the one for the other), and
\* not after onModuleDestroy, what was being made then included.
NothingLeaks ==
  /\ open \cap Routers = {room} \ {0}
  /\ held = open \ Routers
  /\ \A i \in held : made[i].peer \in peers
  /\ room # 0 <=> peers # {}
  /\ stopping => room = 0

\* Every transport is on the present room's router, and every producer or consumer
\* on a transport of that router which is its own peer's and of the right direction.
\* That transport is open, unless it had closed when mediasoup's answer came: ensureLive
\* then enters the resource all the same, and it stays until it is closed or its peer
\* leaves.
OnOwnTransport ==
  \A i \in held :
    LET on == made[i].on IN
    IF made[i].kind \in Directions THEN on = room
    ELSE /\ made[on].kind = (IF made[i].kind = "producer" THEN "send" ELSE "recv")
         /\ made[on].peer = made[i].peer /\ made[on].on = room
         /\ on \in held \/ i \in belated

\* A peer has one transport per direction, one producer per media tag and one
\* consumer per producer, although each is looked for before an await and
\* entered after it.
NoDuplicates ==
  \A i, j \in held :
    made[i].kind = made[j].kind /\ made[i].peer = made[j].peer /\ made[i].of = made[j].of => i = j

\* media_room_closed is emitted when a worker takes a room with it, and never
\* when the service closes the room itself: CallsService would drop the
\* participants of whoever has come since.
NotifiedOfLossOnly ==
  [][notified' # notified <=> deaths' # deaths /\ peers # {}]_vars

\* The view CallsService has of the room.
Media == INSTANCE MediaRoom
ImplementsMediaRoom == Media!MediaSpec

=============================================================================
