------------------------------ MODULE SfuProofs ------------------------------
(***************************************************************************)
(* A media room, for any number of peers, media tags, requests and faults, *)
(* and whatever mediasoup still delivers of what has closed.               *)
(*                                                                         *)
(* NothingLeaks and NoDuplicates are not inductive by themselves: each     *)
(* resource must be known to hang on the present router (OnTheRoom), and   *)
(* what is being made must be known to be wanted still when it comes       *)
(* (AwaitOK): while it is made, the room may go but no other can take its  *)
(* place, as only the queue's next operation could make one.               *)
(***************************************************************************)
EXTENDS Sfu, TLAPS

Rest == {"producer", "consumer"}
Values == Tags \cup Directions \cup Nat
Someone == Peers \cup {"none"}

Ops ==
  {op \in [kind : {"join", "leave", "closeRoom", "createTransport", "produce", "consume", "use", "close"},
           peer : Someone, on : Nat, arg : Values] :
     /\ op.kind = "join" => op.peer \in Peers
     /\ op.kind = "createTransport" => op.arg \in Directions}

Resources == [kind : Made, peer : Someone, on : Nat, of : Values]

\* What a resource may be on: a transport on a router, the rest on a transport of
\* the same peer.
Placed(a) ==
  /\ a.kind = "router" => a.on = 0
  /\ a.kind \in Directions => a.on \in Routers
  /\ a.kind = "producer" => a.on \in Numbers /\ made[a.on].kind = "send"
  /\ a.kind = "consumer" => a.on \in Numbers /\ made[a.on].kind = "recv"
  /\ a.kind \in Rest => made[a.on].peer = a.peer /\ made[a.on].on \in Routers

MadeOK ==
  /\ made \in Seq(Resources)
  /\ \A i \in Numbers : Placed(made[i]) /\ made[i].on < i

\* What is held is on the room's router, directly or on a transport.
OnTheRoom == \A i \in held : RouterOf(made[i]) = room

RoomOK ==
  /\ room \in Nat /\ peers \subseteq Peers
  /\ held \subseteq Numbers /\ open \subseteq Numbers
  /\ NothingLeaks /\ OnTheRoom /\ NoDuplicates

QueueOK == queue \in Seq(Ops) /\ (awaiting # Idle => queue # <<>>)

AwaitOK ==
  /\ awaiting \in [kind : Kinds, peer : Someone, on : Nat, of : Values]
  /\ awaiting.kind = "router" =>
       /\ awaiting.on = 0 /\ awaiting.peer \in Peers
       /\ awaiting.peer = Op.peer
       /\ room = 0
  /\ awaiting.kind \in Directions \cup Rest =>
       /\ Placed(awaiting)
       /\ room # 0 =>
            /\ RouterOf(awaiting) = room /\ awaiting.peer \in peers
            /\ \A i \in held : ~(/\ made[i].kind = awaiting.kind
                                 /\ made[i].peer = awaiting.peer
                                 /\ made[i].of = awaiting.of)

CountsOK == stopping \in BOOLEAN /\ notified \in Nat /\ deaths \in Nat

SfuInv == MadeOK /\ RoomOK /\ QueueOK /\ AwaitOK /\ CountsOK

----------------------------------------------------------------------------
(* What closes.                                                            *)

\* A resource that is not a router closes with its router, and what is on a
\* transport closes with it.
LEMMA BasesOfHeld ==
  ASSUME MadeOK, NEW i \in Numbers
  PROVE  /\ i \in Bases(i)
         /\ made[i].kind = "router" => Bases(i) = {i, 0}
         /\ made[i].kind \in Directions => Bases(i) = {i, made[i].on, 0}
         /\ made[i].kind \in Rest => Bases(i) = {i, made[i].on, made[made[i].on].on}
         /\ made[i].kind # "router" => RouterOf(made[i]) \in Routers /\ RouterOf(made[i]) \in Bases(i)
<1>1. made[i] \in Resources /\ Placed(made[i])
  BY DEF MadeOK, Numbers
<1>2. CASE made[i].kind = "router"
  BY <1>1, <1>2 DEF Placed, Bases, Rest, Directions
<1>3. CASE made[i].kind \in Directions
  <2>1. made[i].on \in Numbers /\ made[made[i].on].kind = "router" /\ made[i].on # 0
    BY <1>1, <1>3 DEF Placed, Routers, Numbers
  <2>2. made[made[i].on].on = 0
    BY <2>1 DEF MadeOK, Placed
  <2> QED BY <1>1, <1>3, <2>1, <2>2 DEF Placed, Bases, Rest, Directions, RouterOf
<1>4. CASE made[i].kind \in Rest
  <2>1. made[i].on \in Numbers /\ made[i].on # 0 /\ made[made[i].on].on \in Routers
    BY <1>1, <1>4 DEF Placed, Numbers, Rest
  <2> QED BY <1>1, <1>4, <2>1 DEF Placed, Bases, Rest, Directions, RouterOf
<1> QED BY <1>1, <1>2, <1>3, <1>4 DEF Resources, Made, Rest

\* When the router of the room closes, everything does.
LEMMA AllCloses ==
  ASSUME MadeOK, RoomOK, room # 0, CloseAll({room})
  PROVE  open' = {} /\ held' = {}
<1>1. ASSUME NEW i \in open PROVE i \in ClosedWith({room})
  <2>1. CASE i \in Routers
    BY <2>1, BasesOfHeld DEF RoomOK, NothingLeaks, ClosedWith
  <2>2. CASE i \notin Routers
    <3>1. i \in held /\ i \in Numbers /\ made[i].kind # "router"
      BY <2>2 DEF RoomOK, NothingLeaks, Routers
    <3>2. room \in Bases(i)
      BY <3>1, BasesOfHeld DEF RoomOK, OnTheRoom
    <3> QED BY <3>2 DEF ClosedWith
  <2> QED BY <2>1, <2>2
<1> QED BY <1>1 DEF CloseAll, RoomOK, NothingLeaks

\* When something in the maps closes, the router does not.
LEMMA RouterStays ==
  ASSUME MadeOK, RoomOK, NEW these \in SUBSET held, CloseAll(these), made' = made
  PROVE  /\ open' \cap Routers = open \cap Routers
         /\ held' = open' \ Routers
         /\ held' \subseteq held
<1>1. ASSUME NEW i \in open, i \in Routers PROVE i \notin ClosedWith(these)
  <2>1. Bases(i) = {i, 0}
    BY <1>1, BasesOfHeld DEF RoomOK, Routers
  <2>2. i \notin held /\ 0 \notin held
    BY <1>1 DEF RoomOK, NothingLeaks, Numbers
  <2> QED BY <2>1, <2>2 DEF ClosedWith
<1> QED BY <1>1 DEF CloseAll, RoomOK, NothingLeaks, Routers

----------------------------------------------------------------------------

\* The room is gone and the operation in progress settles or goes on.
LEMMA Gone ==
  ASSUME SfuInv, made' = made, room' = 0, peers' = {}, open' = {}, held' = {},
         QueueOK', (awaiting' = awaiting /\ queue' = queue) \/ awaiting' = Idle, CountsOK'
  PROVE  SfuInv'
<1> USE DEF SfuInv
<1>1. MadeOK'
  BY DEF MadeOK, Numbers, Placed, Routers
<1>2. RoomOK'
  BY DEF RoomOK, NothingLeaks, OnTheRoom, NoDuplicates, Numbers
<1>3. AwaitOK'
  BY DEF AwaitOK, Op, Idle, Resource, Placed, Numbers, Routers, Kinds, Values, Someone,
         Directions, Rest
<1> QED BY <1>1, <1>2, <1>3

\* Something in the maps closes.
LEMMA Shrinks ==
  ASSUME SfuInv, NEW these \in SUBSET held, CloseAll(these),
         UNCHANGED <<made, room, peers, stopping>>,
         QueueOK', (awaiting' = awaiting /\ queue' = queue) \/ awaiting' = Idle, CountsOK'
  PROVE  SfuInv'
<1> USE DEF SfuInv
<1>1. MadeOK'
  BY DEF MadeOK, Numbers, Placed, Routers
<1>2. /\ open' \cap Routers = open \cap Routers
      /\ held' = open' \ Routers
      /\ held' \subseteq held /\ open' \subseteq open
  BY RouterStays DEF CloseAll
<1>3. RoomOK'
  BY <1>2 DEF RoomOK, NothingLeaks, OnTheRoom, NoDuplicates, Numbers, Routers, RouterOf
<1>4. AwaitOK'
  BY <1>2 DEF AwaitOK, Op, Idle, Resource, Placed, Numbers, Routers, Kinds, Values, Someone,
              Directions, Rest, RouterOf
<1> QED BY <1>1, <1>3, <1>4

\* Only the queue or the operation in progress changes.
LEMMA Settles ==
  ASSUME SfuInv, UNCHANGED <<made, room, peers, held, open, stopping>>, QueueOK', CountsOK',
         \/ awaiting' = Idle
         \/ awaiting' = awaiting /\ (awaiting # Idle => Op' = Op)
  PROVE  SfuInv'
<1> USE DEF SfuInv
<1>1. MadeOK'
  BY DEF MadeOK, Numbers, Placed, Routers
<1>2. RoomOK'
  BY DEF RoomOK, NothingLeaks, OnTheRoom, NoDuplicates, Numbers, Routers, RouterOf
<1>3. CASE awaiting' = Idle
  <2>1. AwaitOK'
    BY <1>3 DEF AwaitOK, Idle, Resource, Kinds, Values, Someone, Directions, Rest
  <2> QED BY <1>1, <1>2, <2>1
<1>4. CASE awaiting' = awaiting /\ awaiting # Idle /\ Op' = Op
  <2>1. AwaitOK'
    BY <1>4 DEF AwaitOK, Placed, Numbers, Routers, RouterOf
  <2> QED BY <1>1, <1>2, <2>1
<1> QED BY <1>1, <1>2, <1>3, <1>4

\* The operation in progress asks mediasoup for something.
LEMMA Begins ==
  ASSUME SfuInv, UNCHANGED <<made, room, peers, held, open, queue, stopping, notified, deaths>>,
         queue # <<>>, AwaitOK'
  PROVE  SfuInv'
<1> USE DEF SfuInv
<1>1. MadeOK'
  BY DEF MadeOK, Numbers, Placed, Routers
<1>2. RoomOK'
  BY DEF RoomOK, NothingLeaks, OnTheRoom, NoDuplicates, Numbers, Routers, RouterOf
<1>3. QueueOK' /\ CountsOK'
  BY DEF QueueOK, CountsOK
<1> QED BY <1>1, <1>2, <1>3

LEMMA Returns == ASSUME QueueOK, queue # <<>>, Return PROVE QueueOK' /\ awaiting' = Idle
BY DEF QueueOK, Return

\* mediasoup has made something.
LEMMA MadeGrows ==
  ASSUME MadeOK, NEW a \in Resources, Placed(a), made' = Append(made, a)
  PROVE  /\ MadeOK'
         /\ Len(made') = Len(made) + 1 /\ Numbers' = Numbers \cup {Len(made')}
         /\ made'[Len(made')] = a /\ \A i \in Numbers : made'[i] = made[i]
         /\ Routers' = Routers \cup IF a.kind = "router" THEN {Len(made')} ELSE {}
<1>1. /\ made' \in Seq(Resources)
      /\ Len(made') = Len(made) + 1 /\ Numbers' = Numbers \cup {Len(made')}
      /\ made'[Len(made')] = a /\ \A i \in Numbers : made'[i] = made[i]
  BY DEF MadeOK, Numbers
<1>2. Routers' = Routers \cup IF a.kind = "router" THEN {Len(made')} ELSE {}
  BY <1>1 DEF Routers
<1>3. ASSUME NEW i \in Numbers', i # Len(made') PROVE Placed(made[i])' /\ made'[i].on < i
  <2>1. i \in Numbers /\ made'[i] = made[i] /\ Placed(made[i]) /\ made[i].on < i
    BY <1>1, <1>3 DEF MadeOK
  <2>2. made[i].on \in Numbers => made'[made[i].on] = made[made[i].on]
    BY <1>1
  <2>3. made[i].kind \in Rest => made[i].on \in Numbers
    BY <2>1 DEF Placed, Rest
  <2> QED BY <1>1, <1>2, <2>1, <2>2, <2>3 DEF Placed
<1>4. Placed(made[Len(made)])' /\ made'[Len(made')].on < Len(made')
  <2>1. a.on \in Numbers => made'[a.on] = made[a.on]
    BY <1>1
  <2>2. a.kind \in Rest => a.on \in Numbers
    BY DEF Placed, Rest
  <2>3. a.kind \in Made /\ a.on \in Nat
    BY DEF Resources
  <2>4. Placed(made[Len(made)])'
    BY <1>1, <1>2, <2>1, <2>2 DEF Placed
  <2>5. a.on = 0 \/ a.on \in Numbers
    BY <2>2, <2>3 DEF Placed, Made, Rest, Routers
  <2>6. a.on < Len(made')
    BY <1>1, <2>3, <2>5 DEF Numbers, MadeOK
  <2> QED BY <1>1, <2>4, <2>6
<1> QED BY <1>1, <1>2, <1>3, <1>4 DEF MadeOK

----------------------------------------------------------------------------
(* The operations.                                                         *)

\* Operations that settle without a change: those that throw or find nothing to do.
LEMMA NothingDone ==
  ASSUME SfuInv, UNCHANGED <<made, room, peers, held, open, stopping, notified, deaths>>,
         queue # <<>>, Return
  PROVE  SfuInv'
<1>1. QueueOK' /\ awaiting' = Idle
  BY Returns DEF SfuInv
<1>2. CountsOK'
  BY DEF SfuInv, CountsOK
<1> QED BY <1>1, <1>2, Settles

LEMMA HeadIsOp == ASSUME QueueOK, queue # <<>> PROVE Op \in Ops
BY DEF QueueOK, Op

\* A join adds its peer to the room there is, or asks for a router.
LEMMA JoinSfu == ASSUME SfuInv, Join PROVE SfuInv'
<1> USE DEF SfuInv
<1>1. queue # <<>> /\ Op \in Ops /\ Op.peer \in Peers
  BY HeadIsOp DEF Join, Running, Ops
<1>2. UNCHANGED <<made, room, held, open, stopping, notified, deaths>>
  BY DEF Join, unchangedOutside
<1>3. CASE Return /\ peers' = peers
  BY <1>1, <1>2, <1>3, NothingDone
<1>4. CASE /\ awaiting' = Resource("router", Op.peer, 0, 0) /\ queue' = queue
           /\ peers' = peers /\ ~RoomExists
  <2>1. AwaitOK'
    BY <1>1, <1>2, <1>4 DEF AwaitOK, Resource, Kinds, Made, Directions, Rest, Values, Someone, Op, RoomExists
  <2> QED BY <1>1, <1>2, <1>4, <2>1, Begins
<1>5. CASE ~stopping /\ RoomExists /\ peers' = peers \cup {Op.peer} /\ Return
  <2>1. QueueOK' /\ awaiting' = Idle
    BY <1>1, <1>5, Returns
  <2>2. MadeOK' /\ CountsOK'
    BY <1>2 DEF MadeOK, CountsOK, Numbers, Placed, Routers
  <2>3. RoomOK'
    BY <1>1, <1>2, <1>5 DEF RoomOK, NothingLeaks, OnTheRoom, NoDuplicates, Numbers, Routers, RouterOf, RoomExists
  <2>4. AwaitOK'
    BY <2>1 DEF AwaitOK, Idle, Resource, Kinds, Values, Someone, Directions, Rest
  <2> QED BY <2>1, <2>2, <2>3, <2>4
<1> QED BY <1>2, <1>3, <1>4, <1>5 DEF Join

\* The router that comes is the only one.
LEMMA JoinCreatedSfu == ASSUME SfuInv, JoinCreated PROVE SfuInv'
<1> USE DEF SfuInv
<1>1. /\ awaiting # Idle /\ queue # <<>>
      /\ room = 0 /\ peers = {} /\ open \cap Routers = {} /\ held = {}
      /\ awaiting \in Resources /\ Placed(awaiting) /\ awaiting.peer \in Peers /\ Op.peer = awaiting.peer
  BY DEF JoinCreated, AwaitOK, Idle, Resource, QueueOK, RoomOK, NothingLeaks, Resources, Placed,
         Directions, Rest, Kinds, Made
<1>2. /\ MadeOK'
      /\ Len(made') = Len(made) + 1 /\ Numbers' = Numbers \cup {Len(made')}
      /\ Routers' = Routers \cup {Len(made')}
  BY <1>1, MadeGrows DEF JoinCreated
<1>3. QueueOK' /\ awaiting' = Idle
  BY <1>1, Returns DEF JoinCreated
<1>4. CountsOK'
  BY DEF JoinCreated, unchangedOutside, CountsOK
<1>5. open = {}
  BY <1>1 DEF RoomOK, NothingLeaks
<1>6. AwaitOK'
  BY <1>3 DEF AwaitOK, Idle, Resource, Kinds, Values, Someone, Directions, Rest
<1>7. RoomOK'
  <2>0. Len(made') \in Nat \ {0} /\ held' = {} /\ stopping' = stopping
    BY <1>1, <1>2 DEF MadeOK, JoinCreated, unchangedOutside
  <2>1. CASE KeepRouter
    <3>1. room' = Len(made') /\ peers' = {awaiting.peer} /\ open' = {Len(made')} /\ ~stopping
      BY <1>1, <1>5, <2>1 DEF JoinCreated, KeepRouter
    <3> QED BY <1>1, <1>2, <2>0, <3>1 DEF RoomOK, NothingLeaks, OnTheRoom, NoDuplicates
  <2>2. CASE ~KeepRouter
    <3>1. room' = 0 /\ peers' = {} /\ open' = {}
      BY <1>1, <1>5, <2>2 DEF JoinCreated
    <3> QED BY <2>0, <3>1 DEF RoomOK, NothingLeaks, OnTheRoom, NoDuplicates
  <2> QED BY <2>1, <2>2
<1> QED BY <1>2, <1>3, <1>4, <1>6, <1>7

\* A transport, producer or consumer is asked for while the room is there and the
\* peer has none like it.
LEMMA AsksSfu ==
  ASSUME SfuInv, CreateTransport \/ Produce \/ Consume
  PROVE  SfuInv'
<1> USE DEF SfuInv
<1>1. queue # <<>> /\ Op \in Ops
  BY HeadIsOp DEF CreateTransport, Produce, Consume, Running
<1>2. UNCHANGED <<made, room, peers, held, open, stopping, notified, deaths>>
  BY DEF CreateTransport, Produce, Consume, unchangedOutside
<1>3. CASE Return
  BY <1>1, <1>2, <1>3, NothingDone
<1>4. CASE /\ CreateTransport /\ queue' = queue
           /\ InContext(Op.peer) /\ ~\E i \in HeldBy(Op.peer) : made[i].kind = Op.arg
           /\ awaiting' = Resource(Op.arg, Op.peer, room, 0)
  <2>1. Op.arg \in Directions /\ Op.peer \in Someone
    BY <1>1, <1>4 DEF CreateTransport, Running, Ops
  <2>2. room \in Routers /\ Op.peer \in peers
    BY <1>4 DEF InContext, RoomOK, NothingLeaks, Routers, Numbers
  <2>3. awaiting' = [kind |-> Op.arg, peer |-> Op.peer, on |-> room, of |-> 0]
    BY <1>4 DEF Resource
  <2>4. Placed(awaiting)'
    BY <1>2, <2>1, <2>2, <2>3 DEF Placed, Routers, Numbers, Directions, Rest
  <2>5. AwaitOK'
    BY <1>2, <1>4, <2>1, <2>2, <2>3, <2>4
    DEF AwaitOK, RouterOf, HeldBy, Kinds, Made, Directions, Rest, Values, Routers, Numbers, RoomOK
  <2> QED BY <1>1, <1>2, <1>4, <2>5, Begins
<1>5. CASE /\ Produce /\ queue' = queue
           /\ MayUse(Op.peer, Op.on, "send") /\ ~TagTaken(Op.peer, Op.arg)
           /\ awaiting' = Resource("producer", Op.peer, Op.on, Op.arg)
  <2>1. /\ Op.on \in held /\ made[Op.on].peer = Op.peer /\ made[Op.on].kind = "send"
        /\ Op.peer \in peers /\ room # 0 /\ Op.peer \in Someone /\ Op.arg \in Values /\ Op.on \in Nat
    BY <1>1, <1>5 DEF MayUse, InContext, HeldBy, RoomOK, Numbers, Ops
  <2>2. Op.on \in Numbers /\ made[Op.on].on \in Routers /\ made[Op.on].on = room
    BY <2>1 DEF RoomOK, OnTheRoom, MadeOK, Placed, RouterOf, Directions
  <2>3. awaiting' = [kind |-> "producer", peer |-> Op.peer, on |-> Op.on, of |-> Op.arg]
    BY <1>5 DEF Resource
  <2>4. Placed(awaiting)'
    BY <1>2, <2>1, <2>2, <2>3 DEF Placed, Routers, Numbers, Directions, Rest
  <2>5. AwaitOK'
    BY <1>2, <1>5, <2>1, <2>2, <2>3, <2>4
    DEF AwaitOK, TagTaken, RouterOf, HeldBy, Kinds, Made, Directions, Rest
  <2> QED BY <1>1, <1>2, <1>5, <2>5, Begins
<1>6. CASE /\ Consume /\ queue' = queue
           /\ MayUse(Op.peer, Op.on, "recv")
           /\ ~\E i \in HeldBy(Op.peer) : made[i].kind = "consumer" /\ made[i].of = Op.arg
           /\ awaiting' = Resource("consumer", Op.peer, Op.on, Op.arg)
  <2>1. /\ Op.on \in held /\ made[Op.on].peer = Op.peer /\ made[Op.on].kind = "recv"
        /\ Op.peer \in peers /\ room # 0 /\ Op.peer \in Someone /\ Op.arg \in Values /\ Op.on \in Nat
    BY <1>1, <1>6 DEF MayUse, InContext, HeldBy, RoomOK, Numbers, Ops
  <2>2. Op.on \in Numbers /\ made[Op.on].on \in Routers /\ made[Op.on].on = room
    BY <2>1 DEF RoomOK, OnTheRoom, MadeOK, Placed, RouterOf, Directions
  <2>3. awaiting' = [kind |-> "consumer", peer |-> Op.peer, on |-> Op.on, of |-> Op.arg]
    BY <1>6 DEF Resource
  <2>4. Placed(awaiting)'
    BY <1>2, <2>1, <2>2, <2>3 DEF Placed, Routers, Numbers, Directions, Rest
  <2>5. AwaitOK'
    BY <1>2, <1>6, <2>1, <2>2, <2>3, <2>4
    DEF AwaitOK, RouterOf, HeldBy, Kinds, Made, Directions, Rest
  <2> QED BY <1>1, <1>2, <1>6, <2>5, Begins
<1> QED BY <1>3, <1>4, <1>5, <1>6 DEF CreateTransport, Produce, Consume

\* What has come is entered if the room is there still, and then it is wanted still.
LEMMA CreatedSfu == ASSUME SfuInv, Created PROVE SfuInv'
<1> USE DEF SfuInv
<1>1. /\ queue # <<>> /\ awaiting \in Resources /\ Placed(awaiting)
      /\ awaiting.kind \in Directions \cup Rest
  BY DEF Created, AwaitOK, QueueOK, Idle, Resource, Resources, Rest, Directions, Made, Kinds
<1>2. /\ MadeOK'
      /\ Len(made') = Len(made) + 1 /\ Numbers' = Numbers \cup {Len(made')}
      /\ made'[Len(made')] = awaiting /\ \A i \in Numbers : made'[i] = made[i]
      /\ Routers' = Routers
  BY <1>1, MadeGrows DEF Created, Directions, Rest
<1>3. QueueOK' /\ awaiting' = Idle
  BY <1>1, Returns DEF Created
<1>4. CountsOK'
  BY DEF Created, unchangedOutside, CountsOK
<1>5. AwaitOK'
  BY <1>3 DEF AwaitOK, Idle, Resource, Kinds, Values, Someone, Directions, Rest
<1>6. UNCHANGED <<room, peers, stopping>>
  BY DEF Created, unchangedOutside
<1>7. \A i \in held : made'[i] = made[i] /\ RouterOf(made[i])' = RouterOf(made[i])
  <2> SUFFICES ASSUME NEW i \in held
               PROVE  made'[i] = made[i] /\ RouterOf(made[i])' = RouterOf(made[i])
    OBVIOUS
  <2>1. i \in Numbers /\ made[i] \in Resources /\ made[i].kind # "router" /\ Placed(made[i])
    BY DEF RoomOK, NothingLeaks, Routers, MadeOK, Numbers
  <2>2. made[i].kind \in Rest => made[i].on \in Numbers
    BY <2>1 DEF Placed, Rest
  <2> QED BY <1>2, <2>1, <2>2 DEF RouterOf, Resources, Made, Rest
<1>8. RoomOK'
  <2>1. CASE ~EnsureLive(awaiting)
    <3>1. UNCHANGED <<held, open>>
      BY <2>1 DEF Created
    <3>2. OnTheRoom'
      BY <1>6, <1>7, <3>1 DEF RoomOK, OnTheRoom
    <3>3. NothingLeaks' /\ NoDuplicates'
      BY <1>2, <1>6, <1>7, <3>1 DEF RoomOK, NothingLeaks, NoDuplicates
    <3> QED BY <1>2, <1>6, <3>1, <3>2, <3>3 DEF RoomOK
  <2>2. CASE EnsureLive(awaiting)
    <3>0. PICK n \in Nat : n = Len(made')
      BY <1>2 DEF MadeOK
    <3>1. /\ open' = open \cup {n} /\ held' = held \cup {n}
          /\ n \in Numbers' /\ n \notin Routers /\ n \notin held
          /\ made'[n] = awaiting
      BY <1>1, <1>2, <2>2, <3>0 DEF Created, RoomOK, Routers, Numbers, MadeOK
    <3>2. /\ RouterOf(awaiting) = room /\ room # 0 /\ awaiting.peer \in peers
          /\ \A i \in held : ~(/\ made[i].kind = awaiting.kind
                               /\ made[i].peer = awaiting.peer
                               /\ made[i].of = awaiting.of)
      BY <1>1, <2>2 DEF EnsureLive, AwaitOK, RoomOK, Numbers
    <3>3. RouterOf(made[n])' = room
      <4>1. awaiting.kind \in Rest => awaiting.on \in Numbers
        BY <1>1 DEF Placed, Rest
      <4>2. \/ awaiting.kind \in Directions
            \/ awaiting.kind \in Rest /\ awaiting.kind \notin Directions
        BY <1>1 DEF Rest, Directions
      <4> QED BY <1>2, <3>1, <3>2, <4>1, <4>2 DEF RouterOf
    <3>4. OnTheRoom'
      BY <1>6, <1>7, <3>1, <3>3 DEF RoomOK, OnTheRoom
    <3>5. NothingLeaks'
      BY <1>2, <1>6, <1>7, <3>1, <3>2 DEF RoomOK, NothingLeaks
    <3>6. NoDuplicates'
      BY <1>7, <3>1, <3>2 DEF RoomOK, NoDuplicates
    <3> QED BY <1>2, <1>6, <3>1, <3>4, <3>5, <3>6 DEF RoomOK
  <2> QED BY <2>1, <2>2
<1> QED BY <1>2, <1>3, <1>4, <1>5, <1>8

\* Requests that mediasoup refuses, or that make nothing.
LEMMA PlainSfu == ASSUME SfuInv, Refused \/ Use \/ Used PROVE SfuInv'
<1> USE DEF SfuInv
<1>1. queue # <<>> /\ UNCHANGED <<made, room, peers, held, open, stopping, notified, deaths>>
  BY DEF Refused, Use, Used, Running, QueueOK, Idle, Resource, unchangedOutside
<1>2. CASE Return
  BY <1>1, <1>2, NothingDone
<1>3. CASE Use /\ awaiting' = Resource("use", Op.peer, Op.on, 0) /\ queue' = queue
  <2>1. Op \in Ops
    BY <1>1, HeadIsOp
  <2>2. AwaitOK'
    BY <1>3, <2>1 DEF AwaitOK, Resource, Kinds, Values, Ops, Directions, Rest
  <2> QED BY <1>1, <1>3, <2>2, Begins
<1> QED BY <1>2, <1>3 DEF Refused, Use, Used

\* Something in the maps is closed by a request.
LEMMA CloseResourceSfu == ASSUME SfuInv, CloseResource PROVE SfuInv'
<1> USE DEF SfuInv
<1>1. queue # <<>> /\ Return /\ UNCHANGED <<made, room, peers, stopping, notified, deaths>>
  BY DEF CloseResource, Running, unchangedOutside
<1>2. CASE UNCHANGED <<open, held>>
  BY <1>1, <1>2, NothingDone
<1>3. CASE Op.on \in held /\ CloseAll({Op.on})
  <2>1. QueueOK' /\ awaiting' = Idle /\ CountsOK'
    BY <1>1, Returns DEF CountsOK
  <2> QED BY <1>1, <1>3, <2>1, Shrinks
<1> QED BY <1>2, <1>3 DEF CloseResource, HeldBy

\* The room goes, by whoever's hand.
LEMMA RoomClosedSfu ==
  ASSUME SfuInv, made' = made, stopping' \in BOOLEAN, QueueOK',
         notified' \in Nat, deaths' \in Nat,
         (awaiting' = awaiting /\ queue' = queue) \/ awaiting' = Idle,
         room' = 0, peers' = {}, room # 0 => CloseAll({room}),
         room = 0 => UNCHANGED <<open, held>>
  PROVE  SfuInv'
<1> USE DEF SfuInv
<1>1. open' = {} /\ held' = {}
  <2>1. CASE room # 0
    BY <2>1, AllCloses
  <2>2. CASE room = 0
    BY <2>2 DEF RoomOK, NothingLeaks
  <2> QED BY <2>1, <2>2
<1>2. CountsOK'
  BY DEF CountsOK
<1> QED BY <1>1, <1>2, Gone

LEMMA LeaveSfu == ASSUME SfuInv, Leave PROVE SfuInv'
<1> USE DEF SfuInv
<1>1. queue # <<>> /\ Return /\ UNCHANGED <<made, stopping, deaths>>
  BY DEF Leave, Running, unchangedOutside
<1>2. QueueOK' /\ awaiting' = Idle
  BY <1>1, Returns
<1>3. CASE UNCHANGED <<room, peers, held, open, notified>>
  BY <1>1, <1>3, NothingDone
<1>4. CASE Op.peer \in peers /\ RoomClosed
  <2>1. room # 0
    BY <1>4 DEF RoomOK, NothingLeaks
  <2> QED BY <1>1, <1>2, <1>4, <2>1, RoomClosedSfu DEF RoomClosed, CountsOK
<1>5. CASE /\ Op.peer \in peers /\ peers # {Op.peer} /\ peers' = peers \ {Op.peer}
           /\ CloseAll(HeldBy(Op.peer)) /\ UNCHANGED <<room, notified>>
  <2>1. MadeOK' /\ CountsOK'
    BY <1>1, <1>5 DEF MadeOK, CountsOK, Numbers, Placed, Routers
  <2>2. HeldBy(Op.peer) \subseteq held
    BY DEF HeldBy
  <2>3. /\ open' \cap Routers = open \cap Routers
        /\ held' = open' \ Routers
        /\ held' \subseteq held /\ open' \subseteq open
    BY <1>1, <1>5, <2>2, RouterStays DEF CloseAll
  <2>4. \A i \in held' : made[i].peer # Op.peer
    <3> SUFFICES ASSUME NEW i \in held', made[i].peer = Op.peer PROVE FALSE
      OBVIOUS
    <3>1. i \in open /\ i \in HeldBy(Op.peer) /\ i \in Bases(i)
      BY <2>3, BasesOfHeld DEF HeldBy, RoomOK, NothingLeaks
    <3> QED BY <1>5, <3>1 DEF CloseAll, ClosedWith
  <2>5. RoomOK'
    <3>1. NothingLeaks'
      BY <1>1, <1>5, <2>3, <2>4 DEF RoomOK, NothingLeaks, Routers, Numbers
    <3>2. OnTheRoom' /\ NoDuplicates'
      BY <1>1, <1>5, <2>3 DEF RoomOK, OnTheRoom, NoDuplicates, RouterOf
    <3> QED BY <1>1, <1>5, <2>3, <3>1, <3>2 DEF RoomOK, Numbers
  <2>6. AwaitOK'
    BY <1>2 DEF AwaitOK, Idle, Resource, Kinds, Values, Someone, Directions, Rest
  <2> QED BY <1>2, <2>1, <2>5, <2>6
<1> QED BY <1>3, <1>4, <1>5 DEF Leave, IsLast, ClosePeer

LEMMA CloseRoomSfu == ASSUME SfuInv, CloseRoom PROVE SfuInv'
<1> USE DEF SfuInv
<1>1. queue # <<>> /\ Return /\ UNCHANGED <<made, stopping, deaths>>
  BY DEF CloseRoom, Running, unchangedOutside
<1>2. QueueOK' /\ awaiting' = Idle
  BY <1>1, Returns
<1>3. CASE UNCHANGED <<room, peers, held, open, notified>>
  BY <1>1, <1>3, NothingDone
<1>4. CASE room # 0 /\ RoomClosed
  BY <1>1, <1>2, <1>4, RoomClosedSfu DEF RoomClosed, CountsOK
<1> QED BY <1>3, <1>4 DEF CloseRoom

----------------------------------------------------------------------------
(* What happens outside the queue.                                         *)

LEMMA OutsideSfu ==
  ASSUME SfuInv, Destroy \/ WorkerDies \/ TransportFails \/ ProducerGone
  PROVE  SfuInv'
<1> USE DEF SfuInv
<1>1. UNCHANGED <<made, queue, awaiting>> /\ QueueOK'
  BY DEF Destroy, WorkerDies, TransportFails, ProducerGone, QueueOK
<1>2. CASE Destroy
  <2>1. room' = 0 /\ peers' = {} /\ notified' = notified
    BY <1>2 DEF Destroy, RoomClosed, RoomOK, NothingLeaks
  <2>2. (room # 0 => CloseAll({room})) /\ (room = 0 => UNCHANGED <<open, held>>)
    BY <1>2 DEF Destroy, RoomClosed
  <2> QED BY <1>1, <1>2, <2>1, <2>2, RoomClosedSfu DEF Destroy, CountsOK
<1>3. CASE WorkerDies
  <2>1. PICK router \in open \cap Routers :
          /\ CloseAll({router})
          /\ IF room = router THEN room' = 0 /\ peers' = {} /\ notified' = notified + 1
                              ELSE UNCHANGED <<room, peers, notified>>
    BY <1>3 DEF WorkerDies
  <2>2. router = room /\ room # 0
    BY DEF RoomOK, NothingLeaks
  <2>3. stopping' \in BOOLEAN /\ notified' \in Nat /\ deaths' \in Nat
    BY <1>3, <2>1, <2>2 DEF WorkerDies, CountsOK
  <2> QED BY <1>1, <2>1, <2>2, <2>3, RoomClosedSfu
<1>4. CASE TransportFails
  <2>1. PICK t \in held : CloseAll({t})
    BY <1>4 DEF TransportFails
  <2> QED BY <1>1, <1>4, <2>1, Shrinks DEF TransportFails, CountsOK
<1>5. CASE ProducerGone
  <2>1. PICK c \in open : made[c].kind = "consumer" /\ CloseAll({c})
    BY <1>5 DEF ProducerGone
  <2>2. c \in held
    BY <2>1 DEF RoomOK, NothingLeaks, Routers
  <2> QED BY <1>1, <1>5, <2>1, <2>2, Shrinks DEF ProducerGone, CountsOK
<1> QED BY <1>2, <1>3, <1>4, <1>5

LEMMA AskSfu == ASSUME SfuInv, Ask PROVE SfuInv'
<1> USE DEF SfuInv
<1>1. PICK op \in Asked : queue' = Append(queue, op)
  BY DEF Ask
<1>2. op \in Ops
  <2>0. held \subseteq Nat /\ peers \subseteq Peers
    BY DEF RoomOK, Numbers, MadeOK
  <2> USE <2>0 DEF Ops, Someone, Values
  <2>1. CASE op \in [kind : {"join", "leave"}, peer : Peers, on : {0}, arg : {0}]
    BY <2>1
  <2>2. CASE op \in [kind : {"closeRoom"}, peer : {"none"}, on : {0}, arg : {0}]
    BY <2>2
  <2>3. CASE op \in [kind : {"createTransport"}, peer : peers, on : {0}, arg : Directions]
    BY <2>3
  <2>4. CASE op \in [kind : {"produce"}, peer : peers, on : held, arg : Tags]
    BY <2>4
  <2>5. CASE op \in [kind : {"consume"}, peer : peers, on : held, arg : held]
    BY <2>5
  <2>6. CASE op \in [kind : {"use", "close"}, peer : peers, on : held, arg : {0}]
    <3>1. PICK kind \in {"use", "close"}, peer \in peers, on \in held :
            op = [kind |-> kind, peer |-> peer, on |-> on, arg |-> 0]
      BY <2>6
    <3> QED BY <3>1
  <2> QED BY <2>1, <2>2, <2>3, <2>4, <2>5, <2>6 DEF Asked
<1>3. queue' \in Seq(Ops) /\ (queue # <<>> => queue' # <<>> /\ Head(queue') = Head(queue))
  BY <1>1, <1>2 DEF QueueOK
<1>4. UNCHANGED <<made, room, peers, held, open, awaiting, stopping, notified, deaths>>
  BY DEF Ask
<1>5. QueueOK' /\ (awaiting # Idle => Op' = Op)
  BY <1>3, <1>4 DEF QueueOK, Op, Idle, Resource
<1>6. CountsOK'
  BY <1>4 DEF CountsOK
<1> QED BY <1>4, <1>5, <1>6, Settles

----------------------------------------------------------------------------

LEMMA InitSfu == Init => SfuInv
<1> SUFFICES ASSUME Init PROVE SfuInv
  OBVIOUS
<1>1. MadeOK
  <2>1. made = <<>> /\ Len(made) = 0
    BY DEF Init
  <2>2. Numbers = {}
    BY <2>1 DEF Numbers
  <2>3. made \in Seq(Resources)
    BY <2>1
  <2> QED BY <2>2, <2>3 DEF MadeOK
<1>2. RoomOK
  BY DEF Init, RoomOK, NothingLeaks, OnTheRoom, NoDuplicates, Routers, Numbers
<1>3. AwaitOK
  BY DEF Init, AwaitOK, Idle, Resource, Kinds, Someone, Values, Directions, Rest
<1>4. QueueOK
  <2>1. queue = <<>> /\ awaiting = Idle
    BY DEF Init
  <2> QED BY <2>1 DEF QueueOK
<1>5. CountsOK
  BY DEF Init, CountsOK
<1> QED BY <1>1, <1>2, <1>3, <1>4, <1>5 DEF SfuInv

LEMMA NextSfu == SfuInv /\ [Next]_vars => SfuInv'
<1> SUFFICES ASSUME SfuInv, [Next]_vars PROVE SfuInv'
  OBVIOUS
<1>1. CASE UNCHANGED vars
  <2>1. QueueOK' /\ CountsOK' /\ Op' = Op
    BY <1>1 DEF vars, SfuInv, QueueOK, CountsOK, Op, Idle, Resource
  <2> QED BY <1>1, <2>1, Settles DEF vars
<1>2. CASE Step
  BY <1>2, JoinSfu, JoinCreatedSfu, AsksSfu, CreatedSfu, PlainSfu, CloseResourceSfu, LeaveSfu,
     CloseRoomSfu DEF Step
<1> QED BY <1>1, <1>2, OutsideSfu, AskSfu DEF Next

----------------------------------------------------------------------------

LEMMA InvariantSfu == Spec => []SfuInv
BY InitSfu, NextSfu, PTL DEF Spec

\* For any peers, requests and faults: what mediasoup has open is held by present
\* peers, what they hold is open, and a room is there exactly as long as its peers.
THEOREM NothingEverLeaks == Spec => []NothingLeaks
<1>1. SfuInv => NothingLeaks
  BY DEF SfuInv, RoomOK
<1> QED BY <1>1, InvariantSfu, PTL

\* A peer never has two transports of a direction, two producers of a media tag or
\* two consumers of a producer, although each is looked for before an await.
THEOREM NeverDuplicates == Spec => []NoDuplicates
<1>1. SfuInv => NoDuplicates
  BY DEF SfuInv, RoomOK
<1> QED BY <1>1, InvariantSfu, PTL

\* The loss of a room is reported when a worker takes it, and never for a room that
\* the service closes itself.
THEOREM LossIsNotified == Spec => NotifiedOfLossOnly
<1>1. SfuInv /\ [Next]_vars => [notified' # notified <=> deaths' # deaths /\ peers # {}]_vars
  <2> SUFFICES ASSUME SfuInv, Next PROVE notified' # notified <=> deaths' # deaths /\ peers # {}
    OBVIOUS
  <2>1. CASE WorkerDies
    <3>1. PICK router \in open \cap Routers :
            IF room = router THEN notified' = notified + 1 ELSE notified' = notified
      BY <2>1 DEF WorkerDies
    <3>2. router = room /\ room # 0 /\ peers # {}
      BY DEF SfuInv, RoomOK, NothingLeaks
    <3> QED BY <2>1, <3>1, <3>2 DEF WorkerDies, SfuInv, CountsOK
  <2>2. CASE ~WorkerDies
    <3>1. UNCHANGED <<notified, deaths>>
      BY <2>2 DEF Next, Step, Join, JoinCreated, CreateTransport, Produce, Consume, Created, Refused,
         Use, Used, CloseResource, Leave, CloseRoom, Destroy, TransportFails, ProducerGone, Ask,
         RoomClosed, unchangedOutside
    <3> QED BY <3>1
  <2> QED BY <2>1, <2>2
<1> QED BY <1>1, InvariantSfu, PTL DEF Spec, NotifiedOfLossOnly

\* A room is what CallsService relies on: peers that join, leave and go together.
THEOREM RoomIsMediaRoom == Spec => ImplementsMediaRoom
<1>1. Init => Media!MediaInit
  BY DEF Init, Media!MediaInit
<1>2. SfuInv /\ [Next]_vars => [Media!MediaNext]_<<peers, notified>>
  <2> SUFFICES ASSUME SfuInv, Next, ~UNCHANGED <<peers, notified>> PROVE Media!MediaNext
    BY DEF vars
  <2> USE DEF Media!MediaNext, Media!Admit, Media!Remove, Media!Close, Media!Lose
  <2>1. CASE Join
    <3>1. Op.peer \in Peers /\ peers' = peers \cup {Op.peer} /\ notified' = notified
      BY <2>1, HeadIsOp DEF Join, Running, SfuInv, Ops
    <3> QED BY <3>1
  <2>2. CASE JoinCreated
    <3>1. peers = {} /\ awaiting.peer \in Peers /\ Op.peer = awaiting.peer /\ notified' = notified
      BY <2>2 DEF JoinCreated, SfuInv, AwaitOK, RoomOK, NothingLeaks
    <3>2. peers' = {Op.peer}
      BY <2>2, <3>1 DEF JoinCreated
    <3> QED BY <3>1, <3>2
  <2>3. CASE Leave
    <3>1. Op.peer \in Peers
      BY <2>3 DEF Leave, SfuInv, RoomOK
    <3> QED BY <2>3, <3>1 DEF Leave, RoomClosed
  <2>4. CASE CloseRoom \/ Destroy
    BY <2>4 DEF CloseRoom, Destroy, RoomClosed
  <2>5. CASE WorkerDies
    <3>1. PICK router \in open \cap Routers :
            IF room = router THEN peers' = {} /\ notified' = notified + 1
                             ELSE UNCHANGED <<peers, notified>>
      BY <2>5 DEF WorkerDies
    <3>2. router = room /\ room # 0 /\ peers # {}
      BY DEF SfuInv, RoomOK, NothingLeaks
    <3> QED BY <3>1, <3>2
  <2> QED BY <2>1, <2>2, <2>3, <2>4, <2>5
      DEF Next, Step, CreateTransport, Produce, Consume, Created, Refused, Use, Used, CloseResource,
          TransportFails, ProducerGone, Ask
<1> QED BY <1>1, <1>2, InvariantSfu, PTL DEF Spec, ImplementsMediaRoom, Media!MediaSpec, Media!mediaVars

----------------------------------------------------------------------------
(* What is on which transport.                                             *)

\* What is held on a transport is held with it, unless it came too late.
OnHeld ==
  /\ belated \subseteq Numbers
  /\ \A i \in held : made[i].kind \in Rest => made[i].on \in held \/ i \in belated

LEMMA HeldTogether ==
  ASSUME SfuInv, OnHeld, [Next]_vars
  PROVE  OnHeld'
<1> USE DEF SfuInv
<1>1. SfuInv'
  BY NextSfu
<1>2. ASSUME NEW these, CloseAll(these), 0 \notin these, UNCHANGED <<made, belated>> PROVE OnHeld'
  <2> SUFFICES ASSUME NEW i \in held', made[i].kind \in Rest, i \notin belated PROVE made[i].on \in held'
    BY <1>2 DEF OnHeld, Numbers
  <2>1. i \in held /\ made[i].on \in held /\ i \in Numbers /\ i \in open /\ made[i].on \in Numbers
    BY <1>2 DEF CloseAll, OnHeld, RoomOK, NothingLeaks
  <2>2. Bases(made[i].on) \ {0} \subseteq Bases(i)
    <3>1. made[made[i].on].kind \in Directions
      BY <2>1 DEF MadeOK, Placed, Rest, Directions
    <3>2. Bases(made[i].on) = {made[i].on, made[made[i].on].on, 0}
      BY <2>1, <3>1, BasesOfHeld
    <3> QED BY <2>1, <3>2, BasesOfHeld
  <2>3. i \notin ClosedWith(these)
    BY <1>2 DEF CloseAll
  <2> QED BY <1>2, <2>1, <2>2, <2>3 DEF CloseAll, ClosedWith
<1>3. 0 \notin held /\ 0 \notin Numbers
  BY DEF RoomOK, Numbers
<1>4. CASE UNCHANGED <<held, made, belated>>
  BY <1>4 DEF OnHeld, Numbers
<1>5. CASE JoinCreated
  <2>1. held' = {} /\ belated' = belated
    BY <1>5 DEF JoinCreated, AwaitOK, RoomOK, NothingLeaks, unchangedOutside
  <2>2. awaiting \in Resources /\ Placed(awaiting) /\ made' = Append(made, awaiting)
    BY <1>5 DEF JoinCreated, AwaitOK, Resources, Placed, Rest, Directions, Made, Kinds
  <2>3. Numbers \subseteq Numbers'
    BY <2>2, MadeGrows
  <2> QED BY <2>1, <2>3 DEF OnHeld
<1>6. CASE Created
  <2>1. /\ awaiting \in Resources /\ Placed(awaiting) /\ made' = Append(made, awaiting)
    BY <1>6 DEF Created, AwaitOK, Resources, Rest, Directions, Made, Kinds
  <2>2. PICK n \in Nat : n = Len(made')
    BY <2>1 DEF MadeOK
  <2>3. /\ held' \subseteq held \cup {n} /\ held \subseteq held'
        /\ made'[n] = awaiting /\ \A i \in Numbers : made'[i] = made[i]
        /\ n \in Numbers' /\ Numbers \subseteq Numbers'
        /\ belated \subseteq belated' /\ belated' \subseteq belated \cup {n}
    BY <1>6, <2>1, <2>2, MadeGrows DEF Created
  <2>4. CASE held' = held
    BY <2>3, <2>4 DEF OnHeld, RoomOK
  <2>5. CASE EnsureLive(awaiting) /\ awaiting.kind \in Rest
    <3>1. awaiting.on \in Numbers /\ made[awaiting.on].kind # "router"
      BY <2>1, <2>5 DEF Placed, Rest, Directions
    <3>2. awaiting.on \in open \/ n \in belated'
      BY <1>6, <2>2, <2>5 DEF Created
    <3>3. awaiting.on \in held \/ n \in belated'
      BY <3>1, <3>2 DEF RoomOK, NothingLeaks, Routers
    <3> QED BY <2>3, <3>3 DEF OnHeld, RoomOK
  <2>6. CASE awaiting.kind \notin Rest
    BY <2>3, <2>6 DEF OnHeld, RoomOK
  <2> QED BY <1>6, <2>4, <2>5, <2>6 DEF Created
<1>7. CASE CloseResource \/ Leave \/ CloseRoom \/ Destroy \/ WorkerDies \/ TransportFails \/ ProducerGone
  <2>1. made' = made /\ belated' = belated
    BY <1>7 DEF CloseResource, Leave, CloseRoom, Destroy, WorkerDies, TransportFails, ProducerGone,
       unchangedOutside
  <2>2. \/ held' = held
        \/ \E these : 0 \notin these /\ CloseAll(these)
    <3>1. CASE CloseResource \/ Leave
      <4>1. 0 \notin {Op.on} \/ Op.on \notin HeldBy(Op.peer)
        BY <1>3 DEF HeldBy
      <4>2. 0 \notin HeldBy(Op.peer)
        BY <1>3 DEF HeldBy
      <4>3. Op.peer \in peers => 0 \notin {room}
        BY DEF RoomOK, NothingLeaks
      <4> QED BY <3>1, <4>1, <4>2, <4>3 DEF CloseResource, Leave, ClosePeer, RoomClosed
    <3>2. CASE CloseRoom \/ Destroy
      BY <3>2 DEF CloseRoom, Destroy, RoomClosed
    <3>3. CASE WorkerDies
      BY <1>3, <3>3 DEF WorkerDies, Routers
    <3>4. CASE TransportFails \/ ProducerGone
      BY <1>3, <3>4 DEF TransportFails, ProducerGone, RoomOK
    <3> QED BY <1>7, <3>1, <3>2, <3>3, <3>4
  <2> QED BY <1>2, <1>4, <2>1, <2>2
<1> QED BY <1>4, <1>5, <1>6, <1>7
    DEF Next, Step, vars, Join, CreateTransport, Produce, Consume, Refused, Use, Used, Ask,
        unchangedOutside

LEMMA InvariantHeld == Spec => []OnHeld
<1>1. Init => OnHeld
  BY DEF Init, OnHeld
<1>2. SfuInv /\ OnHeld /\ [Next]_vars => OnHeld'
  BY HeldTogether
<1> QED BY <1>1, <1>2, InvariantSfu, PTL DEF Spec

\* The room, its resources and the operations keep their types.
THEOREM SfuTypes == Spec => []TypeOK
<1>1. SfuInv /\ OnHeld => TypeOK
  <2> SUFFICES ASSUME SfuInv, OnHeld PROVE TypeOK
    OBVIOUS
  <2>1. room \in 0 .. Len(made)
    BY DEF SfuInv, RoomOK, NothingLeaks, Numbers, MadeOK
  <2>2. ASSUME NEW i \in Numbers PROVE made[i].kind \in Made /\ made[i].on \in 0 .. i - 1
    <3>1. made[i] \in Resources /\ made[i].on < i /\ i \in Nat
      BY DEF SfuInv, MadeOK, Numbers
    <3> QED BY <3>1 DEF Resources
  <2>3. awaiting.kind \in Kinds
    BY DEF SfuInv, AwaitOK
  <2> QED BY <2>1, <2>2, <2>3 DEF SfuInv, OnHeld, TypeOK, RoomOK, QueueOK, CountsOK
<1> QED BY <1>1, InvariantSfu, InvariantHeld, PTL

\* Whatever mediasoup delivers too late: every transport held is the present router's, and
\* every producer and consumer on a transport of that router, of its own peer and of the
\* right direction, which is held too unless it had closed before they were entered.
THEOREM ResourcesOnOwnTransports == Spec => []OnOwnTransport
<1>1. SfuInv /\ OnHeld => OnOwnTransport
  <2> SUFFICES ASSUME SfuInv, OnHeld, NEW i \in held
               PROVE  LET on == made[i].on IN
                      IF made[i].kind \in Directions THEN on = room
                      ELSE /\ made[on].kind = (IF made[i].kind = "producer" THEN "send" ELSE "recv")
                           /\ made[on].peer = made[i].peer /\ made[on].on = room
                           /\ on \in held \/ i \in belated
    BY DEF OnOwnTransport
  <2>1. made[i] \in Resources /\ Placed(made[i]) /\ RouterOf(made[i]) = room /\ made[i].kind # "router"
    BY DEF SfuInv, RoomOK, MadeOK, OnTheRoom, NothingLeaks, Routers, Numbers
  <2>2. CASE made[i].kind \in Directions
    BY <2>1, <2>2 DEF RouterOf, Directions
  <2>3. CASE made[i].kind = "producer"
    BY <2>1, <2>3 DEF Placed, OnHeld, Rest, Directions, RouterOf
  <2>4. CASE made[i].kind = "consumer"
    BY <2>1, <2>4 DEF Placed, OnHeld, Rest, Directions, RouterOf
  <2> QED BY <2>1, <2>2, <2>3, <2>4 DEF Resources, Made
<1> QED BY <1>1, InvariantSfu, InvariantHeld, PTL

=============================================================================
