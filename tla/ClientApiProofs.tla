-------------------------- MODULE ClientApiProofs --------------------------
(***************************************************************************)
(* What a client sees of the API: who hears a chat message, for any        *)
(* sockets, users and payloads; the lists of notifications, for any        *)
(* streams, users and calls of createNotification; and a REST request,     *)
(* for any requests, users and indexes, through the routes and operations  *)
(* of all controllers and services.                                        *)
(***************************************************************************)
EXTENDS Chat, Notifications, RestApi, SequenceTheorems, WellFoundedInduction, TLAPS

(***************************************************************************)
(* The chat.                                                               *)
(***************************************************************************)

Meaningful == {"call", "dm"} \X (Nat \ {0})

\* Two room names are equal exactly when they stand for one conversation.
LEMMA NamesAreConversations ==
  ASSUME NEW u \in Nat, NEW v \in Nat, NEW p \in Meaningful, NEW q \in Meaningful
  PROVE  RoomName(u, p) = RoomName(v, q) <=> Conversation(u, p) = Conversation(v, q)
<1> DEFINE a == p[2]
           b == q[2]
<1>0. a \in Nat /\ b \in Nat /\ a # 0 /\ b # 0 /\ p[1] \in {"call", "dm"} /\ q[1] \in {"call", "dm"}
  BY DEF Meaningful
<1> HIDE DEF a, b
<1>1. CASE p[1] = "call" \/ q[1] = "call"
  BY <1>0, <1>1 DEF RoomName, Conversation, a, b
<1>2. CASE p[1] = "dm" /\ q[1] = "dm"
  <2>1. Conversation(u, p) = Conversation(v, q) <=> {u, a} = {v, b}
    BY <1>2 DEF Conversation, a, b
  <2>2. {u, a} = {v, b} <=> (u = v /\ a = b) \/ (u = b /\ a = v)
    OBVIOUS
  <2>3. /\ RoomName(u, p) = IF u < a THEN <<"dm", u, a>> ELSE <<"dm", a, u>>
        /\ RoomName(v, q) = IF v < b THEN <<"dm", v, b>> ELSE <<"dm", b, v>>
    BY <1>2 DEF RoomName, a, b
  <2>4. RoomName(u, p) = RoomName(v, q) <=> (u = v /\ a = b) \/ (u = b /\ a = v)
    BY <1>0, <2>3
  <2> QED BY <2>1, <2>2, <2>4
<1> QED BY <1>0, <1>1, <1>2

\* To one user, two payloads never name the same room.
LEMMA PayloadsDiffer ==
  ASSUME NEW u \in Nat, NEW p \in Meaningful, NEW q \in Meaningful, RoomName(u, p) = RoomName(u, q)
  PROVE  p = q
<1>1. Conversation(u, p) = Conversation(u, q)
  BY NamesAreConversations
<1>2. p = <<p[1], p[2]>> /\ q = <<q[1], q[2]>> /\ p[2] # 0 /\ q[2] # 0
  BY DEF Meaningful
<1>3. p[1] = q[1] /\ p[2] = q[2]
  <2>1. CASE p[1] = "call" \/ q[1] = "call"
    BY <1>1, <1>2, <2>1 DEF Conversation, Meaningful
  <2>2. CASE p[1] = "dm" /\ q[1] = "dm"
    <3>1. {u, p[2]} = {u, q[2]}
      BY <1>1, <2>2 DEF Conversation
    <3> QED BY <2>2, <3>1
  <2> QED BY <2>1, <2>2 DEF Meaningful
<1> QED BY <1>2, <1>3

----------------------------------------------------------------------------

\* A ready socket's token was verified, and the rooms of a socket are those of
\* what it has joined and not left.
RoomsInv ==
  /\ TypeOK /\ OnlyVerifiedHear
  /\ \A s \in Sockets : state[s] = "ready" => token[s] = "valid"
  /\ \A s \in Sockets : joined[s] \subseteq Meaningful
  /\ \A s \in Sockets : rooms[s] = {Room(s, payload) : payload \in joined[s]}

LEMMA InitRooms == Init => RoomsInv
BY DEF Init, RoomsInv, TypeOK, OnlyVerifiedHear, Names

LEMMA ClosedRooms ==
  ASSUME RoomsInv, NEW s \in Sockets, Closed(s)
  PROVE  RoomsInv'
BY DEF RoomsInv, TypeOK, OnlyVerifiedHear, Names, Room, Closed

LEMMA EventRooms ==
  ASSUME RoomsInv, NEW s \in Sockets, NEW payload \in Payloads,
         JoinChat(s, payload) \/ LeaveChat(s, payload) \/ SendMessage(s, payload)
  PROVE  RoomsInv'
<1>0. /\ UserOf[s] \in Nat /\ payload \in Meaningful /\ joined[s] \subseteq Meaningful
      /\ Room(s, payload) \in Names /\ state[s] = "ready" /\ token[s] = "valid"
  BY UserOfAssumption, PayloadsAssumption
  DEF RoomsInv, Meaningful, Names, Room, JoinChat, LeaveChat, SendMessage, Admitted, ValidIdx
<1>1. ASSUME UNCHANGED <<state, token, expired>> /\ relayed' = NoRelay,
             rooms' \in [Sockets -> SUBSET Names], joined' \in [Sockets -> SUBSET Payloads],
             \A t \in Sockets : t # s => rooms'[t] = rooms[t] /\ joined'[t] = joined[t],
             joined'[s] \subseteq Meaningful, rooms'[s] = {Room(s, p) : p \in joined'[s]}
      PROVE  RoomsInv'
  <2>1. TypeOK' /\ (\A t \in Sockets : state'[t] = "ready" => token'[t] = "valid")
    BY <1>1 DEF RoomsInv, TypeOK, Names, Room
  <2>2. OnlyVerifiedHear'
    BY <1>0, <1>1 DEF RoomsInv, OnlyVerifiedHear
  <2>3. \A t \in Sockets : joined'[t] \subseteq Meaningful
    BY <1>1 DEF RoomsInv
  <2>4. \A t \in Sockets : rooms'[t] = {Room(t, p) : p \in joined'[t]}
    BY <1>1 DEF RoomsInv
  <2> QED BY <2>1, <2>2, <2>3, <2>4 DEF RoomsInv, Room
<1>2. CASE JoinChat(s, payload)
  <2>1. /\ rooms' = [rooms EXCEPT ![s] = @ \cup {Room(s, payload)}]
        /\ joined' = [joined EXCEPT ![s] = @ \cup {payload}]
        /\ UNCHANGED <<state, token, expired>> /\ relayed' = NoRelay
    BY <1>2 DEF JoinChat
  <2>2. rooms' \in [Sockets -> SUBSET Names] /\ joined' \in [Sockets -> SUBSET Payloads]
    BY <1>0, <2>1 DEF RoomsInv, TypeOK
  <2>3. rooms'[s] = rooms[s] \cup {Room(s, payload)} /\ joined'[s] = joined[s] \cup {payload}
    BY <2>1 DEF RoomsInv, TypeOK
  <2>4. rooms'[s] = {Room(s, p) : p \in joined'[s]}
    BY <2>3 DEF RoomsInv
  <2>5. \A t \in Sockets : t # s => rooms'[t] = rooms[t] /\ joined'[t] = joined[t]
    BY <2>1 DEF RoomsInv, TypeOK
  <2> QED BY <1>0, <1>1, <2>1, <2>2, <2>3, <2>4, <2>5
<1>3. CASE LeaveChat(s, payload)
  <2>1. /\ rooms' = [rooms EXCEPT ![s] = @ \ {Room(s, payload)}]
        /\ joined' = [joined EXCEPT ![s] = @ \ {payload}]
        /\ UNCHANGED <<state, token, expired>> /\ relayed' = NoRelay
    BY <1>3 DEF LeaveChat
  <2>2. rooms' \in [Sockets -> SUBSET Names] /\ joined' \in [Sockets -> SUBSET Payloads]
    BY <2>1 DEF RoomsInv, TypeOK
  <2>3. rooms'[s] = rooms[s] \ {Room(s, payload)} /\ joined'[s] = joined[s] \ {payload}
    BY <2>1 DEF RoomsInv, TypeOK
  <2>4. \A p \in joined[s] : Room(s, p) = Room(s, payload) <=> p = payload
    BY <1>0, PayloadsDiffer DEF Room
  <2>5. rooms'[s] = {Room(s, p) : p \in joined'[s]}
    <3>1. rooms[s] = {Room(s, p) : p \in joined[s]}
      BY DEF RoomsInv
    <3> QED BY <2>3, <2>4, <3>1
  <2>6. \A t \in Sockets : t # s => rooms'[t] = rooms[t] /\ joined'[t] = joined[t]
    BY <2>1 DEF RoomsInv, TypeOK
  <2> QED BY <1>0, <1>1, <2>1, <2>2, <2>3, <2>5, <2>6
<1>4. CASE SendMessage(s, payload)
  <2>1. /\ relayed'.from = s /\ relayed'.to \subseteq Sockets
        /\ UNCHANGED <<state, token, expired, rooms, joined>>
    BY <1>4 DEF SendMessage
  <2> QED BY <2>1 DEF RoomsInv, TypeOK, OnlyVerifiedHear, Names, Room
<1> QED BY <1>2, <1>3, <1>4

LEMMA NextRooms == RoomsInv /\ [Next]_vars => RoomsInv'
<1> SUFFICES ASSUME RoomsInv, [Next]_vars PROVE RoomsInv'
  OBVIOUS
<1> USE DEF RoomsInv, TypeOK, OnlyVerifiedHear
<1>1. ASSUME NEW s \in Sockets, Connect(s) PROVE RoomsInv'
  BY <1>1 DEF Connect, Names, Room
<1>2. ASSUME NEW s \in Sockets, Verified(s) PROVE RoomsInv'
  BY <1>2 DEF Verified, Names, Room
<1>3. ASSUME NEW s \in Sockets, Event(s) PROVE RoomsInv'
  BY <1>3, EventRooms, ClosedRooms DEF Event, Refuse
<1>4. ASSUME NEW s \in Sockets, Disconnect(s) PROVE RoomsInv'
  BY <1>4, ClosedRooms DEF Disconnect
<1>5. ASSUME NEW s \in Sockets, Expire(s) PROVE RoomsInv'
  BY <1>5 DEF Expire, Names, Room
<1>6. CASE UNCHANGED vars
  BY <1>6 DEF vars, Names, Room
<1> QED BY <1>1, <1>2, <1>3, <1>4, <1>5, <1>6 DEF Next

\* The chat keeps its types: a room name is always one that getRoomName makes
\* of a socket's own user.
THEOREM ChatTypes == Spec => []TypeOK
<1>1. RoomsInv => TypeOK
  BY DEF RoomsInv
<1> QED BY <1>1, InitRooms, NextRooms, PTL DEF Spec

\* Sockets that WsGuard has not let through, or that are gone, hear nothing.
THEOREM OnlyTheVerifiedEverHear == Spec => []OnlyVerifiedHear
<1>1. RoomsInv => OnlyVerifiedHear
  BY DEF RoomsInv
<1> QED BY <1>1, InitRooms, NextRooms, PTL DEF Spec

\* relayMessage reaches exactly those who have asked for the conversation,
\* whatever the users' numbers and from whichever side they asked.
THEOREM RelayIsExact == Spec => RelayExact
<1> DEFINE Hearers(m) == {t \in Sockets \ {m.from} :
                            \E payload \in joined[t] :
                              Conversation(UserOf[t], payload) = Conversation(UserOf[m.from],
                                m.payload)}
<1>1. RoomsInv /\ [Next]_vars => [relayed' \notin {relayed,
        NoRelay} => relayed'.to = Hearers(relayed')]_vars
  <2> SUFFICES ASSUME RoomsInv, Next, relayed' \notin {relayed,
                        NoRelay} PROVE relayed'.to = Hearers(relayed')
    OBVIOUS
  <2>1. PICK s \in Sockets, payload \in Payloads :
          ValidIdx(payload) /\ relayed' = [from |-> s, payload |-> payload,
                      to |-> {t \in Sockets \ {s} : Room(s, payload) \in rooms[t]}]
    BY DEF Next, Connect, Verified, Event, JoinChat, LeaveChat, SendMessage, Refuse, Disconnect,
           Expire, Closed
  <2>2. ASSUME NEW t \in Sockets
        PROVE  Room(s, payload) \in rooms[t]
                 <=> \E p \in joined[t] : Conversation(UserOf[t], p) = Conversation(UserOf[s],
                   payload)
    <3>1. /\ UserOf[s] \in Nat /\ UserOf[t] \in Nat /\ payload \in Meaningful
          /\ joined[t] \subseteq Meaningful
      BY <2>1, UserOfAssumption, PayloadsAssumption DEF RoomsInv, Meaningful, ValidIdx
    <3>2. Room(s, payload) \in rooms[t] <=> \E p \in joined[t] : Room(t, p) = Room(s, payload)
      BY DEF RoomsInv
    <3> QED BY <3>1, <3>2, NamesAreConversations DEF Room
  <2> QED BY <2>1, <2>2
<1> QED BY <1>1, InitRooms, NextRooms, PTL DEF Spec, RelayExact

(***************************************************************************)
(* The event streams.                                                      *)
(***************************************************************************)

\* A list that is on its way is of the user it was asked for: the owner of the stream
\* that waits for its initial list, or the one receiver of the notification.
ListsOfTheirUsers ==
  /\ \A s \in Streams : \A l \in initial[s].list : l.of = Owner[s]
  /\ \A p \in Pushes : \A u, w \in push[p].to : u = w
  /\ \A p \in Pushes : \A l \in push[p].list : push[p].to = {l.of}

\* Of two open streams of a user both have overlapped, whichever ends first.
BothOverlapped ==
  \A s, t \in Streams :
    streams[s] = "open" /\ streams[t] = "open" /\ Owner[s] = Owner[t] => s = t \/ s \in overlapped

EventsInv ==
  EventsTypeOK /\ EntriesFollowStreams /\ BothOverlapped /\ OwnListsOnly /\ ListsOfTheirUsers

LEMMA InitEvents == EventsInit => EventsInv
BY NoStreamAssumption
DEF EventsInit, EventsInv, EventsTypeOK, EntriesFollowStreams, EntryIsOpen, OnlyOverlapDeafens,
    OpenOf, BothOverlapped, OwnListsOnly, ListsOfTheirUsers, NoGet, NoPush, Phases

LEMMA ListOfUser ==
  ASSUME EventsTypeOK, NEW u \in Users
  PROVE  ListOf(u) \in Lists /\ ListOf(u).of = u
BY DEF EventsTypeOK, ListOf, Lists

\* The map and the streams after a step that leaves them alone.
LEMMA SameStreams ==
  ASSUME EntriesFollowStreams, BothOverlapped, UNCHANGED <<streams, entry, overlapped>>
  PROVE  EntriesFollowStreams' /\ BothOverlapped'
BY DEF EntriesFollowStreams, EntryIsOpen, OnlyOverlapDeafens, OpenOf, BothOverlapped

\* The new stream takes the place of the user's former one, which it overlaps if that
\* is open still.
LEMMA SubscribeEvents ==
  ASSUME EventsInv, NEW s \in Streams, Subscribe(s)
  PROVE  EventsInv'
<1> USE DEF EventsInv
<1>1. Owner[s] \in Users /\ s # NoStream
  BY OwnerAssumption, NoStreamAssumption
<1>2. EventsTypeOK'
  BY <1>1 DEF EventsTypeOK, Subscribe, OpenOf
<1>3. /\ streams' = [streams EXCEPT ![s] = "open"] /\ streams[s] = "new"
      /\ entry' = [entry EXCEPT ![Owner[s]] = s]
      /\ overlapped' = IF OpenOf(Owner[s]) = {} THEN overlapped
                       ELSE overlapped \cup OpenOf(Owner[s]) \cup {s}
  BY DEF Subscribe
<1>4. EntryIsOpen'
  <2> SUFFICES ASSUME NEW u \in Users, entry'[u] # NoStream
               PROVE  entry'[u] \in Streams /\ Owner[entry'[u]] = u /\ streams'[entry'[u]] = "open"
    BY DEF EntryIsOpen, OpenOf
  <2>1. CASE u = Owner[s]
    BY <1>1, <1>3, <2>1 DEF EventsTypeOK
  <2>2. CASE u # Owner[s]
    BY <1>3, <2>2 DEF EventsTypeOK, EntriesFollowStreams, EntryIsOpen, OpenOf
  <2> QED BY <2>1, <2>2
<1>5. OnlyOverlapDeafens'
  <2> SUFFICES ASSUME NEW t \in Streams, streams'[t] = "open"
               PROVE  entry'[Owner[t]] = t \/ t \in overlapped'
    BY DEF OnlyOverlapDeafens
  <2>1. CASE t = s
    BY <1>1, <1>3, <2>1 DEF EventsTypeOK
  <2>2. CASE t # s /\ Owner[t] = Owner[s]
    <3>1. t \in OpenOf(Owner[s])
      BY <1>3, <2>2 DEF EventsTypeOK, OpenOf
    <3> QED BY <1>3, <3>1
  <2>3. CASE Owner[t] # Owner[s]
    BY <1>3, <2>3, OwnerAssumption DEF EventsTypeOK, EntriesFollowStreams, OnlyOverlapDeafens
  <2> QED BY <2>1, <2>2, <2>3
<1>6. BothOverlapped'
  <2> SUFFICES ASSUME NEW t \in Streams, NEW v \in Streams, t # v, Owner[t] = Owner[v],
                      streams'[t] = "open", streams'[v] = "open"
               PROVE  t \in overlapped'
    BY DEF BothOverlapped
  <2>1. CASE t # s /\ v # s
    BY <1>3, <2>1 DEF EventsTypeOK, BothOverlapped
  <2>2. CASE t = s
    <3>1. v \in OpenOf(Owner[s])
      BY <1>3, <2>2 DEF EventsTypeOK, OpenOf
    <3> QED BY <1>3, <2>2, <3>1
  <2>3. CASE v = s
    <3>1. t \in OpenOf(Owner[s])
      BY <1>3, <2>3 DEF EventsTypeOK, OpenOf
    <3> QED BY <1>3, <3>1
  <2> QED BY <2>1, <2>2, <2>3
<1>7. OwnListsOnly' /\ ListsOfTheirUsers'
  BY DEF Subscribe, EventsTypeOK, OwnListsOnly, ListsOfTheirUsers
<1> QED BY <1>2, <1>4, <1>5, <1>6, <1>7 DEF EntriesFollowStreams

\* finalize() may drop the entry of another stream, which has then overlapped this one.
LEMMA EndEvents ==
  ASSUME EventsInv, NEW s \in Streams, End(s)
  PROVE  EventsInv'
<1> USE DEF EventsInv
<1>1. Owner[s] \in Users /\ s # NoStream
  BY OwnerAssumption, NoStreamAssumption
<1>2. EventsTypeOK'
  BY <1>1 DEF EventsTypeOK, End, Finalized, NoGet
<1>3. /\ streams' = [streams EXCEPT ![s] = "ended"] /\ streams[s] = "open"
      /\ entry' = [entry EXCEPT ![Owner[s]] = NoStream]
      /\ overlapped' = overlapped
  BY DEF End, Finalized
<1>4. EntryIsOpen'
  <2> SUFFICES ASSUME NEW u \in Users, entry'[u] # NoStream
               PROVE  entry'[u] \in Streams /\ Owner[entry'[u]] = u /\ streams'[entry'[u]] = "open"
    BY DEF EntryIsOpen, OpenOf
  <2> QED BY <1>3 DEF EventsTypeOK, EntriesFollowStreams, EntryIsOpen, OpenOf
<1>5. OnlyOverlapDeafens'
  <2> SUFFICES ASSUME NEW t \in Streams, streams'[t] = "open"
               PROVE  entry'[Owner[t]] = t \/ t \in overlapped'
    BY DEF OnlyOverlapDeafens
  <2>1. t # s /\ streams[t] = "open"
    BY <1>3 DEF EventsTypeOK
  <2>2. CASE Owner[t] = Owner[s]
    BY <1>3, <2>1, <2>2 DEF BothOverlapped
  <2>3. CASE Owner[t] # Owner[s]
    BY <1>3, <2>1, <2>3, OwnerAssumption
    DEF EventsTypeOK, EntriesFollowStreams, OnlyOverlapDeafens
  <2> QED BY <2>2, <2>3
<1>6. BothOverlapped'
  BY <1>3 DEF EventsTypeOK, BothOverlapped
<1>7. OwnListsOnly' /\ ListsOfTheirUsers'
  BY DEF End, EventsTypeOK, OwnListsOnly, ListsOfTheirUsers, NoGet
<1> QED BY <1>2, <1>4, <1>5, <1>6, <1>7 DEF EntriesFollowStreams

\* The steps of a stream's initial list.
LEMMA StreamEvents ==
  ASSUME EventsInv, NEW s \in Streams, StreamStep(s)
  PROVE  EventsInv'
<1> USE DEF EventsInv
<1>1. UNCHANGED <<streams, entry, overlapped>>
  BY DEF StreamStep, InitialListed, InitialArrives
<1>2. EntriesFollowStreams' /\ BothOverlapped'
  BY <1>1, SameStreams
<1>3. CASE InitialListed(s)
  <2>1. Owner[s] \in Users /\ ListOf(Owner[s]) \in Lists /\ ListOf(Owner[s]).of = Owner[s]
    BY OwnerAssumption, ListOfUser
  <2>2. EventsTypeOK'
    BY <1>3, <2>1 DEF EventsTypeOK, InitialListed
  <2>3. OwnListsOnly' /\ ListsOfTheirUsers'
    BY <1>3, <2>1 DEF InitialListed, EventsTypeOK, OwnListsOnly, ListsOfTheirUsers
  <2> QED BY <1>2, <2>2, <2>3
<1>4. CASE InitialArrives(s)
  <2>1. EventsTypeOK'
    BY <1>4 DEF EventsTypeOK, InitialArrives, NoGet
  <2>2. OwnListsOnly' /\ ListsOfTheirUsers'
    BY <1>4 DEF InitialArrives, EventsTypeOK, OwnListsOnly, ListsOfTheirUsers, NoGet
  <2> QED BY <1>2, <2>1, <2>2
<1> QED BY <1>3, <1>4 DEF StreamStep

PushRecords ==
  [phase : Phases, actor : SUBSET Users, to : SUBSET Users, number : Nat, list : SUBSET Lists]

\* A step that moves a call on leaves its receiver and its list.
LEMMA PhaseOnly ==
  ASSUME EventsTypeOK, NEW p \in Pushes, NEW phase \in Phases,
         push' = [push EXCEPT ![p].phase = phase]
  PROVE  /\ push' \in [Pushes -> PushRecords]
         /\ \A q \in Pushes : push'[q].to = push[q].to /\ push'[q].list = push[q].list
BY DEF EventsTypeOK, PushRecords

\* The steps of a call of createNotification.  Only Emit has streams hear of anything,
\* and the stream in the map is one of the receiver's.
LEMMA PushEvents ==
  ASSUME EventsInv, NEW p \in Pushes,
         PushStep(p) \/ CreateFails(p) \/ \E a, u \in Users : Create(p, a, u)
  PROVE  EventsInv'
<1> USE DEF EventsInv
<1>1. UNCHANGED <<streams, entry, overlapped, initial>>
  BY DEF PushStep, Store, Posted, Listed, Emit, CreateFails, Create
<1>2. EntriesFollowStreams' /\ BothOverlapped'
  BY <1>1, SameStreams
<1>3. CASE Emit(p)
  <2>1. push' = [push EXCEPT ![p].phase = "returned"] /\ stored' = stored
        /\ heard' = [s \in Streams |->
                       IF \E u \in push[p].to : entry[u] = s THEN heard[s] \cup push[p].list
                                                             ELSE heard[s]]
    BY <1>3 DEF Emit, EmitTo, Addressee
  <2>2. push' \in [Pushes -> PushRecords]
        /\ \A q \in Pushes : push'[q].to = push[q].to /\ push'[q].list = push[q].list
    BY <2>1, PhaseOnly DEF Phases
  <2>3. EventsTypeOK'
    <3>1. heard' \in [Streams -> SUBSET Lists]
      BY <2>1 DEF EventsTypeOK
    <3> QED BY <1>1, <2>1, <2>2, <3>1 DEF EventsTypeOK, PushRecords
  <2>4. OwnListsOnly'
    <3> SUFFICES ASSUME NEW s \in Streams, NEW u \in push[p].to, entry[u] = s,
                          NEW l \in push[p].list
                 PROVE  l.of = Owner[s]
      BY <2>1 DEF OwnListsOnly
    <3>1. u \in Users /\ u = l.of
      BY DEF EventsTypeOK, ListsOfTheirUsers
    <3>2. Owner[s] = u
      BY <3>1, NoStreamAssumption DEF EntriesFollowStreams, EntryIsOpen, OpenOf
    <3> QED BY <3>1, <3>2
  <2>5. ListsOfTheirUsers'
    BY <1>1, <2>2 DEF ListsOfTheirUsers
  <2> QED BY <1>2, <2>3, <2>4, <2>5
<1>4. CASE Listed(p)
  <2>1. PICK u \in push[p].to :
          push' = [push EXCEPT ![p].phase = "answered", ![p].list = {ListOf(u)}]
    BY <1>4 DEF Listed
  <2>2. u \in Users /\ ListOf(u) \in Lists /\ ListOf(u).of = u /\ push[p].to = {u}
    BY ListOfUser DEF EventsTypeOK, ListsOfTheirUsers
  <2>3. stored' = stored /\ heard' = heard
    BY <1>4 DEF Listed
  <2>4. EventsTypeOK'
    <3>1. push'[p] = [phase |-> "answered", actor |-> push[p].actor, to |-> push[p].to,
                      number |-> push[p].number, list |-> {ListOf(u)}]
      BY <2>1 DEF EventsTypeOK
    <3>2. push' \in [Pushes -> PushRecords]
      BY <2>1, <2>2, <3>1 DEF PushRecords, Phases, EventsTypeOK
    <3> QED BY <1>1, <2>3, <3>2 DEF EventsTypeOK, PushRecords
  <2>5. OwnListsOnly' /\ ListsOfTheirUsers'
    BY <1>1, <2>1, <2>2, <2>3 DEF EventsTypeOK, OwnListsOnly, ListsOfTheirUsers
  <2> QED BY <1>2, <2>4, <2>5
<1>5. CASE Store(p)
  <2>1. PICK u \in push[p].to :
          /\ stored' = [stored EXCEPT ![u] = @ + 1]
          /\ push' = [push EXCEPT ![p].phase = "posted", ![p].number = stored'[u]]
    BY <1>5 DEF Store
  <2>2. u \in Users /\ stored'[u] \in Nat /\ stored' \in [Users -> Nat]
    BY <2>1 DEF EventsTypeOK
  <2>3. heard' = heard
    BY <1>5 DEF Store
  <2>4. EventsTypeOK'
    <3>1. push'[p] = [phase |-> "posted", actor |-> push[p].actor, to |-> push[p].to,
                      number |-> stored'[u], list |-> push[p].list]
      BY <2>1 DEF EventsTypeOK
    <3>2. push' \in [Pushes -> PushRecords]
      BY <2>1, <2>2, <3>1 DEF PushRecords, Phases, EventsTypeOK
    <3> QED BY <1>1, <2>2, <2>3, <3>2 DEF EventsTypeOK, PushRecords
  <2>5. OwnListsOnly' /\ ListsOfTheirUsers'
    BY <1>1, <2>1, <2>3 DEF EventsTypeOK, OwnListsOnly, ListsOfTheirUsers
  <2> QED BY <1>2, <2>4, <2>5
<1>6. CASE Posted(p) \/ CreateFails(p)
  <2>1. \/ push' = [push EXCEPT ![p].phase = "asked"]
        \/ push' = [push EXCEPT ![p].phase = "returned"]
        \/ push' = [push EXCEPT ![p].phase = "failed"]
    <3>1. CASE CreateFails(p)
      BY <3>1 DEF CreateFails
    <3>2. CASE Posted(p)
      <4>1. PICK u \in push[p].to :
              push' = [push EXCEPT ![p].phase = IF HasStream(u) THEN "asked" ELSE "returned"]
        BY <3>2 DEF Posted
      <4>2. CASE HasStream(u)
        BY <4>1, <4>2
      <4>3. CASE ~HasStream(u)
        BY <4>1, <4>3
      <4> QED BY <4>2, <4>3
    <3> QED BY <1>6, <3>1, <3>2
  <2>2. stored' = stored /\ heard' = heard
    BY <1>6 DEF Posted, CreateFails
  <2>3. push' \in [Pushes -> PushRecords]
        /\ \A q \in Pushes : push'[q].to = push[q].to /\ push'[q].list = push[q].list
    BY <2>1, PhaseOnly DEF Phases
  <2>4. EventsTypeOK'
    BY <1>1, <2>2, <2>3 DEF EventsTypeOK, PushRecords
  <2>5. OwnListsOnly'
    BY <2>2 DEF OwnListsOnly
  <2>6. ListsOfTheirUsers'
    BY <1>1, <2>3 DEF ListsOfTheirUsers
  <2> QED BY <1>2, <2>4, <2>5, <2>6
<1>7. CASE \E a, u \in Users : Create(p, a, u)
  <2>1. PICK a \in Users, u \in Users : Create(p, a, u)
    BY <1>7
  <2>2. stored' = stored /\ heard' = heard
    BY <2>1 DEF Create
  <2> DEFINE new == [phase |-> "posting", actor |-> {a}, to |-> {u}, number |-> 0, list |-> {}]
  <2>3. push' = [push EXCEPT ![p] = new]
    BY <2>1 DEF Create
  <2>4. push' \in [Pushes -> PushRecords]
        /\ \A q \in Pushes : \/ push'[q].to = push[q].to /\ push'[q].list = push[q].list
                             \/ push'[q].to = {u} /\ push'[q].list = {}
    <3>1. new \in PushRecords /\ new.to = {u} /\ new.list = {}
      BY DEF PushRecords, Phases
    <3>2. push \in [Pushes -> PushRecords]
      BY DEF EventsTypeOK, PushRecords
    <3> HIDE DEF new
    <3> QED BY <2>3, <3>1, <3>2
  <2>5. EventsTypeOK'
    BY <1>1, <2>2, <2>4 DEF EventsTypeOK, PushRecords
  <2>6. OwnListsOnly'
    BY <2>2 DEF OwnListsOnly
  <2>7. ListsOfTheirUsers'
    BY <1>1, <2>4 DEF ListsOfTheirUsers
  <2> QED BY <1>2, <2>5, <2>6, <2>7
<1> QED BY <1>3, <1>4, <1>5, <1>6, <1>7 DEF PushStep

LEMMA NextEvents == EventsInv /\ [EventsNext]_eventsVars => EventsInv'
<1> SUFFICES ASSUME EventsInv, [EventsNext]_eventsVars PROVE EventsInv'
  OBVIOUS
<1>1. ASSUME NEW s \in Streams, Subscribe(s) \/ Close(s) \/ InitialFails(s) \/ StreamStep(s)
      PROVE  EventsInv'
  BY <1>1, SubscribeEvents, EndEvents, StreamEvents DEF Close, InitialFails
<1>2. ASSUME NEW p \in Pushes, PushStep(p) \/ CreateFails(p) \/ \E a, u \in Users : Create(p, a, u)
      PROVE  EventsInv'
  BY <1>2, PushEvents
<1>3. CASE UNCHANGED eventsVars
  BY <1>3 DEF eventsVars, EventsInv, EventsTypeOK, EntriesFollowStreams, EntryIsOpen,
              OnlyOverlapDeafens, OpenOf, BothOverlapped, OwnListsOnly, ListsOfTheirUsers
<1> QED BY <1>1, <1>2, <1>3 DEF EventsNext

\* The map of streams keeps its types, and so does all that is under way.
THEOREM EventsTypes == EventsSpec => []EventsTypeOK
<1>1. EventsInv => EventsTypeOK
  BY DEF EventsInv
<1> QED BY <1>1, InitEvents, NextEvents, PTL DEF EventsSpec

\* For any streams and users: the map names open streams only, and an open stream is
\* missing from it only if it was open beside another of its user.
THEOREM EntriesAlwaysFollow == EventsSpec => []EntriesFollowStreams
<1>1. EventsInv => EntriesFollowStreams
  BY DEF EventsInv
<1> QED BY <1>1, InitEvents, NextEvents, PTL DEF EventsSpec

\* Nobody is shown another user's notifications, whoever their actor is and whatever
\* streams come and go while a list is fetched.
THEOREM ListsStayPrivate == EventsSpec => []OwnListsOnly
<1>1. EventsInv => OwnListsOnly
  BY DEF EventsInv
<1> QED BY <1>1, InitEvents, NextEvents, PTL DEF EventsSpec

(***************************************************************************)
(* The requests.                                                           *)
(***************************************************************************)

----------------------------------------------------------------------------
(* Sequences.                                                              *)

IsSeq(l) == l \in Seq({l[i] : i \in DOMAIN l})

LEMMA SeqOf ==
  ASSUME NEW T, NEW l \in Seq(T)
  PROVE  IsSeq(l)
<1>1. l \in [1 .. Len(l) -> {l[i] : i \in DOMAIN l}] /\ Len(l) \in Nat
  OBVIOUS
<1> QED BY <1>1 DEF IsSeq

LEMMA FunctionIsSeq ==
  ASSUME NEW n \in Nat, NEW l, l = [i \in 1 .. n |-> l[i]]
  PROVE  IsSeq(l) /\ Len(l) = n
<1>1. DOMAIN l = 1 .. n
  OBVIOUS
<1>2. l \in [1 .. n -> {l[i] : i \in 1 .. n}]
  OBVIOUS
<1> QED BY <1>1, <1>2 DEF IsSeq

LEMMA IsSeqFacts ==
  ASSUME NEW l, IsSeq(l)
  PROVE  /\ Len(l) \in Nat /\ DOMAIN l = 1 .. Len(l)
         /\ l # <<>> => Len(l) # 0 /\ Head(l) = l[1]
         /\ l = <<>> => Len(l) = 0
BY DEF IsSeq

LEMMA TailOf ==
  ASSUME NEW l, IsSeq(l), l # <<>>
  PROVE  /\ IsSeq(Tail(l)) /\ Len(Tail(l)) = Len(l) - 1
         /\ \A i \in 1 .. Len(l) - 1 : Tail(l)[i] = l[i + 1]
<1>1. Tail(l) \in Seq({l[i] : i \in DOMAIN l})
  BY DEF IsSeq
<1>2. Len(Tail(l)) = Len(l) - 1 /\ \A i \in 1 .. Len(l) - 1 : Tail(l)[i] = l[i + 1]
  BY DEF IsSeq
<1> QED BY <1>1, <1>2, SeqOf

LEMMA AppendTo ==
  ASSUME NEW l, IsSeq(l), NEW e
  PROVE  /\ IsSeq(Append(l, e)) /\ Len(Append(l, e)) = Len(l) + 1
         /\ Append(l, e)[Len(l) + 1] = e
         /\ \A i \in 1 .. Len(l) : Append(l, e)[i] = l[i]
<1> DEFINE T == {l[i] : i \in DOMAIN l} \cup {e}
<1>1. l \in Seq(T) /\ e \in T
  BY DEF IsSeq
<1> HIDE DEF T
<1>2. Append(l, e) \in Seq(T)
  BY <1>1
<1>3. /\ Len(Append(l, e)) = Len(l) + 1
      /\ Append(l, e)[Len(l) + 1] = e
      /\ \A i \in 1 .. Len(l) : Append(l, e)[i] = l[i]
  BY <1>1
<1> QED BY <1>2, <1>3, SeqOf

LEMMA Tuples ==
  /\ IsSeq(<<>>) /\ \A a : IsSeq(<<a>>)
  /\ \A a, b : IsSeq(<<a, b>>)
  /\ \A a, b, c : IsSeq(<<a, b, c>>)
  /\ \A a, b, c, d : IsSeq(<<a, b, c, d>>)
  /\ \A a, b, c, d, e, f : IsSeq(<<a, b, c, d, e, f>>)
  /\ \A a, b, c, d, e, f, g : IsSeq(<<a, b, c, d, e, f, g>>)
  /\ \A a, b, c, d, e, f, g, h : IsSeq(<<a, b, c, d, e, f, g, h>>)
BY DEF IsSeq

LEMMA Members ==
  /\ S!ToSet(<<>>) = {} /\ \A a : S!ToSet(<<a>>) = {a}
  /\ \A a, b : S!ToSet(<<a, b>>) = {a, b}
  /\ \A a, b, c : S!ToSet(<<a, b, c>>) = {a, b, c}
  /\ \A a, b, c, d : S!ToSet(<<a, b, c, d>>) = {a, b, c, d}
BY DEF S!ToSet

LEMMA TwoAndOne == \A e, f, s : <<e, f>> \o <<s>> = <<e, f, s>>
<1> TAKE e, f, s
<1>1. <<e, f>> \in Seq({e, f, s}) /\ s \in {e, f, s}
  OBVIOUS
<1>2. Append(<<e, f>>, s) = <<e, f>> \o <<s>>
  BY <1>1, AppendIsConcat
<1> DEFINE T == {e, f, s}
           l == Append(<<e, f>>, s)
           m == <<e, f, s>>
<1>3. /\ l \in Seq(T) /\ Len(l) = 3 /\ l[3] = s
      /\ m \in Seq(T) /\ Len(m) = 3 /\ m[1] = e /\ m[2] = f /\ m[3] = s
  BY <1>1
<1>4. l[1] = e /\ l[2] = f
  BY <1>1
<1> HIDE DEF T, l, m
<1>5. \A i \in 1 .. Len(l) : l[i] = m[i]
  BY <1>3, <1>4
<1>6. l = m
  BY <1>3, <1>5, SeqEqual
<1> QED BY <1>2, <1>6 DEF l, m

LEMMA SetOfAppend ==
  ASSUME NEW l, IsSeq(l), NEW e
  PROVE  S!ToSet(Append(l, e)) = S!ToSet(l) \cup {e}
<1> DEFINE m == Append(l, e)
           n == Len(l)
<1>1. /\ IsSeq(m) /\ Len(m) = n + 1 /\ m[n + 1] = e
      /\ \A i \in 1 .. n : m[i] = l[i]
  BY AppendTo
<1>2. n \in Nat /\ DOMAIN l = 1 .. n /\ DOMAIN m = 1 .. Len(m)
  BY <1>1, IsSeqFacts
<1> HIDE DEF m, n
<1>3. DOMAIN m = (1 .. n) \cup {n + 1}
  BY <1>1, <1>2
<1>4. S!ToSet(m) = S!ToSet(l) \cup {e}
  BY <1>1, <1>2, <1>3 DEF S!ToSet
<1> QED BY <1>4 DEF m

LEMMA TailWithin ==
  ASSUME NEW l, IsSeq(l), l # <<>>
  PROVE  S!ToSet(Tail(l)) \subseteq S!ToSet(l)
<1>1. /\ IsSeq(Tail(l)) /\ Len(Tail(l)) = Len(l) - 1 /\ Len(l) \in Nat
      /\ DOMAIN l = 1 .. Len(l) /\ DOMAIN Tail(l) = 1 .. Len(Tail(l))
      /\ \A i \in 1 .. Len(l) - 1 : Tail(l)[i] = l[i + 1]
  BY TailOf, IsSeqFacts
<1>2. \A i \in DOMAIN Tail(l) : i + 1 \in DOMAIN l /\ Tail(l)[i] = l[i + 1]
  BY <1>1
<1> QED BY <1>2 DEF S!ToSet

\* A set of numbers has a least one: the first route that matches.
LEMMA LeastOf ==
  ASSUME NEW M \in SUBSET Nat, M # {}
  PROVE  \E i \in M : \A j \in M : i <= j
<1> DEFINE R == {ss \in Nat \X Nat : ss[1] < ss[2]}
<1>0. OpToRel(<, Nat) = R
  BY DEF OpToRel
<1>1. PICK i \in M : \A j \in M : ~(<<j, i>> \in R)
  BY WFMin, NatLessThanWellFounded, <1>0
<1>2. \A j \in M : ~(j < i)
  BY <1>1
<1>3. \A j \in M : i <= j
  BY <1>2
<1> QED BY <1>3

----------------------------------------------------------------------------
(* The operations of the services: what comes before what.                 *)

\* The steps that need a reason: see SideEffectsJustified.  An invitation is looked for in
\* the name of another user when the room has been created.
Ends(s) == s.kind = "local" /\ s.path[1] \in {"detach", "closeRoom", "leaveActiveCall"}
Creates(s) == s.kind = "core" /\ s.verb = "post" /\ s.path = <<"chat-rooms">>

\* A step is about something that the code names: its path does not begin with a parameter,
\* and has none if it changes what Core knows of users.
Rooted(s, params) ==
  /\ IsSeq(s.path)
  /\ s.kind \in {"local", "core"} => s.path # <<>> /\ s.path[1] \notin S!ToSet(params)
  /\ s.kind = "core" /\ s.verb \in {"post", "patch"} /\ s.path[1] = "users" =>
       S!ToSet(s.path) \cap S!ToSet(params) = {}
First(s) == ~Ends(s) /\ s.kind # "join" /\ ~SetsImage(s) /\ s.kind \notin OnBehalf
Precedes(e, s) ==
  /\ Ends(s) => e.kind = "core" /\ e.as = s.as
  /\ s.kind = "join" <=> e.kind = "resolve"
  /\ SetsImage(s) => e.kind = "image"
  /\ s.kind \in OnBehalf => e.kind \in OnBehalf \/ (Creates(e) /\ e.as # "")
  /\ s.kind # "image"

\* The look-ups of a direct-message room may be followed by the last steps at once.
Sorted(o) ==
  /\ IsSeq(o.steps)
  /\ \A i \in DOMAIN o.steps : Rooted(o.steps[i], o.params)
  /\ o.steps # <<>> => First(o.steps[1]) /\ o.steps[Len(o.steps)].kind # "resolve"
  /\ \A i \in 1 .. Len(o.steps) - 1 : Precedes(o.steps[i], o.steps[i + 1])
  /\ \A i, j \in DOMAIN o.steps : i < j /\ o.steps[i].kind = "detail" => o.steps[j].kind = "detail"
  /\ \A i \in DOMAIN o.steps :
       /\ o.steps[i].kind \in {"dm", "find"} => First(o.steps[Len(o.steps)])
       /\ o.steps[i].kind = "find" => i < Len(o.steps) /\ First(o.steps[Len(o.steps) - 1])

\* The steps that only the operation for direct messages has.
DirectSteps == {"dm", "find", "invitations", "accept"}
InOrder(o) == Sorted(o) /\ \A i \in DOMAIN o.steps : o.steps[i].kind \notin DirectSteps

LEMMA OneStep ==
  ASSUME NEW params, NEW s, Rooted(s, params), First(s), s.kind # "resolve",
         s.kind \notin DirectSteps
  PROVE  InOrder(Operation(params, <<s>>))
<1> DEFINE l == <<s>>
           o == Operation(params, l)
<1>1. o.params = params /\ o.steps = l
  BY DEF Operation
<1>2. IsSeq(l) /\ Len(l) = 1 /\ DOMAIN l = 1 .. 1 /\ l[1] = s
  BY Tuples
<1> HIDE DEF l, o
<1>3. Len(o.steps) \in Nat /\ DOMAIN o.steps = DOMAIN l /\ o.steps # <<>>
  BY <1>1, <1>2
<1>4. InOrder(o)
  BY <1>1, <1>2 DEF InOrder, Sorted, DirectSteps
<1> QED BY <1>4 DEF l, o

LEMMA TwoSteps ==
  ASSUME NEW params, NEW s, NEW t, Rooted(s, params), Rooted(t, params),
         First(s), Precedes(s, t), s.kind # "detail", t.kind # "resolve",
         {s.kind, t.kind} \cap DirectSteps = {}
  PROVE  InOrder(Operation(params, <<s, t>>))
<1> DEFINE l == <<s, t>>
           o == Operation(params, l)
<1>1. o.params = params /\ o.steps = l
  BY DEF Operation
<1>2. IsSeq(l) /\ Len(l) = 2 /\ DOMAIN l = 1 .. 2 /\ l[1] = s /\ l[2] = t
  BY Tuples
<1> HIDE DEF l, o
<1>3. Len(o.steps) \in Nat /\ DOMAIN o.steps = DOMAIN l /\ o.steps # <<>>
  BY <1>1, <1>2
<1>4. \A i \in DOMAIN l : Rooted(l[i], params) /\ l[i].kind \notin DirectSteps
  BY <1>2
<1>5. \A i \in 1 .. Len(l) - 1 : Precedes(l[i], l[i + 1]) /\ l[i].kind # "detail"
  BY <1>2
<1>6. \A i, j \in DOMAIN l : i < j => l[i].kind # "detail"
  BY <1>2
<1>7. \A i \in DOMAIN l : l[i].kind \notin {"dm", "find"}
  BY <1>4 DEF DirectSteps
<1>8. First(l[1]) /\ l[Len(l)].kind # "resolve"
  BY <1>2
<1>9. InOrder(o)
  BY <1>1, <1>2, <1>4, <1>5, <1>6, <1>7, <1>8 DEF InOrder, Sorted
<1> QED BY <1>9 DEF l, o

LEMMA ThreeSteps ==
  ASSUME NEW params, NEW s, NEW t, NEW u,
         Rooted(s, params), Rooted(t, params), Rooted(u, params),
         First(s), Precedes(s, t), Precedes(t, u),
         s.kind # "detail", t.kind # "detail", u.kind # "resolve",
         {s.kind, t.kind, u.kind} \cap DirectSteps = {}
  PROVE  InOrder(Operation(params, <<s, t, u>>))
<1> DEFINE l == <<s, t, u>>
           o == Operation(params, l)
<1>1. o.params = params /\ o.steps = l
  BY DEF Operation
<1>2. IsSeq(l) /\ Len(l) = 3 /\ DOMAIN l = 1 .. 3 /\ l[1] = s /\ l[2] = t /\ l[3] = u
  BY Tuples
<1> HIDE DEF l, o
<1>3. Len(o.steps) \in Nat /\ DOMAIN o.steps = DOMAIN l /\ o.steps # <<>>
  BY <1>1, <1>2
<1>4. \A i \in DOMAIN l : Rooted(l[i], params) /\ l[i].kind \notin DirectSteps
  BY <1>2
<1>5. \A i \in 1 .. Len(l) - 1 : Precedes(l[i], l[i + 1]) /\ l[i].kind # "detail"
  BY <1>2
<1>6. \A i, j \in DOMAIN l : i < j => l[i].kind # "detail"
  BY <1>2
<1>7. \A i \in DOMAIN l : l[i].kind \notin {"dm", "find"}
  BY <1>4 DEF DirectSteps
<1>8. First(l[1]) /\ l[Len(l)].kind # "resolve"
  BY <1>2
<1>9. InOrder(o)
  BY <1>1, <1>2, <1>4, <1>5, <1>6, <1>7, <1>8 DEF InOrder, Sorted
<1> QED BY <1>9 DEF l, o

\* One request to Core, which does not create or change a room or a user.
LEMMA OneRequest ==
  ASSUME NEW params, NEW verb, NEW path, NEW as, IsSeq(path), path # <<>>,
         path[1] \notin S!ToSet(params),
         \/ verb \in {"get", "delete"}
         \/ path[1] # "users" /\ (path[1] # "rooms" \/ Len(path) = 3)
  PROVE  InOrder(Operation(params, <<Core(verb, path, as)>>))
<1> DEFINE s == Core(verb, path, as)
<1>1. s.kind = "core" /\ s.verb = verb /\ s.path = path
  BY DEF Core
<1> HIDE DEF s
<1>2. Rooted(s, params)
  BY <1>1 DEF Rooted
<1>3. ~SetsImage(s)
  <2> SUFFICES ASSUME SetsImage(s) PROVE FALSE
    OBVIOUS
  <2>1. /\ verb \in {"post", "patch"}
        /\ (path[1] = "rooms" /\ Len(path) < 3) \/ path = <<"users", "me">>
    BY <1>1 DEF SetsImage
  <2> QED BY <2>1
<1>4. First(s) /\ s.kind # "resolve" /\ s.kind \notin DirectSteps
  BY <1>1, <1>3 DEF First, Ends, OnBehalf, DirectSteps
<1>5. InOrder(Operation(params, <<s>>))
  BY <1>2, <1>4, OneStep
<1> QED BY <1>5 DEF s

\* The same, for the paths there are.
Harmless(verb, a) == verb \in {"get", "delete"} \/ a \notin {"rooms", "users"}

LEMMA Request ==
  \A params, verb, as, a :
    a \notin S!ToSet(params) =>
      /\ Harmless(verb, a) => InOrder(Operation(params, <<Core(verb, <<a>>, as)>>))
      /\ \A b : Harmless(verb, a) => InOrder(Operation(params, <<Core(verb, <<a, b>>, as)>>))
      /\ \A b, c : Harmless(verb, a) \/ a = "rooms" =>
           InOrder(Operation(params, <<Core(verb, <<a, b, c>>, as)>>))
<1> TAKE params, verb, as, a
<1> SUFFICES ASSUME a \notin S!ToSet(params)
             PROVE  /\ Harmless(verb, a) => InOrder(Operation(params, <<Core(verb, <<a>>, as)>>))
                    /\ \A b : Harmless(verb, a) =>
                         InOrder(Operation(params, <<Core(verb, <<a, b>>, as)>>))
                    /\ \A b, c : Harmless(verb, a) \/ a = "rooms" =>
                         InOrder(Operation(params, <<Core(verb, <<a, b, c>>, as)>>))
  OBVIOUS
<1>1. Harmless(verb, a) => InOrder(Operation(params, <<Core(verb, <<a>>, as)>>))
  <2>1. IsSeq(<<a>>) /\ <<a>> # <<>> /\ <<a>>[1] = a
    BY Tuples
  <2> QED BY <2>1, OneRequest DEF Harmless
<1>2. ASSUME NEW b
      PROVE  Harmless(verb, a) => InOrder(Operation(params, <<Core(verb, <<a, b>>, as)>>))
  <2>1. IsSeq(<<a, b>>) /\ <<a, b>> # <<>> /\ <<a, b>>[1] = a
    BY Tuples
  <2> QED BY <2>1, OneRequest DEF Harmless
<1>3. ASSUME NEW b, NEW c
      PROVE  Harmless(verb, a) \/ a = "rooms" =>
               InOrder(Operation(params, <<Core(verb, <<a, b, c>>, as)>>))
  <2>1. IsSeq(<<a, b, c>>) /\ <<a, b, c>> # <<>> /\ <<a, b, c>>[1] = a /\ Len(<<a, b, c>>) = 3
    BY Tuples
  <2> QED BY <2>1, OneRequest DEF Harmless
<1> QED BY <1>1, <1>2, <1>3

\* The operations of each service are in order.
LEMMA NoServiceInOrder == \A op \in DOMAIN NoService : InOrder(NoService[op])
<1>1. DOMAIN NoService = {"getInfo", "recover", "logout"}
  BY DEF NoService
<1>2. InOrder(Operation(<<>>, <<>>))
  BY Tuples DEF InOrder, Sorted, Operation
<1> DEFINE s == Step("notImplemented", <<>>, "")
<1>3. s.kind = "notImplemented" /\ s.path = <<>>
  BY DEF Step, Core
<1> HIDE DEF s
<1>4. InOrder(Operation(<<>>, <<s>>))
  BY <1>3, OneStep, Tuples DEF Rooted, First, Ends, SetsImage, OnBehalf, DirectSteps
<1>5. InOrder(NoService.getInfo) /\ InOrder(NoService.recover) /\ InOrder(NoService.logout)
  BY <1>2, <1>4 DEF NoService, s
<1> QED BY <1>1, <1>5

LEMMA AuthInOrder == \A op \in DOMAIN AuthService : InOrder(AuthService[op])
<1>1. DOMAIN AuthService = {"login", "sendEmailVerification", "verifyEmail", "register",
                            "refreshToken", "deleteRefreshToken"}
  BY DEF AuthService
<1>2. "auth" \notin S!ToSet(<<"body">>)
  BY Members
<1>3. /\ InOrder(AuthService.login) /\ InOrder(AuthService.sendEmailVerification)
      /\ InOrder(AuthService.verifyEmail) /\ InOrder(AuthService.register)
      /\ InOrder(AuthService.refreshToken) /\ InOrder(AuthService.deleteRefreshToken)
  BY Request, <1>2 DEF Harmless, AuthService, Post, Delete
<1> QED BY <1>1, <1>3

\* A request that uses the file, if there is one.
LEMMA WithImage ==
  ASSUME NEW params, NEW path, NEW as, NEW verb, IsSeq(path), path # <<>>,
         path[1] \notin S!ToSet(params),
         path[1] = "users" => S!ToSet(path) \cap S!ToSet(params) = {}
  PROVE  InOrder(Operation(params, <<Image, Core(verb, path, as)>>))
<1> DEFINE s == Image
           t == Core(verb, path, as)
<1>1. /\ s.kind = "image" /\ s.path = <<"medias", "upload">>
      /\ t.kind = "core" /\ t.path = path
  BY DEF Image, Upload, Post, Core
<1>2. IsSeq(s.path)
  BY <1>1, Tuples
<1> HIDE DEF s, t
<1>3. Rooted(s, params) /\ Rooted(t, params)
  BY <1>1, <1>2 DEF Rooted
<1>4. First(s) /\ Precedes(s, t)
  BY <1>1 DEF First, Precedes, Ends, SetsImage, OnBehalf
<1>5. InOrder(Operation(params, <<s, t>>))
  BY <1>1, <1>3, <1>4, TwoSteps DEF DirectSteps
<1> QED BY <1>5 DEF s, t

LEMMA UsersInOrder == \A op \in DOMAIN UsersService : InOrder(UsersService[op])
<1>1. DOMAIN UsersService = {"withdrawAccount", "getMyInformation", "getUserInformation",
        "updateMyInformation", "updatePassword", "getSpecifyUserInformation"}
  BY DEF UsersService
<1>2. /\ "users" \notin S!ToSet(<<"userIdx">>) /\ "users" \notin S!ToSet(<<"body", "userIdx">>)
      /\ "users" \notin S!ToSet(<<"userId">>)
      /\ "users" \notin S!ToSet(<<"file", "body", "userIdx">>)
  BY Members
<1>3. /\ InOrder(UsersService.withdrawAccount) /\ InOrder(UsersService.getMyInformation)
      /\ InOrder(UsersService.getUserInformation)
      /\ InOrder(UsersService.getSpecifyUserInformation)
  BY Request, <1>2 DEF Harmless, UsersService, Get, Delete
<1>4. InOrder(UsersService.updateMyInformation)
  <2>1. /\ IsSeq(<<"users", "me">>) /\ <<"users", "me">> # <<>> /\ <<"users", "me">>[1] = "users"
        /\ S!ToSet(<<"users", "me">>) \cap S!ToSet(<<"file", "body", "userIdx">>) = {}
    BY Tuples, Members
  <2>2. UsersService.updateMyInformation =
          Operation(<<"file", "body", "userIdx">>, <<Image, Core("patch", <<"users", "me">>,
            "userIdx")>>)
    BY DEF UsersService, Patch
  <2> QED BY <1>2, <2>1, <2>2, WithImage
<1>5. InOrder(UsersService.updatePassword)
  <2> DEFINE s == Patch(<<"users", "password">>, "userIdx")
  <2>1. s.kind = "core" /\ s.path = <<"users", "password">>
    BY DEF Patch, Core
  <2>2. /\ IsSeq(<<"users", "password">>) /\ <<"users", "password">> # <<>>
        /\ <<"users", "password">>[1] = "users" /\ <<"users", "password">> # <<"users", "me">>
        /\ S!ToSet(<<"users", "password">>) \cap S!ToSet(<<"body", "userIdx">>) = {}
    BY Tuples, Members
  <2>3. UsersService.updatePassword = Operation(<<"body", "userIdx">>, <<s>>)
    BY DEF UsersService
  <2> HIDE DEF s
  <2>4. Rooted(s, <<"body", "userIdx">>) /\ First(s)
    BY <1>2, <2>1, <2>2 DEF Rooted, First, Ends, SetsImage, OnBehalf
  <2> QED BY <2>1, <2>3, <2>4, OneStep DEF DirectSteps
<1> QED BY <1>1, <1>3, <1>4, <1>5

LEMMA FriendsInOrder == \A op \in DOMAIN FriendService : InOrder(FriendService[op])
<1>1. DOMAIN FriendService = {"sendFriendRequest", "getFriendList", "getFriendCount",
        "getPendingFriendRequests", "acceptFriendRequest", "rejectFriendRequest", "unfriend"}
  BY DEF FriendService
<1>2. /\ "friends" \notin S!ToSet(<<"targetUserIdx", "sendUserIdx">>)
      /\ "friends" \notin S!ToSet(<<"userIdx">>)
      /\ "friends" \notin S!ToSet(<<"userIdx", "friendshipIdx">>)
      /\ "friends" \notin S!ToSet(<<"userIdx", "friendUserIdx">>)
  BY Members
<1>3. /\ InOrder(FriendService.sendFriendRequest) /\ InOrder(FriendService.getFriendList)
      /\ InOrder(FriendService.getFriendCount) /\ InOrder(FriendService.getPendingFriendRequests)
      /\ InOrder(FriendService.acceptFriendRequest) /\ InOrder(FriendService.rejectFriendRequest)
      /\ InOrder(FriendService.unfriend)
  BY Request, <1>2 DEF Harmless, FriendService, sendFriendRequest, Get, Post, Patch, Delete
<1> QED BY <1>1, <1>3

LEMMA NotificationsInOrder == \A op \in DOMAIN NotificationsService : InOrder(NotificationsService[op])
<1>1. DOMAIN NotificationsService = {"subscribe", "readNotification", "getNotificationSetting",
        "updateNotificationSetting"}
  BY DEF NotificationsService
<1>2. /\ "notifications" \notin S!ToSet(<<"notificationIdx", "userIdx">>)
      /\ "notifications" \notin S!ToSet(<<"userIdx">>)
      /\ "notifications" \notin S!ToSet(<<"notificationType", "body", "userIdx">>)
      /\ "subscribe" \notin S!ToSet(<<"userIdx">>)
  BY Members
<1>3. /\ InOrder(NotificationsService.readNotification)
      /\ InOrder(NotificationsService.getNotificationSetting)
      /\ InOrder(NotificationsService.updateNotificationSetting)
  BY Request, <1>2 DEF Harmless, NotificationsService, Get, Patch
<1>4. InOrder(NotificationsService.subscribe)
  <2> DEFINE s == Step("local", <<"subscribe">>, "userIdx")
  <2>1. s.kind = "local" /\ s.path = <<"subscribe">> /\ IsSeq(<<"subscribe">>)
    BY Tuples DEF Step, Core
  <2> HIDE DEF s
  <2>2. Rooted(s, <<"userIdx">>) /\ First(s)
    BY <1>2, <2>1 DEF Rooted, First, Ends, SetsImage, OnBehalf
  <2>3. InOrder(Operation(<<"userIdx">>, <<s>>))
    BY <2>1, <2>2, OneStep DEF DirectSteps
  <2> QED BY <2>3 DEF NotificationsService, s
<1> QED BY <1>1, <1>3, <1>4

LEMMA MediasInOrder == \A op \in DOMAIN MediasService : InOrder(MediasService[op])
<1>1. DOMAIN MediasService = {"uploadMedia", "getMediaByUUID"}
  BY DEF MediasService
<1>2. "medias" \notin S!ToSet(<<"mediaUUID", "userIdx">>) /\ "medias" \notin S!ToSet(<<"file",
        "userIdx">>)
  BY Members
<1>3. InOrder(MediasService.getMediaByUUID)
  BY Request, <1>2 DEF Harmless, MediasService, Get
<1>4. InOrder(MediasService.uploadMedia)
  <2> DEFINE s == Upload("upload")
  <2>1. s.kind = "upload" /\ s.path = <<"medias", "upload">> /\ IsSeq(<<"medias", "upload">>)
    BY Tuples DEF Upload, Post, Core
  <2> HIDE DEF s
  <2>2. Rooted(s, <<"file", "userIdx">>) /\ First(s)
    BY <2>1 DEF Rooted, First, Ends, SetsImage, OnBehalf
  <2>3. InOrder(Operation(<<"file", "userIdx">>, <<s>>))
    BY <2>1, <2>2, OneStep DEF DirectSteps
  <2> QED BY <2>3 DEF MediasService, s
<1> QED BY <1>1, <1>3, <1>4

\* What ends a session comes after Core's consent, in the name of the same user.
LEMMA WithSessionEnd ==
  ASSUME NEW params, NEW verb, NEW path, NEW as, NEW action, NEW room,
         IsSeq(path), path # <<>>, path[1] \notin S!ToSet(params), action \notin S!ToSet(params),
         path[1] # "users", verb = "delete" \/ Len(path) = 3
  PROVE  InOrder(Operation(params, <<Core(verb, path, as), Step("local", <<action, room>>, as)>>))
<1> DEFINE s == Core(verb, path, as)
           t == Step("local", <<action, room>>, as)
<1>1. /\ s.kind = "core" /\ s.verb = verb /\ s.path = path /\ s.as = as
      /\ t.kind = "local" /\ t.path = <<action, room>> /\ t.as = as
  BY DEF Step, Core
<1>2. IsSeq(<<action, room>>) /\ <<action, room>> # <<>> /\ <<action, room>>[1] = action
  BY Tuples
<1> HIDE DEF s, t
<1>3. Rooted(s, params) /\ Rooted(t, params)
  BY <1>1, <1>2 DEF Rooted
<1>4. ~SetsImage(s)
  <2> SUFFICES ASSUME SetsImage(s) PROVE FALSE
    OBVIOUS
  <2>1. verb \in {"post", "patch"} /\ Len(path) < 3
    BY <1>1 DEF SetsImage
  <2> QED BY <2>1
<1>5. First(s) /\ Precedes(s, t)
  BY <1>1, <1>4 DEF First, Precedes, Ends, SetsImage, OnBehalf
<1>6. InOrder(Operation(params, <<s, t>>))
  BY <1>1, <1>3, <1>5, TwoSteps DEF DirectSteps
<1> QED BY <1>6 DEF s, t

LEMMA CallsInOrder == \A op \in DOMAIN CallsService : InOrder(CallsService[op])
<1>1. DOMAIN CallsService = {"joinCall", "leaveCall", "getCallState", "getParticipantsByRoomIdx"}
  BY DEF CallsService
<1> DEFINE p == <<"roomIdx", "userIdx">>
<1>2. \A a \in {"calls", "detach", "deleted", "participates"} : a \notin S!ToSet(p)
  BY Members
<1>3. InOrder(CallsService.joinCall) /\ InOrder(CallsService.getParticipantsByRoomIdx)
  BY Request, <1>2 DEF Harmless, CallsService, Get, Post
<1>4. InOrder(CallsService.leaveCall)
  <2> DEFINE path == <<"calls", "roomIdx", "leave">>
  <2>1. IsSeq(path) /\ path # <<>> /\ path[1] = "calls" /\ Len(path) = 3
    BY Tuples
  <2>2. CallsService.leaveCall =
          Operation(p, <<Core("post", path, "userIdx"), Step("local", <<"detach", "roomIdx">>,
            "userIdx")>>)
    BY DEF CallsService, Post
  <2> HIDE DEF p, path
  <2> QED BY <1>2, <2>1, <2>2, WithSessionEnd
<1>5. InOrder(CallsService.getCallState)
  <2> DEFINE s == Step("authorize", <<"deleted", "roomIdx">>, "userIdx")
             t == Core("get", <<"calls", "roomIdx", "participants">>, "userIdx")
             u == Step("authorize", <<"participates", "roomIdx">>, "userIdx")
  <2>1. /\ s.kind = "authorize" /\ s.path = <<"deleted", "roomIdx">>
        /\ IsSeq(<<"deleted", "roomIdx">>)
        /\ t.kind = "core" /\ t.path = <<"calls", "roomIdx", "participants">> /\ t.verb = "get"
        /\ IsSeq(<<"calls", "roomIdx", "participants">>)
        /\ u.kind = "authorize" /\ u.path = <<"participates", "roomIdx">>
        /\ IsSeq(<<"participates", "roomIdx">>)
    BY Tuples DEF Step, Core
  <2>2. CallsService.getCallState = Operation(p, <<s, t, u>>)
    BY DEF CallsService, Get
  <2> HIDE DEF p, s, t, u
  <2>3. Rooted(s, p) /\ Rooted(t, p) /\ Rooted(u, p)
    BY <1>2, <2>1 DEF Rooted
  <2>4. First(s) /\ Precedes(s, t) /\ Precedes(t, u)
    BY <2>1 DEF First, Precedes, Ends, SetsImage, OnBehalf
  <2> QED BY <2>1, <2>2, <2>3, <2>4, ThreeSteps DEF DirectSteps
<1> QED BY <1>1, <1>3, <1>4, <1>5

LEMMA CallRoomsInOrder == \A op \in DOMAIN CallRoomsService : InOrder(CallRoomsService[op])
<1>1. DOMAIN CallRoomsService = {"joinCallRoom", "createCallRoom", "getCallRooms",
        "getCallRoomsByKeyword", "getCallRoomById", "updateCallRoomById", "deleteCallRoomById",
        "leaveCallRoomById"}
  BY DEF CallRoomsService
<1> DEFINE p == <<"roomIdx", "userIdx">>
<1>2. /\ \A a \in {"rooms", "closeRoom", "leaveActiveCall"} : a \notin S!ToSet(p)
      /\ "rooms" \notin S!ToSet(<<"body", "roomIdx", "userIdx">>)
      /\ "rooms" \notin S!ToSet(<<"query">>) /\ "rooms" \notin S!ToSet(<<"roomIdx">>)
      /\ "rooms" \notin S!ToSet(<<"file", "body", "userIdx">>)
      /\ "rooms" \notin S!ToSet(<<"file", "body", "roomIdx", "userIdx">>)
  BY Members
<1>3. /\ InOrder(CallRoomsService.joinCallRoom) /\ InOrder(CallRoomsService.getCallRooms)
      /\ InOrder(CallRoomsService.getCallRoomsByKeyword)
      /\ InOrder(CallRoomsService.getCallRoomById)
  BY Request, <1>2 DEF Harmless, CallRoomsService, Get, Post
<1>4. InOrder(CallRoomsService.createCallRoom)
  <2>1. IsSeq(<<"rooms">>) /\ <<"rooms">> # <<>> /\ <<"rooms">>[1] = "rooms"
    BY Tuples
  <2>2. CallRoomsService.createCallRoom =
          Operation(<<"file", "body", "userIdx">>, <<Image, Core("post", <<"rooms">>, "userIdx")>>)
    BY DEF CallRoomsService, Post
  <2> QED BY <1>2, <2>1, <2>2, WithImage
<1>5. InOrder(CallRoomsService.updateCallRoomById)
  <2>1. IsSeq(<<"rooms", "roomIdx">>) /\ <<"rooms", "roomIdx">> # <<>> /\ <<"rooms",
          "roomIdx">>[1] = "rooms"
    BY Tuples
  <2>2. CallRoomsService.updateCallRoomById =
          Operation(<<"file", "body", "roomIdx", "userIdx">>,
                    <<Image, Core("patch", <<"rooms", "roomIdx">>, "userIdx")>>)
    BY DEF CallRoomsService, Patch
  <2> QED BY <1>2, <2>1, <2>2, WithImage
<1>6. InOrder(CallRoomsService.deleteCallRoomById)
  <2> DEFINE path == <<"rooms", "roomIdx">>
  <2>1. IsSeq(path) /\ path # <<>> /\ path[1] = "rooms"
    BY Tuples
  <2>2. CallRoomsService.deleteCallRoomById =
          Operation(p, <<Core("delete", path, "userIdx"), Step("local", <<"closeRoom",
            "roomIdx">>, "userIdx")>>)
    BY DEF CallRoomsService, deleteCallRoomById, Delete
  <2> HIDE DEF p, path
  <2> QED BY <1>2, <2>1, <2>2, WithSessionEnd
<1>7. InOrder(CallRoomsService.leaveCallRoomById)
  <2> DEFINE path == <<"rooms", "roomIdx", "leave">>
  <2>1. IsSeq(path) /\ path # <<>> /\ path[1] = "rooms"
    BY Tuples
  <2>2. CallRoomsService.leaveCallRoomById =
          Operation(p, <<Core("delete", path, "userIdx"), Step("local", <<"leaveActiveCall",
            "roomIdx">>, "userIdx")>>)
    BY DEF CallRoomsService, Delete
  <2> HIDE DEF p, path
  <2> QED BY <1>2, <2>1, <2>2, WithSessionEnd
<1> QED BY <1>1, <1>3, <1>4, <1>5, <1>6, <1>7

LEMMA QuickSlotsInOrder == \A op \in DOMAIN QuickSlotService : InOrder(QuickSlotService[op])
<1>1. DOMAIN QuickSlotService = {"addQuickSlot", "getUploadedQuickSlots", "getActivePreset",
        "setPreset", "editQuickSlot", "deleteQuickSlot"}
  BY DEF QuickSlotService
<1>2. /\ "quick-slots" \notin S!ToSet(<<"body", "userIdx">>)
      /\ "quick-slots" \notin S!ToSet(<<"userIdx">>)
      /\ "quick-slots" \notin S!ToSet(<<"quickSlotIdx", "body", "userIdx">>)
      /\ "quick-slots" \notin S!ToSet(<<"quickSlotIdx", "userIdx">>)
  BY Members
<1>3. /\ InOrder(QuickSlotService.addQuickSlot) /\ InOrder(QuickSlotService.getUploadedQuickSlots)
      /\ InOrder(QuickSlotService.getActivePreset) /\ InOrder(QuickSlotService.setPreset)
      /\ InOrder(QuickSlotService.editQuickSlot) /\ InOrder(QuickSlotService.deleteQuickSlot)
  BY Request, <1>2 DEF Harmless, QuickSlotService, Get, Post, Patch, Delete
<1> QED BY <1>1, <1>3

\* The call of a room is joined if it has to be found out that way.
LEMMA AfterResolution ==
  ASSUME NEW params, NEW s, Rooted(s, params), s.kind \in {"core", "local"}, ~Ends(s),
           ~SetsImage(s)
  PROVE  InOrder(Operation(params, resolveCallIdxByRoomIdx \o <<s>>))
<1> DEFINE e == [Get(<<"calls", "roomIdx", "participants">>, "userIdx") EXCEPT !.kind = "resolve"]
           f == [Post(<<"calls", "roomIdx", "join">>, "userIdx") EXCEPT !.kind = "join"]
<1>1. /\ e.kind = "resolve" /\ e.path = <<"calls", "roomIdx", "participants">>
      /\ IsSeq(<<"calls", "roomIdx", "participants">>)
      /\ f.kind = "join" /\ f.path = <<"calls", "roomIdx", "join">>
      /\ IsSeq(<<"calls", "roomIdx", "join">>)
  BY Tuples DEF Get, Post, Core
<1>2. resolveCallIdxByRoomIdx = <<e, f>>
  BY DEF resolveCallIdxByRoomIdx
<1> HIDE DEF e, f
<1>3. <<e, f>> \o <<s>> = <<e, f, s>>
  BY TwoAndOne
<1>4. Rooted(e, params) /\ Rooted(f, params)
  BY <1>1 DEF Rooted
<1>5. First(e) /\ Precedes(e, f) /\ Precedes(f, s)
  BY <1>1 DEF First, Precedes, Ends, SetsImage, OnBehalf
<1> QED BY <1>1, <1>2, <1>3, <1>4, <1>5, ThreeSteps DEF DirectSteps

LEMMA MeetingsInOrder == \A op \in DOMAIN MeetingsService : InOrder(MeetingsService[op])
<1>1. DOMAIN MeetingsService = {"startMeeting", "endMeeting", "createMeetingMinutes",
        "saveMeetingMinutes", "getMeetingMinutesByRoomIdx", "getMeetingMinutesByIdx",
        "updateMeetingMinutes"}
  BY DEF MeetingsService
<1>2. /\ "meetings" \notin S!ToSet(<<"minutesIdx", "userIdx">>)
      /\ "meetings" \notin S!ToSet(<<"minutesIdx", "body", "userIdx">>)
      /\ "meetings" \notin S!ToSet(<<"roomIdx", "userIdx">>)
      /\ "meetings" \notin S!ToSet(<<"roomIdx", "body", "userIdx">>)
      /\ "xadd" \notin S!ToSet(<<"roomIdx", "body", "userIdx">>)
  BY Members
<1>3. /\ InOrder(MeetingsService.endMeeting) /\ InOrder(MeetingsService.getMeetingMinutesByRoomIdx)
      /\ InOrder(MeetingsService.getMeetingMinutesByIdx)
      /\ InOrder(MeetingsService.updateMeetingMinutes)
  BY Request, <1>2 DEF Harmless, MeetingsService, Get, Post, Patch
<1>4. InOrder(MeetingsService.startMeeting)
  <2> DEFINE s == Post(<<"meetings", "start", "calls", "callIdx">>, "userIdx")
  <2>1. /\ s.kind = "core" /\ s.path = <<"meetings", "start", "calls", "callIdx">>
        /\ IsSeq(<<"meetings", "start", "calls", "callIdx">>)
    BY Tuples DEF Post, Core
  <2> HIDE DEF s
  <2>2. Rooted(s, <<"roomIdx", "userIdx">>) /\ ~Ends(s) /\ ~SetsImage(s)
    BY <1>2, <2>1 DEF Rooted, Ends, SetsImage
  <2> QED BY <2>1, <2>2, AfterResolution DEF MeetingsService, s
<1>5. InOrder(MeetingsService.createMeetingMinutes)
  <2> DEFINE s == Step("local", <<"xadd", "callIdx">>, "userIdx")
  <2>1. s.kind = "local" /\ s.path = <<"xadd", "callIdx">> /\ IsSeq(<<"xadd", "callIdx">>)
    BY Tuples DEF Step, Core
  <2> HIDE DEF s
  <2>2. Rooted(s, <<"roomIdx", "body", "userIdx">>) /\ ~Ends(s) /\ ~SetsImage(s)
    BY <1>2, <2>1 DEF Rooted, Ends, SetsImage
  <2> QED BY <2>1, <2>2, AfterResolution DEF MeetingsService, s
<1>6. InOrder(MeetingsService.saveMeetingMinutes)
  <2> DEFINE s == Post(<<"meetings", "calls", "callIdx">>, "userIdx")
  <2>1. /\ s.kind = "core" /\ s.path = <<"meetings", "calls", "callIdx">>
        /\ IsSeq(<<"meetings", "calls", "callIdx">>)
    BY Tuples DEF Post, Core
  <2> HIDE DEF s
  <2>2. Rooted(s, <<"roomIdx", "body", "userIdx">>) /\ ~Ends(s) /\ ~SetsImage(s)
    BY <1>2, <2>1 DEF Rooted, Ends, SetsImage
  <2> QED BY <2>1, <2>2, AfterResolution DEF MeetingsService, s
<1> QED BY <1>1, <1>3, <1>4, <1>5, <1>6

LEMMA ChatRoomsInOrder ==
  \A op \in DOMAIN ChatRoomsService \ {"getOrCreateDirectMessageRoom"} :
    InOrder(ChatRoomsService[op])
<1>1. DOMAIN ChatRoomsService = {"createChatRoom", "getChatRooms", "getChatRoom",
        "getOrCreateDirectMessageRoom", "replyInvitation", "getMessages", "sendMessage",
          "readChatRoom"}
  BY DEF ChatRoomsService
<1>2. /\ "chat-rooms" \notin S!ToSet(<<"body", "userIdx">>)
      /\ "chat-rooms" \notin S!ToSet(<<"userIdx">>)
      /\ "chat-rooms" \notin S!ToSet(<<"chatRoomIdx", "userIdx">>)
      /\ "chat-rooms" \notin S!ToSet(<<"invitationIdx", "body", "userIdx">>)
      /\ "chat-rooms" \notin S!ToSet(<<"chatRoomIdx", "query", "userIdx">>)
      /\ "chat-rooms" \notin S!ToSet(<<"chatRoomIdx", "body", "userIdx">>)
  BY Members
<1>3. /\ InOrder(ChatRoomsService.createChatRoom) /\ InOrder(ChatRoomsService.getChatRoom)
      /\ InOrder(ChatRoomsService.replyInvitation) /\ InOrder(ChatRoomsService.getMessages)
      /\ InOrder(ChatRoomsService.sendMessage) /\ InOrder(ChatRoomsService.readChatRoom)
  BY Request, <1>2 DEF Harmless, ChatRoomsService, createChatRoom, getChatRoom, Post, Get, Patch
<1>4. InOrder(ChatRoomsService.getChatRooms)
  <2> DEFINE s == Core("get", <<"chat-rooms">>, "userIdx")
             t == [Get(<<"chat-rooms", "each">>, "userIdx") EXCEPT !.kind = "detail"]
  <2>1. /\ s.kind = "core" /\ s.path = <<"chat-rooms">> /\ IsSeq(<<"chat-rooms">>) /\ s.verb = "get"
        /\ t.kind = "detail" /\ t.path = <<"chat-rooms", "each">> /\ IsSeq(<<"chat-rooms", "each">>)
    BY Tuples DEF Get, Core
  <2>2. ChatRoomsService.getChatRooms = Operation(<<"userIdx">>, <<s, t>>)
    BY DEF ChatRoomsService, getChatRooms, Get
  <2> HIDE DEF s, t
  <2>3. Rooted(s, <<"userIdx">>) /\ Rooted(t, <<"userIdx">>)
    BY <1>2, <2>1 DEF Rooted
  <2>4. First(s) /\ Precedes(s, t)
    BY <2>1 DEF First, Precedes, Ends, SetsImage, OnBehalf
  <2> QED BY <2>1, <2>2, <2>3, <2>4, TwoSteps DEF DirectSteps
<1> QED BY <1>1, <1>3, <1>4

\* The room is created for the caller before anything is done in the other's name.
LEMMA DirectMessageInOrder ==
  LET o == ChatRoomsService.getOrCreateDirectMessageRoom IN
    /\ Sorted(o) /\ o.params = <<"targetUserIdx", "userIdx">>
    /\ o.steps # <<>> /\ o.steps[1].kind = "dm" /\ o.steps[1].as = "userIdx"
    /\ \A i \in DOMAIN o.steps : o.steps[i].kind \in OnBehalf => o.steps[i].as = "targetUserIdx"
<1> DEFINE p == <<"targetUserIdx", "userIdx">>
           s1 == Step("dm", <<"dm", "targetUserIdx">>, "userIdx")
           s2 == [Get(<<"chat-rooms">>, "userIdx") EXCEPT !.kind = "find"]
           s3 == Post(<<"chat-rooms">>, "userIdx")
           s4 == [Get(<<"notifications">>, "targetUserIdx") EXCEPT !.kind = "invitations"]
           s5 == [Patch(<<"chat-rooms", "invitations", "each">>, "targetUserIdx")
                    EXCEPT !.kind = "accept"]
           s6 == Step("local", <<"store", "targetUserIdx">>, "userIdx")
           s7 == Get(<<"chat-rooms", "found">>, "userIdx")
           l == <<s1, s2, s3, s4, s5, s6, s7>>
           o == ChatRoomsService.getOrCreateDirectMessageRoom
<1>1. o.params = p /\ o.steps = l
  BY DEF ChatRoomsService, getOrCreateDirectMessageRoom, Operation
<1>2. /\ s1.kind = "dm" /\ s1.as = "userIdx" /\ IsSeq(s1.path)
      /\ s2.kind = "find" /\ IsSeq(s2.path)
      /\ s3.kind = "core" /\ s3.verb = "post" /\ s3.path = <<"chat-rooms">> /\ IsSeq(s3.path)
      /\ s3.as = "userIdx"
      /\ s4.kind = "invitations" /\ s4.as = "targetUserIdx" /\ IsSeq(s4.path)
      /\ s5.kind = "accept" /\ s5.as = "targetUserIdx" /\ IsSeq(s5.path)
      /\ s6.kind = "local" /\ s6.path = <<"store", "targetUserIdx">> /\ IsSeq(s6.path)
      /\ s7.kind = "core" /\ s7.verb = "get" /\ s7.path = <<"chat-rooms", "found">>
      /\ IsSeq(s7.path)
  BY Tuples DEF Step, Get, Post, Patch, Core
<1>3. /\ IsSeq(l) /\ Len(l) = 7 /\ DOMAIN l = 1 .. 7 /\ l # <<>>
      /\ l[1] = s1 /\ l[2] = s2 /\ l[3] = s3 /\ l[4] = s4 /\ l[5] = s5 /\ l[6] = s6 /\ l[7] = s7
  BY Tuples
<1>4. S!ToSet(p) = {"targetUserIdx", "userIdx"}
  BY Members
<1> HIDE DEF p, s1, s2, s3, s4, s5, s6, s7, l, o
<1>5. /\ Rooted(s1, p) /\ Rooted(s2, p) /\ Rooted(s3, p) /\ Rooted(s4, p) /\ Rooted(s5, p)
      /\ Rooted(s6, p) /\ Rooted(s7, p)
  BY <1>2, <1>4 DEF Rooted
<1>6. First(s1) /\ First(s6) /\ First(s7)
  BY <1>2 DEF First, Ends, SetsImage, OnBehalf
<1>7. /\ Precedes(s1, s2) /\ Precedes(s2, s3) /\ Precedes(s3, s4)
      /\ Precedes(s4, s5) /\ Precedes(s5, s6) /\ Precedes(s6, s7)
  BY <1>2 DEF Precedes, Ends, SetsImage, OnBehalf, Creates
<1>8. \A i \in 1 .. 7 : Rooted(l[i], p)
  BY <1>3, <1>5
<1>9. \A i \in 1 .. 6 : Precedes(l[i], l[i + 1])
  BY <1>3, <1>7
<1>10. \A i \in 1 .. 7 : /\ l[i].kind # "detail" /\ (l[i].kind = "find" => i = 2)
                        /\ l[i].kind \in OnBehalf => l[i].as = "targetUserIdx"
  BY <1>2, <1>3 DEF OnBehalf
<1>11. Sorted(o)
  BY <1>1, <1>2, <1>3, <1>6, <1>8, <1>9, <1>10 DEF Sorted
<1> QED BY <1>1, <1>2, <1>3, <1>10, <1>11 DEF o, p

LEMMA TheServices ==
  /\ DOMAIN Services = 1 .. 11
  /\ Services[1] = NoService /\ Services[2] = AuthService /\ Services[3] = UsersService
  /\ Services[4] = FriendService /\ Services[5] = NotificationsService
  /\ Services[6] = MediasService /\ Services[7] = CallsService
  /\ Services[8] = CallRoomsService /\ Services[9] = QuickSlotService
  /\ Services[10] = MeetingsService /\ Services[11] = ChatRoomsService
BY DEF Services

\* Whatever operation of whatever service.
LEMMA OperationsInOrder ==
  ASSUME NEW i \in DOMAIN Services, NEW op \in DOMAIN Services[i]
  PROVE  \/ InOrder(Services[i][op])
         \/ /\ op = "getOrCreateDirectMessageRoom"
            /\ Services[i][op] = ChatRoomsService.getOrCreateDirectMessageRoom
<1>1. CASE i = 11 /\ op = "getOrCreateDirectMessageRoom"
  BY <1>1, TheServices
<1>2. CASE ~(i = 11 /\ op = "getOrCreateDirectMessageRoom")
  BY <1>2, TheServices, NoServiceInOrder, AuthInOrder, UsersInOrder, FriendsInOrder,
     NotificationsInOrder, MediasInOrder, CallsInOrder, CallRoomsInOrder, QuickSlotsInOrder,
     MeetingsInOrder, ChatRoomsInOrder
<1> QED BY <1>1, <1>2

----------------------------------------------------------------------------
(* The operations of the services: who asks, and for what.                 *)

\* What an operation asks for: each step in the caller's name, but for an invitation, about
\* nothing but literal segments and the parameters that are subjects.
About(s, params, caller, subjects) ==
  /\ s.as = caller \/ s.kind \in OnBehalf
  /\ IsSeq(s.path)
  /\ S!ToSet(s.path) \cap S!ToSet(params) \subseteq subjects
Asks(o, params, caller, subjects) ==
  /\ o.params = params /\ IsSeq(params) /\ IsSeq(o.steps)
  /\ \A s \in S!ToSet(o.steps) : About(s, params, caller, subjects)

LEMMA AsksOf ==
  ASSUME NEW params, NEW l, NEW caller, NEW subjects, IsSeq(params), IsSeq(l),
         \A s \in S!ToSet(l) : About(s, params, caller, subjects)
  PROVE  Asks(Operation(params, l), params, caller, subjects)
BY DEF Asks, Operation

LEMMA AsksAll ==
  \A params, caller, subjects : IsSeq(params) =>
    /\ Asks(Operation(params, <<>>), params, caller, subjects)
    /\ \A s : About(s, params, caller, subjects) =>
         Asks(Operation(params, <<s>>), params, caller, subjects)
    /\ \A s, t : About(s, params, caller, subjects) /\ About(t, params, caller, subjects) =>
         Asks(Operation(params, <<s, t>>), params, caller, subjects)
    /\ \A s, t, u : (\A x \in {s, t, u} : About(x, params, caller, subjects)) =>
         Asks(Operation(params, <<s, t, u>>), params, caller, subjects)
<1> TAKE params, caller, subjects
<1> SUFFICES ASSUME IsSeq(params)
             PROVE
    /\ Asks(Operation(params, <<>>), params, caller, subjects)
    /\ \A s : About(s, params, caller, subjects) =>
         Asks(Operation(params, <<s>>), params, caller, subjects)
    /\ \A s, t : About(s, params, caller, subjects) /\ About(t, params, caller, subjects) =>
         Asks(Operation(params, <<s, t>>), params, caller, subjects)
    /\ \A s, t, u : (\A x \in {s, t, u} : About(x, params, caller, subjects)) =>
         Asks(Operation(params, <<s, t, u>>), params, caller, subjects)
  OBVIOUS
<1>1. Asks(Operation(params, <<>>), params, caller, subjects)
  BY AsksOf, Tuples, Members
<1>2. ASSUME NEW s, About(s, params, caller, subjects)
      PROVE  Asks(Operation(params, <<s>>), params, caller, subjects)
  <2>1. IsSeq(<<s>>) /\ S!ToSet(<<s>>) = {s}
    BY Tuples, Members
  <2> QED BY <1>2, <2>1, AsksOf
<1>3. ASSUME NEW s, NEW t, About(s, params, caller, subjects), About(t, params, caller, subjects)
      PROVE  Asks(Operation(params, <<s, t>>), params, caller, subjects)
  <2>1. IsSeq(<<s, t>>) /\ S!ToSet(<<s, t>>) = {s, t}
    BY Tuples, Members
  <2> QED BY <1>3, <2>1, AsksOf
<1>4. ASSUME NEW s, NEW t, NEW u, About(s, params, caller, subjects),
             About(t, params, caller, subjects), About(u, params, caller, subjects)
      PROVE  Asks(Operation(params, <<s, t, u>>), params, caller, subjects)
  <2>1. IsSeq(<<s, t, u>>) /\ S!ToSet(<<s, t, u>>) = {s, t, u}
    BY Tuples, Members
  <2> QED BY <1>4, <2>1, AsksOf
<1> QED BY <1>1, <1>2, <1>3, <1>4

LEMMA RequestAsks ==
  \A params, verb, caller, subjects : IsSeq(params) =>
    /\ \A a : {a} \cap S!ToSet(params) \subseteq subjects =>
         Asks(Operation(params, <<Core(verb, <<a>>, caller)>>), params, caller, subjects)
    /\ \A a, b : {a, b} \cap S!ToSet(params) \subseteq subjects =>
         Asks(Operation(params, <<Core(verb, <<a, b>>, caller)>>), params, caller, subjects)
    /\ \A a, b, c : {a, b, c} \cap S!ToSet(params) \subseteq subjects =>
         Asks(Operation(params, <<Core(verb, <<a, b, c>>, caller)>>), params, caller, subjects)
<1> TAKE params, verb, caller, subjects
<1> SUFFICES ASSUME IsSeq(params)
             PROVE  /\ \A a : {a} \cap S!ToSet(params) \subseteq subjects =>
                         Asks(Operation(params, <<Core(verb, <<a>>, caller)>>), params, caller,
                           subjects)
                    /\ \A a, b : {a, b} \cap S!ToSet(params) \subseteq subjects =>
                         Asks(Operation(params, <<Core(verb, <<a, b>>, caller)>>), params,
                           caller, subjects)
                    /\ \A a, b, c : {a, b, c} \cap S!ToSet(params) \subseteq subjects =>
                         Asks(Operation(params, <<Core(verb, <<a, b, c>>, caller)>>), params,
                           caller, subjects)
  OBVIOUS
<1>1. ASSUME NEW path, IsSeq(path), S!ToSet(path) \cap S!ToSet(params) \subseteq subjects
      PROVE  Asks(Operation(params, <<Core(verb, path, caller)>>), params, caller, subjects)
  <2>1. About(Core(verb, path, caller), params, caller, subjects)
    BY <1>1 DEF About, Core
  <2> QED BY <2>1, AsksAll
<1>2. ASSUME NEW a, {a} \cap S!ToSet(params) \subseteq subjects
      PROVE  Asks(Operation(params, <<Core(verb, <<a>>, caller)>>), params, caller, subjects)
  <2>1. IsSeq(<<a>>) /\ S!ToSet(<<a>>) = {a}
    BY Tuples, Members
  <2> QED BY <1>1, <1>2, <2>1
<1>3. ASSUME NEW a, NEW b, {a, b} \cap S!ToSet(params) \subseteq subjects
      PROVE  Asks(Operation(params, <<Core(verb, <<a, b>>, caller)>>), params, caller, subjects)
  <2>1. IsSeq(<<a, b>>) /\ S!ToSet(<<a, b>>) = {a, b}
    BY Tuples, Members
  <2> QED BY <1>1, <1>3, <2>1
<1>4. ASSUME NEW a, NEW b, NEW c, {a, b, c} \cap S!ToSet(params) \subseteq subjects
      PROVE  Asks(Operation(params, <<Core(verb, <<a, b, c>>, caller)>>), params, caller, subjects)
  <2>1. IsSeq(<<a, b, c>>) /\ S!ToSet(<<a, b, c>>) = {a, b, c}
    BY Tuples, Members
  <2> QED BY <1>1, <1>4, <2>1
<1> QED BY <1>2, <1>3, <1>4

\* An operation that finds out the call of a room first.
LEMMA ResolutionAsks ==
  ASSUME NEW params, NEW s, IsSeq(params), About(s, params, "userIdx", {"roomIdx"}),
         "calls" \notin S!ToSet(params), "participants" \notin S!ToSet(params),
         "join" \notin S!ToSet(params)
  PROVE  Asks(Operation(params, resolveCallIdxByRoomIdx \o <<s>>), params, "userIdx", {"roomIdx"})
<1> DEFINE e == [Get(<<"calls", "roomIdx", "participants">>, "userIdx") EXCEPT !.kind = "resolve"]
           f == [Post(<<"calls", "roomIdx", "join">>, "userIdx") EXCEPT !.kind = "join"]
<1>1. /\ e.as = "userIdx" /\ e.path = <<"calls", "roomIdx", "participants">>
      /\ f.as = "userIdx" /\ f.path = <<"calls", "roomIdx", "join">>
  BY DEF Get, Post, Core
<1>2. resolveCallIdxByRoomIdx = <<e, f>>
  BY DEF resolveCallIdxByRoomIdx
<1> HIDE DEF e, f
<1>3. About(e, params, "userIdx", {"roomIdx"}) /\ About(f, params, "userIdx", {"roomIdx"})
  BY <1>1, Tuples, Members DEF About
<1>4. resolveCallIdxByRoomIdx \o <<s>> = <<e, f, s>>
  BY <1>2, TwoAndOne
<1> QED BY <1>3, <1>4, AsksAll

\* What the operations of each service ask for.
LEMMA NoServiceAsks ==
  /\ Asks(NoService.getInfo, <<>>, "", {}) /\ Asks(NoService.recover, <<>>, "", {})
  /\ Asks(NoService.logout, <<>>, "", {})
<1> DEFINE s == Step("notImplemented", <<>>, "")
<1>1. s.as = "" /\ s.path = <<>>
  BY DEF Step, Core
<1>2. /\ NoService.getInfo = Operation(<<>>, <<>>)
      /\ NoService.recover = Operation(<<>>, <<s>>) /\ NoService.logout = Operation(<<>>, <<s>>)
  BY DEF NoService
<1> HIDE DEF s
<1>3. About(s, <<>>, "", {})
  BY <1>1, Tuples, Members DEF About
<1> QED BY <1>2, <1>3, AsksAll, Tuples

LEMMA AuthAsks ==
  /\ Asks(AuthService.login, <<"body">>, "", {})
  /\ Asks(AuthService.sendEmailVerification, <<"body">>, "", {})
  /\ Asks(AuthService.verifyEmail, <<"body">>, "", {})
  /\ Asks(AuthService.register, <<"body">>, "", {})
  /\ Asks(AuthService.refreshToken, <<"body">>, "", {})
  /\ Asks(AuthService.deleteRefreshToken, <<"body">>, "", {})
<1>1. /\ IsSeq(<<"body">>) /\ S!ToSet(<<"body">>) = {"body"}
  BY Tuples, Members
<1>2. /\ Asks(AuthService.login, <<"body">>, "", {})
      /\ Asks(AuthService.sendEmailVerification, <<"body">>, "", {})
      /\ Asks(AuthService.verifyEmail, <<"body">>, "", {})
      /\ Asks(AuthService.register, <<"body">>, "", {})
      /\ Asks(AuthService.refreshToken, <<"body">>, "", {})
      /\ Asks(AuthService.deleteRefreshToken, <<"body">>, "", {})
  BY RequestAsks, <1>1 DEF AuthService, Post, Delete
<1> QED BY <1>1, <1>2

LEMMA UsersAsks ==
  /\ Asks(UsersService.withdrawAccount, <<"userIdx">>, "userIdx", {})
  /\ Asks(UsersService.getMyInformation, <<"userIdx">>, "userIdx", {})
  /\ Asks(UsersService.getUserInformation, <<"userIdx">>, "", {"userIdx"})
  /\ Asks(UsersService.updateMyInformation, <<"file", "body", "userIdx">>, "userIdx", {})
  /\ Asks(UsersService.updatePassword, <<"body", "userIdx">>, "userIdx", {})
  /\ Asks(UsersService.getSpecifyUserInformation, <<"userId">>, "", {"userId"})
<1>1. /\ Asks(UsersService.withdrawAccount, <<"userIdx">>, "userIdx", {})
      /\ Asks(UsersService.getMyInformation, <<"userIdx">>, "userIdx", {})
      /\ Asks(UsersService.updatePassword, <<"body", "userIdx">>, "userIdx", {})
  BY RequestAsks, Tuples, Members DEF UsersService, Get, Patch, Delete
<1>2. /\ IsSeq(<<"userId">>) /\ S!ToSet(<<"userId">>) = {"userId"}
      /\ IsSeq(<<"userIdx">>) /\ S!ToSet(<<"userIdx">>) = {"userIdx"}
  BY Tuples, Members
<1>3. /\ Asks(UsersService.getUserInformation, <<"userIdx">>, "", {"userIdx"})
      /\ Asks(UsersService.getSpecifyUserInformation, <<"userId">>, "", {"userId"})
  BY RequestAsks, <1>2 DEF UsersService, Get, Patch, Delete
<1>4. Asks(UsersService.updateMyInformation, <<"file", "body", "userIdx">>, "userIdx", {})
  <2> DEFINE s == Image
             t == Core("patch", <<"users", "me">>, "userIdx")
  <2>1. /\ s.as = "userIdx" /\ s.path = <<"medias", "upload">>
        /\ t.as = "userIdx" /\ t.path = <<"users", "me">>
    BY DEF Step, Core, Get, Image, Upload, Post
  <2>2. UsersService.updateMyInformation = Operation(<<"file", "body", "userIdx">>, <<s, t>>)
    BY DEF UsersService, Patch
  <2> HIDE DEF s, t
  <2>3. /\ About(s, <<"file", "body", "userIdx">>, "userIdx", {})
        /\ About(t, <<"file", "body", "userIdx">>, "userIdx", {})
    BY <2>1, Tuples, Members DEF About
  <2> QED BY <2>2, <2>3, AsksAll, Tuples
<1> QED BY <1>1, <1>2, <1>3, <1>4

LEMMA FriendAsks ==
  /\ Asks(FriendService.sendFriendRequest, <<"targetUserIdx", "sendUserIdx">>, "sendUserIdx",
       {"targetUserIdx"})
  /\ Asks(FriendService.getFriendList, <<"userIdx">>, "userIdx", {})
  /\ Asks(FriendService.getFriendCount, <<"userIdx">>, "userIdx", {})
  /\ Asks(FriendService.getPendingFriendRequests, <<"userIdx">>, "userIdx", {})
  /\ Asks(FriendService.acceptFriendRequest, <<"userIdx", "friendshipIdx">>, "userIdx",
       {"friendshipIdx"})
  /\ Asks(FriendService.rejectFriendRequest, <<"userIdx", "friendshipIdx">>, "userIdx",
       {"friendshipIdx"})
  /\ Asks(FriendService.unfriend, <<"userIdx", "friendUserIdx">>, "userIdx", {"friendUserIdx"})
BY RequestAsks, Tuples, Members DEF FriendService, sendFriendRequest, Get, Post, Patch, Delete

LEMMA NotificationsAsks ==
  /\ Asks(NotificationsService.subscribe, <<"userIdx">>, "userIdx", {})
  /\ Asks(NotificationsService.readNotification, <<"notificationIdx", "userIdx">>, "userIdx",
       {"notificationIdx"})
  /\ Asks(NotificationsService.getNotificationSetting, <<"userIdx">>, "userIdx", {})
  /\ Asks(NotificationsService.updateNotificationSetting, <<"notificationType", "body",
       "userIdx">>, "userIdx", {"notificationType"})
<1>1. /\ Asks(NotificationsService.readNotification, <<"notificationIdx", "userIdx">>, "userIdx",
           {"notificationIdx"})
      /\ Asks(NotificationsService.getNotificationSetting, <<"userIdx">>, "userIdx", {})
      /\ Asks(NotificationsService.updateNotificationSetting, <<"notificationType", "body",
           "userIdx">>, "userIdx", {"notificationType"})
  BY RequestAsks, Tuples, Members DEF NotificationsService, Get, Patch
<1>2. Asks(NotificationsService.subscribe, <<"userIdx">>, "userIdx", {})
  <2> DEFINE s == Step("local", <<"subscribe">>, "userIdx")
  <2>1. /\ s.as = "userIdx" /\ s.path = <<"subscribe">>
    BY DEF Step, Core, Get
  <2>2. NotificationsService.subscribe = Operation(<<"userIdx">>, <<s>>)
    BY DEF NotificationsService
  <2> HIDE DEF s
  <2>3. /\ About(s, <<"userIdx">>, "userIdx", {})
    BY <2>1, Tuples, Members DEF About
  <2> QED BY <2>2, <2>3, AsksAll, Tuples
<1> QED BY <1>1, <1>2

LEMMA MediasAsks ==
  /\ Asks(MediasService.uploadMedia, <<"file", "userIdx">>, "userIdx", {})
  /\ Asks(MediasService.getMediaByUUID, <<"mediaUUID", "userIdx">>, "userIdx", {"mediaUUID"})
<1>1. /\ Asks(MediasService.getMediaByUUID, <<"mediaUUID", "userIdx">>, "userIdx", {"mediaUUID"})
  BY RequestAsks, Tuples, Members DEF MediasService, Get
<1>2. Asks(MediasService.uploadMedia, <<"file", "userIdx">>, "userIdx", {})
  <2> DEFINE s == Upload("upload")
  <2>1. /\ s.as = "userIdx" /\ s.path = <<"medias", "upload">>
    BY DEF Step, Core, Get, Image, Upload, Post
  <2>2. MediasService.uploadMedia = Operation(<<"file", "userIdx">>, <<s>>)
    BY DEF MediasService
  <2> HIDE DEF s
  <2>3. /\ About(s, <<"file", "userIdx">>, "userIdx", {})
    BY <2>1, Tuples, Members DEF About
  <2> QED BY <2>2, <2>3, AsksAll, Tuples
<1> QED BY <1>1, <1>2

LEMMA CallsAsks ==
  /\ Asks(CallsService.joinCall, <<"roomIdx", "userIdx">>, "userIdx", {"roomIdx"})
  /\ Asks(CallsService.leaveCall, <<"roomIdx", "userIdx">>, "userIdx", {"roomIdx"})
  /\ Asks(CallsService.getCallState, <<"roomIdx", "userIdx">>, "userIdx", {"roomIdx"})
  /\ Asks(CallsService.getParticipantsByRoomIdx, <<"roomIdx", "userIdx">>, "userIdx", {"roomIdx"})
<1>1. /\ Asks(CallsService.joinCall, <<"roomIdx", "userIdx">>, "userIdx", {"roomIdx"})
      /\ Asks(CallsService.getParticipantsByRoomIdx, <<"roomIdx", "userIdx">>, "userIdx",
           {"roomIdx"})
  BY RequestAsks, Tuples, Members DEF CallsService, Get, Post
<1>2. Asks(CallsService.leaveCall, <<"roomIdx", "userIdx">>, "userIdx", {"roomIdx"})
  <2> DEFINE s == Core("post", <<"calls", "roomIdx", "leave">>, "userIdx")
             t == Step("local", <<"detach", "roomIdx">>, "userIdx")
  <2>1. /\ s.as = "userIdx" /\ s.path = <<"calls", "roomIdx", "leave">>
        /\ t.as = "userIdx" /\ t.path = <<"detach", "roomIdx">>
    BY DEF Step, Core, Get
  <2>2. CallsService.leaveCall = Operation(<<"roomIdx", "userIdx">>, <<s, t>>)
    BY DEF CallsService, Post
  <2> HIDE DEF s, t
  <2>3. /\ About(s, <<"roomIdx", "userIdx">>, "userIdx", {"roomIdx"})
        /\ About(t, <<"roomIdx", "userIdx">>, "userIdx", {"roomIdx"})
    BY <2>1, Tuples, Members DEF About
  <2> QED BY <2>2, <2>3, AsksAll, Tuples
<1>3. Asks(CallsService.getCallState, <<"roomIdx", "userIdx">>, "userIdx", {"roomIdx"})
  <2> DEFINE s == Step("authorize", <<"deleted", "roomIdx">>, "userIdx")
             t == Core("get", <<"calls", "roomIdx", "participants">>, "userIdx")
             u == Step("authorize", <<"participates", "roomIdx">>, "userIdx")
  <2>1. /\ s.as = "userIdx" /\ s.path = <<"deleted", "roomIdx">>
        /\ t.as = "userIdx" /\ t.path = <<"calls", "roomIdx", "participants">>
        /\ u.as = "userIdx" /\ u.path = <<"participates", "roomIdx">>
    BY DEF Step, Core, Get
  <2>2. CallsService.getCallState = Operation(<<"roomIdx", "userIdx">>, <<s, t, u>>)
    BY DEF CallsService, Get
  <2> HIDE DEF s, t, u
  <2>3. /\ About(s, <<"roomIdx", "userIdx">>, "userIdx", {"roomIdx"})
        /\ About(t, <<"roomIdx", "userIdx">>, "userIdx", {"roomIdx"})
        /\ About(u, <<"roomIdx", "userIdx">>, "userIdx", {"roomIdx"})
    BY <2>1, Tuples, Members DEF About
  <2> QED BY <2>2, <2>3, AsksAll, Tuples
<1> QED BY <1>1, <1>2, <1>3

LEMMA CallRoomsAsks ==
  /\ Asks(CallRoomsService.joinCallRoom, <<"body", "roomIdx", "userIdx">>, "userIdx", {"roomIdx"})
  /\ Asks(CallRoomsService.createCallRoom, <<"file", "body", "userIdx">>, "userIdx", {})
  /\ Asks(CallRoomsService.getCallRooms, <<"query">>, "", {})
  /\ Asks(CallRoomsService.getCallRoomsByKeyword, <<"query">>, "", {})
  /\ Asks(CallRoomsService.getCallRoomById, <<"roomIdx">>, "", {"roomIdx"})
  /\ Asks(CallRoomsService.updateCallRoomById, <<"file", "body", "roomIdx", "userIdx">>,
       "userIdx", {"roomIdx"})
  /\ Asks(CallRoomsService.deleteCallRoomById, <<"roomIdx", "userIdx">>, "userIdx", {"roomIdx"})
  /\ Asks(CallRoomsService.leaveCallRoomById, <<"roomIdx", "userIdx">>, "userIdx", {"roomIdx"})
<1>1. /\ Asks(CallRoomsService.joinCallRoom, <<"body", "roomIdx", "userIdx">>, "userIdx",
           {"roomIdx"})
  BY RequestAsks, Tuples, Members DEF CallRoomsService, Get, Post
<1>2. /\ IsSeq(<<"query">>) /\ S!ToSet(<<"query">>) = {"query"}
      /\ IsSeq(<<"roomIdx">>) /\ S!ToSet(<<"roomIdx">>) = {"roomIdx"}
  BY Tuples, Members
<1>3. /\ Asks(CallRoomsService.getCallRooms, <<"query">>, "", {})
      /\ Asks(CallRoomsService.getCallRoomsByKeyword, <<"query">>, "", {})
      /\ Asks(CallRoomsService.getCallRoomById, <<"roomIdx">>, "", {"roomIdx"})
  BY RequestAsks, <1>2 DEF CallRoomsService, Get, Post
<1>4. Asks(CallRoomsService.createCallRoom, <<"file", "body", "userIdx">>, "userIdx", {})
  <2> DEFINE s == Image
             t == Core("post", <<"rooms">>, "userIdx")
  <2>1. /\ s.as = "userIdx" /\ s.path = <<"medias", "upload">>
        /\ t.as = "userIdx" /\ t.path = <<"rooms">>
    BY DEF Step, Core, Get, Image, Upload, Post
  <2>2. CallRoomsService.createCallRoom = Operation(<<"file", "body", "userIdx">>, <<s, t>>)
    BY DEF CallRoomsService, Post
  <2> HIDE DEF s, t
  <2>3. /\ About(s, <<"file", "body", "userIdx">>, "userIdx", {})
        /\ About(t, <<"file", "body", "userIdx">>, "userIdx", {})
    BY <2>1, Tuples, Members DEF About
  <2> QED BY <2>2, <2>3, AsksAll, Tuples
<1>5. Asks(CallRoomsService.updateCallRoomById, <<"file", "body", "roomIdx", "userIdx">>,
        "userIdx", {"roomIdx"})
  <2> DEFINE s == Image
             t == Core("patch", <<"rooms", "roomIdx">>, "userIdx")
  <2>1. /\ s.as = "userIdx" /\ s.path = <<"medias", "upload">>
        /\ t.as = "userIdx" /\ t.path = <<"rooms", "roomIdx">>
    BY DEF Step, Core, Get, Image, Upload, Post
  <2>2. CallRoomsService.updateCallRoomById = Operation(<<"file", "body", "roomIdx", "userIdx">>,
          <<s, t>>)
    BY DEF CallRoomsService, Patch
  <2> HIDE DEF s, t
  <2>3. /\ About(s, <<"file", "body", "roomIdx", "userIdx">>, "userIdx", {"roomIdx"})
        /\ About(t, <<"file", "body", "roomIdx", "userIdx">>, "userIdx", {"roomIdx"})
    BY <2>1, Tuples, Members DEF About
  <2> QED BY <2>2, <2>3, AsksAll, Tuples
<1>6. Asks(CallRoomsService.deleteCallRoomById, <<"roomIdx", "userIdx">>, "userIdx", {"roomIdx"})
  <2> DEFINE s == Core("delete", <<"rooms", "roomIdx">>, "userIdx")
             t == Step("local", <<"closeRoom", "roomIdx">>, "userIdx")
  <2>1. /\ s.as = "userIdx" /\ s.path = <<"rooms", "roomIdx">>
        /\ t.as = "userIdx" /\ t.path = <<"closeRoom", "roomIdx">>
    BY DEF Step, Core, Get
  <2>2. CallRoomsService.deleteCallRoomById = Operation(<<"roomIdx", "userIdx">>, <<s, t>>)
    BY DEF CallRoomsService, deleteCallRoomById, Delete
  <2> HIDE DEF s, t
  <2>3. /\ About(s, <<"roomIdx", "userIdx">>, "userIdx", {"roomIdx"})
        /\ About(t, <<"roomIdx", "userIdx">>, "userIdx", {"roomIdx"})
    BY <2>1, Tuples, Members DEF About
  <2> QED BY <2>2, <2>3, AsksAll, Tuples
<1>7. Asks(CallRoomsService.leaveCallRoomById, <<"roomIdx", "userIdx">>, "userIdx", {"roomIdx"})
  <2> DEFINE s == Core("delete", <<"rooms", "roomIdx", "leave">>, "userIdx")
             t == Step("local", <<"leaveActiveCall", "roomIdx">>, "userIdx")
  <2>1. /\ s.as = "userIdx" /\ s.path = <<"rooms", "roomIdx", "leave">>
        /\ t.as = "userIdx" /\ t.path = <<"leaveActiveCall", "roomIdx">>
    BY DEF Step, Core, Get
  <2>2. CallRoomsService.leaveCallRoomById = Operation(<<"roomIdx", "userIdx">>, <<s, t>>)
    BY DEF CallRoomsService, Delete
  <2> HIDE DEF s, t
  <2>3. /\ About(s, <<"roomIdx", "userIdx">>, "userIdx", {"roomIdx"})
        /\ About(t, <<"roomIdx", "userIdx">>, "userIdx", {"roomIdx"})
    BY <2>1, Tuples, Members DEF About
  <2> QED BY <2>2, <2>3, AsksAll, Tuples
<1> QED BY <1>1, <1>2, <1>3, <1>4, <1>5, <1>6, <1>7

LEMMA QuickSlotAsks ==
  /\ Asks(QuickSlotService.addQuickSlot, <<"body", "userIdx">>, "userIdx", {})
  /\ Asks(QuickSlotService.getUploadedQuickSlots, <<"userIdx">>, "userIdx", {})
  /\ Asks(QuickSlotService.getActivePreset, <<"userIdx">>, "userIdx", {})
  /\ Asks(QuickSlotService.setPreset, <<"body", "userIdx">>, "userIdx", {})
  /\ Asks(QuickSlotService.editQuickSlot, <<"quickSlotIdx", "body", "userIdx">>, "userIdx",
       {"quickSlotIdx"})
  /\ Asks(QuickSlotService.deleteQuickSlot, <<"quickSlotIdx", "userIdx">>, "userIdx",
       {"quickSlotIdx"})
BY RequestAsks, Tuples, Members DEF QuickSlotService, Get, Post, Patch, Delete

LEMMA MeetingsAsks ==
  /\ Asks(MeetingsService.startMeeting, <<"roomIdx", "userIdx">>, "userIdx", {"roomIdx"})
  /\ Asks(MeetingsService.endMeeting, <<"minutesIdx", "userIdx">>, "userIdx", {"minutesIdx"})
  /\ Asks(MeetingsService.createMeetingMinutes, <<"roomIdx", "body", "userIdx">>, "userIdx",
       {"roomIdx"})
  /\ Asks(MeetingsService.saveMeetingMinutes, <<"roomIdx", "body", "userIdx">>, "userIdx",
       {"roomIdx"})
  /\ Asks(MeetingsService.getMeetingMinutesByRoomIdx, <<"roomIdx", "userIdx">>, "userIdx",
       {"roomIdx"})
  /\ Asks(MeetingsService.getMeetingMinutesByIdx, <<"minutesIdx", "userIdx">>, "userIdx",
       {"minutesIdx"})
  /\ Asks(MeetingsService.updateMeetingMinutes, <<"minutesIdx", "body", "userIdx">>, "userIdx",
       {"minutesIdx"})
<1>1. /\ Asks(MeetingsService.endMeeting, <<"minutesIdx", "userIdx">>, "userIdx", {"minutesIdx"})
      /\ Asks(MeetingsService.getMeetingMinutesByRoomIdx, <<"roomIdx", "userIdx">>, "userIdx",
           {"roomIdx"})
      /\ Asks(MeetingsService.getMeetingMinutesByIdx, <<"minutesIdx", "userIdx">>, "userIdx",
           {"minutesIdx"})
      /\ Asks(MeetingsService.updateMeetingMinutes, <<"minutesIdx", "body", "userIdx">>,
           "userIdx", {"minutesIdx"})
  BY RequestAsks, Tuples, Members DEF MeetingsService, Get, Post, Patch
<1>2. Asks(MeetingsService.startMeeting, <<"roomIdx", "userIdx">>, "userIdx", {"roomIdx"})
  <2> DEFINE s == Core("post", <<"meetings", "start", "calls", "callIdx">>, "userIdx")
  <2>1. /\ s.as = "userIdx" /\ s.path = <<"meetings", "start", "calls", "callIdx">>
    BY DEF Step, Core, Get
  <2>2. MeetingsService.startMeeting = Operation(<<"roomIdx", "userIdx">>,
          resolveCallIdxByRoomIdx \o <<s>>)
    BY DEF MeetingsService, Post
  <2> HIDE DEF s
  <2>3. /\ About(s, <<"roomIdx", "userIdx">>, "userIdx", {"roomIdx"})
    BY <2>1, Tuples, Members DEF About
  <2> QED BY <2>2, <2>3, ResolutionAsks, Tuples, Members
<1>3. Asks(MeetingsService.createMeetingMinutes, <<"roomIdx", "body", "userIdx">>, "userIdx",
        {"roomIdx"})
  <2> DEFINE s == Step("local", <<"xadd", "callIdx">>, "userIdx")
  <2>1. /\ s.as = "userIdx" /\ s.path = <<"xadd", "callIdx">>
    BY DEF Step, Core, Get
  <2>2. MeetingsService.createMeetingMinutes = Operation(<<"roomIdx", "body", "userIdx">>,
          resolveCallIdxByRoomIdx \o <<s>>)
    BY DEF MeetingsService
  <2> HIDE DEF s
  <2>3. /\ About(s, <<"roomIdx", "body", "userIdx">>, "userIdx", {"roomIdx"})
    BY <2>1, Tuples, Members DEF About
  <2> QED BY <2>2, <2>3, ResolutionAsks, Tuples, Members
<1>4. Asks(MeetingsService.saveMeetingMinutes, <<"roomIdx", "body", "userIdx">>, "userIdx",
        {"roomIdx"})
  <2> DEFINE s == Core("post", <<"meetings", "calls", "callIdx">>, "userIdx")
  <2>1. /\ s.as = "userIdx" /\ s.path = <<"meetings", "calls", "callIdx">>
    BY DEF Step, Core, Get
  <2>2. MeetingsService.saveMeetingMinutes = Operation(<<"roomIdx", "body", "userIdx">>,
          resolveCallIdxByRoomIdx \o <<s>>)
    BY DEF MeetingsService, Post
  <2> HIDE DEF s
  <2>3. /\ About(s, <<"roomIdx", "body", "userIdx">>, "userIdx", {"roomIdx"})
    BY <2>1, Tuples, Members DEF About
  <2> QED BY <2>2, <2>3, ResolutionAsks, Tuples, Members
<1> QED BY <1>1, <1>2, <1>3, <1>4

LEMMA ChatRoomsAsks ==
  /\ Asks(ChatRoomsService.createChatRoom, <<"body", "userIdx">>, "userIdx", {})
  /\ Asks(ChatRoomsService.getChatRooms, <<"userIdx">>, "userIdx", {})
  /\ Asks(ChatRoomsService.getChatRoom, <<"chatRoomIdx", "userIdx">>, "userIdx", {"chatRoomIdx"})
  /\ Asks(ChatRoomsService.getOrCreateDirectMessageRoom, <<"targetUserIdx", "userIdx">>,
       "userIdx", {"targetUserIdx"})
  /\ Asks(ChatRoomsService.replyInvitation, <<"invitationIdx", "body", "userIdx">>, "userIdx",
       {"invitationIdx"})
  /\ Asks(ChatRoomsService.getMessages, <<"chatRoomIdx", "query", "userIdx">>, "userIdx",
       {"chatRoomIdx"})
  /\ Asks(ChatRoomsService.sendMessage, <<"chatRoomIdx", "body", "userIdx">>, "userIdx",
       {"chatRoomIdx"})
  /\ Asks(ChatRoomsService.readChatRoom, <<"chatRoomIdx", "body", "userIdx">>, "userIdx",
       {"chatRoomIdx"})
<1>1. /\ Asks(ChatRoomsService.createChatRoom, <<"body", "userIdx">>, "userIdx", {})
      /\ Asks(ChatRoomsService.getChatRoom, <<"chatRoomIdx", "userIdx">>, "userIdx",
           {"chatRoomIdx"})
      /\ Asks(ChatRoomsService.replyInvitation, <<"invitationIdx", "body", "userIdx">>,
           "userIdx", {"invitationIdx"})
      /\ Asks(ChatRoomsService.getMessages, <<"chatRoomIdx", "query", "userIdx">>, "userIdx",
           {"chatRoomIdx"})
      /\ Asks(ChatRoomsService.sendMessage, <<"chatRoomIdx", "body", "userIdx">>, "userIdx",
           {"chatRoomIdx"})
      /\ Asks(ChatRoomsService.readChatRoom, <<"chatRoomIdx", "body", "userIdx">>, "userIdx",
           {"chatRoomIdx"})
  BY RequestAsks, Tuples, Members DEF ChatRoomsService, createChatRoom, getChatRoom, Get, Post,
     Patch
<1>2. Asks(ChatRoomsService.getChatRooms, <<"userIdx">>, "userIdx", {})
  <2> DEFINE s == Core("get", <<"chat-rooms">>, "userIdx")
             t == [Get(<<"chat-rooms", "each">>, "userIdx") EXCEPT !.kind = "detail"]
  <2>1. /\ s.as = "userIdx" /\ s.path = <<"chat-rooms">>
        /\ t.as = "userIdx" /\ t.path = <<"chat-rooms", "each">>
    BY DEF Step, Core, Get
  <2>2. ChatRoomsService.getChatRooms = Operation(<<"userIdx">>, <<s, t>>)
    BY DEF ChatRoomsService, getChatRooms, Get
  <2> HIDE DEF s, t
  <2>3. /\ About(s, <<"userIdx">>, "userIdx", {})
        /\ About(t, <<"userIdx">>, "userIdx", {})
    BY <2>1, Tuples, Members DEF About
  <2> QED BY <2>2, <2>3, AsksAll, Tuples
<1>3. Asks(ChatRoomsService.getOrCreateDirectMessageRoom, <<"targetUserIdx", "userIdx">>,
        "userIdx", {"targetUserIdx"})
  <2> DEFINE p == <<"targetUserIdx", "userIdx">>
             s1 == Step("dm", <<"dm", "targetUserIdx">>, "userIdx")
             s2 == [Get(<<"chat-rooms">>, "userIdx") EXCEPT !.kind = "find"]
             s3 == Post(<<"chat-rooms">>, "userIdx")
             s4 == [Get(<<"notifications">>, "targetUserIdx") EXCEPT !.kind = "invitations"]
             s5 == [Patch(<<"chat-rooms", "invitations", "each">>, "targetUserIdx")
                      EXCEPT !.kind = "accept"]
             s6 == Step("local", <<"store", "targetUserIdx">>, "userIdx")
             s7 == Get(<<"chat-rooms", "found">>, "userIdx")
             l == <<s1, s2, s3, s4, s5, s6, s7>>
  <2>1. /\ s1.as = "userIdx" /\ s1.path = <<"dm", "targetUserIdx">>
        /\ s2.as = "userIdx" /\ s2.path = <<"chat-rooms">>
        /\ s3.as = "userIdx" /\ s3.path = <<"chat-rooms">>
        /\ s4.kind = "invitations" /\ s4.path = <<"notifications">>
        /\ s5.kind = "accept" /\ s5.path = <<"chat-rooms", "invitations", "each">>
        /\ s6.as = "userIdx" /\ s6.path = <<"store", "targetUserIdx">>
        /\ s7.as = "userIdx" /\ s7.path = <<"chat-rooms", "found">>
    BY DEF Step, Core, Get, Post, Patch
  <2>2. ChatRoomsService.getOrCreateDirectMessageRoom = Operation(p, l)
    BY DEF ChatRoomsService, getOrCreateDirectMessageRoom
  <2>3. IsSeq(p) /\ S!ToSet(p) = {"targetUserIdx", "userIdx"}
    BY Tuples, Members
  <2>4. /\ IsSeq(l) /\ DOMAIN l = 1 .. 7
        /\ l[1] = s1 /\ l[2] = s2 /\ l[3] = s3 /\ l[4] = s4 /\ l[5] = s5 /\ l[6] = s6 /\ l[7] = s7
    BY Tuples
  <2> HIDE DEF p, s1, s2, s3, s4, s5, s6, s7, l
  <2>5. \A s \in {s1, s2, s3, s4, s5, s6, s7} : About(s, p, "userIdx", {"targetUserIdx"})
    <3>1. /\ IsSeq(s1.path) /\ S!ToSet(s1.path) = {"dm", "targetUserIdx"}
          /\ IsSeq(s2.path) /\ S!ToSet(s2.path) = {"chat-rooms"}
          /\ IsSeq(s3.path) /\ S!ToSet(s3.path) = {"chat-rooms"}
          /\ IsSeq(s4.path) /\ S!ToSet(s4.path) = {"notifications"}
      BY <2>1, Tuples, Members
    <3>2. /\ IsSeq(s5.path) /\ S!ToSet(s5.path) = {"chat-rooms", "invitations", "each"}
          /\ IsSeq(s6.path) /\ S!ToSet(s6.path) = {"store", "targetUserIdx"}
          /\ IsSeq(s7.path) /\ S!ToSet(s7.path) = {"chat-rooms", "found"}
      BY <2>1, Tuples, Members
    <3>3. /\ About(s1, p, "userIdx", {"targetUserIdx"})
          /\ About(s2, p, "userIdx", {"targetUserIdx"})
          /\ About(s3, p, "userIdx", {"targetUserIdx"})
          /\ About(s4, p, "userIdx", {"targetUserIdx"})
      BY <2>1, <2>3, <3>1 DEF About, OnBehalf
    <3>4. /\ About(s5, p, "userIdx", {"targetUserIdx"})
          /\ About(s6, p, "userIdx", {"targetUserIdx"})
          /\ About(s7, p, "userIdx", {"targetUserIdx"})
      BY <2>1, <2>3, <3>2 DEF About, OnBehalf
    <3> QED BY <3>3, <3>4
  <2>6. \A s \in S!ToSet(l) : s \in {s1, s2, s3, s4, s5, s6, s7}
    BY <2>4 DEF S!ToSet
  <2>7. Asks(Operation(p, l), p, "userIdx", {"targetUserIdx"})
    BY <2>3, <2>4, <2>5, <2>6, AsksOf
  <2> QED BY <2>2, <2>7 DEF p
<1> QED BY <1>1, <1>2, <1>3

----------------------------------------------------------------------------
(* The routes call the operations with the right arguments.                *)

\* How a route calls an operation: the caller is the user of the token, and is
\* there if the route is guarded; a subject is named by the request.
Given(param, arg, path, caller, subjects) ==
  /\ param = caller => arg = "user"
  /\ param \in subjects => arg \in {"arg"} \cup (PathParams \cap S!ToSet(path))
Someone(caller) == caller # ""
Fits(r, params, caller, subjects) ==
  /\ IsSeq(r.path)
  /\ IF Someone(caller) THEN r.guarded /\ caller \in S!ToSet(params) ELSE ~r.guarded
  /\ \A i \in DOMAIN params : Given(params[i], r.args[i], r.path, caller, subjects)

\* The other user of a direct message is named by the body.
NamesOther(r) == r.op = "getOrCreateDirectMessageRoom" => r.args = <<"arg", "user">>

Faithful(r) ==
  /\ NamesOther(r)
  /\ \E i \in DOMAIN Services :
       /\ r.op \in DOMAIN Services[i]
       /\ \E params, caller, subjects :
            Asks(Services[i][r.op], params, caller, subjects) /\ Fits(r, params, caller, subjects)

\* When a route with this many arguments fits.
LEMMA FitsOpen ==
  \A verb, path, dto, op, caller : IsSeq(path) /\ ~Someone(caller) =>
    /\ Fits(Open(verb, path, dto, op, <<>>), <<>>, caller, {})
    /\ \A p, x, subjects : Given(p, x, path, caller, subjects) =>
         Fits(Open(verb, path, dto, op, <<x>>), <<p>>, caller, subjects)
<1> SUFFICES ASSUME NEW verb, NEW path, NEW dto, NEW op, NEW caller, IsSeq(path), ~Someone(caller)
             PROVE  /\ Fits(Open(verb, path, dto, op, <<>>), <<>>, caller, {})
                    /\ \A p, x, subjects : Given(p, x, path, caller, subjects) =>
                         Fits(Open(verb, path, dto, op, <<x>>), <<p>>, caller, subjects)
  OBVIOUS
<1>1. Fits(Open(verb, path, dto, op, <<>>), <<>>, caller, {})
  BY DEF Fits, Open, Route
<1>2. ASSUME NEW p, NEW x, NEW subjects, Given(p, x, path, caller, subjects)
      PROVE  Fits(Open(verb, path, dto, op, <<x>>), <<p>>, caller, subjects)
  <2> DEFINE params == <<p>>
             args == <<x>>
  <2>1. DOMAIN params = 1 .. 1 /\ params[1] = p /\ args[1] = x
    OBVIOUS
  <2> HIDE DEF params, args
  <2>2. Fits(Open(verb, path, dto, op, args), params, caller, subjects)
    BY <1>2, <2>1 DEF Fits, Open, Route
  <2> QED BY <2>2 DEF params, args
<1> QED BY <1>1, <1>2

LEMMA FitsOne ==
  \A verb, path, dto, op, caller, subjects, p, x :
    /\ IsSeq(path)
    /\ caller \in {p}
    /\ Someone(caller)
    /\ Given(p, x, path, caller, subjects)
   => Fits(Guarded(verb, path, dto, op, <<x>>), <<p>>, caller, subjects)
<1> SUFFICES ASSUME NEW verb, NEW path, NEW dto, NEW op, NEW caller, NEW subjects,
                    NEW p, NEW x,
                    IsSeq(path),
                    caller \in {p},
                    Someone(caller),
                    Given(p, x, path, caller, subjects)
             PROVE  Fits(Guarded(verb, path, dto, op, <<x>>), <<p>>, caller, subjects)
  OBVIOUS
<1> DEFINE params == <<p>>
           args == <<x>>
<1>1. S!ToSet(params) = {p}
  BY Members
<1>2. /\ DOMAIN params = 1 .. 1
      /\ params[1] = p /\ args[1] = x
  OBVIOUS
<1> HIDE DEF params, args
<1>3. Fits(Guarded(verb, path, dto, op, args), params, caller, subjects)
  BY <1>1, <1>2 DEF Fits, Guarded, Route
<1> QED BY <1>3 DEF params, args

LEMMA FitsTwo ==
  \A verb, path, dto, op, caller, subjects, p, q, x, y :
    /\ IsSeq(path)
    /\ caller \in {p, q}
    /\ Someone(caller)
    /\ Given(p, x, path, caller, subjects)
    /\ Given(q, y, path, caller, subjects)
   => Fits(Guarded(verb, path, dto, op, <<x, y>>), <<p, q>>, caller, subjects)
<1> SUFFICES ASSUME NEW verb, NEW path, NEW dto, NEW op, NEW caller, NEW subjects,
                    NEW p, NEW q, NEW x, NEW y,
                    IsSeq(path),
                    caller \in {p, q},
                    Someone(caller),
                    Given(p, x, path, caller, subjects),
                    Given(q, y, path, caller, subjects)
             PROVE  Fits(Guarded(verb, path, dto, op, <<x, y>>), <<p, q>>, caller, subjects)
  OBVIOUS
<1> DEFINE params == <<p, q>>
           args == <<x, y>>
<1>1. S!ToSet(params) = {p, q}
  BY Members
<1>2. /\ DOMAIN params = 1 .. 2
      /\ params[1] = p /\ args[1] = x
      /\ params[2] = q /\ args[2] = y
  OBVIOUS
<1> HIDE DEF params, args
<1>3. Fits(Guarded(verb, path, dto, op, args), params, caller, subjects)
  BY <1>1, <1>2 DEF Fits, Guarded, Route
<1> QED BY <1>3 DEF params, args

LEMMA FitsThree ==
  \A verb, path, dto, op, caller, subjects, p, q, s, x, y, z :
    /\ IsSeq(path)
    /\ caller \in {p, q, s}
    /\ Someone(caller)
    /\ Given(p, x, path, caller, subjects)
    /\ Given(q, y, path, caller, subjects)
    /\ Given(s, z, path, caller, subjects)
   => Fits(Guarded(verb, path, dto, op, <<x, y, z>>), <<p, q, s>>, caller, subjects)
<1> SUFFICES ASSUME NEW verb, NEW path, NEW dto, NEW op, NEW caller, NEW subjects,
                    NEW p, NEW q, NEW s, NEW x, NEW y, NEW z,
                    IsSeq(path),
                    caller \in {p, q, s},
                    Someone(caller),
                    Given(p, x, path, caller, subjects),
                    Given(q, y, path, caller, subjects),
                    Given(s, z, path, caller, subjects)
             PROVE  Fits(Guarded(verb, path, dto, op, <<x, y, z>>), <<p, q, s>>, caller, subjects)
  OBVIOUS
<1> DEFINE params == <<p, q, s>>
           args == <<x, y, z>>
<1>1. S!ToSet(params) = {p, q, s}
  BY Members
<1>2. /\ DOMAIN params = 1 .. 3
      /\ params[1] = p /\ args[1] = x
      /\ params[2] = q /\ args[2] = y
      /\ params[3] = s /\ args[3] = z
  OBVIOUS
<1> HIDE DEF params, args
<1>3. Fits(Guarded(verb, path, dto, op, args), params, caller, subjects)
  BY <1>1, <1>2 DEF Fits, Guarded, Route
<1> QED BY <1>3 DEF params, args

LEMMA FitsFour ==
  \A verb, path, dto, op, caller, subjects, p, q, s, t, x, y, z, w :
    /\ IsSeq(path)
    /\ caller \in {p, q, s, t}
    /\ Someone(caller)
    /\ Given(p, x, path, caller, subjects)
    /\ Given(q, y, path, caller, subjects)
    /\ Given(s, z, path, caller, subjects)
    /\ Given(t, w, path, caller, subjects)
   => Fits(Guarded(verb, path, dto, op, <<x, y, z, w>>), <<p, q, s, t>>, caller, subjects)
<1> SUFFICES ASSUME NEW verb, NEW path, NEW dto, NEW op, NEW caller, NEW subjects,
                    NEW p, NEW q, NEW s, NEW t, NEW x, NEW y, NEW z, NEW w,
                    IsSeq(path),
                    caller \in {p, q, s, t},
                    Someone(caller),
                    Given(p, x, path, caller, subjects),
                    Given(q, y, path, caller, subjects),
                    Given(s, z, path, caller, subjects),
                    Given(t, w, path, caller, subjects)
             PROVE  Fits(Guarded(verb, path, dto, op, <<x, y, z, w>>), <<p, q, s, t>>, caller,
                      subjects)
  OBVIOUS
<1> DEFINE params == <<p, q, s, t>>
           args == <<x, y, z, w>>
<1>1. S!ToSet(params) = {p, q, s, t}
  BY Members
<1>2. /\ DOMAIN params = 1 .. 4
      /\ params[1] = p /\ args[1] = x
      /\ params[2] = q /\ args[2] = y
      /\ params[3] = s /\ args[3] = z
      /\ params[4] = t /\ args[4] = w
  OBVIOUS
<1> HIDE DEF params, args
<1>3. Fits(Guarded(verb, path, dto, op, args), params, caller, subjects)
  BY <1>1, <1>2 DEF Fits, Guarded, Route
<1> QED BY <1>3 DEF params, args

LEMMA ParamsKnown ==
  {":roomIdx", ":userIdx", ":minutesIdx", ":quickSlotIdx", ":chatRoomIdx", ":invitationIdx",
   ":notificationIdx", ":notificationType", ":mediaUUID"} = PathParams
BY DEF PathParams, IntParams, EnumParams

\* The operations there are; no two services have one of the same name.
LEMMA TheOperations ==
  /\ DOMAIN NoService = {"getInfo", "recover", "logout"}
  /\ DOMAIN AuthService = {"login", "sendEmailVerification", "verifyEmail", "register",
       "refreshToken", "deleteRefreshToken"}
  /\ DOMAIN UsersService = {"withdrawAccount", "getMyInformation", "getUserInformation",
       "updateMyInformation", "updatePassword", "getSpecifyUserInformation"}
  /\ DOMAIN FriendService = {"sendFriendRequest", "getFriendList", "getFriendCount",
       "getPendingFriendRequests", "acceptFriendRequest", "rejectFriendRequest", "unfriend"}
  /\ DOMAIN NotificationsService = {"subscribe", "readNotification", "getNotificationSetting",
       "updateNotificationSetting"}
  /\ DOMAIN MediasService = {"uploadMedia", "getMediaByUUID"}
  /\ DOMAIN CallsService = {"joinCall", "leaveCall", "getCallState", "getParticipantsByRoomIdx"}
  /\ DOMAIN CallRoomsService = {"joinCallRoom", "createCallRoom", "getCallRooms",
       "getCallRoomsByKeyword", "getCallRoomById", "updateCallRoomById", "deleteCallRoomById",
       "leaveCallRoomById"}
  /\ DOMAIN QuickSlotService = {"addQuickSlot", "getUploadedQuickSlots", "getActivePreset",
       "setPreset", "editQuickSlot", "deleteQuickSlot"}
  /\ DOMAIN MeetingsService = {"startMeeting", "endMeeting", "createMeetingMinutes",
       "saveMeetingMinutes", "getMeetingMinutesByRoomIdx", "getMeetingMinutesByIdx",
       "updateMeetingMinutes"}
  /\ DOMAIN ChatRoomsService = {"createChatRoom", "getChatRooms", "getChatRoom",
       "getOrCreateDirectMessageRoom", "replyInvitation", "getMessages", "sendMessage",
       "readChatRoom"}
BY DEF NoService, AuthService, UsersService, FriendService, NotificationsService, MediasService,
   CallsService, CallRoomsService, QuickSlotService, MeetingsService, ChatRoomsService

LEMMA OneHome ==
  ASSUME NEW i \in DOMAIN Services, NEW j \in DOMAIN Services,
         NEW op \in DOMAIN Services[i], op \in DOMAIN Services[j]
  PROVE  i = j
BY TheServices, TheOperations

LEMMA FaithfulBy ==
  \A r, params, caller, subjects : Fits(r, params, caller, subjects) =>
    /\ r.op \in DOMAIN NoService /\ Asks(NoService[r.op], params, caller, subjects) => Faithful(r)
    /\ r.op \in DOMAIN AuthService /\ Asks(AuthService[r.op], params, caller,
         subjects) => Faithful(r)
    /\ r.op \in DOMAIN UsersService /\ Asks(UsersService[r.op], params, caller,
         subjects) => Faithful(r)
    /\ r.op \in DOMAIN FriendService /\ Asks(FriendService[r.op], params, caller,
         subjects) => Faithful(r)
    /\ r.op \in DOMAIN NotificationsService /\ Asks(NotificationsService[r.op], params, caller,
         subjects) => Faithful(r)
    /\ r.op \in DOMAIN MediasService /\ Asks(MediasService[r.op], params, caller,
         subjects) => Faithful(r)
    /\ r.op \in DOMAIN CallsService /\ Asks(CallsService[r.op], params, caller,
         subjects) => Faithful(r)
    /\ r.op \in DOMAIN CallRoomsService /\ Asks(CallRoomsService[r.op], params, caller,
         subjects) => Faithful(r)
    /\ r.op \in DOMAIN QuickSlotService /\ Asks(QuickSlotService[r.op], params, caller,
         subjects) => Faithful(r)
    /\ r.op \in DOMAIN MeetingsService /\ Asks(MeetingsService[r.op], params, caller,
         subjects) => Faithful(r)
    /\ r.op \in DOMAIN ChatRoomsService /\ NamesOther(r)
         /\ Asks(ChatRoomsService[r.op], params, caller, subjects) => Faithful(r)
<1> DEFINE other == "getOrCreateDirectMessageRoom"
<1>1. /\ other \notin DOMAIN NoService /\ other \notin DOMAIN AuthService
      /\ other \notin DOMAIN UsersService /\ other \notin DOMAIN FriendService
      /\ other \notin DOMAIN NotificationsService /\ other \notin DOMAIN MediasService
      /\ other \notin DOMAIN CallsService /\ other \notin DOMAIN CallRoomsService
      /\ other \notin DOMAIN QuickSlotService /\ other \notin DOMAIN MeetingsService
  BY TheOperations
<1> QED BY <1>1, TheServices DEF Faithful, NamesOther

\* The routes of each controller are faithful.
LEMMA AppFaithful == \A i \in DOMAIN AppController : Faithful(AppController[i])
<1>1. DOMAIN AppController = 1 .. 1
  BY DEF AppController
<1>2. /\ AppController[1].op = "getInfo"
  BY DEF AppController, Open, Route
<1>3. /\ Fits(AppController[1], <<>>, "", {})
  BY FitsOpen, Tuples DEF Given, Someone, AppController
<1>4. /\ Asks(NoService[AppController[1].op], <<>>, "", {})
  BY <1>2, NoServiceAsks
<1>5. /\ AppController[1].op \in DOMAIN NoService
  BY <1>2, TheOperations
<1>6. /\ Faithful(AppController[1])
  BY <1>3, <1>4, <1>5, FaithfulBy
<1> QED BY <1>1, <1>6

LEMMA AuthFaithful == \A i \in DOMAIN AuthController : Faithful(AuthController[i])
<1>1. DOMAIN AuthController = 1 .. 8
  BY DEF AuthController
<1>2. /\ AuthController[1].op = "login"
      /\ AuthController[2].op = "sendEmailVerification"
      /\ AuthController[3].op = "verifyEmail"
      /\ AuthController[4].op = "register"
      /\ AuthController[5].op = "refreshToken"
      /\ AuthController[6].op = "deleteRefreshToken"
      /\ AuthController[7].op = "recover"
      /\ AuthController[8].op = "logout"
  BY DEF AuthController, Open, Route
<1>3. /\ Fits(AuthController[1], <<"body">>, "", {})
      /\ Fits(AuthController[2], <<"body">>, "", {})
      /\ Fits(AuthController[3], <<"body">>, "", {})
      /\ Fits(AuthController[4], <<"body">>, "", {})
      /\ Fits(AuthController[5], <<"body">>, "", {})
      /\ Fits(AuthController[6], <<"body">>, "", {})
      /\ Fits(AuthController[7], <<>>, "", {})
      /\ Fits(AuthController[8], <<>>, "", {})
  BY FitsOpen, Tuples DEF Given, Someone, AuthController
<1>4. /\ Asks(AuthService[AuthController[1].op], <<"body">>, "", {})
      /\ Asks(AuthService[AuthController[2].op], <<"body">>, "", {})
      /\ Asks(AuthService[AuthController[3].op], <<"body">>, "", {})
      /\ Asks(AuthService[AuthController[4].op], <<"body">>, "", {})
      /\ Asks(AuthService[AuthController[5].op], <<"body">>, "", {})
      /\ Asks(AuthService[AuthController[6].op], <<"body">>, "", {})
      /\ Asks(NoService[AuthController[7].op], <<>>, "", {})
      /\ Asks(NoService[AuthController[8].op], <<>>, "", {})
  BY <1>2, AuthAsks, NoServiceAsks
<1>5. /\ AuthController[1].op \in DOMAIN AuthService
      /\ AuthController[2].op \in DOMAIN AuthService
      /\ AuthController[3].op \in DOMAIN AuthService
      /\ AuthController[4].op \in DOMAIN AuthService
      /\ AuthController[5].op \in DOMAIN AuthService
      /\ AuthController[6].op \in DOMAIN AuthService
      /\ AuthController[7].op \in DOMAIN NoService
      /\ AuthController[8].op \in DOMAIN NoService
  BY <1>2, TheOperations
<1>6. /\ Faithful(AuthController[1])
      /\ Faithful(AuthController[2])
      /\ Faithful(AuthController[3])
      /\ Faithful(AuthController[4])
      /\ Faithful(AuthController[5])
      /\ Faithful(AuthController[6])
      /\ Faithful(AuthController[7])
      /\ Faithful(AuthController[8])
  BY <1>3, <1>4, <1>5, FaithfulBy
<1> QED BY <1>1, <1>6

LEMMA UsersFaithful == \A i \in DOMAIN UsersController : Faithful(UsersController[i])
<1>1. DOMAIN UsersController = 1 .. 6
  BY DEF UsersController
<1>2. /\ UsersController[1].op = "withdrawAccount"
      /\ UsersController[2].op = "getMyInformation"
      /\ UsersController[3].op = "getUserInformation"
      /\ UsersController[4].op = "updateMyInformation"
      /\ UsersController[5].op = "updatePassword"
      /\ UsersController[6].op = "getSpecifyUserInformation"
  BY DEF UsersController, Guarded, Open, Route
<1>3. /\ ":userIdx" \in PathParams \cap S!ToSet(<<"users", ":userIdx">>)
  BY Members, ParamsKnown
<1>4. /\ Fits(UsersController[1], <<"userIdx">>, "userIdx", {})
      /\ Fits(UsersController[2], <<"userIdx">>, "userIdx", {})
      /\ Fits(UsersController[3], <<"userIdx">>, "", {"userIdx"})
      /\ Fits(UsersController[4], <<"file", "body", "userIdx">>, "userIdx", {})
      /\ Fits(UsersController[5], <<"body", "userIdx">>, "userIdx", {})
      /\ Fits(UsersController[6], <<"userId">>, "", {"userId"})
  BY <1>3, FitsOne, FitsOpen, FitsThree, FitsTwo, Tuples DEF Given, Someone, UsersController
<1>5. /\ Asks(UsersService[UsersController[1].op], <<"userIdx">>, "userIdx", {})
      /\ Asks(UsersService[UsersController[2].op], <<"userIdx">>, "userIdx", {})
      /\ Asks(UsersService[UsersController[3].op], <<"userIdx">>, "", {"userIdx"})
      /\ Asks(UsersService[UsersController[4].op], <<"file", "body", "userIdx">>, "userIdx", {})
      /\ Asks(UsersService[UsersController[5].op], <<"body", "userIdx">>, "userIdx", {})
      /\ Asks(UsersService[UsersController[6].op], <<"userId">>, "", {"userId"})
  BY <1>2, UsersAsks
<1>6. /\ UsersController[1].op \in DOMAIN UsersService
      /\ UsersController[2].op \in DOMAIN UsersService
      /\ UsersController[3].op \in DOMAIN UsersService
      /\ UsersController[4].op \in DOMAIN UsersService
      /\ UsersController[5].op \in DOMAIN UsersService
      /\ UsersController[6].op \in DOMAIN UsersService
  BY <1>2, TheOperations
<1>7. /\ Faithful(UsersController[1])
      /\ Faithful(UsersController[2])
      /\ Faithful(UsersController[3])
      /\ Faithful(UsersController[4])
      /\ Faithful(UsersController[5])
      /\ Faithful(UsersController[6])
  BY <1>4, <1>5, <1>6, FaithfulBy
<1> QED BY <1>1, <1>7

LEMMA FriendFaithful == \A i \in DOMAIN FriendController : Faithful(FriendController[i])
<1>1. DOMAIN FriendController = 1 .. 7
  BY DEF FriendController
<1>2. /\ FriendController[1].op = "sendFriendRequest"
      /\ FriendController[2].op = "getFriendList"
      /\ FriendController[3].op = "getFriendCount"
      /\ FriendController[4].op = "getPendingFriendRequests"
      /\ FriendController[5].op = "acceptFriendRequest"
      /\ FriendController[6].op = "rejectFriendRequest"
      /\ FriendController[7].op = "unfriend"
  BY DEF FriendController, Guarded, Route
<1>3. /\ Fits(FriendController[1], <<"targetUserIdx", "sendUserIdx">>, "sendUserIdx",
           {"targetUserIdx"})
      /\ Fits(FriendController[2], <<"userIdx">>, "userIdx", {})
      /\ Fits(FriendController[3], <<"userIdx">>, "userIdx", {})
      /\ Fits(FriendController[4], <<"userIdx">>, "userIdx", {})
      /\ Fits(FriendController[5], <<"userIdx", "friendshipIdx">>, "userIdx", {"friendshipIdx"})
      /\ Fits(FriendController[6], <<"userIdx", "friendshipIdx">>, "userIdx", {"friendshipIdx"})
      /\ Fits(FriendController[7], <<"userIdx", "friendUserIdx">>, "userIdx", {"friendUserIdx"})
  BY FitsOne, FitsTwo, Tuples DEF Given, Someone, FriendController
<1>4. /\ Asks(FriendService[FriendController[1].op], <<"targetUserIdx", "sendUserIdx">>,
           "sendUserIdx", {"targetUserIdx"})
      /\ Asks(FriendService[FriendController[2].op], <<"userIdx">>, "userIdx", {})
      /\ Asks(FriendService[FriendController[3].op], <<"userIdx">>, "userIdx", {})
      /\ Asks(FriendService[FriendController[4].op], <<"userIdx">>, "userIdx", {})
      /\ Asks(FriendService[FriendController[5].op], <<"userIdx", "friendshipIdx">>, "userIdx",
           {"friendshipIdx"})
      /\ Asks(FriendService[FriendController[6].op], <<"userIdx", "friendshipIdx">>, "userIdx",
           {"friendshipIdx"})
      /\ Asks(FriendService[FriendController[7].op], <<"userIdx", "friendUserIdx">>, "userIdx",
           {"friendUserIdx"})
  BY <1>2, FriendAsks
<1>5. /\ FriendController[1].op \in DOMAIN FriendService
      /\ FriendController[2].op \in DOMAIN FriendService
      /\ FriendController[3].op \in DOMAIN FriendService
      /\ FriendController[4].op \in DOMAIN FriendService
      /\ FriendController[5].op \in DOMAIN FriendService
      /\ FriendController[6].op \in DOMAIN FriendService
      /\ FriendController[7].op \in DOMAIN FriendService
  BY <1>2, TheOperations
<1>6. /\ Faithful(FriendController[1])
      /\ Faithful(FriendController[2])
      /\ Faithful(FriendController[3])
      /\ Faithful(FriendController[4])
      /\ Faithful(FriendController[5])
      /\ Faithful(FriendController[6])
      /\ Faithful(FriendController[7])
  BY <1>3, <1>4, <1>5, FaithfulBy
<1> QED BY <1>1, <1>6

LEMMA NotificationsFaithful == \A i \in DOMAIN NotificationsController : Faithful(NotificationsController[i])
<1>1. DOMAIN NotificationsController = 1 .. 4
  BY DEF NotificationsController
<1>2. /\ NotificationsController[1].op = "subscribe"
      /\ NotificationsController[2].op = "readNotification"
      /\ NotificationsController[3].op = "getNotificationSetting"
      /\ NotificationsController[4].op = "updateNotificationSetting"
  BY DEF NotificationsController, Guarded, Route
<1>3. /\ ":notificationIdx" \in PathParams \cap S!ToSet(<<"notifications", ":notificationIdx",
           "read">>)
      /\ ":notificationType" \in PathParams \cap S!ToSet(<<"notifications", "settings",
           ":notificationType">>)
  BY Members, ParamsKnown
<1>4. /\ Fits(NotificationsController[1], <<"userIdx">>, "userIdx", {})
      /\ Fits(NotificationsController[2], <<"notificationIdx", "userIdx">>, "userIdx",
           {"notificationIdx"})
      /\ Fits(NotificationsController[3], <<"userIdx">>, "userIdx", {})
      /\ Fits(NotificationsController[4], <<"notificationType", "body", "userIdx">>, "userIdx",
           {"notificationType"})
  BY <1>3, FitsOne, FitsThree, FitsTwo, Tuples DEF Given, Someone, NotificationsController
<1>5. /\ Asks(NotificationsService[NotificationsController[1].op], <<"userIdx">>, "userIdx", {})
      /\ Asks(NotificationsService[NotificationsController[2].op], <<"notificationIdx",
           "userIdx">>, "userIdx", {"notificationIdx"})
      /\ Asks(NotificationsService[NotificationsController[3].op], <<"userIdx">>, "userIdx", {})
      /\ Asks(NotificationsService[NotificationsController[4].op], <<"notificationType", "body",
           "userIdx">>, "userIdx", {"notificationType"})
  BY <1>2, NotificationsAsks
<1>6. /\ NotificationsController[1].op \in DOMAIN NotificationsService
      /\ NotificationsController[2].op \in DOMAIN NotificationsService
      /\ NotificationsController[3].op \in DOMAIN NotificationsService
      /\ NotificationsController[4].op \in DOMAIN NotificationsService
  BY <1>2, TheOperations
<1>7. /\ Faithful(NotificationsController[1])
      /\ Faithful(NotificationsController[2])
      /\ Faithful(NotificationsController[3])
      /\ Faithful(NotificationsController[4])
  BY <1>4, <1>5, <1>6, FaithfulBy
<1> QED BY <1>1, <1>7

LEMMA MediasFaithful == \A i \in DOMAIN MediasController : Faithful(MediasController[i])
<1>1. DOMAIN MediasController = 1 .. 2
  BY DEF MediasController
<1>2. /\ MediasController[1].op = "uploadMedia"
      /\ MediasController[2].op = "getMediaByUUID"
  BY DEF MediasController, Guarded, Route
<1>3. /\ ":mediaUUID" \in PathParams \cap S!ToSet(<<"medias", ":mediaUUID">>)
  BY Members, ParamsKnown
<1>4. /\ Fits(MediasController[1], <<"file", "userIdx">>, "userIdx", {})
      /\ Fits(MediasController[2], <<"mediaUUID", "userIdx">>, "userIdx", {"mediaUUID"})
  BY <1>3, FitsTwo, Tuples DEF Given, Someone, MediasController
<1>5. /\ Asks(MediasService[MediasController[1].op], <<"file", "userIdx">>, "userIdx", {})
      /\ Asks(MediasService[MediasController[2].op], <<"mediaUUID", "userIdx">>, "userIdx",
           {"mediaUUID"})
  BY <1>2, MediasAsks
<1>6. /\ MediasController[1].op \in DOMAIN MediasService
      /\ MediasController[2].op \in DOMAIN MediasService
  BY <1>2, TheOperations
<1>7. /\ Faithful(MediasController[1])
      /\ Faithful(MediasController[2])
  BY <1>4, <1>5, <1>6, FaithfulBy
<1> QED BY <1>1, <1>7

LEMMA CallRoomsFaithful == \A i \in DOMAIN CallRoomsController : Faithful(CallRoomsController[i])
<1>1. DOMAIN CallRoomsController = 1 .. 8
  BY DEF CallRoomsController
<1>2. /\ CallRoomsController[1].op = "joinCallRoom"
      /\ CallRoomsController[2].op = "createCallRoom"
      /\ CallRoomsController[3].op = "getCallRooms"
      /\ CallRoomsController[4].op = "getCallRoomsByKeyword"
      /\ CallRoomsController[5].op = "getCallRoomById"
      /\ CallRoomsController[6].op = "updateCallRoomById"
      /\ CallRoomsController[7].op = "deleteCallRoomById"
      /\ CallRoomsController[8].op = "leaveCallRoomById"
  BY DEF CallRoomsController, Guarded, Open, Route
<1>3. /\ ":roomIdx" \in PathParams \cap S!ToSet(<<"call-rooms", ":roomIdx", "join">>)
      /\ ":roomIdx" \in PathParams \cap S!ToSet(<<"call-rooms", ":roomIdx">>)
      /\ ":roomIdx" \in PathParams \cap S!ToSet(<<"call-rooms", ":roomIdx", "leave">>)
  BY Members, ParamsKnown
<1>4. /\ Fits(CallRoomsController[1], <<"body", "roomIdx", "userIdx">>, "userIdx", {"roomIdx"})
      /\ Fits(CallRoomsController[2], <<"file", "body", "userIdx">>, "userIdx", {})
      /\ Fits(CallRoomsController[3], <<"query">>, "", {})
      /\ Fits(CallRoomsController[4], <<"query">>, "", {})
      /\ Fits(CallRoomsController[5], <<"roomIdx">>, "", {"roomIdx"})
      /\ Fits(CallRoomsController[6], <<"file", "body", "roomIdx", "userIdx">>, "userIdx",
           {"roomIdx"})
      /\ Fits(CallRoomsController[7], <<"roomIdx", "userIdx">>, "userIdx", {"roomIdx"})
      /\ Fits(CallRoomsController[8], <<"roomIdx", "userIdx">>, "userIdx", {"roomIdx"})
  BY <1>3, FitsFour, FitsOpen, FitsThree, FitsTwo, Tuples DEF Given, Someone, CallRoomsController
<1>5. /\ Asks(CallRoomsService[CallRoomsController[1].op], <<"body", "roomIdx", "userIdx">>,
           "userIdx", {"roomIdx"})
      /\ Asks(CallRoomsService[CallRoomsController[2].op], <<"file", "body", "userIdx">>,
           "userIdx", {})
      /\ Asks(CallRoomsService[CallRoomsController[3].op], <<"query">>, "", {})
      /\ Asks(CallRoomsService[CallRoomsController[4].op], <<"query">>, "", {})
      /\ Asks(CallRoomsService[CallRoomsController[5].op], <<"roomIdx">>, "", {"roomIdx"})
      /\ Asks(CallRoomsService[CallRoomsController[6].op], <<"file", "body", "roomIdx",
           "userIdx">>, "userIdx", {"roomIdx"})
      /\ Asks(CallRoomsService[CallRoomsController[7].op], <<"roomIdx", "userIdx">>, "userIdx",
           {"roomIdx"})
      /\ Asks(CallRoomsService[CallRoomsController[8].op], <<"roomIdx", "userIdx">>, "userIdx",
           {"roomIdx"})
  BY <1>2, CallRoomsAsks
<1>6. /\ CallRoomsController[1].op \in DOMAIN CallRoomsService
      /\ CallRoomsController[2].op \in DOMAIN CallRoomsService
      /\ CallRoomsController[3].op \in DOMAIN CallRoomsService
      /\ CallRoomsController[4].op \in DOMAIN CallRoomsService
      /\ CallRoomsController[5].op \in DOMAIN CallRoomsService
      /\ CallRoomsController[6].op \in DOMAIN CallRoomsService
      /\ CallRoomsController[7].op \in DOMAIN CallRoomsService
      /\ CallRoomsController[8].op \in DOMAIN CallRoomsService
  BY <1>2, TheOperations
<1>7. /\ Faithful(CallRoomsController[1])
      /\ Faithful(CallRoomsController[2])
      /\ Faithful(CallRoomsController[3])
      /\ Faithful(CallRoomsController[4])
      /\ Faithful(CallRoomsController[5])
      /\ Faithful(CallRoomsController[6])
      /\ Faithful(CallRoomsController[7])
      /\ Faithful(CallRoomsController[8])
  BY <1>4, <1>5, <1>6, FaithfulBy
<1> QED BY <1>1, <1>7

LEMMA CallsFaithful == \A i \in DOMAIN CallsController : Faithful(CallsController[i])
<1>1. DOMAIN CallsController = 1 .. 4
  BY DEF CallsController
<1>2. /\ CallsController[1].op = "joinCall"
      /\ CallsController[2].op = "leaveCall"
      /\ CallsController[3].op = "getCallState"
      /\ CallsController[4].op = "getParticipantsByRoomIdx"
  BY DEF CallsController, Guarded, Route
<1>3. /\ ":roomIdx" \in PathParams \cap S!ToSet(<<"calls", ":roomIdx", "join">>)
      /\ ":roomIdx" \in PathParams \cap S!ToSet(<<"calls", ":roomIdx", "leave">>)
      /\ ":roomIdx" \in PathParams \cap S!ToSet(<<"calls", ":roomIdx", "state">>)
      /\ ":roomIdx" \in PathParams \cap S!ToSet(<<"calls", ":roomIdx", "participants">>)
  BY Members, ParamsKnown
<1>4. /\ Fits(CallsController[1], <<"roomIdx", "userIdx">>, "userIdx", {"roomIdx"})
      /\ Fits(CallsController[2], <<"roomIdx", "userIdx">>, "userIdx", {"roomIdx"})
      /\ Fits(CallsController[3], <<"roomIdx", "userIdx">>, "userIdx", {"roomIdx"})
      /\ Fits(CallsController[4], <<"roomIdx", "userIdx">>, "userIdx", {"roomIdx"})
  BY <1>3, FitsTwo, Tuples DEF Given, Someone, CallsController
<1>5. /\ Asks(CallsService[CallsController[1].op], <<"roomIdx", "userIdx">>, "userIdx", {"roomIdx"})
      /\ Asks(CallsService[CallsController[2].op], <<"roomIdx", "userIdx">>, "userIdx", {"roomIdx"})
      /\ Asks(CallsService[CallsController[3].op], <<"roomIdx", "userIdx">>, "userIdx", {"roomIdx"})
      /\ Asks(CallsService[CallsController[4].op], <<"roomIdx", "userIdx">>, "userIdx", {"roomIdx"})
  BY <1>2, CallsAsks
<1>6. /\ CallsController[1].op \in DOMAIN CallsService
      /\ CallsController[2].op \in DOMAIN CallsService
      /\ CallsController[3].op \in DOMAIN CallsService
      /\ CallsController[4].op \in DOMAIN CallsService
  BY <1>2, TheOperations
<1>7. /\ Faithful(CallsController[1])
      /\ Faithful(CallsController[2])
      /\ Faithful(CallsController[3])
      /\ Faithful(CallsController[4])
  BY <1>4, <1>5, <1>6, FaithfulBy
<1> QED BY <1>1, <1>7

LEMMA QuickSlotFaithful == \A i \in DOMAIN QuickSlotController : Faithful(QuickSlotController[i])
<1>1. DOMAIN QuickSlotController = 1 .. 6
  BY DEF QuickSlotController
<1>2. /\ QuickSlotController[1].op = "addQuickSlot"
      /\ QuickSlotController[2].op = "getUploadedQuickSlots"
      /\ QuickSlotController[3].op = "getActivePreset"
      /\ QuickSlotController[4].op = "setPreset"
      /\ QuickSlotController[5].op = "editQuickSlot"
      /\ QuickSlotController[6].op = "deleteQuickSlot"
  BY DEF QuickSlotController, Guarded, Route
<1>3. /\ ":quickSlotIdx" \in PathParams \cap S!ToSet(<<"quick-slot", ":quickSlotIdx">>)
  BY Members, ParamsKnown
<1>4. /\ Fits(QuickSlotController[1], <<"body", "userIdx">>, "userIdx", {})
      /\ Fits(QuickSlotController[2], <<"userIdx">>, "userIdx", {})
      /\ Fits(QuickSlotController[3], <<"userIdx">>, "userIdx", {})
      /\ Fits(QuickSlotController[4], <<"body", "userIdx">>, "userIdx", {})
      /\ Fits(QuickSlotController[5], <<"quickSlotIdx", "body", "userIdx">>, "userIdx",
           {"quickSlotIdx"})
      /\ Fits(QuickSlotController[6], <<"quickSlotIdx", "userIdx">>, "userIdx", {"quickSlotIdx"})
  BY <1>3, FitsOne, FitsThree, FitsTwo, Tuples DEF Given, Someone, QuickSlotController
<1>5. /\ Asks(QuickSlotService[QuickSlotController[1].op], <<"body", "userIdx">>, "userIdx", {})
      /\ Asks(QuickSlotService[QuickSlotController[2].op], <<"userIdx">>, "userIdx", {})
      /\ Asks(QuickSlotService[QuickSlotController[3].op], <<"userIdx">>, "userIdx", {})
      /\ Asks(QuickSlotService[QuickSlotController[4].op], <<"body", "userIdx">>, "userIdx", {})
      /\ Asks(QuickSlotService[QuickSlotController[5].op], <<"quickSlotIdx", "body", "userIdx">>,
           "userIdx", {"quickSlotIdx"})
      /\ Asks(QuickSlotService[QuickSlotController[6].op], <<"quickSlotIdx", "userIdx">>,
           "userIdx", {"quickSlotIdx"})
  BY <1>2, QuickSlotAsks
<1>6. /\ QuickSlotController[1].op \in DOMAIN QuickSlotService
      /\ QuickSlotController[2].op \in DOMAIN QuickSlotService
      /\ QuickSlotController[3].op \in DOMAIN QuickSlotService
      /\ QuickSlotController[4].op \in DOMAIN QuickSlotService
      /\ QuickSlotController[5].op \in DOMAIN QuickSlotService
      /\ QuickSlotController[6].op \in DOMAIN QuickSlotService
  BY <1>2, TheOperations
<1>7. /\ Faithful(QuickSlotController[1])
      /\ Faithful(QuickSlotController[2])
      /\ Faithful(QuickSlotController[3])
      /\ Faithful(QuickSlotController[4])
      /\ Faithful(QuickSlotController[5])
      /\ Faithful(QuickSlotController[6])
  BY <1>4, <1>5, <1>6, FaithfulBy
<1> QED BY <1>1, <1>7

LEMMA MeetingsFaithful == \A i \in DOMAIN MeetingsController : Faithful(MeetingsController[i])
<1>1. DOMAIN MeetingsController = 1 .. 8
  BY DEF MeetingsController
<1>2. /\ MeetingsController[1].op = "startMeeting"
      /\ MeetingsController[2].op = "startMeeting"
      /\ MeetingsController[3].op = "endMeeting"
      /\ MeetingsController[4].op = "saveMeetingMinutes"
      /\ MeetingsController[5].op = "createMeetingMinutes"
      /\ MeetingsController[6].op = "getMeetingMinutesByRoomIdx"
      /\ MeetingsController[7].op = "getMeetingMinutesByIdx"
      /\ MeetingsController[8].op = "updateMeetingMinutes"
  BY DEF MeetingsController, Guarded, Route
<1>3. /\ ":roomIdx" \in PathParams \cap S!ToSet(<<"meetings", "start", "calls", ":roomIdx">>)
      /\ ":roomIdx" \in PathParams \cap S!ToSet(<<"meetings", "start", "rooms", ":roomIdx">>)
      /\ ":minutesIdx" \in PathParams \cap S!ToSet(<<"meetings", ":minutesIdx", "end">>)
      /\ ":roomIdx" \in PathParams \cap S!ToSet(<<"meetings", "calls", ":roomIdx">>)
      /\ ":roomIdx" \in PathParams \cap S!ToSet(<<"meetings", "rooms", ":roomIdx">>)
      /\ ":minutesIdx" \in PathParams \cap S!ToSet(<<"meetings", ":minutesIdx">>)
  BY Members, ParamsKnown
<1>4. /\ Fits(MeetingsController[1], <<"roomIdx", "userIdx">>, "userIdx", {"roomIdx"})
      /\ Fits(MeetingsController[2], <<"roomIdx", "userIdx">>, "userIdx", {"roomIdx"})
      /\ Fits(MeetingsController[3], <<"minutesIdx", "userIdx">>, "userIdx", {"minutesIdx"})
      /\ Fits(MeetingsController[4], <<"roomIdx", "body", "userIdx">>, "userIdx", {"roomIdx"})
      /\ Fits(MeetingsController[5], <<"roomIdx", "body", "userIdx">>, "userIdx", {"roomIdx"})
      /\ Fits(MeetingsController[6], <<"roomIdx", "userIdx">>, "userIdx", {"roomIdx"})
      /\ Fits(MeetingsController[7], <<"minutesIdx", "userIdx">>, "userIdx", {"minutesIdx"})
      /\ Fits(MeetingsController[8], <<"minutesIdx", "body", "userIdx">>, "userIdx", {"minutesIdx"})
  BY <1>3, FitsThree, FitsTwo, Tuples DEF Given, Someone, MeetingsController
<1>5. /\ Asks(MeetingsService[MeetingsController[1].op], <<"roomIdx", "userIdx">>, "userIdx",
           {"roomIdx"})
      /\ Asks(MeetingsService[MeetingsController[2].op], <<"roomIdx", "userIdx">>, "userIdx",
           {"roomIdx"})
      /\ Asks(MeetingsService[MeetingsController[3].op], <<"minutesIdx", "userIdx">>, "userIdx",
           {"minutesIdx"})
      /\ Asks(MeetingsService[MeetingsController[4].op], <<"roomIdx", "body", "userIdx">>,
           "userIdx", {"roomIdx"})
      /\ Asks(MeetingsService[MeetingsController[5].op], <<"roomIdx", "body", "userIdx">>,
           "userIdx", {"roomIdx"})
      /\ Asks(MeetingsService[MeetingsController[6].op], <<"roomIdx", "userIdx">>, "userIdx",
           {"roomIdx"})
      /\ Asks(MeetingsService[MeetingsController[7].op], <<"minutesIdx", "userIdx">>, "userIdx",
           {"minutesIdx"})
      /\ Asks(MeetingsService[MeetingsController[8].op], <<"minutesIdx", "body", "userIdx">>,
           "userIdx", {"minutesIdx"})
  BY <1>2, MeetingsAsks
<1>6. /\ MeetingsController[1].op \in DOMAIN MeetingsService
      /\ MeetingsController[2].op \in DOMAIN MeetingsService
      /\ MeetingsController[3].op \in DOMAIN MeetingsService
      /\ MeetingsController[4].op \in DOMAIN MeetingsService
      /\ MeetingsController[5].op \in DOMAIN MeetingsService
      /\ MeetingsController[6].op \in DOMAIN MeetingsService
      /\ MeetingsController[7].op \in DOMAIN MeetingsService
      /\ MeetingsController[8].op \in DOMAIN MeetingsService
  BY <1>2, TheOperations
<1>7. /\ Faithful(MeetingsController[1])
      /\ Faithful(MeetingsController[2])
      /\ Faithful(MeetingsController[3])
      /\ Faithful(MeetingsController[4])
      /\ Faithful(MeetingsController[5])
      /\ Faithful(MeetingsController[6])
      /\ Faithful(MeetingsController[7])
      /\ Faithful(MeetingsController[8])
  BY <1>4, <1>5, <1>6, FaithfulBy
<1> QED BY <1>1, <1>7

LEMMA ChatRoomsFaithful == \A i \in DOMAIN ChatRoomsController : Faithful(ChatRoomsController[i])
<1>1. DOMAIN ChatRoomsController = 1 .. 8
  BY DEF ChatRoomsController
<1>2. /\ ChatRoomsController[1].op = "createChatRoom"
      /\ ChatRoomsController[2].op = "getChatRooms"
      /\ ChatRoomsController[3].op = "getOrCreateDirectMessageRoom"
      /\ ChatRoomsController[4].op = "replyInvitation"
      /\ ChatRoomsController[5].op = "getChatRoom"
      /\ ChatRoomsController[6].op = "getMessages"
      /\ ChatRoomsController[7].op = "sendMessage"
      /\ ChatRoomsController[8].op = "readChatRoom"
  BY DEF ChatRoomsController, Guarded, Route
<1>3. /\ ":invitationIdx" \in PathParams \cap S!ToSet(<<"chat-rooms", "invitations",
           ":invitationIdx">>)
      /\ ":chatRoomIdx" \in PathParams \cap S!ToSet(<<"chat-rooms", ":chatRoomIdx">>)
      /\ ":chatRoomIdx" \in PathParams \cap S!ToSet(<<"chat-rooms", ":chatRoomIdx", "messages">>)
      /\ ":chatRoomIdx" \in PathParams \cap S!ToSet(<<"chat-rooms", ":chatRoomIdx", "read">>)
  BY Members, ParamsKnown
<1>4. /\ Fits(ChatRoomsController[1], <<"body", "userIdx">>, "userIdx", {})
      /\ Fits(ChatRoomsController[2], <<"userIdx">>, "userIdx", {})
      /\ Fits(ChatRoomsController[3], <<"targetUserIdx", "userIdx">>, "userIdx", {"targetUserIdx"})
      /\ Fits(ChatRoomsController[4], <<"invitationIdx", "body", "userIdx">>, "userIdx",
           {"invitationIdx"})
      /\ Fits(ChatRoomsController[5], <<"chatRoomIdx", "userIdx">>, "userIdx", {"chatRoomIdx"})
      /\ Fits(ChatRoomsController[6], <<"chatRoomIdx", "query", "userIdx">>, "userIdx",
           {"chatRoomIdx"})
      /\ Fits(ChatRoomsController[7], <<"chatRoomIdx", "body", "userIdx">>, "userIdx",
           {"chatRoomIdx"})
      /\ Fits(ChatRoomsController[8], <<"chatRoomIdx", "body", "userIdx">>, "userIdx",
           {"chatRoomIdx"})
  BY <1>3, FitsOne, FitsThree, FitsTwo, Tuples DEF Given, Someone, ChatRoomsController
<1>5. /\ Asks(ChatRoomsService[ChatRoomsController[1].op], <<"body", "userIdx">>, "userIdx", {})
      /\ Asks(ChatRoomsService[ChatRoomsController[2].op], <<"userIdx">>, "userIdx", {})
      /\ Asks(ChatRoomsService[ChatRoomsController[3].op], <<"targetUserIdx", "userIdx">>,
           "userIdx", {"targetUserIdx"})
      /\ Asks(ChatRoomsService[ChatRoomsController[4].op], <<"invitationIdx", "body",
           "userIdx">>, "userIdx", {"invitationIdx"})
      /\ Asks(ChatRoomsService[ChatRoomsController[5].op], <<"chatRoomIdx", "userIdx">>,
           "userIdx", {"chatRoomIdx"})
      /\ Asks(ChatRoomsService[ChatRoomsController[6].op], <<"chatRoomIdx", "query", "userIdx">>,
           "userIdx", {"chatRoomIdx"})
      /\ Asks(ChatRoomsService[ChatRoomsController[7].op], <<"chatRoomIdx", "body", "userIdx">>,
           "userIdx", {"chatRoomIdx"})
      /\ Asks(ChatRoomsService[ChatRoomsController[8].op], <<"chatRoomIdx", "body", "userIdx">>,
           "userIdx", {"chatRoomIdx"})
  BY <1>2, ChatRoomsAsks
<1>6. /\ ChatRoomsController[1].op \in DOMAIN ChatRoomsService
      /\ ChatRoomsController[2].op \in DOMAIN ChatRoomsService
      /\ ChatRoomsController[3].op \in DOMAIN ChatRoomsService
      /\ ChatRoomsController[4].op \in DOMAIN ChatRoomsService
      /\ ChatRoomsController[5].op \in DOMAIN ChatRoomsService
      /\ ChatRoomsController[6].op \in DOMAIN ChatRoomsService
      /\ ChatRoomsController[7].op \in DOMAIN ChatRoomsService
      /\ ChatRoomsController[8].op \in DOMAIN ChatRoomsService
  BY <1>2, TheOperations
<1>7. /\ NamesOther(ChatRoomsController[1]) /\ NamesOther(ChatRoomsController[2])
      /\ NamesOther(ChatRoomsController[3]) /\ NamesOther(ChatRoomsController[4])
      /\ NamesOther(ChatRoomsController[5]) /\ NamesOther(ChatRoomsController[6])
      /\ NamesOther(ChatRoomsController[7]) /\ NamesOther(ChatRoomsController[8])
  <2>1. ChatRoomsController[3].args = <<"arg", "user">>
    BY DEF ChatRoomsController, Guarded, Route
  <2> QED BY <1>2, <2>1 DEF NamesOther
<1>8. /\ Faithful(ChatRoomsController[1])
      /\ Faithful(ChatRoomsController[2])
      /\ Faithful(ChatRoomsController[3])
      /\ Faithful(ChatRoomsController[4])
      /\ Faithful(ChatRoomsController[5])
      /\ Faithful(ChatRoomsController[6])
      /\ Faithful(ChatRoomsController[7])
      /\ Faithful(ChatRoomsController[8])
  BY <1>4, <1>5, <1>6, <1>7, FaithfulBy
<1> QED BY <1>1, <1>8

----------------------------------------------------------------------------
(* No request is for two routes of a controller.                           *)

Apart(c) == \A i, j \in DOMAIN c : i < j => ~Matches(c[i], c[j])

LEMMA Differ ==
  /\ \A r, q : r.verb # q.verb => ~Matches(r, q)
  /\ \A r, q : Len(r.path) # Len(q.path) => ~Matches(r, q)
  /\ \A r, q, k : k \in 1 .. Len(r.path) /\ r.path[k] \notin PathParams /\ r.path[k] # q.path[k] =>
       ~Matches(r, q)
BY DEF Matches

LEMMA DifferAt ==
  /\ \A r, q : Len(r.path) \in {2, 3, 4} /\ r.path[2] \notin PathParams /\ r.path[2] # q.path[2] => ~Matches(r, q)
  /\ \A r, q : Len(r.path) \in {3, 4} /\ r.path[3] \notin PathParams /\ r.path[3] # q.path[3] => ~Matches(r, q)
<1>1. ASSUME NEW r, NEW q, NEW k \in {2, 3}, Len(r.path) \in {2, 3, 4}, k <= Len(r.path),
               r.path[k] \notin PathParams, r.path[k] # q.path[k]
      PROVE ~Matches(r, q)
   <2>1. k \in 1 .. Len(r.path)
     BY <1>1
   <2> QED BY <1>1, <2>1, Differ
<1> QED BY <1>1

\* No request is for two routes of the controller.
LEMMA AppApart == Apart(AppController)
<1>1. DOMAIN AppController = 1 .. 1
  BY DEF AppController
<1> QED BY <1>1 DEF Apart

LEMMA AuthApart == Apart(AuthController)
<1>1. DOMAIN AuthController = 1 .. 8
  BY DEF AuthController
<1>2. /\ AuthController[1].verb = "POST" /\ Len(AuthController[1].path) = 2
      /\ AuthController[2].verb = "POST" /\ Len(AuthController[2].path) = 2
      /\ AuthController[3].verb = "POST" /\ Len(AuthController[3].path) = 2
      /\ AuthController[4].verb = "POST" /\ Len(AuthController[4].path) = 2
      /\ AuthController[5].verb = "POST" /\ Len(AuthController[5].path) = 2
      /\ AuthController[6].verb = "DELETE" /\ Len(AuthController[6].path) = 2
      /\ AuthController[7].verb = "POST" /\ Len(AuthController[7].path) = 2
      /\ AuthController[8].verb = "POST" /\ Len(AuthController[8].path) = 2
  BY DEF AuthController, Open, Route
<1>3. /\ ~Matches(AuthController[1], AuthController[6])
      /\ ~Matches(AuthController[2], AuthController[6])
      /\ ~Matches(AuthController[3], AuthController[6])
      /\ ~Matches(AuthController[4], AuthController[6])
      /\ ~Matches(AuthController[5], AuthController[6])
      /\ ~Matches(AuthController[6], AuthController[7])
      /\ ~Matches(AuthController[6], AuthController[8])
  BY <1>2, Differ
<1>4. /\ AuthController[1].path[2] = "login" /\ AuthController[2].path[2] = "email-send"
      /\ AuthController[1].path[2] \notin PathParams
      /\ AuthController[3].path[2] = "email-verification"
      /\ AuthController[4].path[2] = "register" /\ AuthController[5].path[2] = "refresh"
      /\ AuthController[7].path[2] = "recover" /\ AuthController[8].path[2] = "logout"
      /\ AuthController[2].path[2] \notin PathParams /\ AuthController[3].path[2] \notin PathParams
      /\ AuthController[4].path[2] \notin PathParams /\ AuthController[5].path[2] \notin PathParams
      /\ AuthController[7].path[2] \notin PathParams
  BY ParamsKnown DEF AuthController, Open, Route
<1>5. /\ ~Matches(AuthController[1], AuthController[2])
      /\ ~Matches(AuthController[1], AuthController[3])
      /\ ~Matches(AuthController[1], AuthController[4])
      /\ ~Matches(AuthController[1], AuthController[5])
      /\ ~Matches(AuthController[1], AuthController[7])
      /\ ~Matches(AuthController[1], AuthController[8])
      /\ ~Matches(AuthController[2], AuthController[3])
      /\ ~Matches(AuthController[2], AuthController[4])
      /\ ~Matches(AuthController[2], AuthController[5])
      /\ ~Matches(AuthController[2], AuthController[7])
      /\ ~Matches(AuthController[2], AuthController[8])
      /\ ~Matches(AuthController[3], AuthController[4])
      /\ ~Matches(AuthController[3], AuthController[5])
      /\ ~Matches(AuthController[3], AuthController[7])
      /\ ~Matches(AuthController[3], AuthController[8])
      /\ ~Matches(AuthController[4], AuthController[5])
      /\ ~Matches(AuthController[4], AuthController[7])
      /\ ~Matches(AuthController[4], AuthController[8])
      /\ ~Matches(AuthController[5], AuthController[7])
      /\ ~Matches(AuthController[5], AuthController[8])
      /\ ~Matches(AuthController[7], AuthController[8])
  BY <1>2, <1>4, DifferAt
<1> QED BY <1>1, <1>3, <1>5 DEF Apart

LEMMA UsersApart == Apart(UsersController)
<1>1. DOMAIN UsersController = 1 .. 6
  BY DEF UsersController
<1>2. /\ UsersController[1].verb = "DELETE" /\ Len(UsersController[1].path) = 2
      /\ UsersController[2].verb = "GET" /\ Len(UsersController[2].path) = 2
      /\ UsersController[3].verb = "GET" /\ Len(UsersController[3].path) = 2
      /\ UsersController[4].verb = "PATCH" /\ Len(UsersController[4].path) = 2
      /\ UsersController[5].verb = "PATCH" /\ Len(UsersController[5].path) = 2
      /\ UsersController[6].verb = "GET" /\ Len(UsersController[6].path) = 1
  BY DEF UsersController, Guarded, Open, Route
<1>3. /\ ~Matches(UsersController[1], UsersController[2])
      /\ ~Matches(UsersController[1], UsersController[3])
      /\ ~Matches(UsersController[1], UsersController[4])
      /\ ~Matches(UsersController[1], UsersController[5])
      /\ ~Matches(UsersController[1], UsersController[6])
      /\ ~Matches(UsersController[2], UsersController[4])
      /\ ~Matches(UsersController[2], UsersController[5])
      /\ ~Matches(UsersController[2], UsersController[6])
      /\ ~Matches(UsersController[3], UsersController[4])
      /\ ~Matches(UsersController[3], UsersController[5])
      /\ ~Matches(UsersController[3], UsersController[6])
      /\ ~Matches(UsersController[4], UsersController[6])
      /\ ~Matches(UsersController[5], UsersController[6])
  BY <1>2, Differ
<1>4. /\ UsersController[2].path[2] = "me" /\ UsersController[3].path[2] = ":userIdx"
      /\ UsersController[2].path[2] \notin PathParams /\ UsersController[4].path[2] = "me"
      /\ UsersController[5].path[2] = "password" /\ UsersController[4].path[2] \notin PathParams
  BY ParamsKnown DEF UsersController, Guarded, Open, Route
<1>5. /\ ~Matches(UsersController[2], UsersController[3])
      /\ ~Matches(UsersController[4], UsersController[5])
  BY <1>2, <1>4, DifferAt
<1> QED BY <1>1, <1>3, <1>5 DEF Apart

LEMMA FriendApart == Apart(FriendController)
<1>1. DOMAIN FriendController = 1 .. 7
  BY DEF FriendController
<1>2. /\ FriendController[1].verb = "POST" /\ Len(FriendController[1].path) = 1
      /\ FriendController[2].verb = "GET" /\ Len(FriendController[2].path) = 1
      /\ FriendController[3].verb = "GET" /\ Len(FriendController[3].path) = 2
      /\ FriendController[4].verb = "GET" /\ Len(FriendController[4].path) = 2
      /\ FriendController[5].verb = "POST" /\ Len(FriendController[5].path) = 2
      /\ FriendController[6].verb = "POST" /\ Len(FriendController[6].path) = 2
      /\ FriendController[7].verb = "DELETE" /\ Len(FriendController[7].path) = 1
  BY DEF FriendController, Guarded, Route
<1>3. /\ ~Matches(FriendController[1], FriendController[2])
      /\ ~Matches(FriendController[1], FriendController[3])
      /\ ~Matches(FriendController[1], FriendController[4])
      /\ ~Matches(FriendController[1], FriendController[5])
      /\ ~Matches(FriendController[1], FriendController[6])
      /\ ~Matches(FriendController[1], FriendController[7])
      /\ ~Matches(FriendController[2], FriendController[3])
      /\ ~Matches(FriendController[2], FriendController[4])
      /\ ~Matches(FriendController[2], FriendController[5])
      /\ ~Matches(FriendController[2], FriendController[6])
      /\ ~Matches(FriendController[2], FriendController[7])
      /\ ~Matches(FriendController[3], FriendController[5])
      /\ ~Matches(FriendController[3], FriendController[6])
      /\ ~Matches(FriendController[3], FriendController[7])
      /\ ~Matches(FriendController[4], FriendController[5])
      /\ ~Matches(FriendController[4], FriendController[6])
      /\ ~Matches(FriendController[4], FriendController[7])
      /\ ~Matches(FriendController[5], FriendController[7])
      /\ ~Matches(FriendController[6], FriendController[7])
  BY <1>2, Differ
<1>4. /\ FriendController[3].path[2] = "count" /\ FriendController[4].path[2] = "pending"
      /\ FriendController[3].path[2] \notin PathParams /\ FriendController[5].path[2] = "accept"
      /\ FriendController[6].path[2] = "reject" /\ FriendController[5].path[2] \notin PathParams
  BY ParamsKnown DEF FriendController, Guarded, Route
<1>5. /\ ~Matches(FriendController[3], FriendController[4])
      /\ ~Matches(FriendController[5], FriendController[6])
  BY <1>2, <1>4, DifferAt
<1> QED BY <1>1, <1>3, <1>5 DEF Apart

LEMMA NotificationsApart == Apart(NotificationsController)
<1>1. DOMAIN NotificationsController = 1 .. 4
  BY DEF NotificationsController
<1>2. /\ NotificationsController[1].verb = "GET" /\ Len(NotificationsController[1].path) = 1
      /\ NotificationsController[2].verb = "PATCH" /\ Len(NotificationsController[2].path) = 3
      /\ NotificationsController[3].verb = "GET" /\ Len(NotificationsController[3].path) = 2
      /\ NotificationsController[4].verb = "PATCH" /\ Len(NotificationsController[4].path) = 3
  BY DEF NotificationsController, Guarded, Route
<1>3. /\ ~Matches(NotificationsController[1], NotificationsController[2])
      /\ ~Matches(NotificationsController[1], NotificationsController[3])
      /\ ~Matches(NotificationsController[1], NotificationsController[4])
      /\ ~Matches(NotificationsController[2], NotificationsController[3])
      /\ ~Matches(NotificationsController[3], NotificationsController[4])
  BY <1>2, Differ
<1>4. /\ NotificationsController[2].path[3] = "read"
      /\ NotificationsController[4].path[3] = ":notificationType"
      /\ NotificationsController[2].path[3] \notin PathParams
  BY ParamsKnown DEF NotificationsController, Guarded, Route
<1>5. /\ ~Matches(NotificationsController[2], NotificationsController[4])
  BY <1>2, <1>4, DifferAt
<1> QED BY <1>1, <1>3, <1>5 DEF Apart

LEMMA MediasApart == Apart(MediasController)
<1>1. DOMAIN MediasController = 1 .. 2
  BY DEF MediasController
<1>2. /\ MediasController[1].verb = "POST" /\ Len(MediasController[1].path) = 1
      /\ MediasController[2].verb = "GET" /\ Len(MediasController[2].path) = 2
  BY DEF MediasController, Guarded, Route
<1>3. /\ ~Matches(MediasController[1], MediasController[2])
  BY <1>2, Differ
<1> QED BY <1>1, <1>3 DEF Apart

LEMMA CallRoomsApart == Apart(CallRoomsController)
<1>1. DOMAIN CallRoomsController = 1 .. 8
  BY DEF CallRoomsController
<1>2. /\ CallRoomsController[1].verb = "POST" /\ Len(CallRoomsController[1].path) = 3
      /\ CallRoomsController[2].verb = "POST" /\ Len(CallRoomsController[2].path) = 1
      /\ CallRoomsController[3].verb = "GET" /\ Len(CallRoomsController[3].path) = 1
      /\ CallRoomsController[4].verb = "GET" /\ Len(CallRoomsController[4].path) = 2
      /\ CallRoomsController[5].verb = "GET" /\ Len(CallRoomsController[5].path) = 2
      /\ CallRoomsController[6].verb = "PATCH" /\ Len(CallRoomsController[6].path) = 2
      /\ CallRoomsController[7].verb = "DELETE" /\ Len(CallRoomsController[7].path) = 2
      /\ CallRoomsController[8].verb = "DELETE" /\ Len(CallRoomsController[8].path) = 3
  BY DEF CallRoomsController, Guarded, Open, Route
<1>3. /\ ~Matches(CallRoomsController[1], CallRoomsController[2])
      /\ ~Matches(CallRoomsController[1], CallRoomsController[3])
      /\ ~Matches(CallRoomsController[1], CallRoomsController[4])
      /\ ~Matches(CallRoomsController[1], CallRoomsController[5])
      /\ ~Matches(CallRoomsController[1], CallRoomsController[6])
      /\ ~Matches(CallRoomsController[1], CallRoomsController[7])
      /\ ~Matches(CallRoomsController[1], CallRoomsController[8])
      /\ ~Matches(CallRoomsController[2], CallRoomsController[3])
      /\ ~Matches(CallRoomsController[2], CallRoomsController[4])
      /\ ~Matches(CallRoomsController[2], CallRoomsController[5])
      /\ ~Matches(CallRoomsController[2], CallRoomsController[6])
      /\ ~Matches(CallRoomsController[2], CallRoomsController[7])
      /\ ~Matches(CallRoomsController[2], CallRoomsController[8])
      /\ ~Matches(CallRoomsController[3], CallRoomsController[4])
      /\ ~Matches(CallRoomsController[3], CallRoomsController[5])
      /\ ~Matches(CallRoomsController[3], CallRoomsController[6])
      /\ ~Matches(CallRoomsController[3], CallRoomsController[7])
      /\ ~Matches(CallRoomsController[3], CallRoomsController[8])
      /\ ~Matches(CallRoomsController[4], CallRoomsController[6])
      /\ ~Matches(CallRoomsController[4], CallRoomsController[7])
      /\ ~Matches(CallRoomsController[4], CallRoomsController[8])
      /\ ~Matches(CallRoomsController[5], CallRoomsController[6])
      /\ ~Matches(CallRoomsController[5], CallRoomsController[7])
      /\ ~Matches(CallRoomsController[5], CallRoomsController[8])
      /\ ~Matches(CallRoomsController[6], CallRoomsController[7])
      /\ ~Matches(CallRoomsController[6], CallRoomsController[8])
      /\ ~Matches(CallRoomsController[7], CallRoomsController[8])
  BY <1>2, Differ
<1>4. /\ CallRoomsController[4].path[2] = "search" /\ CallRoomsController[5].path[2] = ":roomIdx"
      /\ CallRoomsController[4].path[2] \notin PathParams
  BY ParamsKnown DEF CallRoomsController, Guarded, Open, Route
<1>5. /\ ~Matches(CallRoomsController[4], CallRoomsController[5])
  BY <1>2, <1>4, DifferAt
<1> QED BY <1>1, <1>3, <1>5 DEF Apart

LEMMA CallsApart == Apart(CallsController)
<1>1. DOMAIN CallsController = 1 .. 4
  BY DEF CallsController
<1>2. /\ CallsController[1].verb = "POST" /\ Len(CallsController[1].path) = 3
      /\ CallsController[2].verb = "DELETE" /\ Len(CallsController[2].path) = 3
      /\ CallsController[3].verb = "GET" /\ Len(CallsController[3].path) = 3
      /\ CallsController[4].verb = "GET" /\ Len(CallsController[4].path) = 3
  BY DEF CallsController, Guarded, Route
<1>3. /\ ~Matches(CallsController[1], CallsController[2])
      /\ ~Matches(CallsController[1], CallsController[3])
      /\ ~Matches(CallsController[1], CallsController[4])
      /\ ~Matches(CallsController[2], CallsController[3])
      /\ ~Matches(CallsController[2], CallsController[4])
  BY <1>2, Differ
<1>4. /\ CallsController[3].path[3] = "state" /\ CallsController[4].path[3] = "participants"
      /\ CallsController[3].path[3] \notin PathParams
  BY ParamsKnown DEF CallsController, Guarded, Route
<1>5. /\ ~Matches(CallsController[3], CallsController[4])
  BY <1>2, <1>4, DifferAt
<1> QED BY <1>1, <1>3, <1>5 DEF Apart

LEMMA QuickSlotApart == Apart(QuickSlotController)
<1>1. DOMAIN QuickSlotController = 1 .. 6
  BY DEF QuickSlotController
<1>2. /\ QuickSlotController[1].verb = "POST" /\ Len(QuickSlotController[1].path) = 1
      /\ QuickSlotController[2].verb = "GET" /\ Len(QuickSlotController[2].path) = 1
      /\ QuickSlotController[3].verb = "GET" /\ Len(QuickSlotController[3].path) = 2
      /\ QuickSlotController[4].verb = "PATCH" /\ Len(QuickSlotController[4].path) = 2
      /\ QuickSlotController[5].verb = "PATCH" /\ Len(QuickSlotController[5].path) = 2
      /\ QuickSlotController[6].verb = "DELETE" /\ Len(QuickSlotController[6].path) = 2
  BY DEF QuickSlotController, Guarded, Route
<1>3. /\ ~Matches(QuickSlotController[1], QuickSlotController[2])
      /\ ~Matches(QuickSlotController[1], QuickSlotController[3])
      /\ ~Matches(QuickSlotController[1], QuickSlotController[4])
      /\ ~Matches(QuickSlotController[1], QuickSlotController[5])
      /\ ~Matches(QuickSlotController[1], QuickSlotController[6])
      /\ ~Matches(QuickSlotController[2], QuickSlotController[3])
      /\ ~Matches(QuickSlotController[2], QuickSlotController[4])
      /\ ~Matches(QuickSlotController[2], QuickSlotController[5])
      /\ ~Matches(QuickSlotController[2], QuickSlotController[6])
      /\ ~Matches(QuickSlotController[3], QuickSlotController[4])
      /\ ~Matches(QuickSlotController[3], QuickSlotController[5])
      /\ ~Matches(QuickSlotController[3], QuickSlotController[6])
      /\ ~Matches(QuickSlotController[4], QuickSlotController[6])
      /\ ~Matches(QuickSlotController[5], QuickSlotController[6])
  BY <1>2, Differ
<1>4. /\ QuickSlotController[4].path[2] = "preset"
      /\ QuickSlotController[5].path[2] = ":quickSlotIdx"
      /\ QuickSlotController[4].path[2] \notin PathParams
  BY ParamsKnown DEF QuickSlotController, Guarded, Route
<1>5. /\ ~Matches(QuickSlotController[4], QuickSlotController[5])
  BY <1>2, <1>4, DifferAt
<1> QED BY <1>1, <1>3, <1>5 DEF Apart

LEMMA MeetingsApart == Apart(MeetingsController)
<1>1. DOMAIN MeetingsController = 1 .. 8
  BY DEF MeetingsController
<1>2. /\ MeetingsController[1].verb = "POST" /\ Len(MeetingsController[1].path) = 4
      /\ MeetingsController[2].verb = "POST" /\ Len(MeetingsController[2].path) = 4
      /\ MeetingsController[3].verb = "POST" /\ Len(MeetingsController[3].path) = 3
      /\ MeetingsController[4].verb = "POST" /\ Len(MeetingsController[4].path) = 3
      /\ MeetingsController[5].verb = "POST" /\ Len(MeetingsController[5].path) = 3
      /\ MeetingsController[6].verb = "GET" /\ Len(MeetingsController[6].path) = 3
      /\ MeetingsController[7].verb = "GET" /\ Len(MeetingsController[7].path) = 2
      /\ MeetingsController[8].verb = "PATCH" /\ Len(MeetingsController[8].path) = 2
  BY DEF MeetingsController, Guarded, Route
<1>3. /\ ~Matches(MeetingsController[1], MeetingsController[3])
      /\ ~Matches(MeetingsController[1], MeetingsController[4])
      /\ ~Matches(MeetingsController[1], MeetingsController[5])
      /\ ~Matches(MeetingsController[1], MeetingsController[6])
      /\ ~Matches(MeetingsController[1], MeetingsController[7])
      /\ ~Matches(MeetingsController[1], MeetingsController[8])
      /\ ~Matches(MeetingsController[2], MeetingsController[3])
      /\ ~Matches(MeetingsController[2], MeetingsController[4])
      /\ ~Matches(MeetingsController[2], MeetingsController[5])
      /\ ~Matches(MeetingsController[2], MeetingsController[6])
      /\ ~Matches(MeetingsController[2], MeetingsController[7])
      /\ ~Matches(MeetingsController[2], MeetingsController[8])
      /\ ~Matches(MeetingsController[3], MeetingsController[6])
      /\ ~Matches(MeetingsController[3], MeetingsController[7])
      /\ ~Matches(MeetingsController[3], MeetingsController[8])
      /\ ~Matches(MeetingsController[4], MeetingsController[6])
      /\ ~Matches(MeetingsController[4], MeetingsController[7])
      /\ ~Matches(MeetingsController[4], MeetingsController[8])
      /\ ~Matches(MeetingsController[5], MeetingsController[6])
      /\ ~Matches(MeetingsController[5], MeetingsController[7])
      /\ ~Matches(MeetingsController[5], MeetingsController[8])
      /\ ~Matches(MeetingsController[6], MeetingsController[7])
      /\ ~Matches(MeetingsController[6], MeetingsController[8])
      /\ ~Matches(MeetingsController[7], MeetingsController[8])
  BY <1>2, Differ
<1>4. /\ MeetingsController[1].path[3] = "calls" /\ MeetingsController[2].path[3] = "rooms"
      /\ MeetingsController[1].path[3] \notin PathParams /\ MeetingsController[3].path[3] = "end"
      /\ MeetingsController[4].path[3] = ":roomIdx"
      /\ MeetingsController[3].path[3] \notin PathParams
      /\ MeetingsController[5].path[3] = ":roomIdx" /\ MeetingsController[4].path[2] = "calls"
      /\ MeetingsController[5].path[2] = "rooms" /\ MeetingsController[4].path[2] \notin PathParams
  BY ParamsKnown DEF MeetingsController, Guarded, Route
<1>5. /\ ~Matches(MeetingsController[1], MeetingsController[2])
      /\ ~Matches(MeetingsController[3], MeetingsController[4])
      /\ ~Matches(MeetingsController[3], MeetingsController[5])
      /\ ~Matches(MeetingsController[4], MeetingsController[5])
  BY <1>2, <1>4, DifferAt
<1> QED BY <1>1, <1>3, <1>5 DEF Apart

LEMMA ChatRoomsApart == Apart(ChatRoomsController)
<1>1. DOMAIN ChatRoomsController = 1 .. 8
  BY DEF ChatRoomsController
<1>2. /\ ChatRoomsController[1].verb = "POST" /\ Len(ChatRoomsController[1].path) = 1
      /\ ChatRoomsController[2].verb = "GET" /\ Len(ChatRoomsController[2].path) = 1
      /\ ChatRoomsController[3].verb = "POST" /\ Len(ChatRoomsController[3].path) = 2
      /\ ChatRoomsController[4].verb = "PATCH" /\ Len(ChatRoomsController[4].path) = 3
      /\ ChatRoomsController[5].verb = "GET" /\ Len(ChatRoomsController[5].path) = 2
      /\ ChatRoomsController[6].verb = "GET" /\ Len(ChatRoomsController[6].path) = 3
      /\ ChatRoomsController[7].verb = "POST" /\ Len(ChatRoomsController[7].path) = 3
      /\ ChatRoomsController[8].verb = "PATCH" /\ Len(ChatRoomsController[8].path) = 3
  BY DEF ChatRoomsController, Guarded, Route
<1>3. /\ ~Matches(ChatRoomsController[1], ChatRoomsController[2])
      /\ ~Matches(ChatRoomsController[1], ChatRoomsController[3])
      /\ ~Matches(ChatRoomsController[1], ChatRoomsController[4])
      /\ ~Matches(ChatRoomsController[1], ChatRoomsController[5])
      /\ ~Matches(ChatRoomsController[1], ChatRoomsController[6])
      /\ ~Matches(ChatRoomsController[1], ChatRoomsController[7])
      /\ ~Matches(ChatRoomsController[1], ChatRoomsController[8])
      /\ ~Matches(ChatRoomsController[2], ChatRoomsController[3])
      /\ ~Matches(ChatRoomsController[2], ChatRoomsController[4])
      /\ ~Matches(ChatRoomsController[2], ChatRoomsController[5])
      /\ ~Matches(ChatRoomsController[2], ChatRoomsController[6])
      /\ ~Matches(ChatRoomsController[2], ChatRoomsController[7])
      /\ ~Matches(ChatRoomsController[2], ChatRoomsController[8])
      /\ ~Matches(ChatRoomsController[3], ChatRoomsController[4])
      /\ ~Matches(ChatRoomsController[3], ChatRoomsController[5])
      /\ ~Matches(ChatRoomsController[3], ChatRoomsController[6])
      /\ ~Matches(ChatRoomsController[3], ChatRoomsController[7])
      /\ ~Matches(ChatRoomsController[3], ChatRoomsController[8])
      /\ ~Matches(ChatRoomsController[4], ChatRoomsController[5])
      /\ ~Matches(ChatRoomsController[4], ChatRoomsController[6])
      /\ ~Matches(ChatRoomsController[4], ChatRoomsController[7])
      /\ ~Matches(ChatRoomsController[5], ChatRoomsController[6])
      /\ ~Matches(ChatRoomsController[5], ChatRoomsController[7])
      /\ ~Matches(ChatRoomsController[5], ChatRoomsController[8])
      /\ ~Matches(ChatRoomsController[6], ChatRoomsController[7])
      /\ ~Matches(ChatRoomsController[6], ChatRoomsController[8])
      /\ ~Matches(ChatRoomsController[7], ChatRoomsController[8])
  BY <1>2, Differ
<1>4. /\ ChatRoomsController[4].path[2] = "invitations"
      /\ ChatRoomsController[8].path[2] = ":chatRoomIdx"
      /\ ChatRoomsController[4].path[2] \notin PathParams
  BY ParamsKnown DEF ChatRoomsController, Guarded, Route
<1>5. /\ ~Matches(ChatRoomsController[4], ChatRoomsController[8])
  BY <1>2, <1>4, DifferAt
<1> QED BY <1>1, <1>3, <1>5 DEF Apart

----------------------------------------------------------------------------
(* Bodies.                                                                 *)

\* What BodiesSound says of what is passed on of the body b.
Sound(m, b) ==
  /\ \A f \in {"refresh_token", "file_uuid", "last_read_message_idx", "message"} \cap DOMAIN m :
       m[f] = "good" \/ Unchecked(f, b)
  /\ "transcript" \in DOMAIN m => m.transcript \notin Falsy \/ Unchecked("transcript", b)
  /\ {"is_public", "password"} \subseteq DOMAIN m /\ m.is_public = "false" => m.password = "good"
Entered(dto, b) == DOMAIN b = Fields(dto) /\ Valid(dto, b)
Passes(r) == \A b : Entered(r.dto, b) => Sound(Passed(r.op, b), b)

LEMMA TokenSound ==
  ASSUME NEW b, Entered("RefreshTokenDto", b)
  PROVE  Sound(toRefreshTokenRequest(b), b)
<1> DEFINE m == toRefreshTokenRequest(b)
<1>1. DOMAIN b = {"refresh_token", "refreshToken"} /\ RefreshTokenDto(b)
  BY DEF Entered, Fields, Valid
<1>3. /\ DOMAIN m = {"refresh_token"}
      /\ m["refresh_token"] = "good" \/ Unchecked("refresh_token", b)
  BY <1>1 DEF toRefreshTokenRequest, Else, RefreshTokenDto, Nothing, Falsy, Unchecked
<1> HIDE DEF m
<1>4. Sound(m, b)
  BY <1>3 DEF Sound
<1> QED BY <1>4 DEF m

LEMMA MessageSound ==
  ASSUME NEW b, Entered("SendChatMessageDto", b)
  PROVE  Sound(normalizeSendMessageBody(b), b)
<1> DEFINE m == normalizeSendMessageBody(b)
<1>1. DOMAIN b = {"type", "message", "file_uuid", "fileUuid"} /\ SendChatMessageDto(b)
  BY DEF Entered, Fields, Valid
<1>3. CASE b.type = "FILE"
  <2>1. DOMAIN m = {"type", "file_uuid"} /\ (m["file_uuid"] = "good" \/ Unchecked("file_uuid", b))
    BY <1>1, <1>3 DEF normalizeSendMessageBody, Else, SendChatMessageDto, Nothing, Falsy, Unchecked
  <2> HIDE DEF m
  <2>2. Sound(m, b)
    BY <2>1 DEF Sound
  <2> QED BY <2>2 DEF m
<1>4. CASE b.type # "FILE"
  <2>1. DOMAIN m = {"type", "message"} /\ m["message"] = "good"
    BY <1>1, <1>4 DEF normalizeSendMessageBody, SendChatMessageDto
  <2> HIDE DEF m
  <2>2. Sound(m, b)
    BY <2>1 DEF Sound
  <2> QED BY <2>2 DEF m
<1> QED BY <1>3, <1>4

LEMMA ReadSound ==
  ASSUME NEW b, Entered("ReadChatRoomDto", b)
  PROVE  Sound(readChatRoomBody(b), b)
<1> DEFINE m == readChatRoomBody(b)
<1>1. DOMAIN b = {"last_read_message_idx", "lastReadMessageIdx"} /\ ReadChatRoomDto(b)
  BY DEF Entered, Fields, Valid
<1>3. /\ DOMAIN m = {"last_read_message_idx"}
      /\ m["last_read_message_idx"] = "good" \/ Unchecked("last_read_message_idx", b)
  BY <1>1 DEF readChatRoomBody, Else, ReadChatRoomDto, Nothing, Unchecked
<1> HIDE DEF m
<1>4. Sound(m, b)
  BY <1>3 DEF Sound
<1> QED BY <1>4 DEF m

LEMMA TranscriptSound ==
  ASSUME NEW b, Entered("CreateMeetingMinutesDto", b)
  PROVE  normalizeTranscript(b) \notin Falsy \/ Unchecked("transcript", b)
<1>1. CreateMeetingMinutesDto(b)
  BY DEF Entered, Valid
<1> QED BY <1>1 DEF normalizeTranscript, Else, CreateMeetingMinutesDto, Nothing, Falsy, Unchecked

LEMMA CreatedSound ==
  ASSUME NEW b, Entered("CreateMeetingMinutesDto", b)
  PROVE  Sound(normalizeCreateBody(b), b)
<1> DEFINE m == normalizeCreateBody(b)
<1>1. /\ DOMAIN m = {"title", "transcript", "participants", "ai_summary", "conclusion"}
      /\ m["transcript"] = normalizeTranscript(b)
  BY DEF normalizeCreateBody
<1> HIDE DEF m
<1>2. Sound(m, b)
  BY <1>1, TranscriptSound DEF Sound
<1> QED BY <1>2 DEF m

\* What convertKeysToSnakeCase() makes of the fields of a body.
LEMMA SnakeKeys ==
  /\ DOMAIN SnakeNames = {"statusMessage", "currentPassword", "newPassword", "isPublic",
                          "maxParticipant", "aiSummary"}
  /\ toSnakeCase("statusMessage") = "status_message"
  /\ toSnakeCase("currentPassword") = "current_password"
  /\ toSnakeCase("newPassword") = "new_password" /\ toSnakeCase("isPublic") = "is_public"
  /\ toSnakeCase("maxParticipant") = "max_participant" /\ toSnakeCase("aiSummary") = "ai_summary"
  /\ \A f : f \notin DOMAIN SnakeNames => toSnakeCase(f) = f
BY DEF SnakeNames, toSnakeCase

LEMMA Converted ==
  ASSUME NEW b, NEW f \in DOMAIN b, \A g \in DOMAIN b : toSnakeCase(g) = toSnakeCase(f) => g = f
  PROVE  convertKeysToSnakeCase(b)[toSnakeCase(f)] = b[f]
<1> DEFINE k == toSnakeCase(f)
<1>1. (CHOOSE g \in DOMAIN b : toSnakeCase(g) = k) = f
  OBVIOUS
<1>2. k \in {toSnakeCase(g) : g \in DOMAIN b}
  OBVIOUS
<1> HIDE DEF k
<1>3. convertKeysToSnakeCase(b)[k] = b[f]
  BY <1>1, <1>2 DEF convertKeysToSnakeCase
<1> QED BY <1>3 DEF k

LEMMA SavedSound ==
  ASSUME NEW b, Entered("CreateMeetingMinutesDto", b)
  PROVE  Sound(convertKeysToSnakeCase(normalizeSaveBody(b)), b)
<1> DEFINE m == normalizeSaveBody(b)
           k == convertKeysToSnakeCase(m)
<1>1. /\ DOMAIN m = {"title", "transcript", "participants", "aiSummary", "conclusion"}
      /\ m["transcript"] = normalizeTranscript(b)
  BY DEF normalizeSaveBody
<1> HIDE DEF m
<1>2. DOMAIN k = {toSnakeCase(f) : f \in DOMAIN m}
  BY DEF convertKeysToSnakeCase
<1>3. DOMAIN k = {"title", "transcript", "participants", "ai_summary", "conclusion"}
  BY <1>1, <1>2, SnakeKeys
<1>4. k["transcript"] = m["transcript"]
  <2>1. toSnakeCase("transcript") = "transcript"
    BY SnakeKeys
  <2>2. \A g \in DOMAIN m : toSnakeCase(g) = toSnakeCase("transcript") => g = "transcript"
    BY <1>1, SnakeKeys
  <2>3. k[toSnakeCase("transcript")] = m["transcript"]
    BY <1>1, <2>2, Converted
  <2> QED BY <2>1, <2>3
<1> HIDE DEF k
<1>5. Sound(k, b)
  BY <1>1, <1>3, <1>4, TranscriptSound DEF Sound
<1> QED BY <1>5 DEF k, m

LEMMA RoomSound ==
  ASSUME NEW b, Entered("CreateCallRoomDto", b) \/ Entered("UpdateCallRoomDto", b)
  PROVE  Sound(convertKeysToSnakeCase(b), b)
<1> DEFINE k == convertKeysToSnakeCase(b)
<1>1. DOMAIN b = {"title", "description", "category", "password", "maxParticipant", "isPublic"}
  BY DEF Entered, Fields
<1>2. CreateCallRoomDto(b) \/ UpdateCallRoomDto(b)
  BY DEF Entered, Valid
<1>3. b["isPublic"] = "false" => b["password"] = "good"
  BY <1>2 DEF CreateCallRoomDto, UpdateCallRoomDto
<1>4. DOMAIN k = {toSnakeCase(f) : f \in DOMAIN b}
  BY DEF convertKeysToSnakeCase
<1>5. DOMAIN k = {"title", "description", "category", "password", "max_participant", "is_public"}
  BY <1>1, <1>4, SnakeKeys
<1>6. k["password"] = b["password"]
  <2>1. toSnakeCase("password") = "password"
    BY SnakeKeys
  <2>2. \A g \in DOMAIN b : toSnakeCase(g) = toSnakeCase("password") => g = "password"
    BY <1>1, SnakeKeys
  <2>3. k[toSnakeCase("password")] = b["password"]
    BY <1>1, <2>2, Converted
  <2> QED BY <2>1, <2>3
<1>7. k["is_public"] = b["isPublic"]
  <2>2. \A g \in DOMAIN b : toSnakeCase(g) = toSnakeCase("isPublic") => g = "isPublic"
    BY <1>1, SnakeKeys
  <2>3. k[toSnakeCase("isPublic")] = b["isPublic"]
    BY <1>1, <2>2, Converted
  <2> QED BY <2>3, SnakeKeys
<1> HIDE DEF k
<1>8. Sound(k, b)
  BY <1>3, <1>5, <1>6, <1>7 DEF Sound
<1> QED BY <1>8 DEF k

\* Fields that none of this is about.
Plainly(fields) ==
  fields \cap {"refresh_token", "file_uuid", "last_read_message_idx", "message", "transcript",
               "is_public"} = {}

LEMMA PlainSound == \A m, b : Plainly(DOMAIN m) => Sound(m, b)
BY DEF Plainly, Sound

Converting ==
  {"joinCallRoom", "createCallRoom", "updateCallRoomById", "updateMyInformation", "updatePassword",
   "refreshToken", "deleteRefreshToken", "sendMessage", "readChatRoom", "saveMeetingMinutes",
   "createMeetingMinutes", "updateMeetingMinutes", "addQuickSlot", "editQuickSlot", "setPreset"}

LEMMA PassedBy ==
  ASSUME NEW b
  PROVE  /\ \A op \in {"joinCallRoom", "createCallRoom", "updateCallRoomById",
              "updateMyInformation",
                       "updatePassword"} : Passed(op, b) = convertKeysToSnakeCase(b)
         /\ \A op \in {"refreshToken", "deleteRefreshToken"} : Passed(op,
              b) = toRefreshTokenRequest(b)
         /\ Passed("sendMessage", b) = normalizeSendMessageBody(b)
         /\ Passed("readChatRoom", b) = readChatRoomBody(b)
         /\ Passed("saveMeetingMinutes", b) = convertKeysToSnakeCase(normalizeSaveBody(b))
         /\ Passed("createMeetingMinutes", b) = normalizeCreateBody(b)
         /\ Passed("updateMeetingMinutes", b) = convertKeysToSnakeCase(normalizeUpdateBody(b))
         /\ \A op \in {"addQuickSlot", "editQuickSlot"} : Passed(op, b) = quickSlotRequest(b)
         /\ Passed("setPreset", b) = [quick_slot_ids |-> b.quickSlotIds]
         /\ \A op : op \notin Converting => Passed(op, b) = b
BY DEF Passed, Converting

\* The rules of dto are enough for the operation op.
Enough(dto, op) == \A b : Entered(dto, b) => Sound(Passed(op, b), b)

LEMMA ConvertedPlain ==
  ASSUME NEW m, NEW b, Plainly({toSnakeCase(f) : f \in DOMAIN m})
  PROVE  Sound(convertKeysToSnakeCase(m), b)
<1>1. DOMAIN convertKeysToSnakeCase(m) = {toSnakeCase(f) : f \in DOMAIN m}
  BY DEF convertKeysToSnakeCase
<1> QED BY <1>1, PlainSound

LEMMA AllEnough ==
  /\ Enough("RefreshTokenDto", "refreshToken") /\ Enough("RefreshTokenDto", "deleteRefreshToken")
  /\ Enough("SendChatMessageDto", "sendMessage") /\ Enough("ReadChatRoomDto", "readChatRoom")
  /\ Enough("CreateMeetingMinutesDto", "saveMeetingMinutes")
  /\ Enough("CreateMeetingMinutesDto", "createMeetingMinutes")
  /\ Enough("UpdateMeetingMinutesDto", "updateMeetingMinutes")
  /\ Enough("CreateCallRoomDto", "createCallRoom")
  /\ Enough("UpdateCallRoomDto", "updateCallRoomById")
  /\ Enough("JoinCallRoomDto", "joinCallRoom")
  /\ Enough("UpdateMyInformationDto", "updateMyInformation")
  /\ Enough("UpdatePasswordDto", "updatePassword")
  /\ Enough("AddQuickSlotDto", "addQuickSlot") /\ Enough("EditQuickSlotDto", "editQuickSlot")
  /\ Enough("SetPresetDto", "setPreset")
<1>1. Enough("RefreshTokenDto", "refreshToken") /\ Enough("RefreshTokenDto", "deleteRefreshToken")
  BY PassedBy, TokenSound DEF Enough
<1>2. Enough("SendChatMessageDto", "sendMessage") /\ Enough("ReadChatRoomDto", "readChatRoom")
  BY PassedBy, MessageSound, ReadSound DEF Enough
<1>3. /\ Enough("CreateMeetingMinutesDto", "saveMeetingMinutes")
      /\ Enough("CreateMeetingMinutesDto", "createMeetingMinutes")
  BY PassedBy, SavedSound, CreatedSound DEF Enough
<1>4. /\ Enough("CreateCallRoomDto", "createCallRoom")
      /\ Enough("UpdateCallRoomDto", "updateCallRoomById")
  BY PassedBy, RoomSound DEF Enough
<1>5. /\ Enough("JoinCallRoomDto", "joinCallRoom")
      /\ Enough("UpdateMyInformationDto", "updateMyInformation")
      /\ Enough("UpdatePasswordDto", "updatePassword")
  <2>1. ASSUME NEW b, NEW dto \in {"JoinCallRoomDto", "UpdateMyInformationDto",
                 "UpdatePasswordDto"},
               Entered(dto, b)
        PROVE  Sound(convertKeysToSnakeCase(b), b)
    <3>1. DOMAIN b \in {{"password"}, {"nickname", "statusMessage"}, {"currentPassword",
            "newPassword"}}
      BY <2>1 DEF Entered, Fields
    <3>2. Plainly({toSnakeCase(f) : f \in DOMAIN b})
      BY <3>1, SnakeKeys DEF Plainly
    <3> QED BY <3>2, ConvertedPlain
  <2> QED BY <2>1, PassedBy DEF Enough
<1>6. Enough("UpdateMeetingMinutesDto", "updateMeetingMinutes")
  <2>1. ASSUME NEW b
        PROVE  Sound(convertKeysToSnakeCase(normalizeUpdateBody(b)), b)
    <3> DEFINE m == normalizeUpdateBody(b)
    <3>1. DOMAIN m = {"title", "content", "conclusion"}
      BY DEF normalizeUpdateBody
    <3> HIDE DEF m
    <3>2. Plainly({toSnakeCase(f) : f \in DOMAIN m})
      BY <3>1, SnakeKeys DEF Plainly
    <3>3. Sound(convertKeysToSnakeCase(m), b)
      BY <3>2, ConvertedPlain
    <3> QED BY <3>3 DEF m
  <2> QED BY <2>1, PassedBy DEF Enough
<1>7. /\ Enough("AddQuickSlotDto", "addQuickSlot") /\ Enough("EditQuickSlotDto", "editQuickSlot")
      /\ Enough("SetPresetDto", "setPreset")
  <2>1. ASSUME NEW b
        PROVE  /\ Sound(Passed("addQuickSlot", b), b) /\ Sound(Passed("editQuickSlot", b), b)
               /\ Sound(Passed("setPreset", b), b)
    <3> DEFINE m == quickSlotRequest(b)
               n == [quick_slot_ids |-> b.quickSlotIds]
    <3>1. Plainly(DOMAIN m) /\ Plainly(DOMAIN n)
      BY DEF quickSlotRequest, Plainly
    <3>2. /\ Passed("addQuickSlot", b) = m /\ Passed("editQuickSlot", b) = m
          /\ Passed("setPreset", b) = n
      BY PassedBy
    <3> HIDE DEF m, n
    <3> QED BY <3>1, <3>2, PlainSound
  <2> QED BY <2>1 DEF Enough
<1> QED BY <1>1, <1>2, <1>3, <1>4, <1>5, <1>6, <1>7

\* The other operations pass on what they are given.
LEMMA OthersEnough ==
  \A op : op \notin Converting =>
    /\ Enough("", op) /\ Enough("LoginDto", op) /\ Enough("EmailSendDto", op)
    /\ Enough("EmailVerificationDto", op) /\ Enough("RegisterDto", op)
    /\ Enough("GetCallRoomsQueryDto", op) /\ Enough("GetCallRoomsByKeywordQueryDto", op)
    /\ Enough("UpdateNotificationSettingDto", op) /\ Enough("CreateDirectMessageRoomDto", op)
    /\ Enough("ReplyChatRoomInvitationDto", op) /\ Enough("GetChatMessagesQueryDto", op)
<1>1. ASSUME NEW op, op \notin Converting, NEW dto, Plainly(Fields(dto))
      PROVE  Enough(dto, op)
  BY <1>1, PassedBy, PlainSound DEF Enough, Entered
<1>2. /\ Plainly(Fields("")) /\ Plainly(Fields("LoginDto")) /\ Plainly(Fields("EmailSendDto"))
      /\ Plainly(Fields("EmailVerificationDto")) /\ Plainly(Fields("RegisterDto"))
      /\ Plainly(Fields("GetCallRoomsQueryDto")) /\ Plainly(Fields("GetCallRoomsByKeywordQueryDto"))
      /\ Plainly(Fields("UpdateNotificationSettingDto"))
      /\ Plainly(Fields("CreateDirectMessageRoomDto"))
      /\ Plainly(Fields("ReplyChatRoomInvitationDto")) /\ Plainly(Fields("GetChatMessagesQueryDto"))
  BY DEF Plainly, Fields
<1> QED BY <1>1, <1>2

LEMMA PassesBy == \A r : Passes(r) <=> Enough(r.dto, r.op)
BY DEF Passes, Enough

\* The rules of the routes of each controller are enough.
LEMMA AppPasses == \A i \in DOMAIN AppController : Passes(AppController[i])
<1>1. DOMAIN AppController = 1 .. 1
  BY DEF AppController
<1>2. /\ AppController[1].dto = "" /\ AppController[1].op = "getInfo"
  BY DEF AppController, Open, Route
<1>3. /\ Passes(AppController[1])
  BY <1>2, PassesBy, OthersEnough DEF Converting
<1> QED BY <1>1, <1>3

LEMMA AuthPasses == \A i \in DOMAIN AuthController : Passes(AuthController[i])
<1>1. DOMAIN AuthController = 1 .. 8
  BY DEF AuthController
<1>2. /\ AuthController[1].dto = "LoginDto" /\ AuthController[1].op = "login"
      /\ AuthController[2].dto = "EmailSendDto" /\ AuthController[2].op = "sendEmailVerification"
      /\ AuthController[3].dto = "EmailVerificationDto" /\ AuthController[3].op = "verifyEmail"
      /\ AuthController[4].dto = "RegisterDto" /\ AuthController[4].op = "register"
      /\ AuthController[5].dto = "RefreshTokenDto" /\ AuthController[5].op = "refreshToken"
      /\ AuthController[6].dto = "RefreshTokenDto" /\ AuthController[6].op = "deleteRefreshToken"
      /\ AuthController[7].dto = "" /\ AuthController[7].op = "recover"
      /\ AuthController[8].dto = "" /\ AuthController[8].op = "logout"
  BY DEF AuthController, Open, Route
<1>3. /\ Passes(AuthController[1]) /\ Passes(AuthController[2]) /\ Passes(AuthController[3])
      /\ Passes(AuthController[4]) /\ Passes(AuthController[5]) /\ Passes(AuthController[6])
      /\ Passes(AuthController[7]) /\ Passes(AuthController[8])
  BY <1>2, PassesBy, AllEnough, OthersEnough DEF Converting
<1> QED BY <1>1, <1>3

LEMMA UsersPasses == \A i \in DOMAIN UsersController : Passes(UsersController[i])
<1>1. DOMAIN UsersController = 1 .. 6
  BY DEF UsersController
<1>2. /\ UsersController[1].dto = "" /\ UsersController[1].op = "withdrawAccount"
      /\ UsersController[2].dto = "" /\ UsersController[2].op = "getMyInformation"
      /\ UsersController[3].dto = "" /\ UsersController[3].op = "getUserInformation"
      /\ UsersController[4].dto = "UpdateMyInformationDto"
      /\ UsersController[4].op = "updateMyInformation"
      /\ UsersController[5].dto = "UpdatePasswordDto" /\ UsersController[5].op = "updatePassword"
      /\ UsersController[6].dto = "" /\ UsersController[6].op = "getSpecifyUserInformation"
  BY DEF UsersController, Guarded, Open, Route
<1>3. /\ Passes(UsersController[1]) /\ Passes(UsersController[2]) /\ Passes(UsersController[3])
      /\ Passes(UsersController[4]) /\ Passes(UsersController[5]) /\ Passes(UsersController[6])
  BY <1>2, PassesBy, AllEnough, OthersEnough DEF Converting
<1> QED BY <1>1, <1>3

LEMMA FriendPasses == \A i \in DOMAIN FriendController : Passes(FriendController[i])
<1>1. DOMAIN FriendController = 1 .. 7
  BY DEF FriendController
<1>2. /\ FriendController[1].dto = "" /\ FriendController[1].op = "sendFriendRequest"
      /\ FriendController[2].dto = "" /\ FriendController[2].op = "getFriendList"
      /\ FriendController[3].dto = "" /\ FriendController[3].op = "getFriendCount"
      /\ FriendController[4].dto = "" /\ FriendController[4].op = "getPendingFriendRequests"
      /\ FriendController[5].dto = "" /\ FriendController[5].op = "acceptFriendRequest"
      /\ FriendController[6].dto = "" /\ FriendController[6].op = "rejectFriendRequest"
      /\ FriendController[7].dto = "" /\ FriendController[7].op = "unfriend"
  BY DEF FriendController, Guarded, Route
<1>3. /\ Passes(FriendController[1]) /\ Passes(FriendController[2]) /\ Passes(FriendController[3])
      /\ Passes(FriendController[4]) /\ Passes(FriendController[5]) /\ Passes(FriendController[6])
      /\ Passes(FriendController[7])
  BY <1>2, PassesBy, OthersEnough DEF Converting
<1> QED BY <1>1, <1>3

LEMMA NotificationsPasses == \A i \in DOMAIN NotificationsController : Passes(NotificationsController[i])
<1>1. DOMAIN NotificationsController = 1 .. 4
  BY DEF NotificationsController
<1>2. /\ NotificationsController[1].dto = "" /\ NotificationsController[1].op = "subscribe"
      /\ NotificationsController[2].dto = "" /\ NotificationsController[2].op = "readNotification"
      /\ NotificationsController[3].dto = ""
      /\ NotificationsController[3].op = "getNotificationSetting"
      /\ NotificationsController[4].dto = "UpdateNotificationSettingDto"
      /\ NotificationsController[4].op = "updateNotificationSetting"
  BY DEF NotificationsController, Guarded, Route
<1>3. /\ Passes(NotificationsController[1]) /\ Passes(NotificationsController[2])
      /\ Passes(NotificationsController[3])
      /\ Passes(NotificationsController[4])
  BY <1>2, PassesBy, OthersEnough DEF Converting
<1> QED BY <1>1, <1>3

LEMMA MediasPasses == \A i \in DOMAIN MediasController : Passes(MediasController[i])
<1>1. DOMAIN MediasController = 1 .. 2
  BY DEF MediasController
<1>2. /\ MediasController[1].dto = "" /\ MediasController[1].op = "uploadMedia"
      /\ MediasController[2].dto = "" /\ MediasController[2].op = "getMediaByUUID"
  BY DEF MediasController, Guarded, Route
<1>3. /\ Passes(MediasController[1]) /\ Passes(MediasController[2])
  BY <1>2, PassesBy, OthersEnough DEF Converting
<1> QED BY <1>1, <1>3

LEMMA CallRoomsPasses == \A i \in DOMAIN CallRoomsController : Passes(CallRoomsController[i])
<1>1. DOMAIN CallRoomsController = 1 .. 8
  BY DEF CallRoomsController
<1>2. /\ CallRoomsController[1].dto = "JoinCallRoomDto"
      /\ CallRoomsController[1].op = "joinCallRoom"
      /\ CallRoomsController[2].dto = "CreateCallRoomDto"
      /\ CallRoomsController[2].op = "createCallRoom"
      /\ CallRoomsController[3].dto = "GetCallRoomsQueryDto"
      /\ CallRoomsController[3].op = "getCallRooms"
      /\ CallRoomsController[4].dto = "GetCallRoomsByKeywordQueryDto"
      /\ CallRoomsController[4].op = "getCallRoomsByKeyword"
      /\ CallRoomsController[5].dto = "" /\ CallRoomsController[5].op = "getCallRoomById"
      /\ CallRoomsController[6].dto = "UpdateCallRoomDto"
      /\ CallRoomsController[6].op = "updateCallRoomById"
      /\ CallRoomsController[7].dto = "" /\ CallRoomsController[7].op = "deleteCallRoomById"
      /\ CallRoomsController[8].dto = "" /\ CallRoomsController[8].op = "leaveCallRoomById"
  BY DEF CallRoomsController, Guarded, Open, Route
<1>3. /\ Passes(CallRoomsController[1]) /\ Passes(CallRoomsController[2])
      /\ Passes(CallRoomsController[3])
      /\ Passes(CallRoomsController[4]) /\ Passes(CallRoomsController[5])
      /\ Passes(CallRoomsController[6])
      /\ Passes(CallRoomsController[7]) /\ Passes(CallRoomsController[8])
  BY <1>2, PassesBy, AllEnough, OthersEnough DEF Converting
<1> QED BY <1>1, <1>3

LEMMA CallsPasses == \A i \in DOMAIN CallsController : Passes(CallsController[i])
<1>1. DOMAIN CallsController = 1 .. 4
  BY DEF CallsController
<1>2. /\ CallsController[1].dto = "" /\ CallsController[1].op = "joinCall"
      /\ CallsController[2].dto = "" /\ CallsController[2].op = "leaveCall"
      /\ CallsController[3].dto = "" /\ CallsController[3].op = "getCallState"
      /\ CallsController[4].dto = "" /\ CallsController[4].op = "getParticipantsByRoomIdx"
  BY DEF CallsController, Guarded, Route
<1>3. /\ Passes(CallsController[1]) /\ Passes(CallsController[2]) /\ Passes(CallsController[3])
      /\ Passes(CallsController[4])
  BY <1>2, PassesBy, OthersEnough DEF Converting
<1> QED BY <1>1, <1>3

LEMMA QuickSlotPasses == \A i \in DOMAIN QuickSlotController : Passes(QuickSlotController[i])
<1>1. DOMAIN QuickSlotController = 1 .. 6
  BY DEF QuickSlotController
<1>2. /\ QuickSlotController[1].dto = "AddQuickSlotDto"
      /\ QuickSlotController[1].op = "addQuickSlot"
      /\ QuickSlotController[2].dto = "" /\ QuickSlotController[2].op = "getUploadedQuickSlots"
      /\ QuickSlotController[3].dto = "" /\ QuickSlotController[3].op = "getActivePreset"
      /\ QuickSlotController[4].dto = "SetPresetDto" /\ QuickSlotController[4].op = "setPreset"
      /\ QuickSlotController[5].dto = "EditQuickSlotDto"
      /\ QuickSlotController[5].op = "editQuickSlot"
      /\ QuickSlotController[6].dto = "" /\ QuickSlotController[6].op = "deleteQuickSlot"
  BY DEF QuickSlotController, Guarded, Route
<1>3. /\ Passes(QuickSlotController[1]) /\ Passes(QuickSlotController[2])
      /\ Passes(QuickSlotController[3])
      /\ Passes(QuickSlotController[4]) /\ Passes(QuickSlotController[5])
      /\ Passes(QuickSlotController[6])
  BY <1>2, PassesBy, AllEnough, OthersEnough DEF Converting
<1> QED BY <1>1, <1>3

LEMMA MeetingsPasses == \A i \in DOMAIN MeetingsController : Passes(MeetingsController[i])
<1>1. DOMAIN MeetingsController = 1 .. 8
  BY DEF MeetingsController
<1>2. /\ MeetingsController[1].dto = "" /\ MeetingsController[1].op = "startMeeting"
      /\ MeetingsController[2].dto = "" /\ MeetingsController[2].op = "startMeeting"
      /\ MeetingsController[3].dto = "" /\ MeetingsController[3].op = "endMeeting"
      /\ MeetingsController[4].dto = "CreateMeetingMinutesDto"
      /\ MeetingsController[4].op = "saveMeetingMinutes"
      /\ MeetingsController[5].dto = "CreateMeetingMinutesDto"
      /\ MeetingsController[5].op = "createMeetingMinutes"
      /\ MeetingsController[6].dto = "" /\ MeetingsController[6].op = "getMeetingMinutesByRoomIdx"
      /\ MeetingsController[7].dto = "" /\ MeetingsController[7].op = "getMeetingMinutesByIdx"
      /\ MeetingsController[8].dto = "UpdateMeetingMinutesDto"
      /\ MeetingsController[8].op = "updateMeetingMinutes"
  BY DEF MeetingsController, Guarded, Route
<1>3. /\ Passes(MeetingsController[1]) /\ Passes(MeetingsController[2])
      /\ Passes(MeetingsController[3])
      /\ Passes(MeetingsController[4]) /\ Passes(MeetingsController[5])
      /\ Passes(MeetingsController[6])
      /\ Passes(MeetingsController[7]) /\ Passes(MeetingsController[8])
  BY <1>2, PassesBy, AllEnough, OthersEnough DEF Converting
<1> QED BY <1>1, <1>3

LEMMA ChatRoomsPasses == \A i \in DOMAIN ChatRoomsController : Passes(ChatRoomsController[i])
<1>1. DOMAIN ChatRoomsController = 1 .. 8
  BY DEF ChatRoomsController
<1>2. /\ ChatRoomsController[1].dto = "" /\ ChatRoomsController[1].op = "createChatRoom"
      /\ ChatRoomsController[2].dto = "" /\ ChatRoomsController[2].op = "getChatRooms"
      /\ ChatRoomsController[3].dto = "CreateDirectMessageRoomDto"
      /\ ChatRoomsController[3].op = "getOrCreateDirectMessageRoom"
      /\ ChatRoomsController[4].dto = "ReplyChatRoomInvitationDto"
      /\ ChatRoomsController[4].op = "replyInvitation"
      /\ ChatRoomsController[5].dto = "" /\ ChatRoomsController[5].op = "getChatRoom"
      /\ ChatRoomsController[6].dto = "GetChatMessagesQueryDto"
      /\ ChatRoomsController[6].op = "getMessages"
      /\ ChatRoomsController[7].dto = "SendChatMessageDto"
      /\ ChatRoomsController[7].op = "sendMessage"
      /\ ChatRoomsController[8].dto = "ReadChatRoomDto"
      /\ ChatRoomsController[8].op = "readChatRoom"
  BY DEF ChatRoomsController, Guarded, Route
<1>3. /\ Passes(ChatRoomsController[1]) /\ Passes(ChatRoomsController[2])
      /\ Passes(ChatRoomsController[3])
      /\ Passes(ChatRoomsController[4]) /\ Passes(ChatRoomsController[5])
      /\ Passes(ChatRoomsController[6])
      /\ Passes(ChatRoomsController[7]) /\ Passes(ChatRoomsController[8])
  BY <1>2, PassesBy, AllEnough, OthersEnough DEF Converting
<1> QED BY <1>1, <1>3

----------------------------------------------------------------------------
(* The routes of all controllers.                                          *)

Root(r) == IF r.path = <<>> THEN "/" ELSE r.path[1]

\* The routes of one or more controllers, whose paths begin with segments of R.
Proper(c, R) ==
  /\ IsSeq(c) /\ Apart(c)
  /\ \A i \in DOMAIN c : Faithful(c[i]) /\ Passes(c[i]) /\ Root(c[i]) \in R

LEMMA RootsDiffer ==
  ASSUME NEW r, NEW q, Faithful(r), Faithful(q), Root(r) # Root(q), Root(r) \notin PathParams
  PROVE  ~Matches(r, q)
<1>1. IsSeq(r.path) /\ IsSeq(q.path)
  BY DEF Faithful, Fits
<1>2. CASE Len(r.path) # Len(q.path)
  BY <1>2, Differ
<1>3. CASE Len(r.path) = Len(q.path)
  <2>1. r.path = <<>> <=> q.path = <<>>
    BY <1>1, <1>3, IsSeqFacts
  <2>2. r.path # <<>> /\ q.path # <<>>
    BY <2>1 DEF Root
  <2>3. 1 \in 1 .. Len(r.path)
    BY <1>1, <2>2, IsSeqFacts
  <2> QED BY <2>2, <2>3, Differ DEF Root
<1> QED BY <1>2, <1>3

LEMMA ProperTogether ==
  ASSUME NEW c, NEW d, NEW R, NEW Q, NEW U, Proper(c, R), Proper(d, Q), R \cap Q = {},
         U = R \cup Q, U \cap PathParams = {}
  PROVE  Proper(c \o d, U)
<1> DEFINE T == {c[i] : i \in DOMAIN c} \cup {d[i] : i \in DOMAIN d}
           e == c \o d
           m == Len(c)
<1>1. c \in Seq(T) /\ d \in Seq(T)
  BY DEF Proper, IsSeq
<1>2. /\ m \in Nat /\ DOMAIN c = 1 .. m /\ Len(d) \in Nat /\ DOMAIN d = 1 .. Len(d)
  BY IsSeqFacts DEF Proper
<1> HIDE DEF T
<1>3. /\ e \in Seq(T) /\ Len(e) = m + Len(d)
      /\ \A i \in 1 .. m : e[i] = c[i]
      /\ \A i \in 1 .. Len(e) : i > m => e[i] = d[i - m]
  BY <1>1
<1> HIDE DEF e, m
<1>4. IsSeq(e) /\ DOMAIN e = 1 .. Len(e)
  BY <1>3, SeqOf, IsSeqFacts
<1>5. ASSUME NEW i \in DOMAIN e
      PROVE  \/ i \in DOMAIN c /\ e[i] = c[i] /\ i <= m
             \/ i - m \in DOMAIN d /\ e[i] = d[i - m] /\ i > m
  BY <1>2, <1>3, <1>4
<1>6. \A i \in DOMAIN e : Faithful(e[i]) /\ Passes(e[i]) /\ Root(e[i]) \in U
  BY <1>5 DEF Proper
<1>7. ASSUME NEW i \in DOMAIN e, NEW j \in DOMAIN e, i < j
      PROVE  ~Matches(e[i], e[j])
  <2>0. i \in Nat /\ j \in Nat
    BY <1>2, <1>3, <1>4
  <2>1. CASE j <= m
    <3>1. i <= m
      BY <1>2, <1>7, <2>0, <2>1
    <3>2. i \in DOMAIN c /\ e[i] = c[i] /\ j \in DOMAIN c /\ e[j] = c[j]
      BY <1>2, <1>5, <2>0, <2>1, <3>1
    <3> QED BY <1>7, <3>2 DEF Proper, Apart
  <2>2. CASE i > m
    <3>1. j > m /\ i - m < j - m
      BY <1>2, <1>7, <2>0, <2>2
    <3>2. i - m \in DOMAIN d /\ e[i] = d[i - m] /\ j - m \in DOMAIN d /\ e[j] = d[j - m]
      BY <1>2, <1>5, <2>0, <2>2, <3>1
    <3> QED BY <3>1, <3>2 DEF Proper, Apart
  <2>3. CASE i <= m /\ j > m
    <3>1. i \in DOMAIN c /\ e[i] = c[i] /\ j - m \in DOMAIN d /\ e[j] = d[j - m]
      BY <1>2, <1>5, <2>0, <2>3
    <3>2. Root(e[i]) \in R /\ Root(e[j]) \in Q
      BY <3>1 DEF Proper
    <3> QED BY <1>6, <3>2, RootsDiffer
  <2> QED BY <1>2, <2>0, <2>1, <2>2, <2>3
<1>8. Apart(e)
  BY <1>7 DEF Apart
<1> QED BY <1>4, <1>6, <1>8 DEF Proper, e

\* The routes of each controller, and of all of them.
LEMMA AppProper == Proper(AppController, {"/"})
<1>0. IsSeq(AppController)
  BY Tuples DEF AppController
<1>1. DOMAIN AppController = 1 .. 1
  BY DEF AppController
<1>2. /\ Root(AppController[1]) = "/"
  BY DEF Root, AppController, Open, Route
<1>3. \A i \in DOMAIN AppController : Root(AppController[i]) \in {"/"}
  BY <1>1, <1>2
<1> QED BY <1>0, <1>3, AppFaithful, AppPasses, AppApart DEF Proper

LEMMA AuthProper == Proper(AuthController, {"auth"})
<1>0. IsSeq(AuthController)
  BY Tuples DEF AuthController
<1>1. DOMAIN AuthController = 1 .. 8
  BY DEF AuthController
<1>2. /\ Root(AuthController[1]) = "auth" /\ Root(AuthController[2]) = "auth"
      /\ Root(AuthController[3]) = "auth" /\ Root(AuthController[4]) = "auth"
      /\ Root(AuthController[5]) = "auth" /\ Root(AuthController[6]) = "auth"
      /\ Root(AuthController[7]) = "auth" /\ Root(AuthController[8]) = "auth"
  BY DEF Root, AuthController, Open, Route
<1>3. \A i \in DOMAIN AuthController : Root(AuthController[i]) \in {"auth"}
  BY <1>1, <1>2
<1> QED BY <1>0, <1>3, AuthFaithful, AuthPasses, AuthApart DEF Proper

LEMMA UsersProper == Proper(UsersController, {"users"})
<1>0. IsSeq(UsersController)
  BY Tuples DEF UsersController
<1>1. DOMAIN UsersController = 1 .. 6
  BY DEF UsersController
<1>2. /\ Root(UsersController[1]) = "users" /\ Root(UsersController[2]) = "users"
      /\ Root(UsersController[3]) = "users" /\ Root(UsersController[4]) = "users"
      /\ Root(UsersController[5]) = "users" /\ Root(UsersController[6]) = "users"
  BY DEF Root, UsersController, Guarded, Open, Route
<1>3. \A i \in DOMAIN UsersController : Root(UsersController[i]) \in {"users"}
  BY <1>1, <1>2
<1> QED BY <1>0, <1>3, UsersFaithful, UsersPasses, UsersApart DEF Proper

LEMMA FriendProper == Proper(FriendController, {"friend"})
<1>0. IsSeq(FriendController)
  BY Tuples DEF FriendController
<1>1. DOMAIN FriendController = 1 .. 7
  BY DEF FriendController
<1>2. /\ Root(FriendController[1]) = "friend" /\ Root(FriendController[2]) = "friend"
      /\ Root(FriendController[3]) = "friend" /\ Root(FriendController[4]) = "friend"
      /\ Root(FriendController[5]) = "friend" /\ Root(FriendController[6]) = "friend"
      /\ Root(FriendController[7]) = "friend"
  BY DEF Root, FriendController, Guarded, Route
<1>3. \A i \in DOMAIN FriendController : Root(FriendController[i]) \in {"friend"}
  BY <1>1, <1>2
<1> QED BY <1>0, <1>3, FriendFaithful, FriendPasses, FriendApart DEF Proper

LEMMA NotificationsProper == Proper(NotificationsController, {"notifications"})
<1>0. IsSeq(NotificationsController)
  BY Tuples DEF NotificationsController
<1>1. DOMAIN NotificationsController = 1 .. 4
  BY DEF NotificationsController
<1>2. /\ Root(NotificationsController[1]) = "notifications"
      /\ Root(NotificationsController[2]) = "notifications"
      /\ Root(NotificationsController[3]) = "notifications"
      /\ Root(NotificationsController[4]) = "notifications"
  BY DEF Root, NotificationsController, Guarded, Route
<1>3. \A i \in DOMAIN NotificationsController : Root(NotificationsController[i]) \in {"notifications"}
  BY <1>1, <1>2
<1> QED BY <1>0, <1>3, NotificationsFaithful, NotificationsPasses, NotificationsApart DEF Proper

LEMMA MediasProper == Proper(MediasController, {"medias"})
<1>0. IsSeq(MediasController)
  BY Tuples DEF MediasController
<1>1. DOMAIN MediasController = 1 .. 2
  BY DEF MediasController
<1>2. /\ Root(MediasController[1]) = "medias" /\ Root(MediasController[2]) = "medias"
  BY DEF Root, MediasController, Guarded, Route
<1>3. \A i \in DOMAIN MediasController : Root(MediasController[i]) \in {"medias"}
  BY <1>1, <1>2
<1> QED BY <1>0, <1>3, MediasFaithful, MediasPasses, MediasApart DEF Proper

LEMMA CallRoomsProper == Proper(CallRoomsController, {"call-rooms"})
<1>0. IsSeq(CallRoomsController)
  BY Tuples DEF CallRoomsController
<1>1. DOMAIN CallRoomsController = 1 .. 8
  BY DEF CallRoomsController
<1>2. /\ Root(CallRoomsController[1]) = "call-rooms" /\ Root(CallRoomsController[2]) = "call-rooms"
      /\ Root(CallRoomsController[3]) = "call-rooms" /\ Root(CallRoomsController[4]) = "call-rooms"
      /\ Root(CallRoomsController[5]) = "call-rooms" /\ Root(CallRoomsController[6]) = "call-rooms"
      /\ Root(CallRoomsController[7]) = "call-rooms" /\ Root(CallRoomsController[8]) = "call-rooms"
  BY DEF Root, CallRoomsController, Guarded, Open, Route
<1>3. \A i \in DOMAIN CallRoomsController : Root(CallRoomsController[i]) \in {"call-rooms"}
  BY <1>1, <1>2
<1> QED BY <1>0, <1>3, CallRoomsFaithful, CallRoomsPasses, CallRoomsApart DEF Proper

LEMMA CallsProper == Proper(CallsController, {"calls"})
<1>0. IsSeq(CallsController)
  BY Tuples DEF CallsController
<1>1. DOMAIN CallsController = 1 .. 4
  BY DEF CallsController
<1>2. /\ Root(CallsController[1]) = "calls" /\ Root(CallsController[2]) = "calls"
      /\ Root(CallsController[3]) = "calls" /\ Root(CallsController[4]) = "calls"
  BY DEF Root, CallsController, Guarded, Route
<1>3. \A i \in DOMAIN CallsController : Root(CallsController[i]) \in {"calls"}
  BY <1>1, <1>2
<1> QED BY <1>0, <1>3, CallsFaithful, CallsPasses, CallsApart DEF Proper

LEMMA QuickSlotProper == Proper(QuickSlotController, {"quick-slot"})
<1>0. IsSeq(QuickSlotController)
  BY Tuples DEF QuickSlotController
<1>1. DOMAIN QuickSlotController = 1 .. 6
  BY DEF QuickSlotController
<1>2. /\ Root(QuickSlotController[1]) = "quick-slot" /\ Root(QuickSlotController[2]) = "quick-slot"
      /\ Root(QuickSlotController[3]) = "quick-slot" /\ Root(QuickSlotController[4]) = "quick-slot"
      /\ Root(QuickSlotController[5]) = "quick-slot" /\ Root(QuickSlotController[6]) = "quick-slot"
  BY DEF Root, QuickSlotController, Guarded, Route
<1>3. \A i \in DOMAIN QuickSlotController : Root(QuickSlotController[i]) \in {"quick-slot"}
  BY <1>1, <1>2
<1> QED BY <1>0, <1>3, QuickSlotFaithful, QuickSlotPasses, QuickSlotApart DEF Proper

LEMMA MeetingsProper == Proper(MeetingsController, {"meetings"})
<1>0. IsSeq(MeetingsController)
  BY Tuples DEF MeetingsController
<1>1. DOMAIN MeetingsController = 1 .. 8
  BY DEF MeetingsController
<1>2. /\ Root(MeetingsController[1]) = "meetings" /\ Root(MeetingsController[2]) = "meetings"
      /\ Root(MeetingsController[3]) = "meetings" /\ Root(MeetingsController[4]) = "meetings"
      /\ Root(MeetingsController[5]) = "meetings" /\ Root(MeetingsController[6]) = "meetings"
      /\ Root(MeetingsController[7]) = "meetings" /\ Root(MeetingsController[8]) = "meetings"
  BY DEF Root, MeetingsController, Guarded, Route
<1>3. \A i \in DOMAIN MeetingsController : Root(MeetingsController[i]) \in {"meetings"}
  BY <1>1, <1>2
<1> QED BY <1>0, <1>3, MeetingsFaithful, MeetingsPasses, MeetingsApart DEF Proper

LEMMA ChatRoomsProper == Proper(ChatRoomsController, {"chat-rooms"})
<1>0. IsSeq(ChatRoomsController)
  BY Tuples DEF ChatRoomsController
<1>1. DOMAIN ChatRoomsController = 1 .. 8
  BY DEF ChatRoomsController
<1>2. /\ Root(ChatRoomsController[1]) = "chat-rooms" /\ Root(ChatRoomsController[2]) = "chat-rooms"
      /\ Root(ChatRoomsController[3]) = "chat-rooms" /\ Root(ChatRoomsController[4]) = "chat-rooms"
      /\ Root(ChatRoomsController[5]) = "chat-rooms" /\ Root(ChatRoomsController[6]) = "chat-rooms"
      /\ Root(ChatRoomsController[7]) = "chat-rooms" /\ Root(ChatRoomsController[8]) = "chat-rooms"
  BY DEF Root, ChatRoomsController, Guarded, Route
<1>3. \A i \in DOMAIN ChatRoomsController : Root(ChatRoomsController[i]) \in {"chat-rooms"}
  BY <1>1, <1>2
<1> QED BY <1>0, <1>3, ChatRoomsFaithful, ChatRoomsPasses, ChatRoomsApart DEF Proper

LEMMA RoutesProper == \E R : Proper(Routes, R)
<1> DEFINE c1 == AppController \o AuthController
           c2 == c1 \o UsersController
           c3 == c2 \o FriendController
           c4 == c3 \o NotificationsController
           c5 == c4 \o MediasController
           c6 == c5 \o CallsController
           c7 == c6 \o CallRoomsController
           c8 == c7 \o QuickSlotController
           c9 == c8 \o MeetingsController
           c10 == c9 \o ChatRoomsController
<1>0. Routes = c10
  BY DEF Routes
<1>1. Proper(c1, {"/", "auth"})
  <2>1. /\ {"/"} \cap {"auth"} = {}
        /\ {"/", "auth"} = {"/"} \cup {"auth"}
        /\ {"/", "auth"} \cap PathParams = {}
    BY ParamsKnown
  <2>2. Proper(AppController \o AuthController, {"/", "auth"})
    BY <2>1, AppProper, AuthProper, ProperTogether
  <2> QED BY <2>2 DEF c1
<1>2. Proper(c2, {"/", "auth", "users"})
  <2>1. /\ {"/", "auth"} \cap {"users"} = {}
        /\ {"/", "auth", "users"} = {"/", "auth"} \cup {"users"}
        /\ {"/", "auth", "users"} \cap PathParams = {}
    BY ParamsKnown
  <2> HIDE DEF c1
  <2>2. Proper(c1 \o UsersController, {"/", "auth", "users"})
    BY <2>1, <1>1, UsersProper, ProperTogether
  <2> QED BY <2>2 DEF c2
<1>3. Proper(c3, {"/", "auth", "users", "friend"})
  <2>1. /\ {"/", "auth", "users"} \cap {"friend"} = {}
        /\ {"/", "auth", "users", "friend"} = {"/", "auth", "users"} \cup {"friend"}
        /\ {"/", "auth", "users", "friend"} \cap PathParams = {}
    BY ParamsKnown
  <2> HIDE DEF c2
  <2>2. Proper(c2 \o FriendController, {"/", "auth", "users", "friend"})
    BY <2>1, <1>2, FriendProper, ProperTogether
  <2> QED BY <2>2 DEF c3
<1>4. Proper(c4, {"/", "auth", "users", "friend", "notifications"})
  <2>1. /\ {"/", "auth", "users", "friend"} \cap {"notifications"} = {}
        /\ {"/", "auth", "users", "friend", "notifications"} = {"/", "auth", "users",
             "friend"} \cup {"notifications"}
        /\ {"/", "auth", "users", "friend", "notifications"} \cap PathParams = {}
    BY ParamsKnown
  <2> HIDE DEF c3
  <2>2. Proper(c3 \o NotificationsController, {"/", "auth", "users", "friend", "notifications"})
    BY <2>1, <1>3, NotificationsProper, ProperTogether
  <2> QED BY <2>2 DEF c4
<1>5. Proper(c5, {"/", "auth", "users", "friend", "notifications", "medias"})
  <2>1. /\ {"/", "auth", "users", "friend", "notifications"} \cap {"medias"} = {}
        /\ {"/", "auth", "users", "friend", "notifications", "medias"} = {"/", "auth", "users",
             "friend", "notifications"} \cup {"medias"}
        /\ {"/", "auth", "users", "friend", "notifications", "medias"} \cap PathParams = {}
    BY ParamsKnown
  <2> HIDE DEF c4
  <2>2. Proper(c4 \o MediasController, {"/", "auth", "users", "friend", "notifications", "medias"})
    BY <2>1, <1>4, MediasProper, ProperTogether
  <2> QED BY <2>2 DEF c5
<1>6. Proper(c6, {"/", "auth", "users", "friend", "notifications", "medias", "calls"})
  <2>1. /\ {"/", "auth", "users", "friend", "notifications", "medias"} \cap {"calls"} = {}
        /\ {"/", "auth", "users", "friend", "notifications", "medias", "calls"} = {"/",
             "auth", "users", "friend", "notifications", "medias"} \cup {"calls"}
        /\ {"/", "auth", "users", "friend", "notifications", "medias",
             "calls"} \cap PathParams = {}
    BY ParamsKnown
  <2> HIDE DEF c5
  <2>2. Proper(c5 \o CallsController, {"/", "auth", "users", "friend", "notifications",
          "medias", "calls"})
    BY <2>1, <1>5, CallsProper, ProperTogether
  <2> QED BY <2>2 DEF c6
<1>7. Proper(c7, {"/", "auth", "users", "friend", "notifications", "medias", "calls", "call-rooms"})
  <2>1. /\ {"/", "auth", "users", "friend", "notifications", "medias",
             "calls"} \cap {"call-rooms"} = {}
        /\ {"/", "auth", "users", "friend", "notifications", "medias", "calls",
             "call-rooms"} = {"/", "auth", "users", "friend", "notifications", "medias",
             "calls"} \cup {"call-rooms"}
        /\ {"/", "auth", "users", "friend", "notifications", "medias", "calls",
             "call-rooms"} \cap PathParams = {}
    BY ParamsKnown
  <2> HIDE DEF c6
  <2>2. Proper(c6 \o CallRoomsController, {"/", "auth", "users", "friend", "notifications", "medias",
          "calls", "call-rooms"})
    BY <2>1, <1>6, CallRoomsProper, ProperTogether
  <2> QED BY <2>2 DEF c7
<1>8. Proper(c8, {"/", "auth", "users", "friend", "notifications", "medias", "calls",
        "call-rooms", "quick-slot"})
  <2>1. /\ {"/", "auth", "users", "friend", "notifications", "medias", "calls",
             "call-rooms"} \cap {"quick-slot"} = {}
        /\ {"/", "auth", "users", "friend", "notifications", "medias", "calls", "call-rooms",
             "quick-slot"} = {"/", "auth", "users", "friend", "notifications", "medias",
             "calls", "call-rooms"} \cup {"quick-slot"}
        /\ {"/", "auth", "users", "friend", "notifications", "medias", "calls", "call-rooms",
             "quick-slot"} \cap PathParams = {}
    BY ParamsKnown
  <2> HIDE DEF c7
  <2>2. Proper(c7 \o QuickSlotController, {"/", "auth", "users", "friend", "notifications",
          "medias", "calls", "call-rooms", "quick-slot"})
    BY <2>1, <1>7, QuickSlotProper, ProperTogether
  <2> QED BY <2>2 DEF c8
<1>9. Proper(c9, {"/", "auth", "users", "friend", "notifications", "medias", "calls",
        "call-rooms", "quick-slot", "meetings"})
  <2>1. /\ {"/", "auth", "users", "friend", "notifications", "medias", "calls", "call-rooms",
             "quick-slot"} \cap {"meetings"} = {}
        /\ {"/", "auth", "users", "friend", "notifications", "medias", "calls", "call-rooms",
             "quick-slot", "meetings"} = {"/", "auth", "users", "friend", "notifications",
             "medias", "calls", "call-rooms", "quick-slot"} \cup {"meetings"}
        /\ {"/", "auth", "users", "friend", "notifications", "medias", "calls", "call-rooms",
             "quick-slot", "meetings"} \cap PathParams = {}
    BY ParamsKnown
  <2> HIDE DEF c8
  <2>2. Proper(c8 \o MeetingsController, {"/", "auth", "users", "friend", "notifications",
          "medias", "calls", "call-rooms", "quick-slot", "meetings"})
    BY <2>1, <1>8, MeetingsProper, ProperTogether
  <2> QED BY <2>2 DEF c9
<1>10. Proper(c10, {"/", "auth", "users", "friend", "notifications", "medias", "calls",
         "call-rooms", "quick-slot", "meetings", "chat-rooms"})
  <2>1. /\ {"/", "auth", "users", "friend", "notifications", "medias", "calls", "call-rooms",
             "quick-slot", "meetings"} \cap {"chat-rooms"} = {}
        /\ {"/", "auth", "users", "friend", "notifications", "medias", "calls", "call-rooms",
             "quick-slot", "meetings", "chat-rooms"} = {"/", "auth", "users", "friend",
             "notifications", "medias", "calls", "call-rooms", "quick-slot",
             "meetings"} \cup {"chat-rooms"}
        /\ {"/", "auth", "users", "friend", "notifications", "medias", "calls", "call-rooms",
             "quick-slot", "meetings", "chat-rooms"} \cap PathParams = {}
    BY ParamsKnown
  <2> HIDE DEF c9
  <2>2. Proper(c9 \o ChatRoomsController, {"/", "auth", "users", "friend", "notifications",
          "medias", "calls", "call-rooms", "quick-slot", "meetings", "chat-rooms"})
    BY <2>1, <1>9, ChatRoomsProper, ProperTogether
  <2> QED BY <2>2 DEF c10
<1> QED BY <1>0, <1>10

\* The first matching route is the one that the client meant.
LEMMA RouteMeant ==
  ASSUME NEW q \in Requests, Matching(q) # {}
  PROVE  /\ q.aim \in DOMAIN Routes /\ RouteOf(q) = Routes[q.aim]
         /\ Faithful(Routes[q.aim]) /\ Passes(Routes[q.aim]) /\ Fills(q, Routes[q.aim])
<1> DEFINE n == q.aim
<1>0. n \in DOMAIN Routes /\ Fills(q, Routes[n])
  BY RequestsAssumption
<1>1. PICK R : Proper(Routes, R)
  BY RoutesProper
<1>2. DOMAIN Routes = 1 .. Len(Routes) /\ Len(Routes) \in Nat /\ n \in Nat
  BY <1>0, <1>1, IsSeqFacts DEF Proper
<1>3. n \in Matching(q)
  BY <1>0, <1>2 DEF Matching, Fills
<1> HIDE DEF n
<1>4. ASSUME NEW i \in Matching(q), i < n
      PROVE  FALSE
  <2>1. i \in DOMAIN Routes /\ Matches(Routes[i], q)
    BY <1>2 DEF Matching
  <2> DEFINE r == Routes[i]
             t == Routes[n]
  <2>2. r.verb = t.verb /\ Len(r.path) = Len(t.path)
    BY <1>0, <2>1 DEF Fills, Matches
  <2>3. IsSeq(r.path) /\ IsSeq(t.path)
    BY <1>0, <1>1, <2>1 DEF Proper, Faithful, Fits
  <2>4. ASSUME NEW k \in 1 .. Len(r.path), r.path[k] \notin PathParams
        PROVE  r.path[k] = t.path[k]
    <3>1. r.path[k] = q.path[k] /\ k \in DOMAIN r.path /\ k \in DOMAIN t.path
      BY <2>1, <2>2, <2>3, <2>4, IsSeqFacts DEF Matches
    <3>2. r.path[k] \in Literals
      <4>1. r.path[k] \in S!ToSet(Routes[i].path)
        BY <3>1 DEF S!ToSet
      <4> QED BY <2>1, <2>4, <4>1 DEF Literals
    <3>3. t.path[k] \notin PathParams
      BY <1>0, <3>1, <3>2 DEF Fills
    <3>4. t.path[k] = q.path[k]
      BY <1>0, <2>2, <3>3 DEF Fills, Matches
    <3> QED BY <3>1, <3>4
  <2>5. Matches(r, t)
    BY <2>2, <2>4 DEF Matches
  <2> QED BY <1>0, <1>1, <1>4, <2>1, <2>5 DEF Proper, Apart
<1>5. \A i \in Matching(q) : n <= i
  BY <1>2, <1>4 DEF Matching
<1>6. ASSUME NEW i \in Matching(q), \A j \in Matching(q) : i <= j
      PROVE  i = n
  BY <1>2, <1>3, <1>5, <1>6 DEF Matching
<1>7. RouteOf(q) = Routes[n]
  BY <1>3, <1>5, <1>6 DEF RouteOf
<1> QED BY <1>0, <1>1, <1>7 DEF Proper, n

----------------------------------------------------------------------------
(* An answer and its reasons.                                              *)

Illustrates(s) == request.file /\ SetsImage(s)

Free(s) == ~Ends(s) /\ s.kind # "join" /\ ~Illustrates(s) /\ s.kind \notin OnBehalf

\* What the step e is to the step s that follows it.
Follows(e, s) ==
  /\ Ends(s) => e.kind = "core" /\ e.as = s.as
  /\ s.kind = "join" <=> e.kind = "resolve"
  /\ Illustrates(s) => e.kind = "image"
  /\ s.kind \in OnBehalf => e.kind \in OnBehalf \/ (Creates(e) /\ e.as # {})

Ordered(l) ==
  /\ IsSeq(l)
  /\ \A i \in 1 .. Len(l) - 1 : Follows(l[i], l[i + 1])
  /\ \A i, j \in DOMAIN l : i < j /\ l[i].kind = "detail" => l[j].kind = "detail"
  /\ l # <<>> => l[Len(l)].kind # "resolve"
  /\ \A i \in DOMAIN l :
       /\ l[i].kind \in {"dm", "find"} => Free(l[Len(l)])
       /\ l[i].kind = "find" => i < Len(l) /\ Free(l[Len(l) - 1])

\* The reason that an entry of the log gives to what comes after it.
Reason(e, s) ==
  /\ Ends(s) => e.outcome = "done" /\ e.step.as = s.as
  /\ s.kind = "join" => e.step.kind = "resolve" /\ e.outcome = "absent"
  /\ Illustrates(s) => e.step.kind = "image" /\ e.outcome = "done"
  /\ s.kind \in OnBehalf =>
       \/ e.step.kind \in OnBehalf
       \/ Creates(e.step) /\ e.step.as # {} /\ e.outcome = "done"

Reasoned ==
  \A i \in DOMAIN log :
    IF i = 1 THEN Free(log[i].step) ELSE Reason(log[i - 1], log[i].step)

NextReasoned ==
  todo # <<>> => IF log = <<>> THEN Free(todo[1]) ELSE Reason(log[Len(log)], todo[1])

AllDone == \A i \in DOMAIN log : Required(log[i]) => log[i].outcome = "done"
DetailsLast ==
  (\E i \in DOMAIN log : log[i].step.kind = "detail") =>
    \A i \in DOMAIN todo : todo[i].kind = "detail"

RunInv ==
  /\ IsSeq(log) /\ Reasoned
  /\ stage \in {"idle", "received"} => log = <<>>
  /\ stage \in {"idle", "received", "running"} => answer = "none"
  /\ stage = "running" => Ordered(todo) /\ NextReasoned /\ AllDone /\ DetailsLast
  /\ AnswerTellsOutcome

\* What is shown of the tables.
StepsInOrder ==
  stage = "received" /\ Matching(request) # {} =>
    LET l == Steps(RouteOf(request), request) IN Ordered(l) /\ (l # <<>> => Free(l[1]))

LEMMA TailOrdered ==
  ASSUME NEW l, Ordered(l), l # <<>>
  PROVE  Ordered(Tail(l))
<1>1. /\ IsSeq(Tail(l)) /\ Len(Tail(l)) = Len(l) - 1 /\ Len(l) \in Nat /\ Len(l) # 0
      /\ DOMAIN Tail(l) = 1 .. Len(l) - 1 /\ DOMAIN l = 1 .. Len(l)
      /\ \A i \in 1 .. Len(l) - 1 : Tail(l)[i] = l[i + 1]
  BY TailOf, IsSeqFacts DEF Ordered
<1>2. \A i \in 1 .. Len(Tail(l)) - 1 : Follows(Tail(l)[i], Tail(l)[i + 1])
  <2> TAKE i \in 1 .. Len(Tail(l)) - 1
  <2>1. i + 1 \in 1 .. Len(l) - 1 /\ i \in 1 .. Len(l) - 1
    BY <1>1
  <2>2. Follows(l[i + 1], l[(i + 1) + 1])
    BY <2>1 DEF Ordered
  <2> QED BY <1>1, <2>1, <2>2
<1>3. ASSUME NEW i \in DOMAIN Tail(l), NEW j \in DOMAIN Tail(l), i < j, Tail(l)[i].kind = "detail"
      PROVE  Tail(l)[j].kind = "detail"
  <2>1. i + 1 \in DOMAIN l /\ j + 1 \in DOMAIN l /\ i + 1 < j + 1
    BY <1>1, <1>3
  <2>2. l[i + 1].kind = "detail" => l[j + 1].kind = "detail"
    BY <2>1 DEF Ordered
  <2> QED BY <1>1, <1>3, <2>2
<1>4. Tail(l) # <<>> => Tail(l)[Len(Tail(l))].kind # "resolve"
  <2> SUFFICES ASSUME Tail(l) # <<>> PROVE Tail(l)[Len(Tail(l))].kind # "resolve"
    OBVIOUS
  <2>1. Len(Tail(l)) # 0
    BY <1>1, IsSeqFacts
  <2>2. Tail(l)[Len(Tail(l))] = l[Len(l)]
    BY <1>1, <2>1
  <2> QED BY <2>2 DEF Ordered
<1>5. ASSUME NEW i \in DOMAIN Tail(l)
      PROVE  /\ Tail(l)[i].kind \in {"dm", "find"} => Free(Tail(l)[Len(Tail(l))])
             /\ Tail(l)[i].kind = "find" =>
                  i < Len(Tail(l)) /\ Free(Tail(l)[Len(Tail(l)) - 1])
  <2> DEFINE n == Len(l)
             m == Tail(l)
  <2>1. /\ n \in Nat /\ i \in 1 .. n - 1 /\ i + 1 \in DOMAIN l /\ Len(m) = n - 1
        /\ \A j \in 1 .. n - 1 : m[j] = l[j + 1]
    BY <1>1
  <2>2. /\ l[i + 1].kind \in {"dm", "find"} => Free(l[n])
        /\ l[i + 1].kind = "find" => i + 1 < n /\ Free(l[n - 1])
    BY <2>1 DEF Ordered
  <2> HIDE DEF n, m
  <2>3. m[i] = l[i + 1] /\ m[n - 1] = l[n]
    BY <2>1
  <2>4. i + 1 < n => m[n - 1 - 1] = l[n - 1]
    BY <2>1
  <2>5. m[i].kind = "find" => i < n - 1 /\ Free(m[n - 1 - 1])
    BY <2>1, <2>2, <2>3, <2>4
  <2> QED BY <2>1, <2>2, <2>3, <2>5 DEF m
<1> QED BY <1>1, <1>2, <1>3, <1>4, <1>5 DEF Ordered

\* The log after a step.
LEMMA LogAfter ==
  ASSUME RunInv, stage = "running", todo # <<>>, NEW o, log' = Logged(o), request' = request
  PROVE  LET e == [step |-> Head(todo), outcome |-> o] IN
         /\ IsSeq(log)' /\ Reasoned'
         /\ Len(log) \in Nat /\ DOMAIN log = 1 .. Len(log)
         /\ Len(log') = Len(log) + 1 /\ DOMAIN log' = 1 .. Len(log) + 1
         /\ log'[Len(log) + 1] = e /\ \A i \in 1 .. Len(log) : log'[i] = log[i]
<1> DEFINE e == [step |-> Head(todo), outcome |-> o]
<1>1. log' = Append(log, e) /\ IsSeq(log) /\ Len(log) \in Nat /\ DOMAIN log = 1 .. Len(log)
  BY IsSeqFacts DEF Logged, RunInv
<1>2. Ordered(todo) /\ NextReasoned /\ Head(todo) = todo[1] /\ Reasoned
  BY IsSeqFacts DEF RunInv, Ordered
<1>3. /\ IsSeq(log') /\ Len(log') = Len(log) + 1 /\ log'[Len(log) + 1] = e
      /\ \A i \in 1 .. Len(log) : log'[i] = log[i]
  BY <1>1, AppendTo
<1>4. DOMAIN log' = 1 .. Len(log) + 1
  BY <1>1, <1>3, IsSeqFacts
<1>5. e.step = todo[1]
  BY <1>2
<1> HIDE DEF e
<1>6. ASSUME NEW i \in DOMAIN log'
      PROVE  IF i = 1 THEN Free(log'[i].step) ELSE Reason(log'[i - 1], log'[i].step)
  <2>1. CASE i \in 1 .. Len(log)
    <3>1. log'[i] = log[i] /\ (i # 1 => i - 1 \in 1 .. Len(log) /\ log'[i - 1] = log[i - 1])
      BY <1>1, <1>3, <2>1
    <3>2. IF i = 1 THEN Free(log[i].step) ELSE Reason(log[i - 1], log[i].step)
      BY <1>1, <1>2, <2>1 DEF Reasoned
    <3> QED BY <3>1, <3>2
  <2>2. CASE i = Len(log) + 1
    <3>1. CASE log = <<>>
      <4>1. i = 1 /\ Free(todo[1])
        BY <1>2, <2>2, <3>1 DEF NextReasoned
      <4> QED BY <1>3, <1>5, <2>2, <4>1
    <3>2. CASE log # <<>>
      <4>1. Len(log) # 0 /\ Reason(log[Len(log)], todo[1])
        BY <1>1, <1>2, <3>2, IsSeqFacts DEF NextReasoned
      <4>2. i # 1 /\ i - 1 = Len(log) /\ Len(log) \in 1 .. Len(log)
        BY <1>1, <2>2, <4>1
      <4>3. log'[i - 1] = log[Len(log)]
        BY <1>3, <4>2
      <4> QED BY <1>3, <1>5, <2>2, <4>1, <4>2, <4>3
    <3> QED BY <3>1, <3>2
  <2> QED BY <1>1, <1>4, <1>6, <2>1, <2>2
<1>7. Reasoned'
  BY <1>6 DEF Reasoned, Free, Reason, Ends, Illustrates, SetsImage
<1> QED BY <1>1, <1>3, <1>4, <1>7 DEF e, IsSeq

LEMMA GoesOn ==
  ASSUME RunInv, stage = "running", todo # <<>>, NEW o, NEW rest, GoOn(o, rest), Ordered(rest),
         rest # <<>> => Reason([step |-> Head(todo), outcome |-> o], rest[1]),
         Required([step |-> Head(todo), outcome |-> o]) => o = "done",
         Head(todo).kind = "detail" \/ (\A i \in DOMAIN todo : todo[i].kind = "detail") =>
           \A i \in DOMAIN rest : rest[i].kind = "detail"
  PROVE  RunInv'
<1> DEFINE e == [step |-> Head(todo), outcome |-> o]
<1>0. log' = Logged(o) /\ request' = request /\ todo' = rest /\ stage' = "running" /\ answer' = "none"
  BY DEF GoOn, RunInv
<1>1. /\ IsSeq(log)' /\ Reasoned'
      /\ Len(log) \in Nat /\ DOMAIN log = 1 .. Len(log)
      /\ Len(log') = Len(log) + 1 /\ DOMAIN log' = 1 .. Len(log) + 1
      /\ log'[Len(log) + 1] = e /\ \A i \in 1 .. Len(log) : log'[i] = log[i]
  BY <1>0, LogAfter
<1>2. (Required(e) => e.outcome = "done") /\ (rest # <<>> => Reason(e,
        rest[1])) /\ e.step = Head(todo)
  OBVIOUS
<1> HIDE DEF e
<1>3. AllDone'
  BY <1>1, <1>2 DEF AllDone, RunInv, Required
<1>4. DetailsLast'
  BY <1>0, <1>1, <1>2 DEF DetailsLast, RunInv
<1>5. NextReasoned'
  <2>1. log' # <<>>
    BY <1>1
  <2>2. log'[Len(log')] = e
    BY <1>1
  <2> QED BY <1>0, <1>2, <2>1, <2>2 DEF NextReasoned, Reason, Ends, Illustrates, SetsImage
<1>6. Ordered(todo)'
  BY <1>0 DEF Ordered, Follows, Free, Ends, Illustrates, SetsImage, IsSeq
<1>7. AnswerTellsOutcome'
  BY <1>0 DEF AnswerTellsOutcome
<1> QED BY <1>0, <1>1, <1>3, <1>4, <1>5, <1>6, <1>7 DEF RunInv

LEMMA Ending ==
  ASSUME RunInv, stage = "running", todo # <<>>, NEW o, NEW error, Throw(o, error),
         error \in {"badRequest", "serverError", "coreRefusal", "forbidden", "notImplemented"},
         Head(todo).kind # "detail",
         error = "coreRefusal" =>
           o \in {"absent", "refused"} /\ Required([step |-> Head(todo), outcome |-> o])
  PROVE  RunInv'
<1> DEFINE e == [step |-> Head(todo), outcome |-> o]
<1>0. log' = Logged(o) /\ request' = request /\ stage' = "answered" /\ answer' = error
  BY DEF Throw, RunInv
<1>1. /\ IsSeq(log)' /\ Reasoned'
      /\ Len(log) \in Nat /\ DOMAIN log = 1 .. Len(log)
      /\ Len(log') = Len(log) + 1 /\ DOMAIN log' = 1 .. Len(log) + 1
      /\ log'[Len(log) + 1] = e /\ \A i \in 1 .. Len(log) : log'[i] = log[i]
  BY <1>0, LogAfter
<1>2. /\ error = "coreRefusal" => e.outcome \in {"absent", "refused"} /\ Required(e)
      /\ e.step = Head(todo)
  OBVIOUS
<1> HIDE DEF e
<1>3. \A i \in DOMAIN log : Required(log[i]) => log[i].outcome = "done"
  BY DEF RunInv, AllDone
<1>4. error = "coreRefusal" =>
        \A i \in DOMAIN log' :
          Required(log'[i]) => (log'[i].outcome \in {"absent", "refused"}) = (i = Len(log'))
  BY <1>1, <1>2, <1>3 DEF Required
<1>5. ~ \E i \in DOMAIN log' : log'[i].step.kind = "detail"
  <2>1. ~ \E i \in DOMAIN log : log[i].step.kind = "detail"
    <3>1. 1 \in DOMAIN todo /\ todo[1] = Head(todo)
      BY IsSeqFacts DEF RunInv, Ordered
    <3> QED BY <3>1 DEF RunInv, DetailsLast
  <2> QED BY <1>1, <1>2, <2>1
<1>6. AnswerTellsOutcome'
  <2>1. \A f \in Taken' : f.step.kind # "detail"
    BY <1>5 DEF Taken, S!ToSet
  <2> QED BY <1>0, <1>4, <2>1 DEF AnswerTellsOutcome, Required
<1> QED BY <1>0, <1>1, <1>6 DEF RunInv

LEMMA BeforeHandler ==
  ASSUME RunInv, StepsInOrder, Arrive \/ NoRoute \/ Unauthorized \/ BadRequest \/ Dispatch
  PROVE  RunInv'
<1>1. log = <<>> /\ log' = <<>>
  BY DEF RunInv, Arrive, NoRoute, Unauthorized, BadRequest, Dispatch, Reject
<1>2. IsSeq(log)' /\ Reasoned' /\ AllDone' /\ DetailsLast' /\ Taken' = {}
  BY <1>1, SeqOf DEF Reasoned, AllDone, DetailsLast, Taken, S!ToSet, IsSeq
<1>3. CASE Arrive
  BY <1>1, <1>2, <1>3 DEF Arrive, RunInv, AnswerTellsOutcome
<1>4. CASE NoRoute \/ Unauthorized \/ BadRequest
  <2>1. stage' = "answered"
    BY <1>4 DEF NoRoute, Unauthorized, BadRequest, Reject
  <2>2. answer' \in {"AUTH_007", "AUTH_002", "AUTH_001", "notFound", "badRequest"}
    BY <1>4 DEF NoRoute, Unauthorized, BadRequest, Reject, TokenError
  <2> QED BY <1>1, <1>2, <2>1, <2>2 DEF RunInv, AnswerTellsOutcome
<1>5. CASE Dispatch
  <2> DEFINE l == Steps(RouteOf(request), request)
  <2>1. todo' = l /\ request' = request /\ stage' = "running" /\ answer' = "none"
    BY <1>5 DEF Dispatch, RunInv
  <2>2. Ordered(l) /\ (l # <<>> => Free(l[1]))
    BY <1>5 DEF StepsInOrder, Dispatch
  <2> HIDE DEF l
  <2>3. Ordered(todo)'
    BY <2>1, <2>2 DEF Ordered, Follows, Free, Ends, Illustrates, SetsImage, IsSeq
  <2>4. NextReasoned'
    BY <1>1, <2>1, <2>2 DEF NextReasoned, Free, Ends, Illustrates, SetsImage
  <2> QED BY <1>1, <1>2, <2>1, <2>3, <2>4 DEF RunInv, AnswerTellsOutcome
<1> QED BY <1>3, <1>4, <1>5

\* The head and the tail of what is left.
LEMMA Rest ==
  ASSUME RunInv, stage = "running", todo # <<>>
  PROVE  /\ Ordered(todo) /\ Ordered(Tail(todo)) /\ Head(todo) = todo[1]
         /\ Len(todo) \in Nat /\ Len(todo) # 0 /\ DOMAIN todo = 1 .. Len(todo)
         /\ Len(Tail(todo)) = Len(todo) - 1 /\ DOMAIN Tail(todo) = 1 .. Len(todo) - 1
         /\ \A i \in 1 .. Len(todo) - 1 : Tail(todo)[i] = todo[i + 1]
         /\ Tail(todo) # <<>> => Len(todo) > 1 /\ Follows(Head(todo), Tail(todo)[1])
         /\ Head(todo).kind = "resolve" => Tail(todo) # <<>>
         /\ Head(todo).kind = "detail" \/ (\A i \in DOMAIN todo : todo[i].kind = "detail") =>
              \A i \in DOMAIN Tail(todo) : Tail(todo)[i].kind = "detail"
<1>1. Ordered(todo) /\ IsSeq(todo)
  BY DEF RunInv, Ordered
<1>2. /\ Head(todo) = todo[1] /\ Len(todo) \in Nat /\ Len(todo) # 0 /\ DOMAIN todo = 1 .. Len(todo)
      /\ IsSeq(Tail(todo)) /\ Len(Tail(todo)) = Len(todo) - 1
      /\ \A i \in 1 .. Len(todo) - 1 : Tail(todo)[i] = todo[i + 1]
  BY <1>1, IsSeqFacts, TailOf
<1>3. Ordered(Tail(todo)) /\ DOMAIN Tail(todo) = 1 .. Len(todo) - 1
  BY <1>1, <1>2, TailOrdered, IsSeqFacts
<1>4. Tail(todo) # <<>> => Len(todo) > 1
  BY <1>2, IsSeqFacts
<1>5. Tail(todo) # <<>> => Follows(Head(todo), Tail(todo)[1])
  <2> SUFFICES ASSUME Tail(todo) # <<>> PROVE Follows(Head(todo), Tail(todo)[1])
    OBVIOUS
  <2>1. 1 \in 1 .. Len(todo) - 1
    BY <1>2, <1>4
  <2>2. Follows(todo[1], todo[1 + 1])
    BY <1>1, <2>1 DEF Ordered
  <2> QED BY <1>2, <2>1, <2>2
<1>6. Head(todo).kind = "resolve" => Tail(todo) # <<>>
  <2> SUFFICES ASSUME Head(todo).kind = "resolve", Tail(todo) = <<>> PROVE FALSE
    OBVIOUS
  <2> DEFINE n == Len(todo)
             t == Len(Tail(todo))
  <2>1. n \in Nat /\ t = n - 1 /\ t = 0
    BY <1>2, IsSeqFacts
  <2> HIDE DEF n, t
  <2>2. n = 1
    BY <2>1
  <2> QED BY <1>1, <1>2, <2>2 DEF Ordered, n
<1>7. ASSUME Head(todo).kind = "detail" \/ (\A i \in DOMAIN todo : todo[i].kind = "detail"),
             NEW i \in DOMAIN Tail(todo)
      PROVE  Tail(todo)[i].kind = "detail"
  <2>1. i \in 1 .. Len(todo) - 1 /\ i + 1 \in DOMAIN todo /\ 1 \in DOMAIN todo /\ 1 < i + 1
    BY <1>2, <1>3
  <2>2. todo[1].kind = "detail" => todo[i + 1].kind = "detail"
    BY <1>1, <2>1 DEF Ordered
  <2> QED BY <1>2, <1>7, <2>1, <2>2
<1> QED BY <1>1, <1>2, <1>3, <1>4, <1>5, <1>6, <1>7

\* A step that was done, and no question about the call of a room, leads to the next.
LEMMA StepDone ==
  ASSUME RunInv, stage = "running", todo # <<>>, GoOn("done", Tail(todo)),
         Head(todo).kind # "resolve"
  PROVE  RunInv'
<1>1. Tail(todo) # <<>> => Reason([step |-> Head(todo), outcome |-> "done"], Tail(todo)[1])
  BY Rest DEF Follows, Reason
<1> QED BY <1>1, Rest, GoesOn

\* The look-ups of a direct-message room may lead to what comes last.
LEMMA Shortcut ==
  ASSUME RunInv, stage = "running", todo # <<>>, NEW rest, GoOn("done", rest),
         \/ Head(todo).kind = "dm" /\ rest = <<todo[Len(todo)]>>
         \/ Head(todo).kind = "find" /\ rest = <<todo[Len(todo) - 1], todo[Len(todo)]>>
  PROVE  RunInv'
<1> DEFINE n == Len(todo)
           e == [step |-> Head(todo), outcome |-> "done"]
<1>1. /\ Ordered(todo) /\ Head(todo) = todo[1] /\ n \in Nat /\ n # 0 /\ DOMAIN todo = 1 .. n
  BY Rest
<1>2. /\ 1 \in DOMAIN todo /\ n \in DOMAIN todo
  BY <1>1
<1>3. /\ todo[n].kind \notin {"resolve", "find"} /\ Free(todo[n])
      /\ Head(todo).kind = "find" => 1 < n /\ Free(todo[n - 1])
  BY <1>1, <1>2 DEF Ordered
<1>4. ~(Head(todo).kind = "detail" \/ (\A i \in DOMAIN todo : todo[i].kind = "detail"))
  BY <1>1, <1>2
<1>5. \A s : Free(s) => Reason(e, s)
  BY DEF Free, Reason
<1> HIDE DEF n, e
<1>6. CASE Head(todo).kind = "dm" /\ rest = <<todo[n]>>
  <2>1. IsSeq(rest) /\ Len(rest) = 1 /\ DOMAIN rest = 1 .. 1 /\ rest[1] = todo[n]
    BY <1>6, Tuples
  <2>2. Ordered(rest)
    BY <1>3, <2>1 DEF Ordered
  <2>3. Reason(e, rest[1])
    BY <1>3, <1>5, <2>1
  <2> QED BY <1>4, <2>2, <2>3, GoesOn DEF e
<1>7. CASE Head(todo).kind = "find" /\ rest = <<todo[n - 1], todo[n]>>
  <2>1. /\ IsSeq(rest) /\ Len(rest) = 2 /\ DOMAIN rest = 1 .. 2
        /\ rest[1] = todo[n - 1] /\ rest[2] = todo[n]
    BY <1>7, Tuples
  <2>2. 1 < n /\ n - 1 \in 1 .. n - 1 /\ (n - 1) + 1 = n /\ n - 1 \in DOMAIN todo
    BY <1>1, <1>3, <1>7
  <2>3. /\ Follows(todo[n - 1], todo[(n - 1) + 1])
        /\ todo[n - 1].kind = "detail" => todo[n].kind = "detail"
    BY <1>1, <1>2, <2>2 DEF Ordered, n
  <2>4. Follows(rest[1], rest[2]) /\ (rest[1].kind = "detail" => rest[2].kind = "detail")
    BY <2>1, <2>2, <2>3
  <2>5. Ordered(rest)
    BY <1>3, <1>7, <2>1, <2>4 DEF Ordered
  <2>6. Reason(e, rest[1])
    BY <1>3, <1>5, <1>7, <2>1
  <2> QED BY <1>4, <2>5, <2>6, GoesOn DEF e
<1> QED BY <1>6, <1>7 DEF n

LEMMA CoreStep ==
  ASSUME RunInv, CoreDoes
  PROVE  RunInv'
<1>1. stage = "running" /\ todo # <<>>
  BY DEF CoreDoes, Asking, Running
<1>2. PICK rest \in Rests : GoOn("done", rest)
  BY DEF CoreDoes
<1> DEFINE e == [step |-> Head(todo), outcome |-> "done"]
<1>3. CASE Head(todo).kind = "resolve"
  <2>1. rest = Tail(Tail(todo)) /\ Tail(todo) # <<>> /\ Tail(todo)[1].kind = "join"
    BY <1>1, <1>2, <1>3, Rest DEF Rests, Follows
  <2>2. Ordered(Tail(todo)) /\ IsSeq(Tail(todo))
    BY <1>1, Rest DEF Ordered
  <2> DEFINE m == Len(Tail(todo))
  <2>3. /\ Ordered(Tail(Tail(todo))) /\ m \in Nat /\ IsSeq(Tail(Tail(todo)))
        /\ Len(Tail(Tail(todo))) = m - 1
        /\ \A i \in 1 .. m - 1 : Tail(Tail(todo))[i] = Tail(todo)[i + 1]
    BY <2>1, <2>2, TailOrdered, TailOf, IsSeqFacts
  <2>4. rest # <<>> => Reason(e, rest[1])
    <3> SUFFICES ASSUME rest # <<>> PROVE Reason(e, rest[1])
      OBVIOUS
    <3>1. m - 1 # 0 /\ m - 1 \in Nat
      BY <2>1, <2>3, IsSeqFacts
    <3>2. 1 \in 1 .. m - 1
      <4> HIDE DEF m
      <4> QED BY <2>3, <3>1
    <3>3. Follows(Tail(todo)[1], Tail(todo)[1 + 1])
      BY <2>2, <3>2 DEF Ordered
    <3>4. Free(Tail(todo)[2])
      BY <2>1, <3>3 DEF Follows, Free, OnBehalf, Creates
    <3> QED BY <2>1, <2>3, <3>2, <3>4 DEF Free, Reason
  <2>5. Head(todo).kind = "detail" \/ (\A i \in DOMAIN todo : todo[i].kind = "detail") =>
          \A i \in DOMAIN rest : rest[i].kind = "detail"
    BY <1>1, <1>3, Rest
  <2> QED BY <1>1, <1>2, <2>1, <2>3, <2>4, <2>5, GoesOn
<1>4. CASE Head(todo).kind = "core" /\ Len(todo) = 2 /\ todo[2].kind = "detail"
  <2>1. PICK n \in 0 .. MaxList : rest = [i \in 1 .. n |-> todo[2]]
    BY <1>2, <1>4 DEF Rests
  <2>2. n \in Nat /\ rest = [i \in 1 .. n |-> rest[i]]
    BY <2>1, MaxListAssumption
  <2>3. IsSeq(rest) /\ Len(rest) = n /\ DOMAIN rest = 1 .. n
    BY <2>1, <2>2, FunctionIsSeq
  <2>4. \A i \in DOMAIN rest : rest[i].kind = "detail"
    BY <1>4, <2>1
  <2>5. Ordered(rest)
    <3>1. \A i \in 1 .. Len(rest) - 1 : i \in DOMAIN rest /\ i + 1 \in DOMAIN rest
      BY <2>2, <2>3
    <3>2. rest # <<>> => Len(rest) \in DOMAIN rest
      BY <2>2, <2>3, IsSeqFacts
    <3> QED BY <2>3, <2>4, <3>1, <3>2
            DEF Ordered, Follows, Ends, Illustrates, SetsImage, OnBehalf
  <2>6. rest # <<>> => Reason(e, rest[1])
    <3>1. rest # <<>> => 1 \in DOMAIN rest
      BY <2>2, <2>3, IsSeqFacts
    <3> QED BY <2>4, <3>1 DEF Reason, Ends, Illustrates, SetsImage, OnBehalf
  <2> QED BY <1>1, <1>2, <2>4, <2>5, <2>6, GoesOn
<1>5. CASE Head(todo).kind # "resolve" /\ rest = Tail(todo)
  BY <1>1, <1>2, <1>5, StepDone
<1>6. CASE Head(todo).kind = "find" /\ rest = <<todo[Len(todo) - 1], todo[Len(todo)]>>
  BY <1>1, <1>2, <1>6, Shortcut
<1>7. CASE Head(todo).kind = "accept" /\ rest = todo
  <2>1. Reason(e, rest[1])
    BY <1>1, <1>7, Rest DEF Reason, Ends, Illustrates, SetsImage, OnBehalf
  <2>2. ~(Head(todo).kind = "detail" \/ (\A i \in DOMAIN todo : todo[i].kind = "detail"))
    BY <1>1, <1>7, Rest
  <2> QED BY <1>1, <1>2, <1>7, <2>1, <2>2, Rest, GoesOn
<1> QED BY <1>2, <1>3, <1>4, <1>5, <1>6, <1>7 DEF Rests, Again

LEMMA CoreRejection ==
  ASSUME RunInv, NEW outcome \in {"absent", "refused", "failed"}, CoreRejects(outcome)
  PROVE  RunInv'
<1>1. stage = "running" /\ todo # <<>>
  BY DEF CoreRejects, Asking, Running
<1>2. CASE Tolerated(outcome)
  <2>1. GoOn(outcome, Tail(todo))
    BY <1>2 DEF CoreRejects
  <2>2. Tail(todo) # <<>> => Reason([step |-> Head(todo), outcome |-> outcome], Tail(todo)[1])
    <3> SUFFICES ASSUME Tail(todo) # <<>>
                 PROVE  Reason([step |-> Head(todo), outcome |-> outcome], Tail(todo)[1])
      OBVIOUS
    <3>1. Follows(Head(todo), Tail(todo)[1])
      BY <1>1, Rest
    <3>2. CASE Head(todo).kind = "detail"
      BY <3>1, <3>2 DEF Follows, Reason, Creates, OnBehalf
    <3>3. CASE Head(todo).kind = "resolve" /\ outcome = "absent"
      BY <3>1, <3>3 DEF Follows, Reason, Creates, OnBehalf
    <3> QED BY <1>2, <3>2, <3>3 DEF Tolerated, passedOver, shouldJoin
  <2>3. Required([step |-> Head(todo), outcome |-> outcome]) => outcome = "done"
    BY <1>2 DEF Tolerated, passedOver, shouldJoin, Required
  <2> QED BY <1>1, <2>1, <2>2, <2>3, Rest, GoesOn
<1>3. CASE ~Tolerated(outcome)
  <2>1. Throw(outcome, IF outcome = "failed" THEN "serverError" ELSE "coreRefusal")
    BY <1>3 DEF CoreRejects
  <2>2. Head(todo).kind # "detail" /\ Required([step |-> Head(todo), outcome |-> outcome])
    BY <1>3 DEF Tolerated, passedOver, shouldJoin, Required
  <2>3. CASE outcome = "failed"
    <3>1. Throw(outcome, "serverError")
      BY <2>1, <2>3
    <3> QED BY <1>1, <2>2, <3>1, Ending
  <2>4. CASE outcome # "failed"
    <3>1. Throw(outcome, "coreRefusal")
      BY <2>1, <2>4
    <3> QED BY <1>1, <2>2, <2>4, <3>1, Ending
  <2> QED BY <2>3, <2>4
<1> QED BY <1>2, <1>3

LEMMA OtherSteps ==
  ASSUME RunInv,
         \/ NoFile \/ LocalDone \/ LocalThrows \/ Authorized \/ Forbidden \/ DirectMessage
         \/ NoInvitation \/ NotImplemented
  PROVE  RunInv'
<1>1. stage = "running" /\ todo # <<>> /\ Head(todo).kind \notin {"detail", "resolve"}
  BY DEF NoFile, LocalDone, LocalThrows, Authorized, Forbidden, DirectMessage, NoInvitation,
     NotImplemented, Running
<1>2. CASE GoOn("done", Tail(todo))
  BY <1>1, <1>2, StepDone
<1>3. CASE Head(todo).kind = "dm" /\ GoOn("done", <<todo[Len(todo)]>>)
  BY <1>1, <1>3, Shortcut
<1>4. ASSUME NEW outcome \in {"failed", "thrown"},
             NEW error \in {"serverError", "badRequest", "forbidden", "notImplemented"},
             Throw(outcome, error)
      PROVE  RunInv'
  BY <1>1, <1>4, Ending
<1>5. \/ GoOn("done", Tail(todo))
      \/ Head(todo).kind = "dm" /\ GoOn("done", <<todo[Len(todo)]>>)
      \/ Throw("failed", "serverError") \/ Throw("thrown", "serverError")
      \/ Throw("thrown", "badRequest") \/ Throw("thrown", "forbidden")
      \/ Throw("thrown", "notImplemented")
  BY DEF NoFile, LocalDone, LocalThrows, Authorized, Forbidden, DirectMessage, NoInvitation,
     NotImplemented, Running
<1> QED BY <1>2, <1>3, <1>4, <1>5

\* A reason does not change while the request is the same.
LEMMA SameReasons ==
  ASSUME request' = request
  PROVE  \A e, s : (Free(s)' <=> Free(s)) /\ (Reason(e, s)' <=> Reason(e, s))
                  /\ (Follows(e, s)' <=> Follows(e, s))
<1> TAKE e, s
<1>1. Illustrates(s)' <=> Illustrates(s)
  BY DEF Illustrates
<1> QED BY <1>1 DEF Free, Reason, Follows

LEMMA Success ==
  ASSUME RunInv, Succeed
  PROVE  RunInv'
<1>1. stage' = "answered" /\ answer' = "success" /\ log' = log /\ request' = request /\ stage = "running"
  BY DEF Succeed
<1>2. IsSeq(log)' /\ Reasoned' /\ Taken' = Taken
  BY <1>1, SameReasons DEF RunInv, Reasoned, Taken, IsSeq
<1>3. \A e \in Taken : Required(e) => e.outcome = "done"
  BY <1>1 DEF RunInv, AllDone, Taken, S!ToSet
<1>4. AnswerTellsOutcome'
  BY <1>1, <1>2, <1>3 DEF AnswerTellsOutcome, Required
<1> QED BY <1>1, <1>2, <1>4 DEF RunInv

\* Each step of a request keeps the invariant.
LEMMA RunInvPreserved ==
  ASSUME RunInv, StepsInOrder, [RestNext]_restVars
  PROVE  RunInv'
<1>1. CASE UNCHANGED restVars
  <2>1. UNCHANGED <<stage, request, todo, log, sent, answer>>
    BY <1>1 DEF restVars
  <2>2. IsSeq(log)' /\ Reasoned' /\ (stage = "running" => NextReasoned')
    BY <2>1, SameReasons DEF RunInv, IsSeq, Reasoned, NextReasoned
  <2>3. stage = "running" => Ordered(todo)'
    <3>1. stage = "running" => Ordered(todo)
      BY DEF RunInv
    <3> QED BY <2>1, <3>1, SameReasons DEF Ordered, IsSeq
  <2>4. stage = "running" => AllDone' /\ DetailsLast'
    BY <2>1 DEF RunInv, AllDone, DetailsLast, Required
  <2>5. AnswerTellsOutcome'
    BY <2>1 DEF RunInv, AnswerTellsOutcome, Taken, Required
  <2> QED BY <2>1, <2>2, <2>3, <2>4, <2>5 DEF RunInv
<1> QED BY <1>1, BeforeHandler, CoreStep, CoreRejection, OtherSteps, Success DEF RestNext

\* The operation of the route of a request is one of those above.
LEMMA OperationOfRoute ==
  ASSUME NEW q, Matching(q) # {}
  PROVE  LET op == RouteOf(q).op IN
         \/ InOrder(OperationOf(op))
         \/ /\ op = "getOrCreateDirectMessageRoom"
            /\ OperationOf(op) = ChatRoomsService.getOrCreateDirectMessageRoom
<1>0. PICK R : Proper(Routes, R)
  BY RoutesProper
<1>1. Matching(q) \in SUBSET DOMAIN Routes /\ Matching(q) \in SUBSET Nat
  BY <1>0, IsSeqFacts DEF Matching, Proper
<1>2. \E i \in Matching(q) : \A j \in Matching(q) : i <= j
  BY <1>1, LeastOf
<1>3. \E i \in DOMAIN Routes : RouteOf(q) = Routes[i]
  BY <1>1, <1>2 DEF RouteOf
<1>5. \E i \in DOMAIN Services : RouteOf(q).op \in DOMAIN Services[i]
  BY <1>0, <1>3 DEF Proper, Faithful
<1>6. PICK i \in DOMAIN Services :
        /\ RouteOf(q).op \in DOMAIN Services[i]
        /\ OperationOf(RouteOf(q).op) = Services[i][RouteOf(q).op]
  BY <1>5 DEF OperationOf
<1> QED BY <1>6, OperationsInOrder

\* The binding of the parameters keeps the order.
LEMMA StepsAreInOrder == StepsInOrder
<1> SUFFICES ASSUME Matching(request) # {}
             PROVE  LET l == Steps(RouteOf(request),
                      request) IN Ordered(l) /\ (l # <<>> => Free(l[1]))
  BY DEF StepsInOrder
<1> DEFINE r == RouteOf(request)
           o == OperationOf(r.op)
           n == Len(o.steps)
           Value(x) == IF x \in S!ToSet(o.params)
                       THEN Argument(r.args[CHOOSE i \in DOMAIN o.params : o.params[i] = x], r,
                         request)
                       ELSE x
           Bound(s) == [kind |-> s.kind, verb |-> s.verb,
                        path |-> [i \in DOMAIN s.path |-> Value(s.path[i])],
                        as |-> IF s.as = "" THEN {} ELSE {Value(s.as)}]
           all == [i \in DOMAIN o.steps |-> Bound(o.steps[i])]
<1>1. Sorted(o)
  BY OperationOfRoute, DirectMessageInOrder DEF InOrder
<1>2. Steps(r, request) =
        IF all # <<>> /\ Head(all).kind = "image" /\ ~request.file THEN Tail(all) ELSE all
  BY DEF Steps
<1>3. n \in Nat /\ DOMAIN o.steps = 1 .. n
  BY <1>1, IsSeqFacts DEF Sorted
<1>4. \A x : x \notin S!ToSet(o.params) => Value(x) = x
  OBVIOUS
<1>5. /\ \A s, t : s.as = t.as => Bound(s).as = Bound(t).as
      /\ \A s : s.as # "" => Bound(s).as # {}
  OBVIOUS
<1>6. \A s : /\ Bound(s).kind = s.kind /\ Bound(s).verb = s.verb
             /\ Bound(s).path = [i \in DOMAIN s.path |-> Value(s.path[i])]
  OBVIOUS
<1>7. all = [i \in 1 .. n |-> Bound(o.steps[i])]
  BY <1>3
<1> HIDE DEF Value, Bound, n, all, o, r
<1>8. \A i \in 1 .. n : all[i] = Bound(o.steps[i])
  BY <1>7
<1>9. IsSeq(all) /\ Len(all) = n
  BY <1>3, <1>7, <1>8, FunctionIsSeq
<1>10. ASSUME NEW s, Rooted(s, o.params)
       PROVE  /\ Ends(Bound(s)) => Ends(s)
              /\ SetsImage(Bound(s)) => SetsImage(s)
              /\ Creates(s) => Creates(Bound(s))
  <2>1. IsSeq(s.path)
    BY <1>10 DEF Rooted
  <2>2. /\ Len(s.path) \in Nat /\ DOMAIN s.path = 1 .. Len(s.path)
        /\ s.path # <<>> => Len(s.path) # 0
    BY <2>1, IsSeqFacts
  <2> DEFINE p == Bound(s).path
             m == Len(s.path)
  <2>3. m \in Nat /\ p = [k \in 1 .. m |-> Value(s.path[k])]
    BY <1>6, <2>2
  <2> HIDE DEF p
  <2>4. \A k \in 1 .. m : p[k] = Value(s.path[k])
    BY <2>3
  <2>5. p = [k \in 1 .. m |-> p[k]]
    BY <2>3, <2>4
  <2>6. Len(p) = m
    BY <2>3, <2>5, FunctionIsSeq
  <2>7. s.kind \in {"local", "core"} => p[1] = s.path[1]
    BY <1>4, <1>10, <2>2, <2>4 DEF Rooted
  <2>8. S!ToSet(s.path) \cap S!ToSet(o.params) = {} => p = s.path
    <3> SUFFICES ASSUME S!ToSet(s.path) \cap S!ToSet(o.params) = {} PROVE p = s.path
      OBVIOUS
    <3>1. \A k \in 1 .. m : s.path[k] \notin S!ToSet(o.params)
      BY <2>2 DEF S!ToSet
    <3>2. \A k \in 1 .. m : p[k] = s.path[k]
      BY <1>4, <2>4, <3>1
    <3>3. s.path = [k \in 1 .. m |-> s.path[k]]
      BY <2>1, <2>2 DEF IsSeq
    <3> QED BY <2>5, <3>2, <3>3
  <2>9. SetsImage(Bound(s)) => SetsImage(s)
    <3> SUFFICES ASSUME SetsImage(Bound(s)) PROVE SetsImage(s)
      OBVIOUS
    <3>1. /\ s.kind = "core" /\ s.verb \in {"post", "patch"} /\ p[1] = s.path[1]
          /\ (p[1] = "rooms" /\ Len(p) < 3) \/ p = <<"users", "me">>
      BY <1>6, <2>7 DEF SetsImage, p
    <3>2. CASE p[1] = "rooms" /\ Len(p) < 3
      BY <2>6, <3>1, <3>2 DEF SetsImage
    <3>3. CASE p = <<"users", "me">>
      <4>1. s.path[1] = "users"
        BY <3>1, <3>3
      <4>2. p = s.path
        BY <1>10, <2>8, <3>1, <4>1 DEF Rooted
      <4> QED BY <3>1, <3>3, <4>2 DEF SetsImage
    <3> QED BY <3>1, <3>2, <3>3
  <2>10. Creates(s) => Creates(Bound(s))
    <3> SUFFICES ASSUME Creates(s) PROVE Creates(Bound(s))
      OBVIOUS
    <3>1. s.kind = "core" /\ s.verb = "post" /\ s.path = <<"chat-rooms">> /\ s.path[1] = "chat-rooms"
      BY DEF Creates
    <3>2. S!ToSet(s.path) \cap S!ToSet(o.params) = {}
      <4>1. S!ToSet(s.path) = {"chat-rooms"}
        BY <3>1, Members
      <4> QED BY <1>10, <3>1, <4>1 DEF Rooted
    <3> QED BY <1>6, <2>8, <3>1, <3>2 DEF Creates, p
  <2> QED BY <1>6, <2>7, <2>9, <2>10 DEF Ends, p
<1>11. \A i \in 1 .. n : Rooted(o.steps[i], o.params)
  BY <1>1, <1>3 DEF Sorted
<1>a. ASSUME NEW i \in 1 .. n, First(o.steps[i])
      PROVE  Free(all[i])
  <2>1. Rooted(o.steps[i], o.params) /\ all[i] = Bound(o.steps[i])
    BY <1>8, <1>11
  <2> QED BY <1>6, <1>10, <1>a, <2>1 DEF First, Free, Illustrates
<1>12. Ordered(all)
  <2>1. ASSUME NEW i \in 1 .. Len(all) - 1
        PROVE  Follows(all[i], all[i + 1])
    <3>1. i \in 1 .. n /\ i + 1 \in 1 .. n /\ i \in 1 .. n - 1
      BY <1>3, <1>9
    <3> DEFINE s == o.steps[i]
               t == o.steps[i + 1]
    <3>2. /\ all[i] = Bound(s) /\ all[i + 1] = Bound(t)
          /\ Rooted(s, o.params) /\ Rooted(t, o.params)
      BY <1>8, <1>11, <3>1
    <3>3. Precedes(s, t)
      BY <1>1, <3>1 DEF Sorted, n
    <3> HIDE DEF s, t
    <3>4. /\ (Ends(Bound(t)) => Ends(t)) /\ (SetsImage(Bound(t)) => SetsImage(t))
          /\ Creates(s) => Creates(Bound(s))
      BY <1>10, <3>2
    <3>5. /\ Bound(s).kind = s.kind /\ Bound(t).kind = t.kind
          /\ s.as = t.as => Bound(s).as = Bound(t).as
          /\ s.as # "" => Bound(s).as # {}
      BY <1>5, <1>6
    <3>6. /\ Ends(Bound(t)) => Bound(s).kind = "core" /\ Bound(s).as = Bound(t).as
          /\ Bound(t).kind = "join" <=> Bound(s).kind = "resolve"
          /\ Illustrates(Bound(t)) => Bound(s).kind = "image"
      BY <3>3, <3>4, <3>5 DEF Precedes, Illustrates
    <3>7. Bound(t).kind \in OnBehalf =>
            Bound(s).kind \in OnBehalf \/ (Creates(Bound(s)) /\ Bound(s).as # {})
      BY <3>3, <3>4, <3>5 DEF Precedes
    <3>8. Follows(Bound(s), Bound(t))
      BY <3>6, <3>7 DEF Follows
    <3> QED BY <3>2, <3>8
  <2>2. \A i, j \in DOMAIN all : i < j /\ all[i].kind = "detail" => all[j].kind = "detail"
    <3>1. DOMAIN all = 1 .. n
      BY <1>9, IsSeqFacts
    <3>2. \A i \in 1 .. n : all[i].kind = o.steps[i].kind
      BY <1>6, <1>8
    <3>3. \A i, j \in 1 .. n : i < j /\ o.steps[i].kind = "detail" => o.steps[j].kind = "detail"
      BY <1>1, <1>3 DEF Sorted
    <3> QED BY <3>1, <3>2, <3>3
  <2>3. all # <<>> => all[Len(all)].kind # "resolve"
    <3> SUFFICES ASSUME all # <<>> PROVE all[n].kind # "resolve"
      BY <1>9
    <3>1. n # 0 /\ n \in 1 .. n
      BY <1>3, <1>9, IsSeqFacts
    <3>2. o.steps # <<>> /\ all[n].kind = o.steps[n].kind
      BY <1>3, <1>6, <1>8, <3>1
    <3> QED BY <1>1, <3>2 DEF Sorted, n
  <2>4. ASSUME NEW i \in DOMAIN all
        PROVE  /\ all[i].kind \in {"dm", "find"} => Free(all[Len(all)])
               /\ all[i].kind = "find" => i < Len(all) /\ Free(all[Len(all) - 1])
    <3>1. i \in 1 .. n /\ n \in 1 .. n /\ (i < n => n - 1 \in 1 .. n)
      BY <1>3, <1>9, IsSeqFacts
    <3>2. all[i].kind = o.steps[i].kind
      BY <1>6, <1>8, <3>1
    <3>3. /\ o.steps[i].kind \in {"dm", "find"} => First(o.steps[n])
          /\ o.steps[i].kind = "find" => i < n /\ First(o.steps[n - 1])
      BY <1>1, <1>3, <3>1 DEF Sorted, n
    <3> QED BY <1>9, <1>a, <3>1, <3>2, <3>3
  <2> QED BY <1>9, <2>1, <2>2, <2>3, <2>4 DEF Ordered
<1>13. all # <<>> => Free(all[1]) /\ 1 \in 1 .. n
  <2> SUFFICES ASSUME all # <<>> PROVE Free(all[1]) /\ 1 \in 1 .. n
    OBVIOUS
  <2>1. n # 0 /\ 1 \in 1 .. n
    BY <1>3, <1>9, IsSeqFacts
  <2>2. First(o.steps[1])
    BY <1>1, <1>3, <2>1 DEF Sorted
  <2> QED BY <1>a, <2>1, <2>2
<1>14. CASE ~(all # <<>> /\ Head(all).kind = "image" /\ ~request.file)
  BY <1>2, <1>12, <1>13, <1>14 DEF r
<1>15. CASE all # <<>> /\ Head(all).kind = "image" /\ ~request.file
  <2>1. Steps(r, request) = Tail(all) /\ Ordered(Tail(all))
    BY <1>2, <1>12, <1>15, TailOrdered
  <2>2. Tail(all) # <<>> => Free(Tail(all)[1])
    <3> SUFFICES ASSUME Tail(all) # <<>> PROVE Free(Tail(all)[1])
      OBVIOUS
    <3>1. Len(Tail(all)) = n - 1 /\ Head(all) = all[1] /\ Len(Tail(all)) # 0
      BY <1>9, <1>15, <2>1, TailOf, IsSeqFacts DEF Ordered
    <3>2. 1 \in 1 .. n - 1
      BY <1>3, <1>13, <1>15, <3>1
    <3>3. Tail(all)[1] = all[1 + 1]
      BY <1>9, <1>15, <3>2, TailOf
    <3>4. Follows(all[1], all[1 + 1])
      BY <1>9, <1>12, <3>2 DEF Ordered
    <3> QED BY <1>15, <3>1, <3>3, <3>4 DEF Follows, Free, Illustrates, OnBehalf, Creates
  <2> QED BY <2>1, <2>2 DEF r
<1> QED BY <1>14, <1>15

LEMMA RunInvInit ==
  ASSUME RestInit
  PROVE  RunInv
<1>1. log = <<>> /\ stage = "idle" /\ answer = "none"
  BY DEF RestInit
<1>2. IsSeq(log) /\ DOMAIN log = {}
  BY <1>1, Tuples
<1> QED BY <1>1, <1>2 DEF RunInv, Reasoned, AnswerTellsOutcome, Taken, S!ToSet

\* Every step that has been taken, or is next, has its reason in the step before it, and
\* all before it was done, or could fail without ending the operation (the order of the
\* calls in every service, with their catch clauses).
THEOREM RunInvHolds == RestSpec => []RunInv
<1>1. RestInit => RunInv
  BY RunInvInit
<1>2. RunInv /\ [RestNext]_restVars => RunInv'
  BY StepsAreInOrder, RunInvPreserved
<1> QED BY <1>1, <1>2, PTL DEF RestSpec

\* What a client is told agrees with what was done: success only if every step was, a
\* refusal of the guard or the router only if none was taken, Core's refusal only if it
\* ended the operation (GlobalResponseInterceptor, the exception filters, the order of the
\* calls in the services).
THEOREM AnswersTellOutcome == RestSpec => []AnswerTellsOutcome
<1>1. RunInv => AnswerTellsOutcome
  BY DEF RunInv
<1> QED BY <1>1, RunInvHolds, PTL

----------------------------------------------------------------------------
(* In whose name.                                                          *)

\* What holds of a step of the operation: see CoreActsForRequester.
Acts(s) ==
  /\ IF s.kind \in OnBehalf THEN s.as = {request.arg} ELSE s.as \subseteq {request.token}
  /\ s.as # {} => request.token \in Callers
  /\ Named(s.path) \subseteq Named(request.path) \cup {request.arg}
  /\ Routes[request.aim].guarded => s.as # {}
  /\ RouteOf(request) = Routes[request.aim]

Own(l) == \A i \in DOMAIN l : l[i].kind \notin OnBehalf
Direct == Routes[request.aim].op = "getOrCreateDirectMessageRoom"
AsksFirst(l) == l # <<>> /\ Head(l).kind = "dm" /\ Head(l).as # {}

LEMMA StepsAct ==
  ASSUME request \in Requests, Matching(request) # {}, canActivate(RouteOf(request), request)
  PROVE  LET l == Steps(RouteOf(request), request) IN
         /\ \A s \in S!ToSet(l) : Acts(s)
         /\ Own(l) \/ (Direct /\ AsksFirst(l))
<1> DEFINE r == RouteOf(request)
           o == OperationOf(r.op)
           Idx(x) == CHOOSE i \in DOMAIN o.params : o.params[i] = x
           Value(x) == IF x \in S!ToSet(o.params) THEN Argument(r.args[Idx(x)], r, request) ELSE x
           Bound(s) == [kind |-> s.kind, verb |-> s.verb,
                        path |-> [i \in DOMAIN s.path |-> Value(s.path[i])],
                        as |-> IF s.as = "" THEN {} ELSE {Value(s.as)}]
           all == [i \in DOMAIN o.steps |-> Bound(o.steps[i])]
<1>1. Steps(r, request) =
        IF all # <<>> /\ Head(all).kind = "image" /\ ~request.file THEN Tail(all) ELSE all
  BY DEF Steps
<1>2. r = Routes[request.aim] /\ Faithful(r) /\ Fills(request, r)
  BY RouteMeant
<1>a. PICK i \in DOMAIN Services :
        /\ r.op \in DOMAIN Services[i]
        /\ \E params, caller, subjects :
             Asks(Services[i][r.op], params, caller, subjects) /\ Fits(r, params, caller, subjects)
  BY <1>2 DEF Faithful
<1>3. PICK params, caller, subjects :
        Asks(Services[i][r.op], params, caller, subjects) /\ Fits(r, params, caller, subjects)
  BY <1>a
<1>4. o = Services[i][r.op]
  <2>1. \A j \in DOMAIN Services : r.op \in DOMAIN Services[j] => j = i
    BY <1>a, OneHome
  <2> QED BY <1>a, <2>1 DEF OperationOf
<1>b. \/ Own(o.steps)
      \/ /\ Direct /\ r.args = <<"arg", "user">> /\ o.params = <<"targetUserIdx", "userIdx">>
         /\ o.steps # <<>> /\ o.steps[1].kind = "dm" /\ o.steps[1].as = "userIdx"
         /\ \A k \in DOMAIN o.steps : o.steps[k].kind \in OnBehalf => o.steps[k].as = "targetUserIdx"
  <2>1. CASE InOrder(o)
    BY <2>1 DEF InOrder, DirectSteps, OnBehalf, Own
  <2>2. CASE /\ r.op = "getOrCreateDirectMessageRoom"
             /\ o = ChatRoomsService.getOrCreateDirectMessageRoom
    <3>1. r.args = <<"arg", "user">> /\ Direct
      BY <1>2, <2>2 DEF Faithful, NamesOther, Direct
    <3> HIDE DEF o, r
    <3> QED BY <2>2, <3>1, DirectMessageInOrder
  <2> QED BY <2>1, <2>2, OperationOfRoute
<1>5. /\ o.params = params /\ IsSeq(o.steps) /\ o.steps = Services[i][r.op].steps
      /\ \A s \in S!ToSet(o.steps) : About(s, params, caller, subjects)
  BY <1>3, <1>4 DEF Asks
<1>6. \A x \in S!ToSet(params) : Idx(x) \in DOMAIN params /\ params[Idx(x)] = x
  BY <1>5 DEF S!ToSet
<1>7. \A x : Value(x) = IF x \in S!ToSet(params) THEN Argument(r.args[Idx(x)], r, request) ELSE x
  BY <1>5
<1>8. \A s : /\ Bound(s).kind = s.kind
             /\ Bound(s).path = [k \in DOMAIN s.path |-> Value(s.path[k])]
             /\ Bound(s).as = IF s.as = "" THEN {} ELSE {Value(s.as)}
  OBVIOUS
<1> HIDE DEF Value, Bound, Idx, o, r
<1>c. ASSUME Someone(caller)
      PROVE  r.guarded /\ Value(caller) = request.token /\ request.token \in Callers
  <2>1. r.guarded /\ caller \in S!ToSet(params)
    BY <1>3, <1>c DEF Fits
  <2>2. r.args[Idx(caller)] = "user"
    BY <1>3, <1>6, <2>1 DEF Fits, Given
  <2>3. Value(caller) = Argument("user", r, request)
    BY <1>7, <2>1, <2>2
  <2>4. request.token \in Callers
    BY <2>1 DEF canActivate, r
  <2> QED BY <2>1, <2>3, <2>4, ParamsKnown DEF Argument
\* Who is invited is named by the body, and who asks by the token.
<1>d. ASSUME ~Own(o.steps)
      PROVE  /\ Value("targetUserIdx") = request.arg
             /\ r.guarded /\ request.token \in Callers
             /\ Bound(o.steps[1]).kind = "dm" /\ Bound(o.steps[1]).as # {}
  <2>1. /\ r.args = <<"arg", "user">> /\ params = <<"targetUserIdx", "userIdx">>
        /\ o.steps # <<>> /\ o.steps[1].kind = "dm" /\ o.steps[1].as = "userIdx"
    BY <1>5, <1>b, <1>d
  <2>2. /\ "targetUserIdx" \in S!ToSet(params) /\ DOMAIN params = {1, 2}
        /\ params[1] = "targetUserIdx" /\ params[2] = "userIdx" /\ r.args[1] = "arg"
    BY <2>1, Members
  <2>3. Idx("targetUserIdx") = 1
    BY <1>6, <2>2
  <2>4. Value("targetUserIdx") = Argument("arg", r, request)
    BY <1>7, <2>2, <2>3
  <2>5. Value("targetUserIdx") = request.arg
    BY <2>4, ParamsKnown DEF Argument
  <2>6. 1 \in DOMAIN o.steps
    BY <1>5, <2>1, IsSeqFacts
  <2>7. o.steps[1].as = caller
    <3>1. About(o.steps[1], params, caller, subjects)
      BY <1>5, <2>6 DEF S!ToSet
    <3> QED BY <2>1, <3>1 DEF About, OnBehalf
  <2>8. Someone(caller)
    BY <2>1, <2>7 DEF Someone
  <2>9. Bound(o.steps[1]).kind = "dm" /\ Bound(o.steps[1]).as # {}
    BY <1>8, <2>1
  <2> QED BY <1>c, <2>5, <2>8, <2>9
<1>9. ASSUME NEW s \in S!ToSet(o.steps)
      PROVE  Acts(Bound(s))
  <2>1. /\ s.as = caller \/ s.kind \in OnBehalf
        /\ IsSeq(s.path) /\ S!ToSet(s.path) \cap S!ToSet(params) \subseteq subjects
    BY <1>5 DEF About
  <2>k. Bound(s).kind = s.kind
    BY <1>8
  <2>2. ASSUME NEW k \in DOMAIN s.path, Value(s.path[k]) \in Indexes
        PROVE  Value(s.path[k]) \in Named(request.path) \cup {request.arg}
    <3> DEFINE x == s.path[k]
    <3>1. x \in S!ToSet(s.path)
      BY DEF S!ToSet
    <3> HIDE DEF x
    <3>2. CASE x \notin S!ToSet(params)
      <4>1. x \in Indexes
        BY <1>7, <2>2, <3>2 DEF x
      <4> QED BY <1>a, <1>5, <3>1, <4>1, IndexesAssumption
    <3>3. CASE x \in S!ToSet(params)
      <4> DEFINE a == r.args[Idx(x)]
      <4>1. x \in subjects /\ Value(x) = Argument(a, r, request)
        BY <1>7, <2>1, <3>1, <3>3
      <4>2. a \in {"arg"} \cup (PathParams \cap S!ToSet(r.path))
        BY <1>3, <1>6, <3>3, <4>1 DEF Fits, Given
      <4> HIDE DEF a
      <4>3. CASE a = "arg"
        <5>1. Argument("arg", r, request) = request.arg
          BY ParamsKnown DEF Argument
        <5> QED BY <4>1, <4>3, <5>1 DEF x
      <4>4. CASE a \in PathParams \cap S!ToSet(r.path)
        <5>1. PICK m \in DOMAIN r.path : r.path[m] = a /\ Argument(a, r, request) = request.path[m]
          <6>1. a # "user" /\ a # "arg"
            BY <4>4, ParamsKnown
          <6>2. \E m \in DOMAIN r.path : r.path[m] = a
            BY <4>4 DEF S!ToSet
          <6>3. Argument(a, r, request) = request.path[CHOOSE m \in DOMAIN r.path : r.path[m] = a]
            BY <4>4, <6>1 DEF Argument
          <6> QED BY <6>2, <6>3
        <5>2. request.path[m] \in S!ToSet(request.path)
          BY <1>2, <5>1 DEF Fills, S!ToSet
        <5> QED BY <2>2, <4>1, <5>1, <5>2 DEF Named, x
      <4> QED BY <4>2, <4>3, <4>4
    <3> QED BY <3>2, <3>3
  <2>4. Named(Bound(s).path) \subseteq Named(request.path) \cup {request.arg}
    <3>1. \A y \in S!ToSet(Bound(s).path) : \E k \in DOMAIN s.path : y = Value(s.path[k])
      <4> DEFINE p == Bound(s).path
      <4>1. p = [k \in DOMAIN s.path |-> Value(s.path[k])]
        BY <1>8
      <4> HIDE DEF p
      <4>2. DOMAIN p = DOMAIN s.path /\ \A k \in DOMAIN p : p[k] = Value(s.path[k])
        BY <4>1
      <4>3. \A y \in S!ToSet(p) : \E k \in DOMAIN s.path : y = Value(s.path[k])
        BY <4>2 DEF S!ToSet
      <4> QED BY <4>3 DEF p
    <3> QED BY <2>2, <3>1 DEF Named
  <2>r. RouteOf(request) = Routes[request.aim] /\ (Routes[request.aim].guarded <=> r.guarded)
    BY <1>2 DEF r
  <2>5. CASE Someone(caller) /\ s.kind \notin OnBehalf
    <3>1. Bound(s).as = {request.token} /\ request.token \in Callers
      BY <1>8, <1>c, <2>1, <2>5 DEF Someone
    <3> QED BY <2>4, <2>5, <2>k, <2>r, <3>1 DEF Acts
  <2>6. CASE ~Someone(caller) /\ s.kind \notin OnBehalf
    <3>1. ~r.guarded
      BY <1>3, <2>6 DEF Fits
    <3>2. Bound(s).as = {}
      BY <1>8, <2>1, <2>6 DEF Someone
    <3> QED BY <2>4, <2>6, <2>k, <2>r, <3>1, <3>2 DEF Acts
  <2>7. CASE s.kind \in OnBehalf
    <3>1. ~Own(o.steps)
      BY <2>7 DEF Own, S!ToSet
    <3>2. s.as = "targetUserIdx" /\ s.as # ""
      BY <1>b, <2>7, <3>1 DEF S!ToSet
    <3>3. Bound(s).as = {request.arg}
      <4>1. Bound(s).as = {Value(s.as)}
        BY <1>8, <3>2
      <4>2. Value("targetUserIdx") = request.arg
        BY <1>d, <3>1
      <4>3. Value(s.as) = Value("targetUserIdx")
        BY <3>2
      <4> QED BY <4>1, <4>2, <4>3
    <3>4. request.token \in Callers /\ Bound(s).as # {}
      BY <1>d, <3>1, <3>3
    <3> QED BY <2>4, <2>7, <2>k, <2>r, <3>3, <3>4 DEF Acts
  <2> QED BY <2>5, <2>6, <2>7
<1>10. \A s \in S!ToSet(all) : Acts(s)
  <2>1. \A k \in DOMAIN all : all[k] = Bound(o.steps[k]) /\ o.steps[k] \in S!ToSet(o.steps)
    BY DEF S!ToSet
  <2> HIDE DEF all
  <2> QED BY <1>9, <2>1 DEF S!ToSet
<1>11. IsSeq(all)
  <2>1. DOMAIN o.steps = 1 .. Len(o.steps) /\ Len(o.steps) \in Nat
    BY <1>5, IsSeqFacts
  <2>2. all = [k \in 1 .. Len(o.steps) |-> Bound(o.steps[k])]
    BY <2>1
  <2> HIDE DEF all
  <2>3. all = [k \in 1 .. Len(o.steps) |-> all[k]]
    BY <2>2
  <2> QED BY <2>1, <2>3, FunctionIsSeq
<1>e. Own(all) \/ (Direct /\ AsksFirst(all))
  <2>1. \A k \in DOMAIN all : k \in DOMAIN o.steps /\ all[k].kind = o.steps[k].kind
    BY <1>8
  <2>2. CASE Own(o.steps)
    <3> HIDE DEF all
    <3> QED BY <2>1, <2>2 DEF Own
  <2>3. CASE ~Own(o.steps)
    <3>1. Direct /\ o.steps # <<>>
      BY <1>b, <2>3
    <3>2. 1 \in DOMAIN o.steps
      BY <1>5, <3>1, IsSeqFacts
    <3>3. all[1] = Bound(o.steps[1]) /\ 1 \in DOMAIN all
      BY <3>2
    <3> HIDE DEF all
    <3>4. all # <<>> /\ Head(all) = all[1]
      BY <1>11, <3>3, IsSeqFacts
    <3> QED BY <1>d, <2>3, <3>1, <3>3, <3>4 DEF AsksFirst
  <2> QED BY <2>2, <2>3
<1>12. all # <<>> => S!ToSet(Tail(all)) \subseteq S!ToSet(all)
  <2> HIDE DEF all
  <2> QED BY <1>11, TailWithin
<1> HIDE DEF all
<1>13. CASE all # <<>> /\ Head(all).kind = "image" /\ ~request.file
  <2>1. Own(all)
    BY <1>e, <1>13 DEF AsksFirst
  <2>2. Own(Tail(all))
    <3>1. \A s \in S!ToSet(all) : s.kind \notin OnBehalf
      BY <2>1 DEF Own, S!ToSet
    <3>2. \A s \in S!ToSet(Tail(all)) : s.kind \notin OnBehalf
      BY <1>12, <1>13, <3>1
    <3> QED BY <3>2 DEF Own, S!ToSet
  <2> QED BY <1>1, <1>10, <1>12, <1>13, <2>2 DEF r
<1>14. CASE ~(all # <<>> /\ Head(all).kind = "image" /\ ~request.file)
  BY <1>1, <1>10, <1>14, <1>e DEF r
<1> QED BY <1>13, <1>14

\* Nobody else's name is used, or the request is for a direct message, and then the first
\* step has not been taken or has found that the other user is another one.
Nobodys == \A e \in Taken : e.step.kind \notin OnBehalf
Lending ==
  \/ Nobodys /\ (\A s \in S!ToSet(todo) : s.kind \notin OnBehalf)
  \/ Direct /\ (request.arg # request.token \/ (Nobodys /\ AsksFirst(todo)))

\* Whatever is to be done, or has been, is done for the requester.
ActsInv ==
  /\ stage # "idle" => request \in Requests
  /\ stage \in {"idle", "received"} => todo = <<>>
  /\ \A s \in S!ToSet(todo) : Acts(s)
  /\ \A e \in Taken : Acts(e.step)
  /\ Lending

LEMMA SameRequest ==
  ASSUME request' = request, NEW s
  PROVE  Acts(s)' <=> Acts(s)
BY DEF Acts

\* A step is taken, and no other comes.
LEMMA StepActs ==
  ASSUME RunInv, ActsInv, stage = "running", todo # <<>>, NEW outcome,
         log' = Logged(outcome), request' = request, stage' \notin {"idle", "received"},
         S!ToSet(todo') \subseteq S!ToSet(todo),
         AsksFirst(todo) => request.arg # request.token \/ todo' = <<>>
  PROVE  ActsInv'
<1> DEFINE e == [step |-> Head(todo), outcome |-> outcome]
<1>1. IsSeq(log) /\ IsSeq(todo)
  BY DEF RunInv, Ordered
<1>2. Head(todo) \in S!ToSet(todo)
  <2>1. Head(todo) = todo[1] /\ 1 \in DOMAIN todo
    BY <1>1, IsSeqFacts
  <2> QED BY <2>1 DEF S!ToSet
<1>3. Taken' = Taken \cup {e}
  <2>1. log' = Append(log, e)
    BY DEF Logged
  <2> HIDE DEF e
  <2>2. S!ToSet(Append(log, e)) = S!ToSet(log) \cup {e}
    BY <1>1, SetOfAppend
  <2> QED BY <2>1, <2>2 DEF Taken
<1>4. \A f \in Taken' : Acts(f.step)
  BY <1>2, <1>3 DEF ActsInv
<1>6. Lending'
  <2>1. e.step = Head(todo)
    OBVIOUS
  <2> HIDE DEF e
  <2>2. Direct' <=> Direct
    BY DEF Direct
  <2>3. CASE Nobodys /\ (\A s \in S!ToSet(todo) : s.kind \notin OnBehalf)
    BY <1>2, <1>3, <2>1, <2>3 DEF Lending, Nobodys
  <2>4. CASE Direct /\ request.arg # request.token
    BY <2>2, <2>4 DEF Lending
  <2>5. CASE Nobodys /\ AsksFirst(todo) /\ todo' = <<>>
    <3>1. S!ToSet(todo') = {}
      BY <2>5, Members
    <3>2. Nobodys'
      BY <1>3, <2>1, <2>5 DEF Nobodys, OnBehalf, AsksFirst
    <3> QED BY <3>1, <3>2 DEF Lending
  <2> QED BY <2>3, <2>4, <2>5 DEF ActsInv, Lending
<1>5. \A s \in S!ToSet(todo') : Acts(s)
  BY DEF ActsInv
<1> HIDE DEF e
<1> QED BY <1>4, <1>5, <1>6, SameRequest DEF ActsInv

\* What follows the first step, whatever Core's answer.
LEMMA RestsWithin ==
  ASSUME RunInv, stage = "running", todo # <<>>, NEW rest \in Rests
  PROVE  S!ToSet(rest) \subseteq S!ToSet(todo)
<1>1. IsSeq(todo) /\ IsSeq(Tail(todo))
  BY Rest DEF Ordered
<1>2. S!ToSet(Tail(todo)) \subseteq S!ToSet(todo)
  BY <1>1, TailWithin
<1>3. CASE Head(todo).kind = "resolve"
  <2>1. rest = Tail(Tail(todo)) /\ Tail(todo) # <<>>
    BY <1>3, Rest DEF Rests
  <2>2. S!ToSet(Tail(Tail(todo))) \subseteq S!ToSet(Tail(todo))
    BY <1>1, <2>1, TailWithin
  <2> QED BY <1>2, <2>1, <2>2
<1>4. CASE Head(todo).kind = "core" /\ Len(todo) = 2 /\ todo[2].kind = "detail"
  <2>1. PICK n \in 0 .. MaxList : rest = [i \in 1 .. n |-> todo[2]]
    BY <1>4 DEF Rests
  <2>2. \A i \in DOMAIN rest : rest[i] = todo[2]
    BY <2>1
  <2>3. 2 \in DOMAIN todo
    BY <1>4, Rest
  <2> QED BY <2>2, <2>3 DEF S!ToSet
<1>5. CASE rest \in {todo, Tail(todo)}
  BY <1>2, <1>5
<1>6. CASE Head(todo).kind = "find" /\ rest = <<todo[Len(todo) - 1], todo[Len(todo)]>>
  <2> DEFINE n == Len(todo)
  <2>1. n \in Nat /\ n # 0 /\ DOMAIN todo = 1 .. n /\ Ordered(todo) /\ todo[1].kind = "find"
    BY <1>6, Rest
  <2>2. 1 \in DOMAIN todo
    BY <2>1
  <2>3. 1 < n
    BY <2>1, <2>2 DEF Ordered
  <2> HIDE DEF n
  <2>4. n - 1 \in DOMAIN todo /\ n \in DOMAIN todo
    BY <2>1, <2>3
  <2>5. S!ToSet(rest) = {todo[n - 1], todo[n]}
    BY <1>6, Members DEF n
  <2> QED BY <2>4, <2>5 DEF S!ToSet
<1> QED BY <1>3, <1>4, <1>5, <1>6 DEF Rests, Again

LEMMA ActsPreserved ==
  ASSUME RunInv, ActsInv, [RestNext]_restVars
  PROVE  ActsInv'
<1>0. S!ToSet(<<>>) = {}
  BY Members
<1>1. CASE Arrive
  <2>1. /\ request' \in Requests /\ stage' = "received" /\ todo' = <<>> /\ log' = <<>>
    BY <1>1 DEF Arrive, ActsInv, RunInv
  <2>2. S!ToSet(todo') = {} /\ Taken' = {}
    BY <1>0, <2>1 DEF Taken
  <2>3. Lending'
    BY <2>2 DEF Lending, Nobodys
  <2> QED BY <2>1, <2>2, <2>3 DEF ActsInv
<1>2. CASE \/ UNCHANGED restVars \/ NoRoute \/ Unauthorized \/ BadRequest \/ Succeed
  <2>1. /\ request' = request /\ todo' = todo /\ log' = log
        /\ stage' = stage \/ (stage # "idle" /\ stage' = "answered")
    BY <1>2 DEF restVars, NoRoute, Unauthorized, BadRequest, Reject, Succeed
  <2>2. Taken' = Taken
    BY <2>1 DEF Taken
  <2>3. Lending'
    BY <2>1, <2>2 DEF ActsInv, Lending, Nobodys, Direct, AsksFirst
  <2> QED BY <2>1, <2>2, <2>3, SameRequest DEF ActsInv
<1>3. CASE Dispatch
  <2>1. /\ stage = "received" /\ Matching(request) # {} /\ canActivate(RouteOf(request), request)
        /\ request' = request /\ stage' = "running" /\ log' = log
        /\ todo' = Steps(RouteOf(request), request)
    BY <1>3 DEF Dispatch
  <2>2. /\ \A s \in S!ToSet(todo') : Acts(s)
        /\ Own(todo') \/ (Direct /\ AsksFirst(todo'))
    BY <2>1, StepsAct DEF ActsInv
  <2>3. Taken' = Taken /\ Taken = {}
    BY <1>0, <2>1 DEF Taken, RunInv
  <2>4. Lending'
    <3>1. Nobodys'
      BY <2>3 DEF Nobodys
    <3>2. CASE Own(todo')
      BY <3>1, <3>2 DEF Lending, Own, S!ToSet
    <3>3. CASE Direct /\ AsksFirst(todo')
      BY <2>1, <3>1, <3>3 DEF Lending, Direct, AsksFirst
    <3> QED BY <2>2, <3>2, <3>3
  <2> QED BY <2>1, <2>2, <2>3, <2>4, SameRequest DEF ActsInv
<1>4. ASSUME NEW outcome, NEW rest, GoOn(outcome, rest), stage = "running", todo # <<>>,
             S!ToSet(rest) \subseteq S!ToSet(todo),
             AsksFirst(todo) => request.arg # request.token
      PROVE  ActsInv'
  <2>1. log' = Logged(outcome) /\ todo' = rest /\ stage' = "running" /\ request' = request
    BY <1>4 DEF GoOn
  <2> QED BY <1>4, <2>1, StepActs
<1>5. ASSUME NEW outcome, NEW error, Throw(outcome, error), stage = "running", todo # <<>>
      PROVE  ActsInv'
  <2>1. log' = Logged(outcome) /\ todo' = <<>> /\ stage' = "answered" /\ request' = request
    BY <1>5 DEF Throw
  <2> QED BY <1>0, <1>5, <2>1, StepActs
<1>6. CASE CoreDoes
  <2>1. stage = "running" /\ todo # <<>> /\ ~AsksFirst(todo)
    BY <1>6 DEF CoreDoes, Asking, Running, AtCore, AsksFirst
  <2>2. PICK rest \in Rests : GoOn("done", rest)
    BY <1>6 DEF CoreDoes
  <2> QED BY <1>4, <2>1, <2>2, RestsWithin
<1>7. ASSUME stage = "running", todo # <<>>
      PROVE  S!ToSet(Tail(todo)) \subseteq S!ToSet(todo)
  BY <1>7, TailWithin DEF RunInv, Ordered
<1>8. ASSUME NEW outcome \in {"absent", "refused", "failed"}, CoreRejects(outcome)
      PROVE  ActsInv'
  <2>1. stage = "running" /\ todo # <<>> /\ ~AsksFirst(todo)
    BY <1>8 DEF CoreRejects, Asking, Running, AtCore, AsksFirst
  <2>2. CASE Tolerated(outcome)
    <3>1. GoOn(outcome, Tail(todo))
      BY <1>8, <2>2 DEF CoreRejects
    <3> QED BY <1>4, <1>7, <2>1, <3>1
  <2>3. CASE ~Tolerated(outcome)
    <3>1. Throw(outcome, IF outcome = "failed" THEN "serverError" ELSE "coreRefusal")
      BY <1>8, <2>3 DEF CoreRejects
    <3> QED BY <1>5, <2>1, <3>1
  <2> QED BY <2>2, <2>3
<1>9. CASE NoFile \/ LocalDone \/ LocalThrows \/ Authorized \/ Forbidden \/ NoInvitation
             \/ NotImplemented
  <2>1. stage = "running" /\ todo # <<>> /\ ~AsksFirst(todo)
    BY <1>9 DEF NoFile, LocalDone, LocalThrows, Authorized, Forbidden, NoInvitation,
                NotImplemented, Running, AsksFirst
  <2>2. GoOn("done", Tail(todo)) \/ \E outcome, error : Throw(outcome, error)
    BY <1>9 DEF NoFile, LocalDone, LocalThrows, Authorized, Forbidden, NoInvitation, NotImplemented
  <2> QED BY <1>4, <1>5, <1>7, <2>1, <2>2
\* The requester has asked for a direct message with another user.
<1>10. CASE DirectMessage
  <2>1. stage = "running" /\ todo # <<>> /\ Head(todo).kind = "dm"
    BY <1>10 DEF DirectMessage, Running
  <2>2. IsSeq(todo) /\ Head(todo) \in S!ToSet(todo) /\ todo[Len(todo)] \in S!ToSet(todo)
    <3>1. IsSeq(todo)
      BY <2>1 DEF RunInv, Ordered
    <3>2. Head(todo) = todo[1] /\ 1 \in DOMAIN todo /\ Len(todo) \in DOMAIN todo
      BY <2>1, <3>1, IsSeqFacts
    <3> QED BY <3>1, <3>2 DEF S!ToSet
  <2>3. CASE Head(todo).as = {request.arg}
    BY <1>5, <1>10, <2>1, <2>3 DEF DirectMessage
  <2>4. CASE Head(todo).as # {request.arg}
    <3>1. AsksFirst(todo) => request.arg # request.token
      <4>1. Head(todo).as \subseteq {request.token}
        BY <2>1, <2>2 DEF ActsInv, Acts, OnBehalf
      <4> QED BY <2>4, <4>1 DEF AsksFirst
    <3>2. S!ToSet(<<todo[Len(todo)]>>) \subseteq S!ToSet(todo)
      BY <2>2, Members
    <3>3. \/ GoOn("done", Tail(todo)) \/ GoOn("done", <<todo[Len(todo)]>>)
          \/ Throw("failed", "serverError")
      BY <1>10, <2>4 DEF DirectMessage
    <3> QED BY <1>4, <1>5, <1>7, <2>1, <3>1, <3>2, <3>3
  <2> QED BY <2>3, <2>4
<1> QED BY <1>1, <1>2, <1>3, <1>6, <1>8, <1>9, <1>10 DEF RestNext

\* What is done, and what is still to do, is done for the requester, or for the other
\* user of a direct message that the requester has asked for.
THEOREM ActsInvHolds == RestSpec => []ActsInv
<1>1. RestInit => ActsInv
  <2> SUFFICES ASSUME RestInit PROVE ActsInv
    OBVIOUS
  <2>1. S!ToSet(todo) = {} /\ Taken = {} /\ stage = "idle" /\ todo = <<>>
    BY Members DEF RestInit, Taken
  <2> QED BY <2>1 DEF ActsInv, Lending, Nobodys
<1>2. RunInv /\ ActsInv /\ [RestNext]_restVars => ActsInv'
  BY ActsPreserved
<1> QED BY <1>1, <1>2, RunInvHolds, PTL DEF RestSpec

\* Whatever a request has others do is done in the name of the user whose token it has,
\* is about what the request names and nothing else, and is the operation of the route
\* that the client meant (JwtGuard, @GetUser, the order of the arguments of every
\* controller and service, the order of the routes).  Only POST /chat-rooms/dm uses another
\* user's name, that of the user whom its body names: to look up and to accept the
\* invitation to the room (ChatRoomsService.acceptDirectMessageInvitation).
THEOREM CoreAlwaysActsForRequester == RestSpec => []CoreActsForRequester
<1>1. ActsInv => CoreActsForRequester
  <2> SUFFICES ASSUME ActsInv, NEW e \in Taken
               PROVE  /\ IF e.step.kind \in OnBehalf
                         THEN /\ e.step.as = {request.arg} /\ request.arg # request.token
                              /\ Routes[request.aim].op = "getOrCreateDirectMessageRoom"
                         ELSE e.step.as \subseteq {request.token}
                      /\ e.step.as # {} => request.token \in Callers
                      /\ Named(e.step.path) \subseteq Named(request.path) \cup {request.arg}
                      /\ Routes[request.aim].guarded => e.step.as # {}
                      /\ RouteOf(request) = Routes[request.aim]
    BY DEF CoreActsForRequester
  <2>1. Acts(e.step)
    BY DEF ActsInv
  <2>2. e.step.kind \in OnBehalf => Direct /\ request.arg # request.token
    BY DEF ActsInv, Lending, Nobodys
  <2> QED BY <2>1, <2>2 DEF Acts, Direct
<1> QED BY <1>1, ActsInvHolds, PTL

\* Chains of reasons make the side effects justified.
LEMMA ReasonsJustify ==
  ASSUME RunInv, ActsInv
  PROVE  SideEffectsJustified
<1> SUFFICES ASSUME NEW f \in Taken
             PROVE
    /\ f.step.kind = "local" /\ f.step.path[1] \in {"detach", "closeRoom", "leaveActiveCall"} =>
         \E e \in Taken : Before(e, f) /\ e.outcome = "done" /\ e.step.as = f.step.as
    /\ f.step.kind = "join" =>
         \E e \in Taken : Before(e, f) /\ e.step.kind = "resolve" /\ e.outcome = "absent"
    /\ request.file /\ SetsImage(f.step) =>
         \E e \in Taken : Before(e, f) /\ e.step.kind = "image" /\ e.outcome = "done"
    /\ f.step.kind \in OnBehalf =>
         \E e \in Taken : /\ Before(e, f) /\ e.outcome = "done"
                          /\ e.step.verb = "post" /\ e.step.path = <<"chat-rooms">>
                          /\ e.step.as = {request.token}
  BY DEF SideEffectsJustified
<1>1. PICK i \in DOMAIN log : log[i] = f
  BY DEF Taken, S!ToSet
<1>2. DOMAIN log = 1 .. Len(log) /\ Len(log) \in Nat
  BY IsSeqFacts DEF RunInv
<1>3. CASE i = 1
  BY <1>1, <1>3 DEF RunInv, Reasoned, Free, Ends, Illustrates
<1>4. CASE i # 1
  <2>1. i - 1 \in DOMAIN log /\ i - 1 < i
    BY <1>2, <1>4
  <2>2. log[i - 1] \in Taken /\ Before(log[i - 1], f)
    BY <1>1, <2>1 DEF Taken, S!ToSet, Before
  <2>3. Reason(log[i - 1], f.step)
    BY <1>1, <1>4 DEF RunInv, Reasoned
  \* The first step in the name of the other user follows the creation of the room.
  <2>4. ASSUME f.step.kind \in OnBehalf
        PROVE  \E e \in Taken : /\ Before(e, f) /\ e.outcome = "done"
                                /\ e.step.verb = "post" /\ e.step.path = <<"chat-rooms">>
                                /\ e.step.as = {request.token}
    <3> DEFINE M == {k \in DOMAIN log : log[k].step.kind \in OnBehalf}
    <3>1. M \in SUBSET Nat /\ i \in M
      BY <1>1, <1>2, <2>4
    <3>2. PICK k \in M : \A j \in M : k <= j
      BY <3>1, LeastOf
    <3>3. k \in DOMAIN log /\ log[k].step.kind \in OnBehalf /\ k <= i
      BY <3>1, <3>2
    <3>4. k # 1
      BY <3>3 DEF RunInv, Reasoned, Free
    <3>5. k - 1 \in DOMAIN log /\ k - 1 < i /\ ~(k <= k - 1)
      BY <1>1, <1>2, <3>3, <3>4
    <3>6. log[k - 1].step.kind \notin OnBehalf
      BY <3>2, <3>5
    <3> HIDE DEF M
    <3>7. Reason(log[k - 1], log[k].step)
      BY <3>3, <3>4 DEF RunInv, Reasoned
    <3>8. /\ Creates(log[k - 1].step) /\ log[k - 1].step.as # {}
          /\ log[k - 1].outcome = "done"
      BY <3>3, <3>6, <3>7 DEF Reason
    <3>9. log[k - 1] \in Taken /\ Before(log[k - 1], f)
      BY <1>1, <3>5 DEF Taken, S!ToSet, Before
    <3>10. log[k - 1].step.as = {request.token}
      <4>1. Acts(log[k - 1].step)
        BY <3>9 DEF ActsInv
      <4> QED BY <3>6, <3>8, <4>1 DEF Acts
    <3> QED BY <3>8, <3>9, <3>10 DEF Creates
  <2> QED BY <2>2, <2>3, <2>4 DEF Reason, Ends, Illustrates
<1> QED BY <1>3, <1>4

\* Sessions end only after Core has agreed, a user is made a member of a call only when
\* Core says that he is none, a room or a user is given an image only when it has been
\* uploaded, and another user's name is used only when Core has made the caller's
\* direct-message room (CallRoomsService, CallsService, MeetingsService, UsersService,
\* ChatRoomsService).
THEOREM SideEffectsAlwaysJustified == RestSpec => []SideEffectsJustified
<1>1. RunInv /\ ActsInv => SideEffectsJustified
  BY ReasonsJustify
<1> QED BY <1>1, RunInvHolds, ActsInvHolds, PTL

----------------------------------------------------------------------------
(* What is passed on.                                                      *)

\* The body passed on is that of the request that is being handled.
BodiesInv ==
  /\ stage # "idle" => request \in Requests
  /\ stage \in {"idle", "received"} => sent = NoRequest
  /\ sent = NoRequest \/ Sound(sent, request.body)

\* What the pipes let through is sound when the service has converted it.
LEMMA SoundlyPassed ==
  ASSUME NEW q \in Requests, Matching(q) # {}, PipesAccept(RouteOf(q), q)
  PROVE  Sound(Passed(RouteOf(q).op, q.body), q.body)
<1> DEFINE r == RouteOf(q)
<1>1. r = Routes[q.aim] /\ Passes(r)
  BY RouteMeant
<1>2. DOMAIN q.body = Fields(r.dto)
  BY <1>1, RequestsAssumption
<1> HIDE DEF r
<1>3. Entered(r.dto, q.body)
  BY <1>2 DEF Entered, PipesAccept, r
<1> QED BY <1>1, <1>3 DEF Passes, r

LEMMA BodiesPreserved ==
  ASSUME BodiesInv, [RestNext]_restVars
  PROVE  BodiesInv'
<1>1. CASE Arrive
  BY <1>1 DEF Arrive, BodiesInv
<1>2. CASE Dispatch
  <2>1. /\ stage = "received" /\ Matching(request) # {} /\ PipesAccept(RouteOf(request), request)
        /\ request' = request /\ stage' = "running"
        /\ sent' = Passed(RouteOf(request).op, request.body)
    BY <1>2 DEF Dispatch
  <2>2. Sound(sent', request.body)
    BY <2>1, SoundlyPassed DEF BodiesInv
  <2>3. Sound(sent, request.body)' <=> Sound(sent', request.body)
    BY <2>1 DEF Sound, Unchecked
  <2> QED BY <2>1, <2>2, <2>3 DEF BodiesInv
<1>3. CASE \/ UNCHANGED restVars \/ NoRoute \/ Unauthorized \/ BadRequest \/ Succeed
           \/ NoFile \/ CoreDoes
           \/ (\E outcome \in {"absent", "refused", "failed"} : CoreRejects(outcome))
           \/ LocalDone \/ LocalThrows \/ Authorized \/ Forbidden \/ DirectMessage
           \/ NoInvitation \/ NotImplemented
  <2>1. /\ request' = request /\ sent' = sent
        /\ stage' = stage \/ (stage # "idle" /\ stage' = "answered")
    BY <1>3 DEF restVars, NoRoute, Unauthorized, BadRequest, Reject, Succeed, NoFile, CoreDoes,
                CoreRejects, Asking, LocalDone, LocalThrows, Authorized, Forbidden, DirectMessage,
                NoInvitation, NotImplemented, Running, GoOn, Throw
  <2>2. Sound(sent, request.body)' <=> Sound(sent, request.body)
    BY <2>1 DEF Sound, Unchecked
  <2> QED BY <2>1, <2>2 DEF BodiesInv
<1> QED BY <1>1, <1>2, <1>3 DEF RestNext

\* What is passed on to Core has its token, message, transcript or password whichever
\* spelling the client has used; only where it has used both, an empty or wrong first
\* spelling may go to Core beside a good second one (the DTOs of every route and what the
\* controller or service makes of the body).
THEOREM BodiesAlwaysSound == RestSpec => []BodiesSound
<1>1. RestInit => BodiesInv
  BY DEF RestInit, BodiesInv
<1>2. BodiesInv /\ [RestNext]_restVars => BodiesInv'
  BY BodiesPreserved
<1>3. BodiesInv => BodiesSound
  BY DEF BodiesInv, BodiesSound, Sound
<1> QED BY <1>1, <1>2, <1>3, PTL DEF RestSpec

=============================================================================
