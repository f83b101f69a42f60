--------------------------- MODULE DirectMessage ---------------------------
(***************************************************************************)
(* The room of a direct message between two users:                         *)
(* getOrCreateDirectMessageRoom of src/chat-rooms/chat-rooms.service.ts.   *)
(*                                                                         *)
(* Requests of both users run at once, in one or several processes of the  *)
(* backend.  Redis keeps the number of the pair's room and a lock that     *)
(* expires; Core keeps the rooms.  A user sees a room they have created or *)
(* were invited to and have accepted; the service accepts on behalf of the *)
(* user who is invited.  Each request to Redis or Core is one action.      *)
(***************************************************************************)
EXTENDS Naturals, FiniteSets

CONSTANTS
  Requests,    (* calls of getOrCreateDirectMessageRoom                    *)
  UserOf,      (* the user of the pair who made the request                *)
  Low, High,   (* the pair                                                 *)
  None,        (* "no value" in Redis, no room, no request                 *)
  Faults,      (* subset of {"crash", "slow", "core", "redis"}             *)
  MaxFaults,   (* bound on the faults                                      *)
  MaxPolls     (* how often a waiting request looks: 10                    *)

ASSUME UserOfAssumption == UserOf \in [Requests -> {Low, High}]
ASSUME NoneAssumption == None \notin Requests

VARIABLES
  cache,       (* Redis: the pair's room                                   *)
  lock,        (* Redis: the request that has set the lock                 *)
  rooms,       (* Core: the rooms with the pair's name, each named by the  *)
               (* request that created it                                  *)
  accepted,    (* Core: those whose invitation was accepted                *)
  others,      (* Core: the users with another invitation of the pair's    *)
               (* other user pending, recent enough to be looked at        *)
  pc,          (* request -> what it does next                             *)
  room,        (* request -> the room it has found or created              *)
  polls,       (* request -> how often it has looked                       *)
  faults,      (* faults so far                                            *)
  expired      (* history: the lock has expired under a running request    *)

vars == <<cache, lock, rooms, accepted, others, pc, room, polls, faults, expired>>

Stages == {"new", "lock", "wait", "find", "create", "accept", "store", "release",
           "giveUp", "show", "returned", "failed", "crashed"}
Ended == {"returned", "failed", "crashed"}

\* Between setIfAbsent and del.
Creating(q) == pc[q] \in {"find", "create", "accept", "store", "release", "giveUp"}

Peer(u) == IF u = Low THEN High ELSE Low
Visible(r, u) == UserOf[r] = u \/ r \in accepted

Init ==
  /\ cache = None /\ lock = None
  /\ rooms = {} /\ accepted = {}
  /\ others \in SUBSET {Low, High}
  /\ pc = [q \in Requests |-> "new"]
  /\ room = [q \in Requests |-> None]
  /\ polls = [q \in Requests |-> 0]
  /\ faults = 0 /\ expired = FALSE

Goto(q, stage) == pc' = [pc EXCEPT ![q] = stage]

Fault(kind) == kind \in Faults /\ faults < MaxFaults /\ faults' = faults + 1

\* A request to Redis or Core fails without effect, inside or outside `try'.
Fails(q, kind) ==
  /\ Fault(kind)
  /\ Goto(q, IF Creating(q) THEN "giveUp" ELSE "failed")
  /\ UNCHANGED <<cache, lock, rooms, accepted, others, room, polls, expired>>

core == <<rooms, accepted, others>>

\* Whether Redis holds the number of a room.
CacheHit == cache # None

\* getCachedDirectMessageRoomIdx(): a stored room is shown.
UseCache(q) ==
  /\ CacheHit
  /\ room' = [room EXCEPT ![q] = cache]
  /\ Goto(q, "show")

LookUp(q) ==
  /\ pc[q] = "new"
  /\ \/ UseCache(q) /\ UNCHANGED faults
     \/ ~CacheHit /\ Goto(q, "lock") /\ UNCHANGED <<room, faults>>
  /\ UNCHANGED <<cache, lock, core, polls, expired>>

\* Whether the lock can be set.  (Mutant: it is set over another.)
LockFree_Overwritten == TRUE
LockFree == lock = None

\* setIfAbsent(); its answer may be lost.
SetLock(q) ==
  /\ pc[q] = "lock"
  /\ \/ LockFree /\ lock' = q /\ Goto(q, "find") /\ UNCHANGED faults
     \/ LockFree /\ lock' = q /\ Goto(q, "failed") /\ Fault("redis")
     \/ ~LockFree /\ Goto(q, "wait") /\ UNCHANGED <<lock, faults>>
  /\ UNCHANGED <<cache, core, room, polls, expired>>

\* The attempts of a waiting request.  (Mutant: they are not counted.)
Polled_Not(q) == polls[q]
Polled(q) == polls[q] + 1

\* waitForDirectMessageRoomIdx().
Poll(q) ==
  /\ pc[q] = "wait"
  /\ \/ UseCache(q) /\ UNCHANGED polls
     \/ /\ ~CacheHit
        /\ polls' = [polls EXCEPT ![q] = Polled(q)]
        /\ Goto(q, IF Polled(q) < MaxPolls THEN "wait" ELSE "failed")
        /\ UNCHANGED room
  /\ UNCHANGED <<cache, lock, core, faults, expired>>

\* findExistingDirectMessageRoomIdx(): among the rooms the user sees.
Find(q) ==
  /\ pc[q] = "find"
  /\ LET seen == {r \in rooms : Visible(r, UserOf[q])} IN
       IF seen = {} THEN Goto(q, "create") /\ UNCHANGED room
       ELSE \E r \in seen : room' = [room EXCEPT ![q] = r] /\ Goto(q, "store")
  /\ UNCHANGED <<cache, lock, core, polls, faults, expired>>

\* What follows the creation of the room.  (Mutant: it is stored at once.)
AfterCreate_Store == "store"
AfterCreate == "accept"

\* POST /chat-rooms; its answer may be lost.
Create(q) ==
  /\ pc[q] = "create"
  /\ rooms' = rooms \cup {q}
  /\ room' = [room EXCEPT ![q] = q]
  /\ \/ Goto(q, AfterCreate) /\ UNCHANGED faults
     \/ Goto(q, "giveUp") /\ Fault("core")
  /\ UNCHANGED <<cache, lock, accepted, others, polls, expired>>

\* acceptDirectMessageInvitation(): the recent invitations of the inviter are
\* accepted one by one, up to the one for this room.
Accept(q) ==
  /\ pc[q] = "accept"
  /\ \/ accepted' = accepted \cup {q} /\ Goto(q, "store") /\ UNCHANGED others
     \/ /\ Peer(UserOf[q]) \in others
        /\ others' = others \ {Peer(UserOf[q])}
        /\ UNCHANGED <<accepted, pc>>
  /\ UNCHANGED <<cache, lock, rooms, room, polls, faults, expired>>

Store(q) ==
  /\ pc[q] = "store"
  /\ cache' = room[q]
  /\ Goto(q, "release")
  /\ UNCHANGED <<lock, core, room, polls, faults, expired>>

\* `finally': del() of the lock, whoever has set it.  If del() fails, its
\* error is thrown and the lock stays until it expires.
Release(q) ==
  /\ pc[q] \in {"release", "giveUp"}
  /\ \/ lock' = None /\ Goto(q, IF pc[q] = "release" THEN "show" ELSE "failed") /\ UNCHANGED faults
     \/ Fault("redis") /\ Goto(q, "failed") /\ UNCHANGED lock
  /\ UNCHANGED <<cache, core, room, polls, expired>>

\* getDecoratedDirectMessageRoom(): Core refuses a user who does not see it.  Its promise is
\* returned without await, so that Core is asked before the release of the lock; the room
\* does not change any more for its user, and Core may be taken to answer after it.
Show(q) ==
  /\ pc[q] = "show"
  /\ Goto(q, IF Visible(room[q], UserOf[q]) THEN "returned" ELSE "failed")
  /\ UNCHANGED <<cache, lock, core, room, polls, faults, expired>>

Step(q) ==
  LookUp(q) \/ SetLock(q) \/ Poll(q) \/ Find(q) \/ Create(q) \/ Accept(q) \/ Store(q)
  \/ Release(q) \/ Show(q)

----------------------------------------------------------------------------

RequestFails(q) ==
  \/ pc[q] \in {"find", "create", "accept", "show"} /\ Fails(q, "core")
  \/ pc[q] \in {"new", "lock", "wait", "store"} /\ Fails(q, "redis")

Crash(q) ==
  /\ pc[q] \notin Ended
  /\ Fault("crash")
  /\ Goto(q, "crashed")
  /\ UNCHANGED <<cache, lock, core, room, polls, expired>>

\* The time-to-live of the lock ends: of one that nobody will release, or of
\* a request that takes longer.  (Mutant: there is no time-to-live.)
Expires_Never == FALSE
Expires == lock # None

Expire ==
  /\ Expires
  /\ lock' = None
  /\ IF Creating(lock) THEN Fault("slow") /\ expired' = TRUE ELSE UNCHANGED <<faults, expired>>
  /\ UNCHANGED <<cache, core, pc, room, polls>>

Next == (\E q \in Requests : Step(q) \/ RequestFails(q) \/ Crash(q)) \/ Expire

Spec == Init /\ [][Next]_vars

\* Redis and Core answer, and Redis expires what is due.
Fairness == (\A q \in Requests : WF_vars(Step(q))) /\ WF_vars(Expire)

FairSpec == Spec /\ Fairness

----------------------------------------------------------------------------

TypeOK ==
  /\ cache \in Requests \cup {None} /\ lock \in Requests \cup {None}
  /\ rooms \subseteq Requests /\ accepted \subseteq rooms
  /\ others \subseteq {Low, High}
  /\ pc \in [Requests -> Stages]
  /\ room \in [Requests -> Requests \cup {None}]
  /\ \A q \in Requests : pc[q] \in {"accept", "store", "show", "returned"} => room[q] \in rooms
  /\ polls \in [Requests -> Nat]
  /\ faults \in Nat /\ expired \in BOOLEAN

\* Two requests of the pair are never both between setting the lock and
\* releasing it, unless the lock has expired under one of them: not after a
\* crash, a lost answer or a failed release either.
CreatorsExclusive ==
  ~expired => \A p, q \in Requests : Creating(p) /\ Creating(q) => p = q

\* Without a fault the pair gets one room, and every fault costs at most one
\* more: a request that does not finish leaves at most a room its peer cannot
\* see, and the release of a lock that is another's lets at most one more in.
RoomsPaidFor == Cardinality(rooms) <= 1 + faults

\* Without a fault a stored or returned room is one that both users see:
\* nobody is shown a room whose invitation is still open.
StoredRoomIsShared ==
  faults = 0 =>
    /\ cache # None => cache \in accepted
    /\ \A q \in Requests : pc[q] = "returned" => room[q] \in accepted

\* A lock is always given back, also when its request has crashed.
LockFreed == lock # None ~> lock = None

\* Every request ends: those that wait give up when nobody stores a room.
EveryRequestEnds == \A q \in Requests : pc[q] = "wait" ~> pc[q] \in Ended

=============================================================================
