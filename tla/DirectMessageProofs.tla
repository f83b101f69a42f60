------------------------ MODULE DirectMessageProofs ------------------------
(***************************************************************************)
(* The lock of a direct-message room excludes, for any number of requests, *)
(* processes and faults, as long as it does not expire under its holder.   *)
(* Without faults a stored room is shared; with them, each costs at most   *)
(* one room more.                                                          *)
(***************************************************************************)
EXTENDS DirectMessage, FiniteSetTheorems, TLAPS

\* The request that is creating the room is the one named in Redis.  A lock
\* may also name a request that has ended: it waits to expire.
HolderInv ==
  /\ pc \in [Requests -> Stages]
  /\ ~expired => \A q \in Requests : Creating(q) => lock = q

LEMMA InitHolder == Init => HolderInv
  BY DEF Init, HolderInv, Stages, Creating

\* A step of a request that is not creating a room before, or not after, it.
LEMMA StepHolder ==
  ASSUME HolderInv, NEW q \in Requests, Step(q) \/ RequestFails(q) \/ Crash(q)
  PROVE  HolderInv'
<1> USE DEF HolderInv, Stages, Goto, Creating
<1>1. CASE LookUp(q)
  BY <1>1 DEF LookUp, UseCache
<1>2. CASE SetLock(q)
  <2>1. CASE pc'[q] = "find"
    <3>1. lock = None /\ lock' = q /\ pc' = [pc EXCEPT ![q] = "find"] /\ expired' = expired
      BY <1>2, <2>1 DEF SetLock, LockFree
    <3>2. ~expired => \A p \in Requests : ~Creating(p)
      BY <3>1, NoneAssumption
    <3> QED BY <3>1, <3>2
  <2>2. CASE pc'[q] # "find"
    <3>1. pc[q] = "lock" /\ expired' = expired
      BY <1>2 DEF SetLock
    <3>2. pc' \in [Requests -> Stages] /\ ~Creating(q)'
      BY <1>2, <2>2 DEF SetLock
    <3>3. \A p \in Requests : Creating(p)' => Creating(p)
      BY <1>2, <3>2 DEF SetLock
    <3>4. lock' = lock \/ lock = None
      BY <1>2 DEF SetLock, LockFree
    <3> QED BY <3>1, <3>2, <3>3, <3>4, NoneAssumption
  <2> QED BY <2>1, <2>2
<1>3. CASE Poll(q)
  BY <1>3 DEF Poll, UseCache
<1>4. CASE Find(q)
  BY <1>4 DEF Find
<1>5. CASE Create(q)
  BY <1>5 DEF Create, AfterCreate
<1>6. CASE Accept(q)
  BY <1>6 DEF Accept
<1>7. CASE Store(q)
  BY <1>7 DEF Store
<1>8. CASE Release(q)
  <2>1. Creating(q) /\ ~Creating(q)' /\ pc' \in [Requests -> Stages] /\ expired' = expired
    BY <1>8 DEF Release
  <2>2. \A p \in Requests : Creating(p)' => Creating(p) /\ p # q
    BY <1>8, <2>1 DEF Release
  <2> QED BY <2>1, <2>2
<1>9. CASE Show(q)
  BY <1>9 DEF Show
<1>10. CASE RequestFails(q)
  BY <1>10 DEF RequestFails, Fails
<1>11. CASE Crash(q)
  BY <1>11 DEF Crash
<1> QED BY <1>1, <1>2, <1>3, <1>4, <1>5, <1>6, <1>7, <1>8, <1>9, <1>10, <1>11 DEF Step

LEMMA NextHolder == HolderInv /\ [Next]_vars => HolderInv'
<1> SUFFICES ASSUME HolderInv, [Next]_vars PROVE HolderInv'
  OBVIOUS
<1>1. CASE \E q \in Requests : Step(q) \/ RequestFails(q) \/ Crash(q)
  BY <1>1, StepHolder
<1>2. CASE Expire
  \* The lock of a running request leaves `expired' behind; that of an ended
  \* one was nobody's.
  <2>1. pc' = pc /\ (expired' \/ (expired' = expired /\ ~Creating(lock)))
    BY <1>2 DEF Expire
  <2> QED BY <2>1 DEF HolderInv, Creating
<1>3. CASE UNCHANGED vars
  BY <1>3 DEF vars, HolderInv, Creating
<1> QED BY <1>1, <1>2, <1>3 DEF Next

\* No two requests create the pair's room together unless the lock has
\* expired under one of them: crashes, lost answers and failed releases alone
\* do not let a second one in.
THEOREM CreatorsAlwaysExclusive == Spec => []CreatorsExclusive
<1>1. HolderInv => CreatorsExclusive
  BY DEF HolderInv, CreatorsExclusive
<1> QED BY <1>1, InitHolder, NextHolder, PTL DEF Spec

----------------------------------------------------------------------------
(* The rooms that are stored and shown.                                    *)

HasRoom == {"accept", "store", "release", "show", "returned"}

\* TypeOK is inductive once the stored room and the room of a request that is about
\* to release the lock are known to exist.
TypeInv ==
  /\ TypeOK
  /\ cache # None => cache \in rooms
  /\ \A q \in Requests : pc[q] \in HasRoom => room[q] \in rooms
  /\ \A q \in Requests : pc[q] = "accept" => room[q] = q

LEMMA InitType == Init => TypeInv
<1> SUFFICES ASSUME Init PROVE TypeInv
  OBVIOUS
<1>1. \A q \in Requests : pc[q] = "new"
  BY DEF Init
<1>2. pc \in [Requests -> Stages] /\ room \in [Requests -> Requests \cup {None}] /\ polls \in [Requests -> Nat]
  BY DEF Init, Stages
<1> QED BY <1>1, <1>2 DEF Init, TypeInv, TypeOK, HasRoom

LEMMA StepType ==
  ASSUME TypeInv, NEW q \in Requests, Step(q) \/ RequestFails(q) \/ Crash(q)
  PROVE  TypeInv'
<1> USE NoneAssumption DEF TypeInv, TypeOK, Stages, Goto, HasRoom
<1>1. CASE LookUp(q)
  BY <1>1 DEF LookUp, UseCache, CacheHit, core
<1>2. CASE SetLock(q)
  BY <1>2 DEF SetLock, core, Fault
<1>3. CASE Poll(q)
  <2>1. CASE UseCache(q) /\ polls' = polls
    BY <1>3, <2>1 DEF Poll, UseCache, CacheHit, core
  <2>2. CASE /\ polls' = [polls EXCEPT ![q] = polls[q] + 1] /\ room' = room
             /\ \/ pc' = [pc EXCEPT ![q] = "wait"]
                \/ pc' = [pc EXCEPT ![q] = "failed"]
    BY <1>3, <2>2 DEF Poll, core
  <2> QED BY <1>3, <2>1, <2>2 DEF Poll, Polled
<1>4. CASE Find(q)
  <2>1. CASE pc' = [pc EXCEPT ![q] = "create"] /\ room' = room
    BY <1>4, <2>1 DEF Find, core
  <2>2. CASE \E r \in rooms : room' = [room EXCEPT ![q] = r] /\ pc' = [pc EXCEPT ![q] = "store"]
    BY <1>4, <2>2 DEF Find, core
  <2> QED BY <1>4, <2>1, <2>2 DEF Find
<1>5. CASE Create(q)
  BY <1>5 DEF Create, AfterCreate, Fault
<1>6. CASE Accept(q)
  <2>1. CASE accepted' = accepted \cup {q} /\ pc' = [pc EXCEPT ![q] = "store"] /\ others' = others
    BY <1>6, <2>1 DEF Accept
  <2>2. CASE UNCHANGED <<accepted, pc>> /\ others' \subseteq others
    BY <1>6, <2>2 DEF Accept
  <2> QED BY <1>6, <2>1, <2>2 DEF Accept
<1>7. CASE Store(q)
  BY <1>7 DEF Store, core
<1>8. CASE Release(q)
  BY <1>8 DEF Release, core, Fault
<1>9. CASE Show(q)
  BY <1>9 DEF Show, core
<1>10. CASE RequestFails(q)
  BY <1>10 DEF RequestFails, Fails, Fault
<1>11. CASE Crash(q)
  BY <1>11 DEF Crash, core, Fault
<1> QED BY <1>1, <1>2, <1>3, <1>4, <1>5, <1>6, <1>7, <1>8, <1>9, <1>10, <1>11 DEF Step

LEMMA NextType == TypeInv /\ [Next]_vars => TypeInv'
<1> SUFFICES ASSUME TypeInv, [Next]_vars PROVE TypeInv'
  OBVIOUS
<1>1. CASE \E q \in Requests : Step(q) \/ RequestFails(q) \/ Crash(q)
  BY <1>1, StepType
<1>2. CASE Expire
  <2>1. /\ lock' = None /\ UNCHANGED <<cache, rooms, accepted, others, pc, room, polls>>
    BY <1>2 DEF Expire, core
  <2>2. faults' \in Nat /\ expired' \in BOOLEAN
    <3>1. CASE Creating(lock)
      BY <1>2, <3>1 DEF Expire, Fault, TypeInv, TypeOK
    <3>2. CASE ~Creating(lock)
      BY <1>2, <3>2 DEF Expire, TypeInv, TypeOK
    <3> QED BY <3>1, <3>2
  <2> QED BY <2>1, <2>2 DEF TypeInv, TypeOK
<1>3. CASE UNCHANGED vars
  BY <1>3 DEF vars, TypeInv, TypeOK
<1> QED BY <1>1, <1>2, <1>3 DEF Next

\* While nothing has gone wrong, a room whose invitation is open belongs to the request
\* that is about to accept it.
Shared ==
  faults = 0 =>
    /\ ~expired
    /\ cache # None => cache \in accepted
    /\ \A r \in rooms : r \in accepted \/ pc[r] = "accept"
    /\ \A q \in Requests : pc[q] \in HasRoom \ {"accept"} => room[q] \in accepted

SharedInv == TypeInv /\ HolderInv /\ Shared

LEMMA StepShared ==
  ASSUME SharedInv, NEW q \in Requests, Step(q)
  PROVE  Shared'
<1> SUFFICES ASSUME faults' = 0 PROVE Shared'
  BY DEF Shared
<1>1. faults = 0 /\ expired' = expired /\ ~expired
  <2>1. expired' = expired /\ (faults' = faults \/ faults' = faults + 1) /\ faults \in Nat
    BY DEF Step, LookUp, SetLock, Poll, Find, Create, Accept, Store, Release, Show, Fault, UseCache,
           SharedInv, TypeInv, TypeOK
  <2> QED BY <2>1 DEF SharedInv, Shared
<1>2. ~Fault("redis") /\ ~Fault("core")
  BY <1>1 DEF Fault
<1> USE <1>1, <1>2, NoneAssumption
    DEF SharedInv, TypeInv, TypeOK, Shared, Stages, Goto, HasRoom
<1>3. CASE LookUp(q)
  BY <1>3 DEF LookUp, UseCache, CacheHit, core
<1>4. CASE SetLock(q)
  BY <1>4 DEF SetLock, core
<1>5. CASE Poll(q)
  <2>1. CASE UseCache(q)
    BY <1>5, <2>1 DEF Poll, UseCache, CacheHit, core
  <2>2. CASE /\ room' = room
             /\ \/ pc' = [pc EXCEPT ![q] = "wait"]
                \/ pc' = [pc EXCEPT ![q] = "failed"]
    BY <1>5, <2>2 DEF Poll, core
  <2> QED BY <1>5, <2>1, <2>2 DEF Poll
\* The request that looks for a room holds the lock, so no room is half accepted.
<1>6. CASE Find(q)
  <2>1. rooms \subseteq accepted
    <3>1. \A r \in Requests : pc[r] = "accept" => r = q
      BY <1>6 DEF Find, HolderInv, Creating
    <3> QED BY <1>6, <3>1 DEF Find
  <2>2. CASE pc' = [pc EXCEPT ![q] = "create"] /\ room' = room
    BY <1>6, <2>1, <2>2 DEF Find, core
  <2>3. CASE \E r \in rooms : room' = [room EXCEPT ![q] = r] /\ pc' = [pc EXCEPT ![q] = "store"]
    BY <1>6, <2>1, <2>3 DEF Find, core
  <2> QED BY <1>6, <2>2, <2>3 DEF Find
<1>7. CASE Create(q)
  BY <1>7 DEF Create, AfterCreate
<1>8. CASE Accept(q)
  <2>1. CASE accepted' = accepted \cup {q} /\ pc' = [pc EXCEPT ![q] = "store"] /\ others' = others
    BY <1>8, <2>1 DEF Accept
  <2>2. CASE UNCHANGED <<accepted, pc>> /\ others' \subseteq others
    BY <1>8, <2>2 DEF Accept
  <2> QED BY <1>8, <2>1, <2>2 DEF Accept
<1>9. CASE Store(q)
  BY <1>9 DEF Store, core
<1>10. CASE Release(q)
  BY <1>10 DEF Release, core
<1>11. CASE Show(q)
  BY <1>11 DEF Show, core
<1> QED BY <1>3, <1>4, <1>5, <1>6, <1>7, <1>8, <1>9, <1>10, <1>11 DEF Step

LEMMA NextShared == SharedInv /\ [Next]_vars => SharedInv'
<1> SUFFICES ASSUME SharedInv, [Next]_vars PROVE SharedInv'
  OBVIOUS
<1>1. TypeInv' /\ HolderInv'
  BY NextType, NextHolder DEF SharedInv
<1>2. CASE \E q \in Requests : Step(q)
  BY <1>1, <1>2, StepShared DEF SharedInv
<1>3. CASE Expire \/ \E q \in Requests : RequestFails(q) \/ Crash(q)
  <2>1. (faults' = faults + 1 /\ faults \in Nat) \/ UNCHANGED <<cache, core, pc, room, faults, expired>>
    BY <1>3 DEF Expire, RequestFails, Fails, Crash, Fault, SharedInv, TypeInv, TypeOK
  <2>2. Shared'
    BY <2>1 DEF Shared, SharedInv, core
  <2> QED BY <1>1, <2>2 DEF SharedInv
<1>4. CASE UNCHANGED vars
  BY <1>1, <1>4 DEF vars, SharedInv, Shared
<1> QED BY <1>2, <1>3, <1>4 DEF Next

\* For any requests and faults, all is of its type.
THEOREM DirectMessageTypes == Spec => []TypeOK
<1>1. TypeInv => TypeOK
  BY DEF TypeInv
<1> QED BY <1>1, InitType, NextType, PTL DEF Spec

\* As long as nothing fails, nobody is shown a room whose invitation is still open:
\* whoever looks for a room holds the lock, so no other request is between the creation
\* of a room and its acceptance.
THEOREM StoredRoomAlwaysShared == Spec => []StoredRoomIsShared
<1>1. Init => SharedInv
  <2>1. Init => Shared
    BY DEF Init, Shared, HasRoom
  <2> QED BY <2>1, InitType, InitHolder DEF SharedInv
<1>2. SharedInv => StoredRoomIsShared
  BY DEF SharedInv, Shared, StoredRoomIsShared, HasRoom
<1> QED BY <1>1, <1>2, NextShared, PTL DEF Spec

----------------------------------------------------------------------------
(* What the rooms of the pair cost.                                        *)

\* The requests that have a room or may still get one.
Opening == rooms \cup {q \in Requests : Creating(q)}

\* The rooms whose creator is about to release the lock although nobody accepted.
LeftOpen == {q \in rooms : pc[q] = "giveUp"}

\* Whether the lock in Redis is that of a request at work.
Held == IF lock # None /\ Creating(lock) THEN 1 ELSE 0

\* While no invitation is accepted, every request that has or may get a room is the
\* holder of the lock or was paid for by a fault, and one that leaves its room open was
\* paid for twice: its release may be that of another's lock.
Budget == accepted = {} => Cardinality(Opening) + Cardinality(LeftOpen) <= faults + Held

\* Once an invitation is accepted every request finds that room, so these become fewer.
Promised == rooms \cup {q \in Requests : pc[q] = "create"}

\* Where a request is that has created a room, and one that has not.
RoomStage ==
  \A q \in Requests :
    /\ pc[q] \in {"new", "lock", "wait", "find", "create"} => q \notin rooms
    /\ q \in rooms /\ accepted = {} => pc[q] \in {"accept", "giveUp", "failed", "crashed"}

PaidInv ==
  /\ IsFiniteSet(Opening) /\ Budget
  /\ Cardinality(Promised) <= 1 + faults
  /\ RoomStage

LEMMA SmallerSet ==
  ASSUME NEW S, IsFiniteSet(S), NEW T, T \subseteq S
  PROVE  IsFiniteSet(T) /\ Cardinality(T) \in Nat /\ Cardinality(T) <= Cardinality(S)
BY FS_Subset, FS_CardinalityType

LEMMA WithoutElement ==
  ASSUME NEW S, IsFiniteSet(S), NEW x \in S, NEW T, T \subseteq S \ {x}
  PROVE  IsFiniteSet(T) /\ Cardinality(T) \in Nat /\ Cardinality(T) + 1 <= Cardinality(S)
<1>1. IsFiniteSet(S \ {x}) /\ Cardinality(S \ {x}) = Cardinality(S) - 1 /\ Cardinality(S) \in Nat
  BY FS_RemoveElement, FS_CardinalityType
<1>2. IsFiniteSet(T) /\ Cardinality(T) \in Nat /\ Cardinality(T) <= Cardinality(S \ {x})
  BY <1>1, SmallerSet
<1> QED BY <1>1, <1>2

LEMMA OneElementMore ==
  ASSUME NEW S, IsFiniteSet(S), NEW x, NEW T, T \subseteq S \cup {x}
  PROVE  IsFiniteSet(T) /\ Cardinality(T) \in Nat /\ Cardinality(T) <= Cardinality(S) + 1
<1>1. IsFiniteSet(S \cup {x}) /\ Cardinality(S) \in Nat
      /\ (Cardinality(S \cup {x}) = Cardinality(S) \/ Cardinality(S \cup {x}) = Cardinality(S) + 1)
  BY FS_AddElement, FS_CardinalityType
<1>2. IsFiniteSet(T) /\ Cardinality(T) <= Cardinality(S \cup {x})
  BY <1>1, FS_Subset
<1>3. Cardinality(T) \in Nat
  BY <1>2, FS_CardinalityType
<1> QED BY <1>1, <1>2, <1>3

\* A step spends no more than it pays: nothing, a room left open for a fault, the lock
\* when it is set, a request that ends for the lock, a room left open for the lock, or a
\* request that stops for a fault; or an invitation is accepted, and nothing is counted.
Spends(q) ==
  /\ accepted \subseteq accepted' /\ faults <= faults'
  /\ \/ /\ Opening' \subseteq Opening /\ LeftOpen' \subseteq LeftOpen
        /\ Held <= Held'
     \/ /\ Opening' \subseteq Opening /\ LeftOpen' \subseteq LeftOpen \cup {q}
        /\ faults' = faults + 1 /\ Held <= Held'
     \/ /\ Opening' \subseteq Opening \cup {q} /\ LeftOpen' \subseteq LeftOpen
        /\ Held = 0 /\ Held' = 1
     \/ /\ q \in Opening /\ Opening' \subseteq Opening \ {q} /\ LeftOpen' \subseteq LeftOpen
     \/ /\ Opening' \subseteq Opening /\ q \in LeftOpen /\ LeftOpen' \subseteq LeftOpen \ {q}
     \/ /\ Opening' \subseteq Opening /\ LeftOpen' \subseteq LeftOpen
        /\ faults' = faults + 1 \/ accepted' # {}

LEMMA BudgetKept ==
  ASSUME TypeInv, TypeInv', IsFiniteSet(Opening), Budget, NEW q, Spends(q)
  PROVE  IsFiniteSet(Opening)' /\ Budget'
<1>1. Held \in Nat /\ Held <= 1 /\ Held' \in Nat /\ faults \in Nat /\ faults' \in Nat
  BY DEF Held, TypeInv, TypeOK
<1>2. IsFiniteSet(LeftOpen) /\ Cardinality(Opening) \in Nat /\ Cardinality(LeftOpen) \in Nat
  <2>1. LeftOpen \subseteq Opening
    BY DEF LeftOpen, Opening
  <2> QED BY <2>1, SmallerSet, FS_CardinalityType
<1> DEFINE o == Cardinality(Opening)  o2 == Cardinality(Opening')
           l == Cardinality(LeftOpen) l2 == Cardinality(LeftOpen')
           h == Held  h2 == Held'  f == faults  f2 == faults'
<1>3. IsFiniteSet(Opening') /\ o2 \in Nat
  BY SmallerSet, OneElementMore, WithoutElement DEF Spends
<1>4. o \in Nat /\ l \in Nat /\ l2 \in Nat
  BY <1>2, SmallerSet, OneElementMore, WithoutElement DEF Spends
<1>5. /\ Opening' \subseteq Opening => o2 <= o
      /\ Opening' \subseteq Opening \cup {q} => o2 <= o + 1
      /\ q \in Opening /\ Opening' \subseteq Opening \ {q} => o2 + 1 <= o
  BY SmallerSet, OneElementMore, WithoutElement
<1>6. /\ LeftOpen' \subseteq LeftOpen => l2 <= l
      /\ LeftOpen' \subseteq LeftOpen \cup {q} => l2 <= l + 1
      /\ q \in LeftOpen /\ LeftOpen' \subseteq LeftOpen \ {q} => l2 + 1 <= l
  BY <1>2, SmallerSet, OneElementMore, WithoutElement
<1>7. /\ f <= f2
      /\ \/ o2 <= o /\ l2 <= l /\ h <= h2
         \/ o2 <= o /\ l2 <= l + 1 /\ f2 = f + 1 /\ h <= h2
         \/ o2 <= o + 1 /\ l2 <= l /\ h = 0 /\ h2 = 1
         \/ o2 + 1 <= o /\ l2 <= l
         \/ o2 <= o /\ l2 + 1 <= l
         \/ o2 <= o /\ l2 <= l /\ f2 = f + 1
         \/ accepted' # {}
  <2> HIDE DEF o, o2, l, l2
  <2> QED BY <1>5, <1>6, Zenon DEF Spends
<1>8. h \in Nat /\ h <= 1 /\ h2 \in Nat /\ f \in Nat /\ f2 \in Nat
  BY <1>1
<1>9. accepted' = {} /\ o + l <= f + h => o2 + l2 <= f2 + h2
  <2> HIDE DEF o, o2, l, l2, h, h2, f, f2
  <2> QED BY <1>3, <1>4, <1>7, <1>8
<1>10. accepted' = {} => accepted = {}
  BY DEF Spends
<1> QED BY <1>3, <1>9, <1>10 DEF Budget

\* A lock that is neither set nor released is as much in use as its request is at work.
LEMMA HeldSame ==
  ASSUME lock' = lock, lock # None => (Creating(lock)' <=> Creating(lock))
  PROVE  Held' = Held
BY DEF Held

LEMMA StepSpends ==
  ASSUME TypeInv, TypeInv', PaidInv, NEW q \in Requests, Step(q)
  PROVE  Spends(q) /\ RoomStage' /\ (Promised' \subseteq Promised \/ accepted' = {})
<1>1. /\ pc \in [Requests -> Stages] /\ rooms \subseteq Requests /\ accepted \subseteq rooms
      /\ faults \in Nat /\ lock \in Requests \cup {None} /\ Held \in {0, 1} /\ RoomStage
  BY DEF TypeInv, TypeOK, PaidInv, Held
<1> USE <1>1, NoneAssumption DEF Goto, RoomStage, Spends, Opening, LeftOpen, Promised
\* Most steps move a request from one stage to another before or after the creation.
<1>2. ASSUME NEW stage \in Stages, pc' = [pc EXCEPT ![q] = stage],
             UNCHANGED <<lock, rooms, accepted, faults>>,
             stage \in {"find", "create", "accept", "store", "release", "giveUp"} <=> Creating(q),
             stage \notin {"create", "giveUp"},
             q \notin rooms \/ stage \in {"accept", "failed"} \/ accepted # {},
             q \notin rooms \/ stage \notin {"new", "lock", "wait", "find", "create"}
      PROVE  Spends(q) /\ RoomStage' /\ (Promised' \subseteq Promised \/ accepted' = {})
  <2>1. \A p \in Requests : Creating(p)' <=> Creating(p)
    BY <1>2 DEF Creating, Stages
  <2>2. Held' = Held
    BY <1>2, <2>1, HeldSame
  <2> QED BY <1>2, <2>1, <2>2
<1>3. CASE LookUp(q)
  <2>1. PICK stage \in {"show", "lock"} : pc' = [pc EXCEPT ![q] = stage]
    BY <1>3 DEF LookUp, UseCache
  <2> QED BY <1>2, <1>3, <2>1 DEF LookUp, core, Creating, Stages
<1>4. CASE SetLock(q)
  <2>1. CASE LockFree /\ lock' = q /\ pc' = [pc EXCEPT ![q] = "find"] /\ faults' = faults
    <3>1. Held = 0 /\ Held' = 1
      BY <2>1 DEF Held, LockFree, Creating
    <3> QED BY <1>4, <2>1, <3>1 DEF SetLock, core, Creating
  <2>2. CASE LockFree /\ lock' = q /\ pc' = [pc EXCEPT ![q] = "failed"] /\ faults' = faults + 1
    <3>1. Held = 0 /\ Held' = 0
      BY <2>2 DEF Held, LockFree, Creating
    <3> QED BY <1>4, <2>2, <3>1 DEF SetLock, core, Creating
  <2>3. CASE pc' = [pc EXCEPT ![q] = "wait"] /\ UNCHANGED <<lock, faults>>
    BY <1>2, <1>4, <2>3 DEF SetLock, core, Creating, Stages
  <2> QED BY <1>4, <2>1, <2>2, <2>3 DEF SetLock, Fault
<1>5. CASE Poll(q)
  <2>1. PICK stage \in {"show", "wait", "failed"} : pc' = [pc EXCEPT ![q] = stage]
    BY <1>5 DEF Poll, UseCache
  <2> QED BY <1>2, <1>5, <2>1 DEF Poll, core, Creating, Stages
<1>6. CASE Find(q)
  <2>1. CASE pc' = [pc EXCEPT ![q] = "store"]
    BY <1>2, <1>6, <2>1 DEF Find, core, Creating, Stages
  \* A request that finds no room would have seen an accepted one.
  <2>2. CASE pc' = [pc EXCEPT ![q] = "create"] /\ {r \in rooms : Visible(r, UserOf[q])} = {}
    <3>1. accepted' = {}
      BY <1>6, <2>2 DEF Find, Visible, core
    <3>2. \A p \in Requests : Creating(p)' <=> Creating(p)
      BY <1>6, <2>2 DEF Find, Creating
    <3>3. Held' = Held
      BY <1>6, <3>2, HeldSame DEF Find
    <3> QED BY <1>6, <2>2, <3>1, <3>2, <3>3 DEF Find, core
  <2> QED BY <1>6, <2>1, <2>2 DEF Find
<1>7. CASE Create(q)
  <2>1. \A p \in Requests : Creating(p)' <=> Creating(p)
    BY <1>7 DEF Create, AfterCreate, Creating
  <2>2. Held' = Held
    BY <1>7, <2>1, HeldSame DEF Create
  <2>3. CASE pc' = [pc EXCEPT ![q] = "accept"] /\ faults' = faults
    BY <1>7, <2>1, <2>2, <2>3 DEF Create, Creating
  <2>4. CASE pc' = [pc EXCEPT ![q] = "giveUp"] /\ faults' = faults + 1
    BY <1>7, <2>1, <2>2, <2>4 DEF Create, Creating
  <2> QED BY <1>7, <2>3, <2>4 DEF Create, AfterCreate, Fault
<1>8. CASE Accept(q)
  <2>1. CASE accepted' = accepted \cup {q} /\ pc' = [pc EXCEPT ![q] = "store"]
    <3>1. \A p \in Requests : Creating(p)' <=> Creating(p)
      BY <1>8, <2>1 DEF Accept, Creating
    <3>2. Held' = Held
      BY <1>8, <3>1, HeldSame DEF Accept
    <3> QED BY <1>8, <2>1, <3>1, <3>2 DEF Accept
  <2>2. CASE UNCHANGED <<accepted, pc>>
    <3>1. \A p \in Requests : Creating(p)' <=> Creating(p)
      BY <2>2 DEF Creating
    <3>2. Held' = Held
      BY <1>8, <3>1, HeldSame DEF Accept
    <3> QED BY <1>8, <2>2, <3>1, <3>2 DEF Accept
  <2> QED BY <1>8, <2>1, <2>2 DEF Accept
<1>9. CASE Store(q)
  BY <1>2, <1>9 DEF Store, core, Creating, Stages
<1>10. CASE Release(q)
  <2>1. PICK stage \in {"show", "failed"} :
          /\ pc' = [pc EXCEPT ![q] = stage]
          /\ stage = "show" => pc[q] = "release"
    BY <1>10 DEF Release
  <2>2. /\ pc[q] \in {"release", "giveUp"} /\ faults <= faults'
        /\ UNCHANGED <<rooms, accepted>>
    BY <1>10 DEF Release, Fault, core
  <2>3. \A p \in Requests : Creating(p)' <=> Creating(p) /\ p # q
    BY <2>1, <2>2 DEF Creating
  <2>4. CASE q \in rooms /\ pc[q] = "giveUp"
    BY <2>1, <2>2, <2>3, <2>4
  <2>5. CASE q \in rooms /\ pc[q] = "release"
    BY <2>1, <2>2, <2>3, <2>5
  <2>6. CASE q \notin rooms
    BY <2>1, <2>2, <2>3, <2>6 DEF Creating
  <2> QED BY <2>2, <2>4, <2>5, <2>6
<1>11. CASE Show(q)
  <2>1. PICK stage \in {"returned", "failed"} : pc' = [pc EXCEPT ![q] = stage]
    BY <1>11 DEF Show
  <2> QED BY <1>2, <1>11, <2>1 DEF Show, core, Creating, Stages
<1> QED BY <1>3, <1>4, <1>5, <1>6, <1>7, <1>8, <1>9, <1>10, <1>11 DEF Step

LEMMA StopSpends ==
  ASSUME TypeInv, TypeInv', PaidInv, NEW q \in Requests, RequestFails(q) \/ Crash(q)
  PROVE  Spends(q) /\ RoomStage' /\ Promised' \subseteq Promised
<1>1. PICK stage \in {"giveUp", "failed", "crashed"} :
        /\ pc' = [pc EXCEPT ![q] = stage]
        /\ stage = "crashed" \/ (stage = "giveUp" <=> Creating(q))
        /\ pc[q] \notin {"giveUp", "release"} \/ stage = "crashed"
  BY DEF RequestFails, Fails, Crash, Goto
<1>2. UNCHANGED <<lock, rooms, accepted>> /\ faults' = faults + 1
  BY DEF RequestFails, Fails, Crash, Fault, core
<1>3. /\ pc \in [Requests -> Stages] /\ rooms \subseteq Requests /\ faults \in Nat
      /\ lock \in Requests \cup {None} /\ RoomStage
  BY DEF TypeInv, TypeOK, PaidInv
<1> USE <1>2, <1>3 DEF RoomStage, Spends, Opening, LeftOpen, Promised
<1>4. CASE stage = "giveUp"
  <2>1. \A p \in Requests : Creating(p)' <=> Creating(p)
    BY <1>1, <1>4 DEF Creating
  <2>2. Held' = Held
    BY <2>1, HeldSame
  <2>3. Held <= Held'
    BY <2>2 DEF Held
  <2> QED BY <1>1, <1>4, <2>1, <2>3
<1>5. CASE stage # "giveUp"
  <2>1. \A p \in Requests : Creating(p)' => Creating(p)
    BY <1>1, <1>5 DEF Creating
  <2> QED BY <1>1, <1>5, <2>1
<1> QED BY <1>4, <1>5

LEMMA NextPaid == TypeInv /\ PaidInv /\ [Next]_vars => PaidInv'
<1> SUFFICES ASSUME TypeInv, PaidInv, [Next]_vars PROVE PaidInv'
  OBVIOUS
<1>1. TypeInv'
  BY NextType
<1>2. faults \in Nat /\ faults' \in Nat
  BY <1>1 DEF TypeInv, TypeOK
<1>3. IsFiniteSet(Promised) /\ Cardinality(Promised) \in Nat
  <2>1. Promised \subseteq Opening
    BY DEF Promised, Opening, Creating
  <2> QED BY <2>1, SmallerSet DEF PaidInv
<1>4. ASSUME NEW q, Spends(q), RoomStage', Promised' \subseteq Promised \/ accepted' = {}
      PROVE  PaidInv'
  <2>1. IsFiniteSet(Opening)' /\ Budget'
    BY <1>1, <1>4, BudgetKept DEF PaidInv
  <2>2. CASE Promised' \subseteq Promised
    <3>1. Cardinality(Promised') \in Nat /\ Cardinality(Promised') <= Cardinality(Promised)
      BY <1>3, <2>2, SmallerSet
    <3>2. Cardinality(Promised') <= 1 + faults'
      BY <1>2, <1>3, <1>4, <3>1 DEF Spends, PaidInv
    <3> QED BY <1>4, <2>1, <3>2 DEF PaidInv
  <2>3. CASE accepted' = {}
    <3>1. Promised' \subseteq Opening' /\ LeftOpen' \subseteq Opening'
      BY DEF Promised, Opening, LeftOpen, Creating
    <3>2. /\ Cardinality(Promised') \in Nat /\ Cardinality(Promised') <= Cardinality(Opening')
          /\ Cardinality(LeftOpen') \in Nat /\ Cardinality(Opening') \in Nat
      BY <2>1, <3>1, SmallerSet
    <3>3. Held' \in {0, 1}
      BY DEF Held
    <3>4. Cardinality(Promised') <= 1 + faults'
      BY <1>2, <2>1, <2>3, <3>2, <3>3 DEF Budget
    <3> QED BY <1>4, <2>1, <3>4 DEF PaidInv
  <2> QED BY <1>4, <2>2, <2>3
<1>5. CASE \E q \in Requests : Step(q) \/ RequestFails(q) \/ Crash(q)
  BY <1>1, <1>4, <1>5, StepSpends, StopSpends
<1>6. CASE Expire
  \* An ended request's lock costs nothing; that of a running one is a fault.
  <2>1. UNCHANGED <<rooms, accepted, pc>> /\ lock # None
    BY <1>6 DEF Expire, Expires, core
  <2>2. Opening' = Opening /\ LeftOpen' = LeftOpen /\ Promised' = Promised /\ RoomStage'
    BY <2>1 DEF Opening, LeftOpen, Promised, RoomStage, PaidInv, Creating
  <2>3. faults' = faults + 1 \/ (faults' = faults /\ Held <= Held')
    BY <1>6, <2>1 DEF Expire, Fault, Held
  <2>4. Spends(None)
    BY <1>2, <2>1, <2>2, <2>3 DEF Spends
  <2> QED BY <1>4, <2>2, <2>4
<1>7. CASE UNCHANGED vars
  BY <1>7 DEF vars, PaidInv, Budget, Opening, LeftOpen, Held, Promised, RoomStage, Creating
<1> QED BY <1>5, <1>6, <1>7 DEF Next

\* However many requests run, in however many processes, the pair gets one room and at
\* most one more for every fault: a lost answer, a crash, a failed call, or a lock that
\* expired under its holder and whose release frees another's.
THEOREM RoomsAlwaysPaidFor == Spec => []RoomsPaidFor
<1>1. Init => PaidInv
  <2> SUFFICES ASSUME Init PROVE PaidInv
    OBVIOUS
  <2>1. Opening = {} /\ LeftOpen = {} /\ Promised = {} /\ Held = 0 /\ faults = 0
    BY DEF Init, Opening, LeftOpen, Promised, Held, Creating
  <2> QED BY <2>1, FS_EmptySet DEF Init, PaidInv, Budget, RoomStage
<1>2. TypeInv /\ PaidInv => RoomsPaidFor
  <2> SUFFICES ASSUME TypeInv, PaidInv PROVE RoomsPaidFor
    OBVIOUS
  <2>1. rooms \subseteq Promised /\ Promised \subseteq Opening
    BY DEF Promised, Opening, Creating
  <2>2. IsFiniteSet(Promised) /\ Cardinality(Promised) \in Nat
    BY <2>1, SmallerSet DEF PaidInv
  <2>3. Cardinality(rooms) \in Nat /\ Cardinality(rooms) <= Cardinality(Promised)
    BY <2>1, <2>2, SmallerSet
  <2> QED BY <2>2, <2>3 DEF PaidInv, RoomsPaidFor, TypeInv, TypeOK
<1> QED BY <1>1, <1>2, InitType, NextType, NextPaid, PTL DEF Spec

=============================================================================
