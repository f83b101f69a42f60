--------------------- MODULE KeyedSerialExecutorProofs ---------------------
(***************************************************************************)
(* MutualExclusion, CallOrder and NoStaleTail of KeyedSerialExecutor, and  *)
(* its refinement of SerialQueue, for every set of calls and keys.         *)
(***************************************************************************)
EXTENDS ExecutorQueue, TLAPS

\* The variables of the executor hold calls, phases and numbers: what every
\* step of run() needs to know of the maps it reads.
THEOREM TypeCorrect == Spec => []TypeOK
<1>1. Init => TypeOK
  BY KeyOfAssumption DEF Init, TypeOK, Phases
<1>2. TypeOK /\ [Next]_vars => TypeOK'
  <2> SUFFICES ASSUME TypeOK, [Next]_vars PROVE TypeOK'
    OBVIOUS
  <2> USE KeyOfAssumption DEF TypeOK, Phases
  <2>1. ASSUME NEW c \in Calls, Run(c) PROVE TypeOK'
    BY <2>1 DEF Run, BecomeTail
  <2>2. ASSUME NEW c \in Calls, Start(c) PROVE TypeOK'
    BY <2>2 DEF Start
  <2>3. ASSUME NEW c \in Calls, Settle(c) PROVE TypeOK'
    BY <2>3 DEF Settle
  <2>4. ASSUME NEW c \in Calls, Finally(c) PROVE TypeOK'
    BY <2>4 DEF Finally, DropTail
  <2>5. CASE UNCHANGED vars
    BY <2>5 DEF vars
  <2> QED BY <2>1, <2>2, <2>3, <2>4, <2>5 DEF Next
<1> QED BY <1>1, <1>2, PTL DEF Spec

\* The order of calls survives every step, because a call is chained on the
\* tail it found and a removed tail has nothing pending before it.
LEMMA OrderPreserved ==
  ASSUME TypeOK, TypeOK', ChainInv, CallOrder, [Next]_vars
  PROVE  ChainInv' /\ CallOrder'
<1> USE KeyOfAssumption, NoCallAssumption
    DEF TypeOK, Phases, Earlier, Settled, Started, Pending
<1>1. ASSUME NEW c \in Calls, Run(c) PROVE ChainInv' /\ CallOrder'
  <2> USE <1>1 DEF Run, BecomeTail
  <2>1. TicketsOrder'
    BY DEF ChainInv, TicketsOrder
  <2>2. LinksLeadBack'
    BY DEF ChainInv, TicketsOrder, LinksLeadBack
  <2>3. LinkCovers'
    BY DEF ChainInv, TicketsOrder, LinksLeadBack, LinkCovers, TailCovers
  <2>4. TailCovers'
    BY DEF ChainInv, TicketsOrder, LinksLeadBack, TailCovers
  <2>5. CallOrder'
    BY DEF ChainInv, TicketsOrder, CallOrder
  <2> QED BY <2>1, <2>2, <2>3, <2>4, <2>5 DEF ChainInv
<1>2. ASSUME NEW c \in Calls, Start(c) PROVE ChainInv' /\ CallOrder'
  BY <1>2 DEF Start, Ready, ChainInv, TicketsOrder, LinksLeadBack,
              LinkCovers, TailCovers, CallOrder
<1>3. ASSUME NEW c \in Calls, Settle(c) PROVE ChainInv' /\ CallOrder'
  BY <1>3 DEF Settle, ChainInv, TicketsOrder, LinksLeadBack, LinkCovers,
              TailCovers, CallOrder
<1>4. ASSUME NEW c \in Calls, Finally(c) PROVE ChainInv' /\ CallOrder'
  <2> USE <1>4 DEF Finally, DropTail
  <2>1. TicketsOrder' /\ LinksLeadBack' /\ LinkCovers' /\ CallOrder'
    BY DEF ChainInv, TicketsOrder, LinksLeadBack, LinkCovers, CallOrder
  <2>2. TailCovers'
    \* If the tail of a key is dropped, the calls at or before it have settled.
    <3> SUFFICES ASSUME NEW d \in Calls, Pending(d)'
                 PROVE  tails'[KeyOf[d]] # NoCall /\ ticket[d] <= ticket[tails'[KeyOf[d]]]
      BY DEF TailCovers
    <3>1. Pending(d) /\ d # c
      OBVIOUS
    <3>2. tails[KeyOf[d]] # c
      <4> SUFFICES ASSUME tails[KeyOf[d]] = c PROVE FALSE
        OBVIOUS
      <4>1. KeyOf[c] = KeyOf[d] /\ ticket[d] <= ticket[c] /\ phase[c] # "new"
        BY <3>1 DEF ChainInv, LinksLeadBack, TailCovers
      <4>2. ticket[d] # ticket[c]
        BY <3>1, <4>1 DEF ChainInv, TicketsOrder
      <4>3. Earlier(d, c)
        BY <3>1, <4>1, <4>2
      <4> QED BY <3>1, <4>3 DEF CallOrder
    <3> QED BY <3>1, <3>2 DEF ChainInv, TailCovers, LinksLeadBack
  <2> QED BY <2>1, <2>2 DEF ChainInv
<1>5. CASE UNCHANGED vars
  BY <1>5 DEF vars, ChainInv, TicketsOrder, LinksLeadBack, LinkCovers,
              TailCovers, CallOrder
<1> QED BY <1>1, <1>2, <1>3, <1>4, <1>5 DEF Next

\* Operations of one key begin in call order, each after the one before it
\* has settled, whatever the interleaving of run() and `finally'.
THEOREM CallOrderHolds == Spec => [](ChainInv /\ CallOrder)
<1>1. Init => ChainInv /\ CallOrder
  BY NoCallAssumption, KeyOfAssumption
  DEF Init, ChainInv, TicketsOrder, LinksLeadBack, LinkCovers, TailCovers,
      CallOrder, Earlier, Settled, Started, Pending
<1>2. TypeOK /\ TypeOK' /\ ChainInv /\ CallOrder /\ [Next]_vars => ChainInv' /\ CallOrder'
  BY OrderPreserved
<1> QED BY <1>1, <1>2, TypeCorrect, PTL DEF Spec

\* At most one operation of a key is in progress: call order leaves no room
\* for two, since one of any two calls is the earlier.
THEOREM MutualExclusionHolds == Spec => []MutualExclusion
<1>1. TypeOK /\ ChainInv /\ CallOrder => MutualExclusion
  BY DEF TypeOK, ChainInv, TicketsOrder, CallOrder, MutualExclusion, Earlier, Settled, Started
<1> QED BY <1>1, TypeCorrect, CallOrderHolds, PTL

\* The map never keeps the tail of a call that has returned.
THEOREM NoStaleTailHolds == Spec => []NoStaleTail
<1>1. Init => NoStaleTail
  BY DEF Init, NoStaleTail
<1>2. TypeOK /\ NoStaleTail /\ [Next]_vars => NoStaleTail'
  <2> SUFFICES ASSUME TypeOK, NoStaleTail, [Next]_vars PROVE NoStaleTail'
    OBVIOUS
  <2> USE KeyOfAssumption, NoCallAssumption DEF TypeOK, NoStaleTail, Returned, Phases
  <2>1. ASSUME NEW c \in Calls, Run(c) PROVE NoStaleTail'
    BY <2>1 DEF Run, BecomeTail
  <2>2. ASSUME NEW c \in Calls, Start(c) PROVE NoStaleTail'
    BY <2>2 DEF Start
  <2>3. ASSUME NEW c \in Calls, Settle(c) PROVE NoStaleTail'
    BY <2>3 DEF Settle
  <2>4. ASSUME NEW c \in Calls, Finally(c) PROVE NoStaleTail'
    BY <2>4 DEF Finally, DropTail
  <2>5. CASE UNCHANGED vars
    BY <2>5 DEF vars
  <2> QED BY <2>1, <2>2, <2>3, <2>4, <2>5 DEF Next
<1> QED BY <1>1, <1>2, TypeCorrect, PTL DEF Spec

----------------------------------------------------------------------------
(* The executor keeps the order of a first-in first-out queue.             *)

PendingFor(k) == {c \in Calls : KeyOf[c] = k /\ Pending(c)}

\* The history lists the pending calls of a key, all of them and in call order.
ListSound == \A k \in Keys : \A i \in 1 .. Len(queue[k]) : queue[k][i] \in PendingFor(k)

ListComplete == \A k \in Keys : \A c \in PendingFor(k) : \E i \in 1 .. Len(queue[k]) : queue[k][i] = c

ListOrdered ==
  \A k \in Keys : \A i, j \in 1 .. Len(queue[k]) :
    i < j => ticket[queue[k][i]] < ticket[queue[k][j]]

ListInv == queue \in [Keys -> Seq(Calls)] /\ ListSound /\ ListComplete /\ ListOrdered

QueueInv == TypeOK /\ ChainInv /\ CallOrder /\ ListInv

\* A call that has begun and is pending is the head of the list: were another one, its
\* earlier ticket would mean that it has settled.
HeadRuns ==
  \A c \in Calls : phase[c] = "running" => queue[KeyOf[c]] # <<>> /\ Head(queue[KeyOf[c]]) = c

LEMMA RunningIsHead == QueueInv => HeadRuns
<1> SUFFICES ASSUME QueueInv, NEW c \in Calls, phase[c] = "running"
             PROVE  queue[KeyOf[c]] # <<>> /\ Head(queue[KeyOf[c]]) = c
  BY DEF HeadRuns
<1> DEFINE k == KeyOf[c]  s == queue[k]
<1>1. s \in Seq(Calls) /\ k \in Keys /\ Len(s) \in Nat
  BY KeyOfAssumption DEF QueueInv, ListInv
<1>2. PICK i \in 1 .. Len(s) : s[i] = c
  BY <1>1 DEF QueueInv, ListInv, ListComplete, PendingFor, Pending
<1>3. s # <<>> /\ 1 \in 1 .. Len(s) /\ Head(s) = s[1]
  BY <1>1, <1>2
<1>4. s[1] \in PendingFor(k)
  BY <1>1, <1>3 DEF QueueInv, ListInv, ListSound
<1>5. CASE i # 1
  <2>1. ticket[s[1]] < ticket[c]
    BY <1>1, <1>2, <1>3, <1>5 DEF QueueInv, ListInv, ListOrdered
  <2>2. Settled(s[1])
    BY <1>4, <2>1 DEF QueueInv, CallOrder, Earlier, Started, Pending, PendingFor
  <2> QED BY <1>4, <2>2 DEF Pending, PendingFor, Settled
<1> QED BY <1>2, <1>3, <1>5

\* run() puts its call at the end of the list.
LEMMA JoinKeepsList ==
  ASSUME QueueInv, NEW c \in Calls, Join(c)
  PROVE  ListInv'
<1> DEFINE k == KeyOf[c]  last == Len(queue[k]) + 1
<1>1. k \in Keys /\ queue \in [Keys -> Seq(Calls)] /\ ticket \in [Calls -> Nat] /\ tickets \in Nat
      /\ Len(queue[k]) \in Nat
  BY KeyOfAssumption DEF QueueInv, ListInv, TypeOK
<1>2. /\ queue' = [queue EXCEPT ![k] = Append(@, c)]
      /\ phase' = [phase EXCEPT ![c] = "queued"] /\ phase[c] = "new"
      /\ ticket' = [ticket EXCEPT ![c] = tickets + 1]
  BY DEF Join, Run
<1>3. \A m \in Keys : m # k => queue'[m] = queue[m]
  BY <1>1, <1>2
<1>4. Len(queue'[k]) = last /\ queue'[k][last] = c /\ \A i \in 1 .. Len(queue[k]) : queue'[k][i] = queue[k][i]
  BY <1>1, <1>2
<1>5. queue' \in [Keys -> Seq(Calls)]
  BY <1>1, <1>2
\* Whatever is in a list was there before, or it is the new call at the end.
<1>6. ASSUME NEW m \in Keys, NEW i \in 1 .. Len(queue'[m])
      PROVE  \/ i \in 1 .. Len(queue[m]) /\ queue'[m][i] = queue[m][i]
             \/ m = k /\ i = last /\ queue'[m][i] = c
  <2>1. CASE m # k
    BY <1>3, <1>6, <2>1
  <2>2. CASE m = k
    <3>1. i \in 1 .. Len(queue[k]) \/ i = last
      BY <1>1, <1>4, <1>6, <2>2
    <3> QED BY <1>4, <2>2, <3>1
  <2> QED BY <2>1, <2>2
<1>7. /\ \A m \in Keys : PendingFor(m) \subseteq PendingFor(m)'
      /\ \A m \in Keys : PendingFor(m)' \subseteq PendingFor(m) \cup {c}
      /\ \A m \in Keys : m # k => c \notin PendingFor(m)'
      /\ c \in PendingFor(k)'
  BY <1>2 DEF QueueInv, TypeOK, PendingFor, Pending
<1>8. /\ ticket'[c] = tickets + 1
      /\ \A m \in Keys : \A d \in PendingFor(m) :
           ticket'[d] = ticket[d] /\ ticket[d] \in Nat /\ ticket[d] <= tickets
  BY <1>1, <1>2 DEF QueueInv, TypeOK, ChainInv, TicketsOrder, PendingFor, Pending
<1>9. \A m \in Keys : \A i \in 1 .. Len(queue[m]) : queue[m][i] \in PendingFor(m)
  BY DEF QueueInv, ListInv, ListSound
<1>10. ASSUME NEW m \in Keys, NEW i \in 1 .. Len(queue'[m]) PROVE queue'[m][i] \in PendingFor(m)'
  BY <1>6, <1>7, <1>9, <1>10
<1>11. ASSUME NEW m \in Keys, NEW d \in PendingFor(m)' PROVE \E i \in 1 .. Len(queue'[m]) : queue'[m][i] = d
  <2>1. CASE d = c
    <3>1. m = k /\ last \in 1 .. Len(queue'[k])
      BY <1>1, <1>4, <1>7, <1>11, <2>1
    <3> QED BY <1>4, <2>1, <3>1
  <2>2. CASE d # c
    <3>1. d \in PendingFor(m)
      BY <1>7, <1>11, <2>2
    <3>2. PICK i \in 1 .. Len(queue[m]) : queue[m][i] = d
      BY <3>1 DEF QueueInv, ListInv, ListComplete
    <3>3. i \in 1 .. Len(queue'[m]) /\ queue'[m][i] = d
      <4>1. CASE m = k
        BY <1>1, <1>4, <3>2, <4>1
      <4>2. CASE m # k
        BY <1>3, <3>2, <4>2
      <4> QED BY <4>1, <4>2
    <3> QED BY <3>3
  <2> QED BY <2>1, <2>2
<1>12. ASSUME NEW m \in Keys, NEW i \in 1 .. Len(queue'[m]), NEW j \in 1 .. Len(queue'[m]), i < j
       PROVE  ticket'[queue'[m][i]] < ticket'[queue'[m][j]]
  <2>1. Len(queue[m]) \in Nat
    BY <1>1
  <2>2. i \in 1 .. Len(queue[m]) /\ queue'[m][i] = queue[m][i]
    BY <1>1, <1>4, <1>6, <1>12, <2>1
  <2>3. queue[m][i] \in PendingFor(m)
    BY <1>9, <2>2
  <2>4. CASE m = k /\ queue'[m][j] = c
    BY <1>1, <1>8, <2>2, <2>3, <2>4
  <2>5. CASE j \in 1 .. Len(queue[m]) /\ queue'[m][j] = queue[m][j]
    <3>1. ticket[queue[m][i]] < ticket[queue[m][j]]
      BY <1>12, <2>2, <2>5 DEF QueueInv, ListInv, ListOrdered
    <3> QED BY <1>8, <1>9, <2>2, <2>3, <2>5, <3>1
  <2> QED BY <1>6, <2>4, <2>5
<1> QED BY <1>5, <1>10, <1>11, <1>12 DEF ListInv, ListSound, ListComplete, ListOrdered

\* An operation that settles is the head of the list, so the rest is as it was.
LEMMA LeaveKeepsList ==
  ASSUME QueueInv, NEW c \in Calls, Leave(c)
  PROVE  ListInv'
<1> DEFINE k == KeyOf[c]
<1>1. k \in Keys /\ queue \in [Keys -> Seq(Calls)] /\ ticket \in [Calls -> Nat] /\ Len(queue[k]) \in Nat
  BY KeyOfAssumption DEF QueueInv, ListInv, TypeOK
<1>2. queue' = [queue EXCEPT ![k] = Tail(@)] /\ phase[c] = "running" /\ ticket' = ticket
  BY DEF Leave, Settle
<1>3. \A m \in Keys : PendingFor(m)' = PendingFor(m) \ {c}
  BY DEF Leave, Settle, QueueInv, TypeOK, PendingFor, Pending
<1>4. queue[k] # <<>> /\ Head(queue[k]) = c
  BY <1>2, RunningIsHead DEF HeadRuns
<1>5. \A m \in Keys : m # k => queue'[m] = queue[m]
  BY <1>1, <1>2
<1>6. /\ Len(queue'[k]) = Len(queue[k]) - 1 /\ queue[k][1] = c /\ Len(queue[k]) >= 1
      /\ \A i \in 1 .. Len(queue'[k]) : queue'[k][i] = queue[k][i + 1]
  BY <1>1, <1>2, <1>4
<1>7. queue' \in [Keys -> Seq(Calls)]
  BY <1>1, <1>2, <1>4
<1>8. \A m \in Keys : \A i \in 1 .. Len(queue[m]) : queue[m][i] \in PendingFor(m)
  BY DEF QueueInv, ListInv, ListSound
<1>9. \A m \in Keys : \A i, j \in 1 .. Len(queue[m]) : i < j => ticket[queue[m][i]] < ticket[queue[m][j]]
  BY DEF QueueInv, ListInv, ListOrdered
<1>10. ASSUME NEW m \in Keys, m # k PROVE c \notin PendingFor(m)
  BY <1>10 DEF PendingFor
<1>11. ASSUME NEW i \in 1 .. Len(queue'[k]) PROVE i + 1 \in 1 .. Len(queue[k]) /\ queue[k][i + 1] # c
  <2>1. i + 1 \in 1 .. Len(queue[k]) /\ 1 \in 1 .. Len(queue[k]) /\ 1 < i + 1
    BY <1>1, <1>6, <1>11
  <2>2. ticket[c] < ticket[queue[k][i + 1]]
    BY <1>1, <1>6, <1>9, <2>1
  <2> QED BY <1>1, <2>1, <2>2
<1>12. ASSUME NEW m \in Keys, NEW i \in 1 .. Len(queue'[m]) PROVE queue'[m][i] \in PendingFor(m)'
  <2>1. CASE m # k
    BY <1>3, <1>5, <1>8, <1>10, <1>12, <2>1
  <2>2. CASE m = k
    BY <1>1, <1>3, <1>6, <1>8, <1>11, <1>12, <2>2
  <2> QED BY <2>1, <2>2
<1>13. ASSUME NEW m \in Keys, NEW d \in PendingFor(m)' PROVE \E i \in 1 .. Len(queue'[m]) : queue'[m][i] = d
  <2>1. d \in PendingFor(m) /\ d # c
    BY <1>3, <1>13
  <2>2. PICK i \in 1 .. Len(queue[m]) : queue[m][i] = d
    BY <2>1 DEF QueueInv, ListInv, ListComplete
  <2>3. CASE m = k
    <3>0. i # 1 /\ i \in 1 .. Len(queue[k])
      BY <1>6, <2>1, <2>2, <2>3
    <3>1. i - 1 \in 1 .. Len(queue'[k]) /\ i - 1 + 1 = i
      BY <1>1, <1>6, <3>0
    <3>2. queue'[k][i - 1] = d
      BY <1>6, <2>2, <2>3, <3>1
    <3> QED BY <2>3, <3>1, <3>2
  <2>4. CASE m # k
    BY <1>5, <2>2, <2>4
  <2> QED BY <2>3, <2>4
<1>14. ASSUME NEW m \in Keys, NEW i \in 1 .. Len(queue'[m]), NEW j \in 1 .. Len(queue'[m]), i < j
       PROVE  ticket'[queue'[m][i]] < ticket'[queue'[m][j]]
  <2>1. CASE m # k
    BY <1>2, <1>5, <1>9, <1>14, <2>1
  <2>2. CASE m = k
    <3>1. i + 1 \in 1 .. Len(queue[k]) /\ j + 1 \in 1 .. Len(queue[k]) /\ i + 1 < j + 1
      BY <1>11, <1>14, <2>2
    <3>2. ticket[queue[k][i + 1]] < ticket[queue[k][j + 1]]
      BY <1>1, <1>9, <3>1
    <3> QED BY <1>2, <1>6, <1>14, <2>2, <3>2
  <2> QED BY <2>1, <2>2
<1> QED BY <1>7, <1>12, <1>13, <1>14 DEF ListInv, ListSound, ListComplete, ListOrdered

\* The beginning of an operation and `finally' leave the list and what is pending alone.
LEMMA OthersKeepList ==
  ASSUME QueueInv, NEW c \in Calls, Start(c) \/ Finally(c), queue' = queue
  PROVE  ListInv'
<1>1. ticket' = ticket /\ \A k \in Keys : PendingFor(k)' = PendingFor(k)
  BY DEF Start, Finally, QueueInv, TypeOK, PendingFor, Pending
<1> QED BY <1>1 DEF QueueInv, ListInv, ListSound, ListComplete, ListOrdered

LEMMA QueueInvPreserved == QueueInv /\ TypeOK' /\ [HNext]_hvars => QueueInv'
<1> SUFFICES ASSUME QueueInv, TypeOK', [HNext]_hvars PROVE QueueInv'
  OBVIOUS
<1>1. [Next]_vars
  BY DEF HNext, hvars, Join, Leave, Next
<1>2. ChainInv' /\ CallOrder'
  BY <1>1, OrderPreserved DEF QueueInv
<1>3. CASE \E c \in Calls : Join(c)
  BY <1>2, <1>3, JoinKeepsList DEF QueueInv
<1>4. CASE \E c \in Calls : Leave(c)
  BY <1>2, <1>4, LeaveKeepsList DEF QueueInv
<1>5. CASE \E c \in Calls : (Start(c) \/ Finally(c)) /\ queue' = queue
  BY <1>2, <1>5, OthersKeepList DEF QueueInv
<1>6. CASE UNCHANGED hvars
  BY <1>2, <1>6 DEF hvars, vars, QueueInv, ListInv, ListSound, ListComplete, ListOrdered, PendingFor, Pending
<1> QED BY <1>3, <1>4, <1>5, <1>6 DEF HNext

\* Every step of the executor is a step of the queue or one that its callers do not see.
LEMMA StepSimulated ==
  ASSUME QueueInv, HeadRuns', [HNext]_hvars
  PROVE  [Queue!QNext]_(Queue!qvars)
<1> DEFINE running == {c \in Calls : phase[c] = "running"}
           done == {c \in Calls : Settled(c)}
<1>0. phase \in [Calls -> Phases]
  BY DEF QueueInv, TypeOK
<1>1. ASSUME NEW c \in Calls, Join(c) PROVE Queue!Enqueue(c)
  <2>1. /\ phase[c] = "new" /\ phase' = [phase EXCEPT ![c] = "queued"]
        /\ queue' = [queue EXCEPT ![KeyOf[c]] = Append(@, c)]
    BY <1>1 DEF Join, Run
  <2>2. running' = running /\ done' = done
    BY <1>0, <2>1 DEF Settled
  <2>3. c \notin done /\ ~Queue!Waiting(c)
    <3>1. c \notin PendingFor(KeyOf[c]) /\ KeyOf[c] \in Keys
      BY <2>1, KeyOfAssumption DEF PendingFor, Pending
    <3> QED BY <2>1, <3>1 DEF Settled, Queue!Waiting, QueueInv, ListInv, ListSound
  <2> QED BY <2>1, <2>2, <2>3 DEF Queue!Enqueue
<1>2. ASSUME NEW c \in Calls, Start(c), queue' = queue PROVE Queue!Begin(c)
  <2>1. phase[c] = "queued" /\ phase' = [phase EXCEPT ![c] = "running"]
    BY <1>2 DEF Start
  <2>2. running' = running \cup {c} /\ done' = done /\ c \notin running
    BY <1>0, <2>1 DEF Settled
  <2>3. queue[KeyOf[c]] # <<>> /\ Head(queue[KeyOf[c]]) = c
    \* Once it has begun it is the head, and the list was no other before.
    <3>1. phase'[c] = "running"
      BY <1>0, <2>1
    <3> QED BY <1>2, <3>1 DEF HeadRuns
  <2> QED BY <1>2, <2>2, <2>3 DEF Queue!Begin
<1>3. ASSUME NEW c \in Calls, Leave(c) PROVE Queue!End(c)
  <2>1. /\ phase[c] = "running"
        /\ \E outcome \in {"fulfilled", "rejected"} : phase' = [phase EXCEPT ![c] = outcome]
        /\ queue' = [queue EXCEPT ![KeyOf[c]] = Tail(@)]
    BY <1>3 DEF Leave, Settle
  <2>2. running' = running \ {c} /\ done' = done \cup {c} /\ c \in running
    BY <1>0, <2>1 DEF Settled
  <2> QED BY <2>1, <2>2 DEF Queue!End
<1>4. ASSUME NEW c \in Calls, Finally(c), queue' = queue PROVE UNCHANGED Queue!qvars
  <2>1. phase[c] \in {"fulfilled", "rejected"}
        /\ \E end \in {"resolved", "thrown"} : phase' = [phase EXCEPT ![c] = end]
    BY <1>4 DEF Finally
  <2>2. running' = running /\ done' = done
    BY <1>0, <2>1 DEF Settled
  <2> QED BY <1>4, <2>2 DEF Queue!qvars
<1>5. CASE UNCHANGED hvars
  BY <1>5 DEF hvars, vars, Queue!qvars, Settled
<1> QED BY <1>1, <1>2, <1>3, <1>4, <1>5 DEF HNext, Queue!QNext

\* For any calls and keys the executor is the queue its callers rely on: an operation
\* begins only as the head of its key's queue and leaves it when it has settled, with a
\* value or an error.
THEOREM ExecutorKeepsQueueOrder == HSpec => Queue!QOrder
<1>1. HInit => Queue!QInit
  BY DEF HInit, Init, Queue!QInit, Settled
<1>2. HInit => QueueInv
  <2> SUFFICES ASSUME HInit PROVE QueueInv
    OBVIOUS
  <2>1. TypeOK /\ ChainInv /\ CallOrder
    BY NoCallAssumption, KeyOfAssumption
    DEF HInit, Init, TypeOK, Phases, ChainInv, TicketsOrder, LinksLeadBack, LinkCovers, TailCovers,
        CallOrder, Earlier, Settled, Started, Pending
  <2>2. ListInv
    BY DEF HInit, Init, ListInv, ListSound, ListComplete, ListOrdered, PendingFor, Pending
  <2> QED BY <2>1, <2>2 DEF QueueInv
<1>3. HSpec => Spec
  <2>1. HInit => Init
    BY DEF HInit
  <2>2. [HNext]_hvars => [Next]_vars
    BY DEF HNext, hvars, Join, Leave, Next
  <2> QED BY <2>1, <2>2, PTL DEF HSpec, Spec
<1>4. QueueInv /\ HeadRuns' /\ [HNext]_hvars => [Queue!QNext]_(Queue!qvars)
  BY StepSimulated
<1> QED BY <1>1, <1>2, <1>3, <1>4, TypeCorrect, QueueInvPreserved, RunningIsHead, PTL
    DEF HSpec, Queue!QOrder

=============================================================================
