--------------------------- MODULE ExecutorQueue ---------------------------
(***************************************************************************)
(* KeyedSerialExecutor implements SerialQueue.  A history variable lists   *)
(* for each key the calls whose operation has not settled, in the order    *)
(* run() was called; the executor never reads it.  That the operation that *)
(* begins is the head of this list is what the chain of promises has to    *)
(* bring about.                                                            *)
(***************************************************************************)
EXTENDS KeyedSerialExecutor, Sequences

VARIABLE
  queue     (* history: key -> its pending calls, in call order            *)

hvars == <<vars, queue>>

HInit == Init /\ queue = [k \in Keys |-> <<>>]

Join(c) == Run(c) /\ queue' = [queue EXCEPT ![KeyOf[c]] = Append(@, c)]

Leave(c) == Settle(c) /\ queue' = [queue EXCEPT ![KeyOf[c]] = Tail(@)]

HNext ==
  \E c \in Calls :
    Join(c) \/ Leave(c) \/ (Start(c) /\ UNCHANGED queue) \/ (Finally(c) /\ UNCHANGED queue)

HSpec == HInit /\ [][HNext]_hvars

\* The executor's own fairness: the history does not hold it up.
HFairSpec == HSpec /\ Fairness

Queue == INSTANCE SerialQueue WITH
  running <- {c \in Calls : phase[c] = "running"},
  done <- {c \in Calls : Settled(c)}

\* The callers' view of the executor: per key a first-in first-out queue
\* whose head runs and which always moves on.
ImplementsSerialQueue == Queue!QSpec

=============================================================================
