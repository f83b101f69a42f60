---------------------------- MODULE SerialQueue ----------------------------
(***************************************************************************)
(* What callers of KeyedSerialExecutor rely on: for each key one           *)
(* first-in first-out queue of operations, of which only the head runs,    *)
(* and an operation that fails leaves the queue like one that succeeds.    *)
(***************************************************************************)
EXTENDS Naturals, Sequences

CONSTANTS Calls, Keys, KeyOf

VARIABLES
  queue,    (* key -> the operations not yet settled, in call order        *)
  running,  (* the operations that have begun and not settled              *)
  done      (* the operations that have settled                            *)

qvars == <<queue, running, done>>

QInit ==
  /\ queue = [k \in Keys |-> <<>>]
  /\ running = {}
  /\ done = {}

Waiting(c) == \E i \in 1 .. Len(queue[KeyOf[c]]) : queue[KeyOf[c]][i] = c

Enqueue(c) ==
  /\ c \notin done /\ ~Waiting(c)
  /\ queue' = [queue EXCEPT ![KeyOf[c]] = Append(@, c)]
  /\ UNCHANGED <<running, done>>

Begin(c) ==
  /\ queue[KeyOf[c]] # <<>> /\ Head(queue[KeyOf[c]]) = c
  /\ c \notin running
  /\ running' = running \cup {c}
  /\ UNCHANGED <<queue, done>>

End(c) ==
  /\ c \in running
  /\ running' = running \ {c}
  /\ done' = done \cup {c}
  /\ queue' = [queue EXCEPT ![KeyOf[c]] = Tail(@)]

QNext == \E c \in Calls : Enqueue(c) \/ Begin(c) \/ End(c)

QFairness == \A c \in Calls : WF_qvars(Begin(c)) /\ WF_qvars(End(c))

\* The order alone, and with the promise that every queue moves on.
QOrder == QInit /\ [][QNext]_qvars

QSpec == QOrder /\ QFairness

=============================================================================
