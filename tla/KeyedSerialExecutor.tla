------------------------ MODULE KeyedSerialExecutor ------------------------
(***************************************************************************)
(* The serial executor of src/common/keyed-serial-executor.ts.             *)
(*                                                                         *)
(* `tails' maps a key to the promise of the last operation chained for     *)
(* that key.  A call of run() chains its operation on that promise, makes  *)
(* its own promise the tail, awaits it, and in `finally' removes the tail  *)
(* if it is still its own.  CallsService keys it by user, SfuService by    *)
(* room.                                                                   *)
(*                                                                         *)
(* A promise is named by the call that made it, so tails[k] and            *)
(* previous[o] hold calls.  Settling a promise, running the callback       *)
(* chained on it and resuming the caller that awaits it are different      *)
(* microtasks, hence different actions.                                    *)
(***************************************************************************)
EXTENDS Naturals

CONSTANTS
  Calls,    (* the calls of run(); each is made at most once               *)
  Keys,
  KeyOf,    (* the key each call names                                     *)
  NoCall    (* "no entry in the map"                                       *)

ASSUME KeyOfAssumption == KeyOf \in [Calls -> Keys]
ASSUME NoCallAssumption == NoCall \notin Calls

VARIABLES
  tails,    (* key -> the call whose promise is the tail                   *)
  previous, (* call -> the call whose promise it is chained on             *)
  phase,    (* call -> where its operation is                              *)
  ticket,   (* history: the place of the call among all calls of run()     *)
  tickets   (* history: how many calls of run() were made                  *)

vars == <<tails, previous, phase, ticket, tickets>>

Phases == {"new", "queued", "running", "fulfilled", "rejected",
           "resolved", "thrown"}

\* The operation's promise has settled: with a value or an error.
Settled(c) == phase[c] \in {"fulfilled", "rejected", "resolved", "thrown"}

\* The operation has begun.
Started(c) == Settled(c) \/ phase[c] = "running"

\* run() has returned to its caller, with the operation's own outcome.
Returned(c) == phase[c] \in {"resolved", "thrown"}

\* run() was called and its operation has not settled.
Pending(c) == phase[c] \in {"queued", "running"}

----------------------------------------------------------------------------

Init ==
  /\ tails = [k \in Keys |-> NoCall]
  /\ previous = [c \in Calls |-> NoCall]
  /\ phase = [c \in Calls |-> "new"]
  /\ ticket = [c \in Calls |-> 0]
  /\ tickets = 0

\* this.tails.set(key, current).  (Mutant: run() forgets to become the tail.)
BecomeTail_Forgotten(c) == tails
BecomeTail(c) == [tails EXCEPT ![KeyOf[c]] = c]

\* The synchronous part of run(): chain on the tail and become the tail.
Run(c) ==
  /\ phase[c] = "new"
  /\ previous' = [previous EXCEPT ![c] = tails[KeyOf[c]]]
  /\ tails' = BecomeTail(c)
  /\ phase' = [phase EXCEPT ![c] = "queued"]
  /\ ticket' = [ticket EXCEPT ![c] = tickets + 1]
  /\ tickets' = tickets + 1

\* previous.catch(() => undefined).then(operation): the operation begins once
\* the previous promise has settled, whichever way.  (Mutants: the operation
\* is not chained, or `catch' is missing.)
Ready_NotAwaited(c) == previous[c] \in Calls \cup {NoCall}
Ready_NoCatch(c) ==
  previous[c] \in {NoCall} \cup {d \in Calls : phase[d] \in {"fulfilled", "resolved"}}
Ready(c) == previous[c] \in {NoCall} \cup {d \in Calls : Settled(d)}

Start(c) ==
  /\ phase[c] = "queued"
  /\ Ready(c)
  /\ phase' = [phase EXCEPT ![c] = "running"]
  /\ UNCHANGED <<tails, previous, ticket, tickets>>

\* The operation returns or throws.
Settle(c) ==
  /\ phase[c] = "running"
  /\ \E outcome \in {"fulfilled", "rejected"} :
       phase' = [phase EXCEPT ![c] = outcome]
  /\ UNCHANGED <<tails, previous, ticket, tickets>>

\* if (this.tails.get(key) === current) this.tails.delete(key).  (Mutants: the
\* tail is deleted whoever it belongs to, or never.)
DropTail_Always(c) == [tails EXCEPT ![KeyOf[c]] = NoCall]
DropTail_Never(c) == tails
DropTail(c) ==
  IF tails[KeyOf[c]] = c THEN [tails EXCEPT ![KeyOf[c]] = NoCall] ELSE tails

\* `finally': then return the value or rethrow the error.
Finally(c) ==
  /\ phase[c] \in {"fulfilled", "rejected"}
  /\ tails' = DropTail(c)
  /\ phase' = [phase EXCEPT ![c] = IF @ = "fulfilled" THEN "resolved" ELSE "thrown"]
  /\ UNCHANGED <<previous, ticket, tickets>>

Next == \E c \in Calls : Run(c) \/ Start(c) \/ Settle(c) \/ Finally(c)

Spec == Init /\ [][Next]_vars

\* The event loop runs every microtask that is ready, and each operation
\* handed to run() settles at some time.
Fairness == \A c \in Calls : WF_vars(Start(c)) /\ WF_vars(Settle(c)) /\ WF_vars(Finally(c))

FairSpec == Spec /\ Fairness

----------------------------------------------------------------------------

TypeOK ==
  /\ tails \in [Keys -> Calls \cup {NoCall}]
  /\ previous \in [Calls -> Calls \cup {NoCall}]
  /\ phase \in [Calls -> Phases]
  /\ ticket \in [Calls -> Nat]
  /\ tickets \in Nat

\* Two operations of one key are never in progress together, although each
\* may suspend at any number of awaits.
MutualExclusion ==
  \A c, d \in Calls :
    c # d /\ KeyOf[c] = KeyOf[d] => ~(phase[c] = "running" /\ phase[d] = "running")

\* A call was made before call d, for the same key.
Earlier(c, d) == KeyOf[c] = KeyOf[d] /\ phase[c] # "new" /\ ticket[c] < ticket[d]

\* Operations of one key begin in the order run() was called: when one has
\* begun, every earlier one has settled.  The deletion of the tail in
\* `finally' races with later calls of run() and must not break the chain.
CallOrder ==
  \A c, d \in Calls : Earlier(c, d) /\ Started(d) => Settled(c)

\* Tickets name the calls made so far, and links lead back in time.
TicketsOrder ==
  /\ \A c \in Calls : IF phase[c] = "new" THEN ticket[c] = 0 ELSE ticket[c] \in 1 .. tickets
  /\ \A c, d \in Calls : phase[c] # "new" /\ ticket[c] = ticket[d] => c = d

LinksLeadBack ==
  /\ \A c \in Calls : previous[c] # NoCall => Earlier(previous[c], c)
  /\ \A k \in Keys : tails[k] # NoCall => KeyOf[tails[k]] = k /\ phase[tails[k]] # "new"

\* Every earlier call for the key of d has settled, or is at or before the
\* promise d is chained on.
LinkCovers ==
  \A c, d \in Calls :
    Earlier(c, d) /\ ~Settled(c)
      => previous[d] # NoCall /\ ticket[c] <= ticket[previous[d]]

\* Every pending call for a key is at or before its tail: a key with no tail
\* has none.
TailCovers ==
  \A c \in Calls :
    Pending(c) => tails[KeyOf[c]] # NoCall /\ ticket[c] <= ticket[tails[KeyOf[c]]]

\* The inductive invariant behind MutualExclusion and CallOrder: removing a
\* tail in `finally' loses no pending operation.
ChainInv == TicketsOrder /\ LinksLeadBack /\ LinkCovers /\ TailCovers

\* The map holds no entry for a key whose calls have all returned: the keys
\* are user and room ids, so a leftover entry would be a leak for ever.
NoStaleTail ==
  \A k \in Keys : tails[k] # NoCall => KeyOf[tails[k]] = k /\ ~Returned(tails[k])

\* Every call of run() returns, also when operations before it fail.
EveryCallReturns == \A c \in Calls : phase[c] = "queued" ~> Returned(c)

=============================================================================
