------------------------ MODULE WorkerManagerProofs ------------------------
(***************************************************************************)
(* The pool keeps its size, and nothing survives its destruction, for any  *)
(* number of workers and of failures.                                      *)
(***************************************************************************)
EXTENDS WorkerManager, TLAPS

\* No worker is ever outside the pool: this is what destroying the pool rests on.
PoolInv == TypeOK /\ PoolConserved /\ NothingSurvives /\ orphans = 0

LEMMA InitPool == Init => PoolInv
<1> SUFFICES ASSUME Init PROVE PoolInv
  OBVIOUS
<1>1. TypeOK
  <2>1. stopping \in BOOLEAN
    BY DEF Init
  <2> QED BY <2>1, CountAssumption DEF Init, TypeOK
<1>2. PoolConserved
  BY CountAssumption DEF Init, PoolConserved, Spawning
<1>3. NothingSurvives
  BY DEF Init, NothingSurvives
<1> QED BY <1>1, <1>2, <1>3 DEF PoolInv, Init

LEMMA NextPool == PoolInv /\ [Next]_vars => PoolInv'
<1> SUFFICES ASSUME PoolInv, [Next]_vars PROVE PoolInv'
  OBVIOUS
<1> USE CountAssumption DEF PoolInv, TypeOK, PoolConserved, NothingSurvives, Spawning
<1>1. CASE BootNext
  BY <1>1 DEF BootNext, MoreToSpawn
<1>2. CASE BootSpawned
  BY <1>2 DEF BootSpawned, Adopt
<1>3. CASE BootFails
  <2>1. stopping' \in BOOLEAN
    BY <1>3 DEF BootFails, Destroyed
  <2>2. TypeOK'
    BY <1>3, <2>1 DEF BootFails, Destroyed
  <2>3. stopping'
    BY <1>3 DEF BootFails, Destroyed
  <2> QED BY <1>3, <2>2, <2>3 DEF BootFails, Destroyed
<1>4. CASE Die
  BY <1>4 DEF Die, Scheduled
<1>5. CASE Retry
  BY <1>5 DEF Retry
<1>6. CASE Replaced
  BY <1>6 DEF Replaced, Adopt
<1>7. CASE ReplaceFails
  BY <1>7 DEF ReplaceFails, Scheduled
<1>8. CASE Stop
  <2>1. stopping' \in BOOLEAN
    BY <1>8 DEF Stop, Destroyed
  <2>2. TypeOK'
    BY <1>8, <2>1 DEF Stop, Destroyed
  <2>3. stopping'
    BY <1>8 DEF Stop, Destroyed
  <2> QED BY <1>8, <2>2, <2>3 DEF Stop, Destroyed
<1>9. CASE UNCHANGED vars
  BY <1>9 DEF vars
<1> QED BY <1>1, <1>2, <1>3, <1>4, <1>5, <1>6, <1>7, <1>8, <1>9 DEF Next

\* The pool keeps its types.
THEOREM TypeCorrect == Spec => []TypeOK
<1>1. PoolInv => TypeOK
  BY DEF PoolInv
<1> QED BY <1>1, InitPool, NextPool, PTL DEF Spec

\* Workers that die, starts that fail and replacements never lose a place in
\* the pool nor fill it beyond MEDIASOUP_WORKERS.
THEOREM PoolAlwaysConserved == Spec => []PoolConserved
<1>1. PoolInv => PoolConserved
  BY DEF PoolInv
<1> QED BY <1>1, InitPool, NextPool, PTL DEF Spec

\* After onModuleDestroy no worker runs and no timer is set, whatever was
\* under way.
THEOREM NothingEverSurvives == Spec => []NothingSurvives
<1>1. PoolInv => NothingSurvives
  BY DEF PoolInv
<1> QED BY <1>1, InitPool, NextPool, PTL DEF Spec

=============================================================================
