--------------------------- MODULE WorkerManager ---------------------------
(***************************************************************************)
(* The pool of mediasoup worker processes:                                 *)
(* src/sfu/worker-manager.service.ts.                                      *)
(*                                                                         *)
(* Workers are alike, so the pool is a matter of counts.  createWorker()   *)
(* is awaited: a worker may die, a timer fire and the module be destroyed  *)
(* while one is being made, at boot or as a replacement.                   *)
(***************************************************************************)
EXTENDS Naturals

CONSTANTS
  Count,      (* MEDIASOUP_WORKERS                                         *)
  MaxFaults   (* bound on the deaths and failed starts of workers          *)

ASSUME CountAssumption == Count \in Nat \ {0}

VARIABLES
  boot,       (* onModuleInit: "next" between two spawns, "spawning",      *)
              (* "up" when it has returned, "failed" when it has thrown    *)
  begun,      (* spawns that onModuleInit has begun                        *)
  workers,    (* the workers in the pool                                   *)
  orphans,    (* running workers that are not in the pool                  *)
  retries,    (* timers set by scheduleReplacement                         *)
  replacing,  (* replacements being created                                *)
  stopping,
  faults

vars == <<boot, begun, workers, orphans, retries, replacing, stopping, faults>>

Init ==
  /\ boot = "next" /\ begun = 0
  /\ workers = 0 /\ orphans = 0
  /\ retries = 0 /\ replacing = 0
  /\ stopping = FALSE
  /\ faults = 0

\* The rest of spawn() when createWorker() has returned: a worker that comes
\* after the module was destroyed is closed.  (Mutant: it is forgotten.)
Adopt_Forgotten ==
  IF stopping THEN orphans' = orphans + 1 /\ UNCHANGED workers
  ELSE workers' = workers + 1 /\ UNCHANGED orphans
Adopt == workers' = (IF stopping THEN workers ELSE workers + 1) /\ UNCHANGED orphans

\* scheduleReplacement().  (Mutant: it does nothing.)
Scheduled_Not == retries
Scheduled == IF stopping THEN retries ELSE retries + 1

\* The condition of onModuleInit's loop.  (Mutant: one turn too many.)
MoreToSpawn_OneTooMany == begun <= Count
MoreToSpawn == begun < Count

\* onModuleInit: the next turn of the loop, or its end.
BootNext ==
  /\ boot = "next"
  /\ IF MoreToSpawn
     THEN boot' = "spawning" /\ begun' = begun + 1
     ELSE boot' = "up" /\ UNCHANGED begun
  /\ UNCHANGED <<workers, orphans, retries, replacing, stopping, faults>>

BootSpawned ==
  /\ boot = "spawning"
  /\ boot' = "next"
  /\ Adopt
  /\ UNCHANGED <<begun, retries, replacing, stopping, faults>>

\* onModuleDestroy: no timer is left and every worker of the pool is closed.
Destroyed ==
  /\ stopping' = TRUE
  /\ retries' = 0
  /\ workers' = 0

\* A spawn of onModuleInit fails: what has been started is destroyed.
BootFails ==
  /\ boot = "spawning" /\ faults < MaxFaults
  /\ boot' = "failed"
  /\ Destroyed
  /\ faults' = faults + 1
  /\ UNCHANGED <<begun, orphans, replacing>>

\* The handler of `died'.
Die ==
  /\ workers > 0 /\ faults < MaxFaults
  /\ workers' = workers - 1
  /\ retries' = Scheduled
  /\ faults' = faults + 1
  /\ UNCHANGED <<boot, begun, orphans, replacing, stopping>>

\* The timer of a replacement fires.
Retry ==
  /\ retries > 0
  /\ retries' = retries - 1
  /\ replacing' = replacing + 1
  /\ UNCHANGED <<boot, begun, workers, orphans, stopping, faults>>

Replaced ==
  /\ replacing > 0
  /\ replacing' = replacing - 1
  /\ Adopt
  /\ UNCHANGED <<boot, begun, retries, stopping, faults>>

\* A replacement fails: another is scheduled.
ReplaceFails ==
  /\ replacing > 0 /\ faults < MaxFaults
  /\ replacing' = replacing - 1
  /\ retries' = Scheduled
  /\ faults' = faults + 1
  /\ UNCHANGED <<boot, begun, workers, orphans, stopping>>

Stop ==
  /\ ~stopping
  /\ Destroyed
  /\ UNCHANGED <<boot, begun, orphans, replacing, faults>>

Next ==
  \/ BootNext \/ BootSpawned \/ BootFails
  \/ Die \/ Retry \/ Replaced \/ ReplaceFails \/ Stop

Spec == Init /\ [][Next]_vars

\* Timers fire and createWorker() settles.
Fairness == WF_vars(BootNext) /\ WF_vars(BootSpawned) /\ WF_vars(Retry) /\ WF_vars(Replaced)

FairSpec == Spec /\ Fairness

----------------------------------------------------------------------------

TypeOK ==
  /\ boot \in {"next", "spawning", "up", "failed"}
  /\ begun \in 0 .. Count
  /\ workers \in Nat /\ orphans \in Nat
  /\ retries \in Nat /\ replacing \in Nat
  /\ stopping \in BOOLEAN
  /\ faults \in Nat

\* The spawn of onModuleInit in progress, as a number.
Spawning == IF boot = "spawning" THEN 1 ELSE 0

\* Until the module is destroyed no worker is lost and none is one too many:
\* each place that boot has begun to fill is running, being created or
\* scheduled, and there are never more than MEDIASOUP_WORKERS.
PoolConserved ==
  ~stopping => LET places == workers + retries + replacing + Spawning
               IN  places = begun /\ places <= Count

\* Nothing survives onModuleDestroy, also not a worker whose creation was
\* under way or that died at that moment.
NothingSurvives == stopping => workers = 0 /\ retries = 0 /\ orphans = 0

\* The pool comes back to its size once workers stop failing.
PoolRefilled == ~stopping ~> workers = Count \/ stopping

=============================================================================
