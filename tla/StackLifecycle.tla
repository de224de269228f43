--------------------------- MODULE StackLifecycle ---------------------------
(***************************************************************************)
(* The life of one allocation: slurm-stack.sbatch brings the stack up with *)
(* stack-up.sh, serves and backs it up every hour, and takes it down with  *)
(* stack-down.sh on every way out.  Each action is an action of Checkpoint *)
(* at the stage of the batch script where the script makes it, so this is  *)
(* Checkpoint with its free environment replaced by the real caller.       *)
(*                                                                         *)
(* A Proc is a node: it runs one job after another.                        *)
(***************************************************************************)
EXTENDS Checkpoint

CONSTANT Modes   \* how jobs are submitted: a subset of {"serve", "test"}

ASSUME ModesAssumption == Modes \subseteq {"serve", "test"}

VARIABLES
    stage,   \* where slurm-stack.sbatch is
    ready,   \* database.ready: "yes"; before that, how the restore ended:
             \* "restored" (also when there was nothing to restore), "failed"
    stores,  \* PostgreSQL and MinIO both answer
    mode,    \* "serve", or STACK_TEST_MODE: "test", "tested" after the rehearsal
    removed  \* observed, not kept by the code: the facts that statements of
             \* workflows or of the seed have removed since the restore

stageVars == <<stage, ready, stores, mode, removed>>
stackLife == <<vars, stageVars>>

Stages == {"off", "boot", "restore", "seed", "start", "serve", "backup",
           "quiesce", "final", "save", "down",
           "testcall", "testsave", "testdown"}

StageTypeOK ==
    /\ stage \in [Proc -> Stages]
    /\ ready \in [Proc -> {"no", "restored", "yes", "failed"}]
    /\ stores \in [Proc -> BOOLEAN]
    /\ mode \in [Proc -> {"serve", "test", "tested"}]
    /\ removed \in [Proc -> Content]

LifeTypeOK == TypeOK /\ StageTypeOK

At(p, here) == stage[p] = here
Become(p, next) == stage' = [stage EXCEPT ![p] = next]

(* What a statement takes out of the stores is noted. *)
NoteRemoved(p) ==
    removed' = [removed EXCEPT ![p] =
                  [part \in Part |-> @[part] \cup (live[p][part] \ live'[p][part])]]

-----------------------------------------------------------------------------
(* stack-up.sh *)

Submit(p) ==
    /\ At(p, "off")
    /\ NewAllocation(p)
    /\ \E m \in Modes : mode' = [mode EXCEPT ![p] = m]
    /\ Become(p, "boot")
    /\ UNCHANGED <<ready, stores, removed>>

(* Both stores are up and database.ready does not exist: restore. *)
Boot(p) ==
    /\ At(p, "boot")
    /\ CallRestore(p)
    /\ stores' = [stores EXCEPT ![p] = TRUE]
    /\ Become(p, "restore")
    /\ UNCHANGED <<ready, mode, removed>>

(* Any `die` before the restore, with none, one or both of the stores left  *)
(* running: the batch script exits into cleanup.                            *)
BootFails(p) ==
    /\ At(p, "boot")
    /\ \E up \in BOOLEAN : stores' = [stores EXCEPT ![p] = up]
    /\ Become(p, "quiesce")
    /\ UNCHANGED <<vars, ready, mode, removed>>

Restoring(p) ==
    /\ At(p, "restore")
    /\ RestoreStep(p)
    /\ pc'[p] # "idle"
    /\ UNCHANGED stageVars

(* Status 0 or 10. *)
Restored(p) ==
    /\ At(p, "restore")
    /\ RestoreReturns(p) \/ RestoreFindsNothing(p)
    /\ ready' = [ready EXCEPT ![p] = "restored"]
    /\ removed' = [removed EXCEPT ![p] = Empty]
    /\ Become(p, "seed")
    /\ UNCHANGED <<stores, mode>>

(* Mutant: a refused restore is taken for an absent checkpoint. *)
RestoreShrugged(p) ==
    /\ At(p, "restore")
    /\ RestoreRefuses(p) \/ RestoreFails(p) \/ LockTimeout(p)
    /\ Become(p, "seed")
    /\ UNCHANGED <<ready, stores, mode, removed>>

(* `die "checkpoint restore failed; last-good was not modified"` *)
RestoreDies(p) ==
    /\ At(p, "restore")
    /\ RestoreRefuses(p) \/ RestoreFails(p) \/ LockTimeout(p)
    /\ ready' = [ready EXCEPT ![p] = "failed"]
    /\ Become(p, "quiesce")
    /\ UNCHANGED <<stores, mode, removed>>

SeedDatabase(p) ==
    /\ At(p, "seed")
    /\ Seed(p)
    /\ NoteRemoved(p)
    /\ ready' = [ready EXCEPT ![p] = "yes"]
    /\ Become(p, "start")
    /\ UNCHANGED <<stores, mode>>

(* The seed transaction rolls back, or the grants after it fail. *)
SeedFails(p) ==
    /\ At(p, "seed")
    /\ Seed(p) \/ UNCHANGED vars
    /\ NoteRemoved(p)
    /\ Become(p, "quiesce")
    /\ UNCHANGED <<ready, stores, mode>>

StartServices(p) ==
    /\ At(p, "start")
    /\ StartWriters(p)
    /\ Become(p, "serve")
    /\ UNCHANGED <<ready, stores, mode, removed>>

(* Redis does not come up, or one of the three services does not get ready. *)
StartFails(p) ==
    /\ At(p, "start")
    /\ StartWriters(p) \/ UNCHANGED vars
    /\ Become(p, "quiesce")
    /\ UNCHANGED <<ready, stores, mode, removed>>

-----------------------------------------------------------------------------
(* The keepalive loop *)

Work(p) ==
    /\ stores[p]
    /\ Write(p)
    /\ NoteRemoved(p)
    /\ UNCHANGED <<stage, ready, stores, mode>>

Creating(p) == CreateStep(p) \/ LockTimeout(p)

(* `if checkpoint_create periodic`: whatever it returns, the loop goes on. *)
Periodic(p) ==
    /\ At(p, "serve") /\ mode[p] = "serve"
    /\ CallCreate(p) /\ ~errexit'[p]
    /\ Become(p, "backup")
    /\ UNCHANGED <<ready, stores, mode, removed>>

BackUp(p) ==
    /\ At(p, "backup")
    /\ Creating(p)
    /\ Become(p, IF pc'[p] = "idle" THEN "serve" ELSE "backup")
    /\ UNCHANGED <<ready, stores, mode, removed>>

(* A required process is lost, health fails three times, TERM or INT comes, *)
(* or a test job is done (or its smoke test fails).                         *)
EndService(p) ==
    /\ At(p, "serve")
    /\ \E up \in {stores[p], FALSE} : stores' = [stores EXCEPT ![p] = up]
    /\ Become(p, "quiesce")
    /\ UNCHANGED <<vars, ready, mode, removed>>

Signal(p) ==
    /\ stage[p] \in {"backup", "testsave"}
    /\ Interrupt(p)
    /\ Become(p, "quiesce")
    /\ UNCHANGED <<ready, stores, mode, removed>>

-----------------------------------------------------------------------------
(* STACK_TEST_MODE: checkpoint, stop everything, restore in place *)

(* Mutant: the status of stack-down.sh does not end the script. *)
RehearseStopUnheeded(p) ==
    /\ At(p, "serve") /\ mode[p] = "test"
    /\ StopWriters(p)
    /\ Become(p, "testcall")
    /\ UNCHANGED <<ready, stores, mode, removed>>

RehearseStop(p) ==
    /\ At(p, "serve") /\ mode[p] = "test"
    /\ StopWriters(p)
    /\ Become(p, IF marker'[p] THEN "testcall" ELSE "quiesce")
    /\ UNCHANGED <<ready, stores, mode, removed>>

(* STACK_TEST_RESTORE=0: only a checkpoint, under the running writers. *)
SkipRehearsal(p) ==
    /\ At(p, "serve") /\ mode[p] = "test"
    /\ mode' = [mode EXCEPT ![p] = "tested"]
    /\ Become(p, "testcall")
    /\ UNCHANGED <<vars, ready, stores, removed>>

(* Mutant: the script goes on at a place that is not there. *)
RehearseCallAstray(p) ==
    /\ At(p, "testcall")
    /\ CallCreate(p) /\ errexit'[p]
    /\ Become(p, "testrun")
    /\ UNCHANGED <<ready, stores, mode, removed>>

RehearseCall(p) ==
    /\ At(p, "testcall")
    /\ CallCreate(p) /\ errexit'[p]
    /\ Become(p, "testsave")
    /\ UNCHANGED <<ready, stores, mode, removed>>

(* A failed pruning is logged and does not count; every other failure ends  *)
(* the script, some of them in the midst of checkpoint_create.              *)
RehearseSave(p) ==
    /\ At(p, "testsave")
    /\ Creating(p)
    /\ Become(p, CASE pc'[p] \in Critical -> "testsave"
                   [] pc'[p] = "idle" /\ pc[p] \in {"cPrune", "cSweep"} -> "testdown"
                   [] OTHER -> "quiesce")
    /\ UNCHANGED <<ready, stores, mode, removed>>

(* checkpoint_validate_latest reads `latest` and its directory without the  *)
(* lock; then the stores stop, and stack-up.sh runs again in the same       *)
(* runtime directory, where writers.stopped still is.                       *)
RehearseDown(p) ==
    /\ At(p, "testdown") /\ mode[p] = "test"
    /\ latest \in Gen /\ Valid(latest)
    /\ stores' = [stores EXCEPT ![p] = FALSE]
    /\ ready' = [ready EXCEPT ![p] = "no"]
    /\ mode' = [mode EXCEPT ![p] = "tested"]
    /\ Become(p, "boot")
    /\ UNCHANGED <<vars, removed>>

(* Validation fails (another allocation may have pruned what it reads), a   *)
(* store does not stop, or nothing was to be restored: the script exits.    *)
RehearseEnds(p) ==
    /\ At(p, "testdown")
    /\ \E up \in BOOLEAN : stores' = [stores EXCEPT ![p] = up]
    /\ Become(p, "quiesce")
    /\ UNCHANGED <<vars, ready, mode, removed>>

-----------------------------------------------------------------------------
(* cleanup() of slurm-stack.sbatch *)

(* Mutant: cleanup does not look at the status of stack-down.sh. *)
QuiesceUnheeded(p) ==
    /\ At(p, "quiesce")
    /\ StopWriters(p)
    /\ Become(p, IF stores[p] THEN "final" ELSE "down")
    /\ UNCHANGED <<ready, stores, mode, removed>>

(* stack-down.sh --writers-only; the final checkpoint is taken only when it *)
(* succeeded and both stores answer.                                        *)
Quiesce(p) ==
    /\ At(p, "quiesce")
    /\ StopWriters(p)
    /\ Become(p, IF marker'[p] /\ stores[p] THEN "final" ELSE "down")
    /\ UNCHANGED <<ready, stores, mode, removed>>

(* Opening .checkpoint.lock again closes descriptor 9 of an interrupted     *)
(* checkpoint_create.                                                       *)
Reopen(p) ==
    /\ At(p, "final")
    /\ Release(p)
    /\ UNCHANGED stageVars

SaveFinal(p) ==
    /\ At(p, "final")
    /\ CallCreate(p) /\ ~errexit'[p]
    /\ Become(p, "save")
    /\ UNCHANGED <<ready, stores, mode, removed>>

Saving(p) ==
    /\ At(p, "save")
    /\ Creating(p)
    /\ Become(p, IF pc'[p] = "idle" THEN "down" ELSE "save")
    /\ UNCHANGED <<ready, stores, mode, removed>>

Vanish(p) ==
    /\ Become(p, "off")
    /\ stores' = [stores EXCEPT ![p] = FALSE]
    /\ ready' = [ready EXCEPT ![p] = "no"]
    /\ removed' = [removed EXCEPT ![p] = Empty]
    /\ UNCHANGED mode

(* Mutant: a process that inherited descriptor 9 outlives the script. *)
DownLeavesDescriptor(p) ==
    /\ At(p, "down")
    /\ pc[p] \in {"idle", "trapped"}
    /\ pc' = [pc EXCEPT ![p] = "idle"]
    /\ UNCHANGED <<rootVars, lock, gen, quiesced, errexit, looked, victims, stackVars>>
    /\ Vanish(p)

(* Mutant: nothing waits for, or ends with, the interrupted shell. *)
DownUnlessTrapped(p) ==
    /\ At(p, "down")
    /\ pc[p] = "idle"
    /\ UNCHANGED vars
    /\ Vanish(p)

(* stack-down.sh --stores-only, the logs are archived, the script exits. *)
Down(p) ==
    /\ At(p, "down")
    /\ \/ pc[p] = "idle" /\ UNCHANGED vars
       \/ Release(p)
    /\ Vanish(p)

(* The node fails or the job is killed without a signal it can catch. *)
NodeLost(p) ==
    /\ ~At(p, "off")
    /\ \/ pc[p] = "idle" /\ UNCHANGED vars
       \/ Crash(p)
    /\ Vanish(p)

-----------------------------------------------------------------------------
Script(p) ==
    \/ Boot(p) \/ Restoring(p) \/ Restored(p) \/ RestoreDies(p)
    \/ SeedDatabase(p) \/ StartServices(p) \/ BackUp(p)
    \/ RehearseCall(p) \/ RehearseSave(p) \/ RehearseDown(p)
    \/ Quiesce(p) \/ Reopen(p) \/ SaveFinal(p) \/ Saving(p) \/ Down(p)

Outside(p) ==
    \/ Submit(p) \/ BootFails(p) \/ SeedFails(p) \/ StartFails(p) \/ Work(p)
    \/ Periodic(p) \/ EndService(p) \/ Signal(p) \/ RehearseStop(p)
    \/ SkipRehearsal(p) \/ RehearseEnds(p) \/ NodeLost(p)

LifeInit ==
    /\ Init
    /\ stage = [p \in Proc |-> "off"]
    /\ ready = [p \in Proc |-> "no"]
    /\ stores = [p \in Proc |-> FALSE]
    /\ mode = [p \in Proc |-> "serve"]
    /\ removed = [p \in Proc |-> Empty]

LifeNext == \E p \in Proc : Script(p) \/ Outside(p)

LifeSpec == LifeInit /\ [][LifeNext]_stackLife

(* Every command the scripts run has a timeout or terminates, and bash goes *)
(* on to the next.                                                          *)
FairLifeSpec == LifeSpec /\ \A p \in Proc : WF_stackLife(Script(p))
-----------------------------------------------------------------------------
(* The jobs use checkpoint.sh as Checkpoint assumes, so that what is proved *)
(* of Checkpoint holds of them (slurm-stack.sbatch, stack-up.sh:280-303).   *)
CallsAsAssumed == Spec

(* The database is only dropped and reloaded while no writer runs, also in  *)
(* the rehearsal and after every failure (checkpoint.sh:191: "Writers are   *)
(* not running when this is called").                                       *)
QuietRestore == \A p \in Proc : pc[p] \in RestoreSteps => ~writers[p]

(* What cleanup commits as the final checkpoint is what the stores hold for *)
(* good: no writer is left to change it, whichever way the job came to its  *)
(* end (slurm-stack.sbatch:51-56).                                          *)
FinalIsCut ==
    [][\A p \in Proc :
          At(p, "save") /\ pc[p] = "cPoint" /\ pc'[p] = "cPrune" =>
              ~writers[p] /\ gens'[latest'].snap = live'[p]]_stackLife

(* One allocation runs at a time, on this node or on that.  Nothing in the  *)
(* scripts sees to it: two that serve at once fork the history, and the     *)
(* final checkpoint that comes last wins (slurm-stack.sbatch:56).           *)
OneAtATime == \A p, q \in Proc : ~At(p, "off") /\ ~At(q, "off") => p = q

(* While one allocation runs at a time, nothing that the last-good backup   *)
(* holds is missing from the one a restored job replaces it with, but for   *)
(* what a workflow of that job deleted or changed, or its seed reset: no    *)
(* failed, interrupted or killed job in between loses a row or an object    *)
(* (stack-up.sh:280-303, slurm-stack.sbatch:145-153).  A job counts as      *)
(* restored from the moment checkpoint_restore_latest returned 0 or 10.     *)
(* Jobs whose restore failed, and jobs that died before it with both stores *)
(* up, are left out: they do replace the backup, by whatever their stores   *)
(* happen to hold (FailedRestoreKeepsLastGood).                             *)
ServedKeepsHistory ==
    [][\A p \in Proc :
          ready[p] \in {"restored", "yes"}
              /\ latest \in Gen /\ latest' \in Gen /\ latest' # latest =>
              \A part \in Part :
                  gens[latest].snap[part] \ removed[p][part]
                      \subseteq gens'[latest'].snap[part]]_stackLife

(* A job whose restore failed does not replace the last-good backup:        *)
(* "checkpoint restore failed; last-good was not modified"                  *)
(* (stack-up.sh:291), "refusing to seed over it" (checkpoint.sh:261).       *)
FailedRestoreKeepsLastGood ==
    [][\A p \in Proc :
          pc[p] = "cPoint" /\ ready[p] = "failed" => latest' = latest]_stackLife

(* A job that began to clean up ends, and so frees its node and its lock,   *)
(* even when a signal interrupted it inside checkpoint_create and other     *)
(* allocations compete for the lock (slurm-stack.sbatch:39-92).             *)
CleanupEnds == \A p \in Proc : At(p, "quiesce") ~> At(p, "off")
=============================================================================
