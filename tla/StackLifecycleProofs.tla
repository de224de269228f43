------------------------ MODULE StackLifecycleProofs ------------------------
(***************************************************************************)
(* The batch script uses checkpoint.sh in the way Checkpoint assumes, so   *)
(* what CheckpointProofs proves of any caller holds of this one, for every *)
(* number of nodes and jobs.                                               *)
(*                                                                         *)
(* The argument follows the writers through the stages of one job: they    *)
(* are down from the submission to the end of the restore, and again from  *)
(* a confirmed stop to the end of what was stopped for (StageInv).         *)
(***************************************************************************)
EXTENDS StackLifecycle, CheckpointProofs

(* Stages before the services start, and those after a confirmed stop. *)
WritersHeld(p) ==
    \/ stage[p] \in {"boot", "restore"}
    \/ mode[p] = "test" /\ stage[p] \in {"testcall", "testsave", "testdown"}

StageInv(p) ==
    /\ WritersHeld(p) => ~writers[p]
    /\ stage[p] \in {"final", "save"} => ~writers[p] /\ marker[p]
    /\ pc[p] \in {"rLock"} \cup RestoreSteps => stage[p] = "restore"
    /\ stage[p] = "save" /\ pc[p] \in Copying => quiesced[p]

LifeInv ==
    /\ IInv
    /\ StageTypeOK
    /\ \A p \in Proc : StageInv(p)

-----------------------------------------------------------------------------
(* What creating and restoring do to the control state of their own shell. *)
LEMMA CreateControl ==
    ASSUME TypeOK, NEW p \in Proc, CreateStep(p) \/ LockTimeout(p)
    PROVE  /\ writers' = writers /\ marker' = marker
           /\ pc'[p] \notin {"rLock"} \cup RestoreSteps
           /\ pc'[p] \in Copying =>
                 \/ pc[p] \in Copying /\ quiesced'[p] = quiesced[p]
                 \/ quiesced'[p] = marker[p]
<1> USE DEF TypeOK, Goto, Return, Trapped, Copying, RestoreSteps, stackVars
<1>1. CASE CreateLock(p) \/ MkdirFails(p) \/ ManifestFails(p) \/ LockTimeout(p)
  BY <1>1 DEF CreateLock, MkdirFails, ManifestFails, LockTimeout
<1>2. CASE DumpPostgres(p) \/ MirrorObject(p) \/ MirrorPrivate(p) \/ MirrorPublic(p)
  BY <1>2 DEF DumpPostgres, MirrorObject, MirrorPrivate, MirrorPublic, MirrorEnds
<1>3. CASE CreateFails(p) \/ Discard(p) \/ Seal(p) \/ MoveGeneration(p) \/ PointLatest(p)
  BY <1>3 DEF CreateFails, Discard, Seal, MoveGeneration, PointLatest
<1>4. CASE MoveGenerationFault(p) \/ WritePointerFault(p) \/ MovePointerFault(p)
  BY <1>4 DEF MoveGenerationFault, WritePointerFault, MovePointerFault, CommitFault
<1>5. CASE PruneStart(p) \/ PruneOne(p) \/ CreateReturns(p)
  BY <1>5 DEF PruneStart, PruneOne, CreateReturns
<1> QED
  BY <1>1, <1>2, <1>3, <1>4, <1>5 DEF CreateStep

LEMMA RestoreControl ==
    ASSUME TypeOK, NEW p \in Proc, RestoreStep(p)
    PROVE  /\ writers' = writers /\ marker' = marker
           /\ pc'[p] \in {"idle"} \cup RestoreSteps
BY DEF RestoreStep, RestoreLock, RestoreRead, ChooseSource, RestoreRefuses,
       RestoreFindsNothing, ResetDatabase, LoadPostgres, LoadPrivate, LoadPublic,
       LoadPart, RestoreFails, ResetFails, LoadFails, RestoreReturns, TypeOK, Goto,
       Return, RestoreSteps, stackVars

LEMMA ReturnControl ==
    ASSUME TypeOK, NEW p \in Proc,
           \/ RestoreReturns(p) \/ RestoreFindsNothing(p) \/ RestoreRefuses(p)
           \/ RestoreFails(p) \/ LockTimeout(p) \/ Release(p) \/ Crash(p)
    PROVE  writers' = writers /\ marker' = marker /\ pc'[p] = "idle"
BY DEF RestoreReturns, RestoreFindsNothing, RestoreRefuses, RestoreFails, ResetFails,
       LoadFails, LockTimeout, Release, Crash, Return, TypeOK, stackVars

-----------------------------------------------------------------------------
(* Every step of a job is a step Checkpoint allows, or none of its business. *)
LEMMA StepMaps ==
    ASSUME NEW p \in Proc, StageInv(p), Script(p) \/ Outside(p)
    PROVE  Step(p) \/ UNCHANGED vars
<1> USE DEF Step, ShellStep, Environment
<1>1. CASE Boot(p)
  BY <1>1 DEF Boot, At, StageInv, WritersHeld
<1>2. CASE Restoring(p) \/ Restored(p) \/ RestoreDies(p)
  BY <1>2 DEF Restoring, Restored, RestoreDies, RestoreStep
<1>3. CASE SeedDatabase(p) \/ SeedFails(p) \/ StartServices(p) \/ StartFails(p) \/ Work(p)
  BY <1>3 DEF SeedDatabase, SeedFails, StartServices, StartFails, Work
<1>4. CASE BackUp(p) \/ Saving(p) \/ RehearseSave(p) \/ Signal(p)
  BY <1>4 DEF BackUp, Saving, RehearseSave, Creating, Signal
<1>5. CASE Periodic(p) \/ RehearseCall(p) \/ SaveFinal(p)
  BY <1>5 DEF Periodic, RehearseCall, SaveFinal
<1>6. CASE Submit(p) \/ Quiesce(p) \/ RehearseStop(p) \/ Reopen(p)
  BY <1>6 DEF Submit, Quiesce, RehearseStop, Reopen
<1>7. CASE BootFails(p) \/ EndService(p) \/ SkipRehearsal(p) \/ RehearseDown(p)
           \/ RehearseEnds(p)
  BY <1>7 DEF BootFails, EndService, SkipRehearsal, RehearseDown, RehearseEnds
<1>8. CASE Down(p) \/ NodeLost(p)
  BY <1>8 DEF Down, NodeLost
<1> QED
  BY <1>1, <1>2, <1>3, <1>4, <1>5, <1>6, <1>7, <1>8 DEF Script, Outside

LEMMA RemovedType ==
    ASSUME TypeOK, TypeOK', StageTypeOK, NEW p \in Proc, NoteRemoved(p)
    PROVE  /\ removed' \in [Proc -> Content]
           /\ \A q \in Proc \ {p} : removed'[q] = removed[q]
           /\ \A part \in Part :
                 removed'[p][part] = removed[p][part] \cup (live[p][part] \ live'[p][part])
BY DEF NoteRemoved, TypeOK, StageTypeOK, Content

(* A job moves through its own stages only. *)
LEMMA StageFrame ==
    ASSUME TypeOK, TypeOK', StageTypeOK, NEW p \in Proc, Script(p) \/ Outside(p)
    PROVE  /\ StageTypeOK'
           /\ \A q \in Proc \ {p} : /\ stage'[q] = stage[q] /\ mode'[q] = mode[q]
                                     /\ ready'[q] = ready[q] /\ stores'[q] = stores[q]
                                     /\ removed'[q] = removed[q]
<1>0. Empty \in Content
  BY DEF Empty, Content
<1>10. CASE SeedDatabase(p) \/ SeedFails(p) \/ Work(p)
  <2>1. NoteRemoved(p)
    BY <1>10 DEF SeedDatabase, SeedFails, Work
  <2>2. removed' \in [Proc -> Content] /\ \A q \in Proc \ {p} : removed'[q] = removed[q]
    BY <2>1, RemovedType
  <2> QED
    BY <1>10, <2>2 DEF SeedDatabase, SeedFails, Work, StageTypeOK, Stages, Become
<1> USE DEF StageTypeOK, Stages, Become, stageVars
<1>1. CASE Boot(p) \/ Restoring(p) \/ RestoreDies(p)
  BY <1>1 DEF Boot, Restoring, RestoreDies
<1>11. CASE Restored(p)
  BY <1>0, <1>11 DEF Restored
<1>2. CASE StartServices(p) \/ StartFails(p)
  BY <1>2 DEF StartServices, StartFails
<1>3. CASE BackUp(p) \/ Saving(p) \/ RehearseSave(p) \/ Signal(p)
  BY <1>3 DEF BackUp, Saving, RehearseSave, Signal
<1>4. CASE Periodic(p) \/ RehearseCall(p) \/ SaveFinal(p)
  BY <1>4 DEF Periodic, RehearseCall, SaveFinal
<1>5. CASE Submit(p) \/ Quiesce(p) \/ RehearseStop(p) \/ Reopen(p)
  BY <1>5, ModesAssumption DEF Submit, Quiesce, RehearseStop, Reopen
<1>6. CASE BootFails(p)
  BY <1>6 DEF BootFails
<1>12. CASE EndService(p)
  BY <1>12 DEF EndService
<1>7. CASE SkipRehearsal(p) \/ RehearseEnds(p)
  BY <1>7 DEF SkipRehearsal, RehearseEnds
<1>8. CASE RehearseDown(p)
  BY <1>8 DEF RehearseDown
<1>9. CASE Down(p) \/ NodeLost(p)
  <2>1. Vanish(p)
    BY <1>9 DEF Down, NodeLost
  <2> QED
    BY <1>0, <2>1 DEF Vanish
<1> QED
  BY <1>1, <1>2, <1>3, <1>4, <1>5, <1>6, <1>7, <1>8, <1>9, <1>10, <1>11, <1>12
     DEF Script, Outside

LEMMA StageKept ==
    ASSUME TypeOK, StageTypeOK, NEW p \in Proc, StageInv(p), Script(p) \/ Outside(p)
    PROVE  StageInv(p)'
<1> USE DEF TypeOK, StageTypeOK, Stages, At, Become, stageVars, StageInv, WritersHeld,
            Copying, RestoreSteps
<1>1. CASE Boot(p)
  BY <1>1 DEF Boot, CallRestore, Call, stackVars
<1>2. CASE Restoring(p)
  BY <1>2, RestoreControl DEF Restoring
<1>3. CASE Restored(p) \/ RestoreDies(p)
  BY <1>3, ReturnControl DEF Restored, RestoreDies
<1>4. CASE SeedDatabase(p) \/ SeedFails(p)
  BY <1>4 DEF SeedDatabase, SeedFails, Seed, vars, shellVars, stackVars
<1>5. CASE StartServices(p) \/ StartFails(p)
  BY <1>5 DEF StartServices, StartFails, StartWriters, vars, shellVars, stackVars
<1>6. CASE Work(p)
  BY <1>6 DEF Work, Write, shellVars
<1>7. CASE BackUp(p) \/ Saving(p) \/ RehearseSave(p)
  BY <1>7, CreateControl DEF BackUp, Saving, RehearseSave, Creating
<1>8. CASE Signal(p)
  BY <1>8 DEF Signal, Interrupt, Trapped, stackVars
<1>9. CASE Periodic(p) \/ RehearseCall(p) \/ SaveFinal(p)
  BY <1>9 DEF Periodic, RehearseCall, SaveFinal, CallCreate, Call, stackVars
<1>10. CASE Submit(p)
  BY <1>10 DEF Submit, NewAllocation, shellVars
<1>11. CASE Quiesce(p)
  BY <1>11 DEF Quiesce, StopWriters, shellVars
<1>16. CASE RehearseStop(p)
  BY <1>16 DEF RehearseStop, StopWriters, shellVars
<1>12. CASE Reopen(p)
  BY <1>12, ReturnControl DEF Reopen
<1>13. CASE BootFails(p) \/ EndService(p)
  BY <1>13 DEF BootFails, EndService, vars, shellVars, stackVars
<1>15. CASE SkipRehearsal(p) \/ RehearseDown(p) \/ RehearseEnds(p)
  BY <1>15 DEF SkipRehearsal, RehearseDown, RehearseEnds, vars, shellVars, stackVars
<1>14. CASE Down(p) \/ NodeLost(p)
  BY <1>14, ReturnControl DEF Down, NodeLost, Vanish, vars, shellVars, stackVars
<1> QED
  BY <1>1, <1>2, <1>3, <1>4, <1>5, <1>6, <1>7, <1>8, <1>9, <1>10, <1>11, <1>12, <1>13,
     <1>14, <1>15, <1>16 DEF Script, Outside

LEMMA StageOthers ==
    ASSUME TypeOK, TypeOK', StageTypeOK, NEW p \in Proc, StageInv(p), Script(p) \/ Outside(p),
           NEW q \in Proc \ {p}, StageInv(q)
    PROVE  StageInv(q)'
<1>1. stage'[q] = stage[q] /\ mode'[q] = mode[q]
  BY StageFrame
<1>2. CASE Step(p)
  BY <1>1, <1>2, Frame DEF Untouched, StageInv, WritersHeld
<1>3. CASE UNCHANGED vars
  BY <1>1, <1>3 DEF vars, shellVars, stackVars, StageInv, WritersHeld
<1> QED
  BY <1>2, <1>3, StepMaps

-----------------------------------------------------------------------------
LEMMA LifeInvInit == LifeInit => LifeInv
<1> SUFFICES ASSUME LifeInit PROVE LifeInv
  OBVIOUS
<1>1. IInv
  BY InvInit DEF LifeInit
<1>2. StageTypeOK
  <2>1. Empty \in Content
    BY DEF Empty, Content
  <2> QED
    BY <2>1 DEF LifeInit, StageTypeOK, Stages
<1>3. ASSUME NEW p \in Proc PROVE StageInv(p)
  BY <1>3 DEF LifeInit, Init, InitShells, StageInv, WritersHeld, Copying, RestoreSteps
<1> QED
  BY <1>1, <1>2, <1>3 DEF LifeInv

LEMMA LifeStepMaps == LifeInv /\ [LifeNext]_stackLife => [Next]_vars
<1> SUFFICES ASSUME LifeInv, [LifeNext]_stackLife PROVE [Next]_vars
  OBVIOUS
<1>1. CASE UNCHANGED stackLife
  BY <1>1 DEF stackLife
<1>2. ASSUME NEW p \in Proc, Script(p) \/ Outside(p) PROVE [Next]_vars
  BY <1>2, StepMaps DEF LifeInv, Next
<1> QED
  BY <1>1, <1>2 DEF LifeNext

LEMMA LifeInvStep == LifeInv /\ [LifeNext]_stackLife => LifeInv'
<1> SUFFICES ASSUME LifeInv, [LifeNext]_stackLife PROVE LifeInv'
  OBVIOUS
<1>1. IInv'
  BY LifeStepMaps, InvStep DEF LifeInv
<1>2. CASE UNCHANGED stackLife
  BY <1>1, <1>2 DEF stackLife, stageVars, vars, shellVars, stackVars, LifeInv,
                    StageTypeOK, StageInv, WritersHeld
<1>3. ASSUME NEW p \in Proc, Script(p) \/ Outside(p) PROVE LifeInv'
  <2>1. TypeOK /\ TypeOK' /\ StageTypeOK /\ StageInv(p)
    BY <1>1 DEF LifeInv, IInv
  <2>2. StageTypeOK'
    BY <1>3, <2>1, StageFrame
  <2>3. ASSUME NEW q \in Proc PROVE StageInv(q)'
    BY <1>3, <2>1, StageKept, StageOthers DEF LifeInv
  <2> QED
    BY <1>1, <2>2, <2>3 DEF LifeInv
<1> QED
  BY <1>2, <1>3 DEF LifeNext

THEOREM LifeInductive == LifeSpec => []LifeInv
BY LifeInvInit, LifeInvStep, PTL DEF LifeSpec

(* Every variable of the script and of checkpoint.sh keeps its type. *)
THEOREM LifeTypeCorrect == LifeSpec => []LifeTypeOK
<1>1. LifeInv => LifeTypeOK
  BY DEF LifeInv, IInv, LifeTypeOK
<1> QED
  BY <1>1, LifeInductive, PTL

(* The batch script keeps to what Checkpoint assumes of a caller, above all *)
(* that a restore never begins while writers run (stack-up.sh:280-303).     *)
THEOREM ScriptIsACaller == LifeSpec => CallsAsAssumed
<1>1. LifeInit => Init
  BY DEF LifeInit
<1> QED
  BY <1>1, LifeStepMaps, LifeInductive, PTL DEF LifeSpec, CallsAsAssumed, Spec

(* No writer runs while the database is dropped and reloaded, in the        *)
(* rehearsal and after any failure too (checkpoint.sh:191).                 *)
THEOREM RestoreAlwaysQuiet == LifeSpec => []QuietRestore
<1>1. LifeInv => QuietRestore
  BY DEF LifeInv, QuietRestore, StageInv, WritersHeld
<1> QED
  BY <1>1, LifeInductive, PTL

(* So the backup the jobs leave behind is complete whenever anybody looks   *)
(* (checkpoint.sh:171-187 as slurm-stack.sbatch calls it).                  *)
THEOREM LatestCompleteInService ==
    ASSUME CommitFaults = {}
    PROVE  LifeSpec => []LatestComplete
BY ScriptIsACaller, LatestAlwaysComplete, PTL DEF CallsAsAssumed

(* Seen from the batch jobs too, checkpoint.sh is one last-good backup that *)
(* is replaced as a whole; what they restore is what was saved, what they   *)
(* save with their writers gone is a cut, and pruning leaves the newest     *)
(* generations (checkpoint.sh:75-188, 201-296 as the jobs call it).         *)
THEOREM CheckpointInService ==
    ASSUME CommitFaults = {}
    PROVE  LifeSpec => /\ ImplementsLastGood /\ PruneRetains
                       /\ []RestoreExact /\ []QuiescedIsCut
BY ScriptIsACaller, Refinement, Retention, RestoreAlwaysExact, QuiescedAlwaysCut, PTL
   DEF CallsAsAssumed

(* The commit of a generation is the only way from cPoint to cPrune. *)
LEMMA OnlyPointLatest ==
    ASSUME CommitFaults = {}, TypeOK, NEW p \in Proc, Step(p),
           pc[p] = "cPoint", pc'[p] = "cPrune"
    PROVE  PointLatest(p)
<1> USE DEF TypeOK, Goto, Return, Call
<1>1. CASE CreateStep(p)
  BY <1>1 DEF CreateStep, CreateLock, MkdirFails, DumpPostgres, MirrorObject,
        MirrorPrivate, MirrorPublic, MirrorEnds, CreateFails, Discard, ManifestFails,
        Trapped, Seal, MoveGeneration,
        MoveGenerationFault, WritePointerFault, MovePointerFault, CommitFault,
        PruneStart, PruneOne, CreateReturns
<1>2. CASE RestoreStep(p)
  BY <1>2, RestoreControl DEF RestoreSteps
<1>3. CASE LockTimeout(p) \/ Release(p) \/ Crash(p) \/ Interrupt(p)
  BY <1>3 DEF LockTimeout, Release, Crash, Interrupt, Trapped
<1>4. CASE Environment(p)
  BY <1>4 DEF Environment, CallCreate, CallRestore, StopWriters, StartWriters, Write,
        Seed, NewAllocation, shellVars
<1> QED
  BY <1>1, <1>2, <1>3, <1>4 DEF Step, ShellStep

(* The final checkpoint is a cut of the stores with every writer gone, by   *)
(* whichever way the job came to its end (slurm-stack.sbatch:51-56).        *)
THEOREM FinalAlwaysCut ==
    ASSUME CommitFaults = {}
    PROVE  LifeSpec => FinalIsCut
<1>1. ASSUME LifeInv, [LifeNext]_stackLife, NEW p \in Proc,
             At(p, "save"), pc[p] = "cPoint", pc'[p] = "cPrune"
      PROVE  ~writers[p] /\ gens'[latest'].snap = live'[p]
  <2>1. TypeOK /\ StageTypeOK /\ StageInv(p) /\ ShellInv(p) /\ [Next]_vars
    BY <1>1, LifeStepMaps DEF LifeInv, IInv
  <2>2. ~writers[p] /\ quiesced[p]
    BY <1>1, <2>1 DEF At, StageInv, Copying
  <2>3. gens[gen[p]].snap = live[p]
    <3>1. \A part \in Part : LookedAt(p, part) = Fact
      BY <1>1, LookedSteps
    <3>2. /\ gen[p] \in Gen /\ gens[gen[p]].snap \in Content /\ live[p] \in Content
          /\ \A part \in Part : \A f \in Fact :
                f \in gens[gen[p]].snap[part] <=> f \in live[p][part]
      BY <1>1, <2>1, <2>2, <3>1 DEF ShellInv, CreateInv, TypeOK, Generation
    <3>3. \A part \in Part : gens[gen[p]].snap[part] = live[p][part]
      BY <3>2 DEF Content
    <3> QED
      BY <3>2, <3>3 DEF Content
  <2>4. PICK q \in Proc : Step(q)
    BY <1>1, <2>1 DEF Next, vars, shellVars
  <2>5. q = p
    BY <1>1, <2>1, <2>4, Frame DEF Untouched
  <2>6. PointLatest(p)
    BY <1>1, <2>1, <2>4, <2>5, OnlyPointLatest
  <2> QED
    BY <2>2, <2>3, <2>6 DEF PointLatest, stackVars
<1>2. LifeInv /\ [LifeNext]_stackLife =>
         [\A p \in Proc :
             At(p, "save") /\ pc[p] = "cPoint" /\ pc'[p] = "cPrune" =>
                 ~writers[p] /\ gens'[latest'].snap = live'[p]]_stackLife
  BY <1>1
<1> QED
  BY <1>2, LifeInductive, PTL DEF LifeSpec, FinalIsCut

-----------------------------------------------------------------------------
(* History.  While one allocation runs at a time, the stores of a job that  *)
(* restored hold all that the last-good backup holds, but for what the job  *)
(* removed, and so does what it copies from them.                           *)
OffInv(p) ==
    /\ stage[p] \in {"off", "boot", "restore"} => ready[p] = "no"
    /\ stage[p] = "seed" => ready[p] = "restored"
    /\ stage[p] = "off" => pc[p] = "idle" /\ ~stores[p]

(* An older stack's dump is loaded only where no generation was committed.  *)
LegacyInv(p) ==
    pc[p] \in RestoreSteps \ {"rRead"} /\ gen[p] = LegacyDump => latest = NoGen

Loaded(p) == ready[p] \in {"restored", "yes"}

LiveKeeps(p) ==
    \A part \in Part : gens[latest].snap[part] \subseteq live[p][part] \cup removed[p][part]

CopyKeepsOld(p) ==
    \A part \in Part : \A f \in LookedAt(p, part) :
        f \in gens[latest].snap[part] =>
            f \in gens[gen[p]].snap[part] \/ f \in removed[p][part]

(* What was copied is in the stores still, or was removed from them since.  *)
CopyIsNoted(p) ==
    pc[p] \in Copying => \A part \in Part :
        gens[gen[p]].snap[part] \subseteq live[p][part] \cup removed[p][part]

HistInv(p) ==
    /\ OffInv(p)
    /\ LegacyInv(p)
    /\ Loaded(p) => CopyIsNoted(p)
    /\ Loaded(p) /\ latest \in Gen => LiveKeeps(p) /\ CopyKeepsOld(p)

(* A node that is off does nothing but start a job. *)
LEMMA OffOnlyStarts ==
    ASSUME StageTypeOK, NEW p \in Proc, OffInv(p), stage[p] = "off",
           Script(p) \/ Outside(p)
    PROVE  stage'[p] # "off"
<1> USE DEF At, Become, StageTypeOK, OffInv
<1>1. CASE Script(p)
  BY <1>1 DEF Script, Boot, Restoring, Restored, RestoreDies, SeedDatabase, StartServices,
        BackUp, RehearseCall, RehearseSave, RehearseDown, Quiesce, Reopen, SaveFinal,
        Saving, Down
<1>2. CASE Outside(p)
  BY <1>2 DEF Outside, Submit, BootFails, SeedFails, StartFails, Work, Periodic,
        EndService, Signal, RehearseStop, SkipRehearsal, RehearseEnds, NodeLost
<1> QED
  BY <1>1, <1>2

LEMMA OffKept ==
    ASSUME TypeOK, StageTypeOK, NEW p \in Proc, OffInv(p), Script(p) \/ Outside(p)
    PROVE  OffInv(p)'
<1> USE DEF StageTypeOK, Stages, At, Become, stageVars, OffInv
<1>1. CASE Boot(p) \/ Restoring(p) \/ Restored(p) \/ RestoreDies(p)
  BY <1>1 DEF Boot, Restoring, Restored, RestoreDies
<1>2. CASE SeedDatabase(p) \/ SeedFails(p) \/ StartServices(p) \/ StartFails(p)
  BY <1>2 DEF SeedDatabase, SeedFails, StartServices, StartFails
<1>3. CASE Work(p)
  BY <1>3 DEF Work, Write, shellVars
<1>4. CASE BackUp(p) \/ Saving(p) \/ RehearseSave(p) \/ Signal(p)
  BY <1>4 DEF BackUp, Saving, RehearseSave, Signal
<1>5. CASE Periodic(p) \/ RehearseCall(p) \/ SaveFinal(p)
  BY <1>5 DEF Periodic, RehearseCall, SaveFinal
<1>6. CASE Submit(p) \/ Quiesce(p) \/ RehearseStop(p)
  BY <1>6 DEF Submit, Quiesce, RehearseStop
<1>7. CASE Reopen(p)
  BY <1>7 DEF Reopen
<1>8. CASE BootFails(p) \/ EndService(p) \/ SkipRehearsal(p) \/ RehearseEnds(p)
  BY <1>8 DEF BootFails, EndService, SkipRehearsal, RehearseEnds
<1>9. CASE RehearseDown(p)
  BY <1>9 DEF RehearseDown
<1>10. CASE Down(p) \/ NodeLost(p)
  <2>1. pc'[p] = "idle"
    BY <1>10, ReturnControl DEF Down, NodeLost, vars, shellVars
  <2> QED
    BY <1>10, <2>1 DEF Down, NodeLost, Vanish
<1> QED
  BY <1>1, <1>2, <1>3, <1>4, <1>5, <1>6, <1>7, <1>8, <1>9, <1>10 DEF Script, Outside

-----------------------------------------------------------------------------
(* What a job that has its data may do to the stores and the root. *)
Serves(p) ==
    \/ CreateStep(p) \/ LockTimeout(p) \/ Release(p) \/ Crash(p) \/ Interrupt(p)
    \/ CallCreate(p) \/ StopWriters(p) \/ StartWriters(p) \/ Write(p) \/ Seed(p)
    \/ UNCHANGED vars

LEMMA LoadedServes ==
    ASSUME NEW p \in Proc, OffInv(p), Loaded(p), Script(p) \/ Outside(p)
    PROVE  Serves(p)
<1> USE DEF Serves, OffInv, Loaded, At
<1>1. CASE Boot(p) \/ Restoring(p) \/ Restored(p) \/ RestoreDies(p) \/ Submit(p)
  BY <1>1 DEF Boot, Restoring, Restored, RestoreDies, Submit
<1>2. CASE SeedDatabase(p) \/ SeedFails(p) \/ StartServices(p) \/ StartFails(p) \/ Work(p)
  BY <1>2 DEF SeedDatabase, SeedFails, StartServices, StartFails, Work
<1>3. CASE BackUp(p) \/ Saving(p) \/ RehearseSave(p) \/ Signal(p)
  BY <1>3 DEF BackUp, Saving, RehearseSave, Creating, Signal
<1>4. CASE Periodic(p) \/ RehearseCall(p) \/ SaveFinal(p)
  BY <1>4 DEF Periodic, RehearseCall, SaveFinal
<1>5. CASE Quiesce(p) \/ RehearseStop(p) \/ Reopen(p)
  BY <1>5 DEF Quiesce, RehearseStop, Reopen
<1>6. CASE BootFails(p) \/ EndService(p) \/ SkipRehearsal(p) \/ RehearseDown(p)
           \/ RehearseEnds(p)
  BY <1>6 DEF BootFails, EndService, SkipRehearsal, RehearseDown, RehearseEnds
<1>7. CASE Down(p) \/ NodeLost(p)
  BY <1>7 DEF Down, NodeLost
<1> QED
  BY <1>1, <1>2, <1>3, <1>4, <1>5, <1>6, <1>7 DEF Script, Outside

(* Data comes with a restore that succeeded or found nothing to restore. *)
LEMMA LoadedByRestore ==
    ASSUME StageTypeOK, NEW p \in Proc, OffInv(p), Script(p) \/ Outside(p), ~Loaded(p),
           Loaded(p)'
    PROVE  Restored(p)
<1> USE DEF StageTypeOK, Stages, At, Become, stageVars, Loaded, OffInv
<1>1. CASE Boot(p) \/ Restoring(p) \/ RestoreDies(p) \/ Submit(p)
  BY <1>1 DEF Boot, Restoring, RestoreDies, Submit
<1>2. CASE SeedDatabase(p) \/ SeedFails(p) \/ StartServices(p) \/ StartFails(p) \/ Work(p)
  BY <1>2 DEF SeedDatabase, SeedFails, StartServices, StartFails, Work
<1>3. CASE BackUp(p) \/ Saving(p) \/ RehearseSave(p) \/ Signal(p)
  BY <1>3 DEF BackUp, Saving, RehearseSave, Signal
<1>4. CASE Periodic(p) \/ RehearseCall(p) \/ SaveFinal(p)
  BY <1>4 DEF Periodic, RehearseCall, SaveFinal
<1>5. CASE Quiesce(p) \/ RehearseStop(p) \/ Reopen(p)
  BY <1>5 DEF Quiesce, RehearseStop, Reopen
<1>6. CASE BootFails(p) \/ EndService(p) \/ SkipRehearsal(p) \/ RehearseDown(p)
           \/ RehearseEnds(p)
  BY <1>6 DEF BootFails, EndService, SkipRehearsal, RehearseDown, RehearseEnds
<1>7. CASE Down(p) \/ NodeLost(p)
  BY <1>7 DEF Down, NodeLost, Vanish
<1> QED
  BY <1>1, <1>2, <1>3, <1>4, <1>5, <1>6, <1>7 DEF Script, Outside

LEMMA RestoredHolds ==
    ASSUME TypeOK, NEW p \in Proc, ShellInv(p), LegacyInv(p), latest \in Gen,
           RestoreReturns(p) \/ RestoreFindsNothing(p)
    PROVE  LiveKeeps(p)'
<1>1. RestoreReturns(p)
  BY ConstantsAssumption DEF RestoreFindsNothing
<1>2. gen[p] = latest /\ gen[p] # LegacyDump
  BY <1>1, ConstantsAssumption DEF RestoreReturns, ShellInv, RestoreInv, LegacyInv, RestoreSteps
<1>3. \A part \in Part : live[p][part] = gens[latest].snap[part]
  <2>1. pc[p] = "rMark" /\ RestoreInv(p)
    BY <1>1 DEF RestoreReturns, ShellInv
  <2>2. \A part \in LoadedAt("rMark") \cap Supplied(gen[p]) :
           live[p][part] = SourceContent(gen[p])[part]
    BY <2>1 DEF RestoreInv, RestoreSteps
  <2>3. LoadedAt("rMark") = Part /\ Supplied(gen[p]) = Part
    BY <1>2 DEF LoadedAt, Supplied
  <2>4. SourceContent(gen[p]) = gens[latest].snap
    BY <1>2 DEF SourceContent
  <2> QED
    BY <2>2, <2>3, <2>4
<1>4. /\ live' = live /\ gens' = gens /\ latest' = latest /\ pc'[p] = "idle"
  BY <1>1 DEF RestoreReturns, Return, TypeOK, rootVars, stackVars
<1> QED
  BY <1>3, <1>4 DEF LiveKeeps

(* The stores of a job that has its data lose only what is noted.           *)
Noted(p) ==
    \A part \in Part :
        /\ live[p][part] \subseteq live'[p][part] \cup removed'[p][part]
        /\ removed[p][part] \subseteq removed'[p][part]

LEMMA CreatingLeavesStores ==
    ASSUME NEW p \in Proc, Creating(p) \/ Release(p) \/ Crash(p) \/ Interrupt(p)
    PROVE  live' = live
BY DEF Creating, Release, Crash, Interrupt, LockTimeout, CreateStep, CreateLock, MkdirFails,
       DumpPostgres, MirrorObject, MirrorPrivate, MirrorPublic, MirrorEnds, CreateFails,
       Discard, ManifestFails, Seal, MoveGeneration, PointLatest, MoveGenerationFault,
       WritePointerFault, MovePointerFault, CommitFault, PruneStart, PruneOne,
       CreateReturns, stackVars

LEMMA LiveIsNoted ==
    ASSUME TypeOK, TypeOK', StageTypeOK, NEW p \in Proc, OffInv(p), Loaded(p), Loaded(p)',
           Script(p) \/ Outside(p)
    PROVE  Noted(p)
<1>1. CASE SeedDatabase(p) \/ SeedFails(p) \/ Work(p)
  <2>1. NoteRemoved(p)
    BY <1>1 DEF SeedDatabase, SeedFails, Work
  <2> QED
    BY <2>1, RemovedType DEF Noted
<1>2. ASSUME live' = live, removed' = removed PROVE Noted(p)
  BY <1>2 DEF Noted
<1>3. CASE \/ Boot(p) \/ Restoring(p) \/ Restored(p) \/ RestoreDies(p) \/ Submit(p)
           \/ Down(p) \/ NodeLost(p)
  BY <1>3 DEF Boot, Restoring, Restored, RestoreDies, Submit, Down, NodeLost, Vanish,
              OffInv, Loaded, At, StageTypeOK
<1>4. CASE BackUp(p) \/ Saving(p) \/ RehearseSave(p) \/ Signal(p) \/ Reopen(p)
  BY <1>2, <1>4, CreatingLeavesStores
     DEF BackUp, Saving, RehearseSave, Signal, Reopen, stageVars
<1>5. CASE Periodic(p) \/ RehearseCall(p) \/ SaveFinal(p)
  BY <1>2, <1>5 DEF Periodic, RehearseCall, SaveFinal, CallCreate, Call, stackVars
<1>6. CASE Quiesce(p) \/ RehearseStop(p) \/ StartServices(p) \/ StartFails(p)
  BY <1>2, <1>6 DEF Quiesce, RehearseStop, StartServices, StartFails, StopWriters,
                    StartWriters, vars, stackVars
<1>7. CASE BootFails(p) \/ EndService(p) \/ SkipRehearsal(p) \/ RehearseDown(p)
           \/ RehearseEnds(p)
  BY <1>2, <1>7 DEF BootFails, EndService, SkipRehearsal, RehearseDown, RehearseEnds, vars,
                    stackVars
<1> QED
  BY <1>1, <1>3, <1>4, <1>5, <1>6, <1>7 DEF Script, Outside

(* The copy through a step that is not the commit: it is taken of stores    *)
(* that hold the old backup, and the old backup is not where it goes.       *)
LEMMA CopyRests ==
    ASSUME NEW p \in Proc, Noted(p), CopyIsNoted(p),
           latest' = latest, latest \in Gen => gens'[latest] = gens[latest],
           latest \in Gen => CopyKeepsOld(p),
           pc'[p] \in Copying => pc[p] \in Copying /\ gens'[gen'[p]].snap = gens[gen[p]].snap,
           \A part \in Part : LookedAt(p, part)' \subseteq LookedAt(p, part)
    PROVE  CopyIsNoted(p)' /\ (latest \in Gen => CopyKeepsOld(p)')
<1>1. CopyIsNoted(p)'
  BY DEF CopyIsNoted, Noted
<1>2. ASSUME latest \in Gen, NEW part \in Part, NEW f \in LookedAt(p, part)',
             f \in gens'[latest].snap[part]
      PROVE  f \in gens'[gen'[p]].snap[part] \/ f \in removed'[p][part]
  <2>1. f \in LookedAt(p, part) /\ pc'[p] \in Copying
    BY <1>2 DEF LookedAt, Copying
  <2>2. f \in gens[gen[p]].snap[part] \/ f \in removed[p][part]
    BY <1>2, <2>1 DEF CopyKeepsOld
  <2> QED
    BY <2>1, <2>2 DEF Noted
<1> QED
  BY <1>1, <1>2 DEF CopyKeepsOld

LEMMA CopyLooks ==
    ASSUME NEW p \in Proc, Noted(p), live' = live, CopyIsNoted(p), pc[p] \in Copying,
           latest' = latest, latest \in Gen => gens'[latest] = gens[latest],
           latest \in Gen => LiveKeeps(p) /\ CopyKeepsOld(p), gen'[p] = gen[p],
           NEW part \in Part, NEW some \in SUBSET Fact,
           LookedAt(p, part)' = LookedAt(p, part) \cup some,
           gens'[gen[p]].snap[part] =
              (gens[gen[p]].snap[part] \ some) \cup (live[p][part] \cap some),
           \A other \in Part \ {part} :
              /\ LookedAt(p, other)' = LookedAt(p, other)
              /\ gens'[gen[p]].snap[other] = gens[gen[p]].snap[other]
    PROVE  CopyIsNoted(p)' /\ (latest \in Gen => CopyKeepsOld(p)')
<1>1. CopyIsNoted(p)'
  <2>1. ASSUME NEW other \in Part
        PROVE  gens'[gen[p]].snap[other] \subseteq live'[p][other] \cup removed'[p][other]
    <3>1. gens[gen[p]].snap[other] \subseteq live[p][other] \cup removed[p][other]
      BY DEF CopyIsNoted
    <3>2. removed[p][other] \subseteq removed'[p][other]
      BY DEF Noted
    <3>3. CASE other = part
      BY <3>1, <3>2, <3>3
    <3>4. CASE other # part
      BY <3>1, <3>2, <3>4
    <3> QED
      BY <3>3, <3>4
  <2> QED
    BY <2>1 DEF CopyIsNoted
<1>2. ASSUME latest \in Gen, NEW other \in Part, NEW f \in LookedAt(p, other)',
             f \in gens'[latest].snap[other]
      PROVE  f \in gens'[gen'[p]].snap[other] \/ f \in removed'[p][other]
  <2>1. /\ f \in gens[latest].snap[other] /\ removed[p][other] \subseteq removed'[p][other]
        /\ f \in live[p][other] \cup removed[p][other]
    BY <1>2 DEF LiveKeeps, Noted
  <2>2. CASE other = part /\ f \in some
    BY <2>1, <2>2
  <2>3. CASE other = part /\ f \notin some
    <3>1. f \in LookedAt(p, part)
      BY <1>2, <2>3
    <3>2. f \in gens[gen[p]].snap[part] \/ f \in removed[p][part]
      BY <1>2, <2>1, <2>3, <3>1 DEF CopyKeepsOld
    <3> QED
      BY <2>1, <2>3, <3>2
  <2>4. CASE other # part
    <3>1. f \in gens[gen[p]].snap[other] \/ f \in removed[p][other]
      BY <1>2, <2>1, <2>4 DEF CopyKeepsOld
    <3> QED
      BY <2>1, <2>4, <3>1
  <2> QED
    BY <2>2, <2>3, <2>4
<1> QED
  BY <1>1, <1>2 DEF CopyKeepsOld

LEMMA CopyHolds ==
    ASSUME IInv, IInv', CommitFaults = {}, NEW p \in Proc, Step(p), ~PointLatest(p),
           Noted(p), CopyIsNoted(p),
           latest' = latest, latest \in Gen => gens'[latest] = gens[latest],
           latest \in Gen => LiveKeeps(p) /\ CopyKeepsOld(p)
    PROVE  CopyIsNoted(p)' /\ (latest \in Gen => CopyKeepsOld(p)')
<1>1. TypeOK /\ TypeOK' /\ ShellInv(p) /\ gens \in [Gen -> Generation]
  BY DEF IInv, TypeOK
<1>2. CASE DumpPostgres(p)
  <2>1. /\ live' = live /\ gen'[p] = gen[p] /\ gen[p] \in Gen /\ gens[gen[p]] \in Generation
        /\ gens'[gen[p]].snap["pg"] = live[p]["pg"]
        /\ \A part \in Part \ {"pg"} : gens'[gen[p]].snap[part] = gens[gen[p]].snap[part]
    BY <1>1, <1>2, DumpKeeps
  <2>2. pc[p] = "cDump" /\ pc'[p] = "cPrivate" /\ looked'[p] = {}
    BY <1>1, <1>2 DEF DumpPostgres, Goto, TypeOK
  <2>3. /\ LookedAt(p, "pg")' = LookedAt(p, "pg") \cup Fact
        /\ \A part \in Part \ {"pg"} : LookedAt(p, part)' = LookedAt(p, part)
    BY <2>2 DEF LookedAt, Bucket, Copying, Part
  <2>4. /\ gens'[gen[p]].snap["pg"] =
             (gens[gen[p]].snap["pg"] \ Fact) \cup (live[p]["pg"] \cap Fact)
        /\ "pg" \in Part
    BY <1>1, <2>1 DEF Generation, Content, TypeOK, Part
  <2> QED
    BY <2>1, <2>2, <2>3, <2>4, CopyLooks DEF Copying
<1>3. CASE MirrorObject(p)
  <2>1. /\ live' = live /\ gen'[p] = gen[p] /\ gen[p] \in Gen
        /\ pc' = pc /\ pc[p] \in {"cPrivate", "cPublic"}
    BY <1>1, <1>3, ObjectKeeps
  <2>2. PICK part \in Part, f \in Fact :
           /\ LookedAt(p, part)' = LookedAt(p, part) \cup {f}
           /\ gens'[gen[p]].snap[part] =
                 (gens[gen[p]].snap[part] \ {f}) \cup (live[p][part] \cap {f})
           /\ \A other \in Part \ {part} :
                 /\ LookedAt(p, other)' = LookedAt(p, other)
                 /\ gens'[gen[p]].snap[other] = gens[gen[p]].snap[other]
    BY <1>1, <1>3, ObjectKeeps
  <2> QED
    BY <2>1, <2>2, CopyLooks DEF Copying
<1>4. CASE MirrorPrivate(p) \/ MirrorPublic(p)
  <2>1. /\ gen'[p] = gen[p] /\ pc[p] \in Copying
        /\ gens'[gen[p]].snap = gens[gen[p]].snap
        /\ \A part \in Part : LookedAt(p, part)' = LookedAt(p, part)
    BY <1>1, <1>4, EndsKeeps
  <2> QED
    BY <2>1, CopyRests
<1>5. CASE CreateLock(p)
  <2>1. pc'[p] = "cDump" /\ gens'[gen'[p]].snap = Empty
    BY <1>1, <1>5 DEF CreateLock, TypeOK, Blank
  <2>2. \A part \in Part : LookedAt(p, part)' = {}
    BY <2>1 DEF LookedAt, Copying
  <2> QED
    BY <2>1, <2>2 DEF CopyIsNoted, CopyKeepsOld, Empty
<1>6. CASE Seal(p) \/ MoveGeneration(p)
  <2>1. /\ pc[p] \in {"cSeal", "cMove"} /\ pc'[p] \in {"cMove", "cPoint"}
        /\ gen'[p] = gen[p] /\ gen[p] \in Gen
    BY <1>1, <1>6 DEF Seal, MoveGeneration, Goto, ShellInv, CreateInv, TypeOK
  <2>2. gens'[gen[p]].snap = gens[gen[p]].snap
    BY <1>1, <1>6, <2>1 DEF Seal, MoveGeneration, Generation
  <2>3. \A part \in Part : LookedAt(p, part)' = LookedAt(p, part)
    BY <2>1 DEF LookedAt, Copying, Part
  <2> QED
    BY <2>1, <2>2, <2>3, CopyRests DEF Copying
<1>7. CASE Write(p)
  <2>1. UNCHANGED <<gens, pc, gen, looked>>
    BY <1>7 DEF Write, rootVars, shellVars
  <2>2. \A part \in Part : LookedAt(p, part)' = LookedAt(p, part)
    BY <2>1 DEF LookedAt
  <2> QED
    BY <2>1, <2>2, CopyRests
<1>8. CASE ~(\/ CreateLock(p) \/ DumpPostgres(p) \/ MirrorObject(p) \/ MirrorPrivate(p)
             \/ MirrorPublic(p) \/ Seal(p) \/ MoveGeneration(p) \/ Write(p))
  <2>1. ~MoveGenerationFault(p)
    BY DEF MoveGenerationFault, CommitFault
  <2>2. pc'[p] \notin Copying
    BY <1>8, <2>1, Leaves
  <2>3. \A part \in Part : LookedAt(p, part)' = {}
    BY <2>2 DEF LookedAt, Copying
  <2> QED
    BY <2>2, <2>3 DEF CopyIsNoted, CopyKeepsOld
<1> QED
  BY <1>2, <1>3, <1>4, <1>5, <1>6, <1>7, <1>8

LEMMA CommitHolds ==
    ASSUME TypeOK, CommitFaults = {}, NEW p \in Proc, ShellInv(p), PointLatest(p),
           Noted(p), CopyIsNoted(p)
    PROVE  /\ LiveKeeps(p)' /\ CopyKeepsOld(p)' /\ CopyIsNoted(p)'
           /\ gens'[latest'] = gens[gen[p]] /\ gen[p] \in Gen
           /\ \A part \in Part : LookedAt(p, part) = Fact
<1>1. /\ gen[p] \in Gen /\ gens' = gens /\ live' = live /\ latest' = gen[p]
      /\ pc[p] = "cPoint" /\ pc'[p] = "cPrune"
  BY DEF PointLatest, Goto, ShellInv, CreateInv, TypeOK, stackVars
<1>2. LiveKeeps(p)'
  BY <1>1 DEF LiveKeeps, CopyIsNoted, Noted, Copying
<1>3. \A part \in Part : LookedAt(p, part)' = {}
  BY <1>1 DEF LookedAt, Copying
<1>4. \A part \in Part : LookedAt(p, part) = Fact
  BY <1>1, LookedSteps
<1> QED
  BY <1>1, <1>2, <1>3, <1>4 DEF CopyKeepsOld, CopyIsNoted, Copying

(* A job with its data through one step of its own. *)
LEMMA HistOwn ==
    ASSUME LifeInv, LifeInv', CommitFaults = {}, NEW p \in Proc, Script(p) \/ Outside(p),
           HistInv(p), Loaded(p)'
    PROVE  CopyIsNoted(p)' /\ (latest' \in Gen => LiveKeeps(p)' /\ CopyKeepsOld(p)')
<1>1. /\ TypeOK /\ TypeOK' /\ IInv /\ IInv' /\ StageTypeOK /\ LatestComplete
      /\ StageInv(p) /\ ShellInv(p) /\ OffInv(p)
  BY DEF LifeInv, IInv, HistInv
<1>2. CASE ~Loaded(p)
  <2>1. RestoreReturns(p) \/ RestoreFindsNothing(p)
    BY <1>1, <1>2, LoadedByRestore DEF Restored
  <2>2. latest' = latest /\ pc'[p] = "idle"
    BY <1>1, <2>1, ReturnControl DEF RestoreReturns, RestoreFindsNothing, rootVars
  <2>3. \A part \in Part : LookedAt(p, part)' = {}
    BY <2>2 DEF LookedAt, Copying
  <2>4. latest \in Gen => LiveKeeps(p)'
    BY <1>1, <2>1, RestoredHolds DEF HistInv
  <2> QED
    BY <2>2, <2>3, <2>4 DEF CopyIsNoted, CopyKeepsOld, Copying
<1>3. CASE Loaded(p)
  <2>1. Noted(p) /\ CopyIsNoted(p)
    BY <1>1, <1>3, LiveIsNoted DEF HistInv
  <2>2. CASE PointLatest(p)
    BY <1>1, <2>1, <2>2, CommitHolds
  <2>3. CASE ~PointLatest(p)
    <3>1. Step(p) \/ UNCHANGED vars
      BY <1>1, StepMaps
    <3>2. latest' = latest /\ (latest \in Gen => gens'[latest] = gens[latest])
      BY <1>1, <2>3, <3>1, LatestKept DEF vars, rootVars
    <3>3. latest \in Gen => LiveKeeps(p) /\ CopyKeepsOld(p)
      BY <1>3 DEF HistInv
    <3>4. latest \in Gen => LiveKeeps(p)'
      BY <2>1, <3>2, <3>3 DEF LiveKeeps, Noted
    <3>5. CopyIsNoted(p)' /\ (latest \in Gen => CopyKeepsOld(p)')
      <4>1. CASE Step(p)
        BY <1>1, <2>1, <2>3, <3>2, <3>3, <4>1, CopyHolds
      <4>2. CASE UNCHANGED vars
        <5>1. \A part \in Part : LookedAt(p, part)' = LookedAt(p, part)
          BY <4>2 DEF LookedAt, vars, shellVars
        <5> QED
          BY <2>1, <3>2, <3>3, <4>2, <5>1, CopyRests DEF vars, rootVars, shellVars
      <4> QED
        BY <3>1, <4>1, <4>2
    <3> QED
      BY <3>2, <3>4, <3>5
  <2> QED
    BY <2>2, <2>3
<1> QED
  BY <1>2, <1>3

(* A dump of an older stack is read where there is no generation, and as    *)
(* long as the lock is held there is none.                                  *)
LEMMA LegacyOwn ==
    ASSUME IInv, CommitFaults = {}, NEW p \in Proc, Step(p), LegacyInv(p)
    PROVE  LegacyInv(p)'
<1>1. TypeOK /\ LatestComplete /\ ShellInv(p)
  BY DEF IInv
<1> USE DEF LegacyInv
<1>2. CASE PointLatest(p)
  BY <1>1, <1>2 DEF PointLatest, Goto, TypeOK, RestoreSteps
<1>3. CASE RestoreStep(p)
  <2>1. latest' = latest
    BY <1>3 DEF RestoreStep, RestoreLock, RestoreRead, RestoreRefuses,
          RestoreFindsNothing, ResetDatabase, LoadPostgres, LoadPrivate, LoadPublic,
          LoadPart, RestoreFails, ResetFails, LoadFails, RestoreReturns, rootVars
  <2>2. CASE RestoreRead(p)
    BY <1>1, <2>1, <2>2, ConstantsAssumption DEF RestoreRead, ChooseSource, TypeOK
  <2>3. CASE ~RestoreRead(p)
    <3>1. pc'[p] \in {"idle", "rRead"} \/ (gen'[p] = gen[p] /\ pc[p] \in RestoreSteps \ {"rRead"})
      BY <1>1, <1>3, <2>3 DEF RestoreStep, RestoreLock, RestoreRefuses,
            RestoreFindsNothing, ResetDatabase, LoadPostgres, LoadPrivate, LoadPublic,
            LoadPart, RestoreFails, ResetFails, LoadFails, RestoreReturns, Goto, Return,
            TypeOK, RestoreSteps
    <3> QED
      BY <2>1, <3>1 DEF RestoreSteps
  <2> QED
    BY <2>2, <2>3
<1>4. CASE ~PointLatest(p) /\ ~RestoreStep(p)
  <2>1. latest' = latest
    BY <1>1, <1>4, LatestKept
  <2>2. pc'[p] \in RestoreSteps => pc'[p] = pc[p] /\ gen'[p] = gen[p]
    <3>1. CASE CreateStep(p) \/ LockTimeout(p)
      BY <1>1, <3>1, CreateControl
    <3>2. CASE Release(p) \/ Crash(p) \/ Interrupt(p) \/ Environment(p)
      BY <1>1, <3>2 DEF Release, Crash, Interrupt, Trapped, Environment, CallCreate, CallRestore,
            Call, StopWriters, StartWriters, Write, Seed, NewAllocation, Return, TypeOK,
            RestoreSteps, shellVars
    <3> QED
      BY <1>4, <3>1, <3>2 DEF Step, ShellStep
  <2> QED
    BY <2>1, <2>2
<1> QED
  BY <1>2, <1>3, <1>4

LEMMA LegacyOthers ==
    ASSUME IInv, NEW p \in Proc, Step(p), NEW q \in Proc \ {p}, LegacyInv(q)
    PROVE  LegacyInv(q)'
<1>1. TypeOK /\ ShellInv(p) /\ ShellInv(q)
  BY DEF IInv
<1>2. Untouched(q)
  BY <1>1, Frame
<1> SUFFICES ASSUME pc[q] \in RestoreSteps PROVE LegacyInv(q)'
  BY <1>2 DEF Untouched, LegacyInv
<1>3. lock = q /\ lock # p /\ lock # NoProc /\ pc[p] \notin Critical
  BY <1>1, ConstantsAssumption DEF ShellInv, LockInv, Critical
<1>4. latest' = latest
  BY <1>1, <1>3, RootNeedsLock DEF ShellInv
<1> QED
  BY <1>2, <1>4 DEF Untouched, LegacyInv

LEMMA HistInit == LifeInit => \A p \in Proc : HistInv(p)
BY ConstantsAssumption DEF LifeInit, Init, InitShells, HistInv, OffInv, LegacyInv, Loaded,
   RestoreSteps

LEMMA HistStep ==
    ASSUME LifeInv, LifeInv', CommitFaults = {}, OneAtATime, OneAtATime',
           [LifeNext]_stackLife,
           \A p \in Proc : HistInv(p)
    PROVE  \A p \in Proc : HistInv(p)'
<1>1. TypeOK /\ TypeOK' /\ StageTypeOK /\ IInv /\ \A p \in Proc : StageInv(p)
  BY DEF LifeInv, IInv
<1>2. CASE UNCHANGED stackLife
  BY <1>2 DEF stackLife, stageVars, vars, rootVars, shellVars, stackVars, HistInv, OffInv,
              LegacyInv, Loaded, LiveKeeps, CopyKeepsOld, CopyIsNoted, LookedAt
<1>3. ASSUME NEW p \in Proc, Script(p) \/ Outside(p), NEW q \in Proc PROVE HistInv(q)'
  <2>1. HistInv(p) /\ HistInv(q) /\ StageInv(p)
    BY <1>1
  <2>2. Step(p) \/ UNCHANGED vars
    BY <1>3, <2>1, StepMaps
  <2>3. CASE q = p
    <3>1. OffInv(p)'
      BY <1>1, <1>3, <2>1, OffKept DEF HistInv
    <3>2. LegacyInv(p)'
      BY <1>1, <2>1, <2>2, LegacyOwn DEF HistInv, LegacyInv, vars, rootVars, shellVars
    <3> QED
      BY <1>3, <2>1, <2>3, <3>1, <3>2, HistOwn DEF HistInv
  <2>4. CASE q # p
    <3>1. /\ stage'[q] = stage[q] /\ ready'[q] = ready[q] /\ stores'[q] = stores[q]
          /\ stage'[p] \in Stages
      BY <1>1, <1>3, <2>4, StageFrame DEF StageTypeOK
    <3>2. stage[q] = "off"
      <4>1. stage[p] # "off" \/ stage'[p] # "off"
        BY <1>1, <1>3, <2>1, OffOnlyStarts DEF HistInv
      <4> QED
        BY <2>4, <3>1, <4>1 DEF OneAtATime, At
    <3>3. pc'[q] = pc[q]
      BY <1>1, <2>2, <2>4, Frame DEF Untouched, vars, shellVars
    <3>4. LegacyInv(q)'
      BY <1>1, <2>1, <2>2, <2>4, LegacyOthers
         DEF HistInv, LegacyInv, vars, rootVars, shellVars
    <3> QED
      BY <2>1, <3>1, <3>2, <3>3, <3>4 DEF HistInv, OffInv, Loaded
  <2> QED
    BY <2>3, <2>4
<1> QED
  BY <1>2, <1>3 DEF LifeNext

(* While one allocation runs at a time, here or there, a job whose restore  *)
(* succeeded or found nothing never replaces the last-good backup by one    *)
(* that misses any of it, but for what statements of its own workflows      *)
(* deleted or changed or its seed reset, however many jobs failed, were     *)
(* interrupted or lost their node before (stack-up.sh:280-303,              *)
(* slurm-stack.sbatch:145-153).  Jobs whose restore failed are not covered. *)
THEOREM HistoryIsKept ==
    ASSUME CommitFaults = {}
    PROVE  LifeSpec /\ []OneAtATime => ServedKeepsHistory
<1> DEFINE HistAll == \A p \in Proc : HistInv(p)
           Keeps(p) == \A part \in Part :
                          gens[latest].snap[part] \ removed[p][part]
                              \subseteq gens'[latest'].snap[part]
           Kept == \A p \in Proc :
                      ready[p] \in {"restored", "yes"}
                          /\ latest \in Gen /\ latest' \in Gen /\ latest' # latest => Keeps(p)
<1>1. LifeInit => HistAll
  BY HistInit
<1>2. HistAll /\ LifeInv /\ LifeInv' /\ OneAtATime /\ OneAtATime' /\ [LifeNext]_stackLife
         => HistAll'
  BY HistStep
<1>3. HistAll /\ LifeInv /\ LifeInv' /\ OneAtATime /\ [LifeNext]_stackLife => [Kept]_stackLife
  <2> SUFFICES ASSUME HistAll, LifeInv, LifeInv', OneAtATime, NEW q \in Proc,
                      Script(q) \/ Outside(q),
                      NEW p \in Proc, ready[p] \in {"restored", "yes"}, latest \in Gen,
                      latest' \in Gen, latest' # latest
               PROVE  Keeps(p)
    BY DEF LifeNext
  <2>1. /\ TypeOK /\ TypeOK' /\ LatestComplete /\ ShellInv(q) /\ StageInv(q)
        /\ StageTypeOK /\ HistInv(p) /\ HistInv(q)
    BY DEF LifeInv, IInv
  <2>2. Step(q)
    BY <2>1, StepMaps DEF vars, rootVars
  <2>3. PointLatest(q)
    BY <2>1, <2>2, LatestKept
  <2>4. q = p
    <3>1. stage[p] # "off" /\ stage[q] # "off"
      BY <2>1, <2>3 DEF HistInv, OffInv, PointLatest
    <3> QED
      BY <3>1 DEF OneAtATime, At
  <2>5. CopyKeepsOld(p)
    BY <2>1 DEF HistInv, Loaded
  <2>6. /\ gen[p] \in Gen /\ gens' = gens /\ latest' = gen[p] /\ pc[p] = "cPoint"
    BY <2>1, <2>3, <2>4 DEF PointLatest, ShellInv, CreateInv
  <2>7. \A part \in Part : LookedAt(p, part) = Fact
    BY <2>6, LookedSteps
  <2>8. \A part \in Part : gens[latest].snap[part] \subseteq Fact
    BY <2>1 DEF TypeOK, Generation, Content
  <2> QED
    BY <2>5, <2>6, <2>7, <2>8 DEF CopyKeepsOld
<1>4. LifeSpec /\ []OneAtATime => []HistAll
  BY <1>1, <1>2, LifeInductive, PTL DEF LifeSpec
<1> QED
  BY <1>3, <1>4, LifeInductive, PTL DEF LifeSpec, ServedKeepsHistory
=============================================================================
