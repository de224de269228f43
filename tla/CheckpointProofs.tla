-------------------------- MODULE CheckpointProofs --------------------------
(***************************************************************************)
(* What holds of Checkpoint for every number of shells, generations, facts *)
(* and retained generations.                                               *)
(*                                                                         *)
(* The argument: whoever is inside the critical sections holds the lock    *)
(* (LockInv), so a step of one shell leaves alone everything that the      *)
(* invariants of another shell speak of (OthersKeep).  What remains is to  *)
(* follow one shell through its own steps.                                 *)
(***************************************************************************)
EXTENDS Checkpoint, FiniteSetTheorems, TLAPS

(* The parts that are copied, or loaded, when a shell reaches a step. *)
CopiedAt(step) ==
    CASE step = "cPrivate"                    -> {"pg"}
      [] step = "cPublic"                     -> {"pg", "private"}
      [] step \in {"cSeal", "cMove", "cPoint"} -> Part
      [] OTHER                                -> {}

LoadedAt(step) ==
    CASE step = "rPrivate" -> {"pg"}
      [] step = "rPublic"  -> {"pg", "private"}
      [] step = "rMark"    -> Part
      [] OTHER             -> {}

LockInv(p) == pc[p] \in Critical => lock = p

IdleInv(p) ==
    /\ pc[p] \notin Critical => gen[p] = NoGen /\ victims[p] = {} /\ ~quiesced[p]
    /\ pc[p] \notin {"cPrivate", "cPublic"} => looked[p] = {}

(* A generation under construction is a .tmp directory that only its shell  *)
(* knows; as far as the shell has been through the stores, it holds exactly *)
(* what they hold when the writers were confirmed stopped.                  *)
CreateInv(p) ==
    pc[p] \in {"cDump", "cPrivate", "cPublic", "cSeal", "cMove", "cPoint", "cDiscard"} =>
        /\ gen[p] \in Gen
        /\ pc[p] # "cPoint" => gens[gen[p]].dir = "tmp"
        /\ pc[p] = "cPoint" /\ CommitFaults = {} => gens[gen[p]].dir = "final"
        /\ CopiedAt(pc[p]) \subseteq gens[gen[p]].have
        /\ pc[p] \in {"cMove", "cPoint"} => gens[gen[p]].sealed
        /\ quiesced[p] => \A part \in Part : \A f \in LookedAt(p, part) :
              f \in gens[gen[p]].snap[part] <=> f \in live[p][part]

(* Pruning has decided not to touch `latest`. *)
PruneInv(p) ==
    /\ latest \notin victims[p]
    /\ pc[p] # "cSweep" => victims[p] = {}

WriterInv(p) ==
    /\ marker[p] => ~writers[p]
    /\ quiesced[p] => ~writers[p]
    /\ pc[p] \in {"rLock"} \cup RestoreSteps => ~writers[p]

RestoreInv(p) ==
    pc[p] \in RestoreSteps \ {"rRead"} =>
        /\ gen[p] = LegacyDump \/ (gen[p] \in Gen /\ gen[p] = latest)
        /\ \A part \in LoadedAt(pc[p]) \cap Supplied(gen[p]) :
              live[p][part] = SourceContent(gen[p])[part]

ShellInv(p) ==
    /\ LockInv(p) /\ IdleInv(p) /\ CreateInv(p) /\ PruneInv(p)
    /\ WriterInv(p) /\ RestoreInv(p)

IInv ==
    /\ TypeOK
    /\ CommitFaults = {} => LatestComplete
    /\ \A p \in Proc : ShellInv(p)

-----------------------------------------------------------------------------
(* Every action keeps the types. *)
LEMMA BlankType ==
    ASSUME NEW where \in {"none", "tmp", "final"}
    PROVE  Blank(where) \in Generation
BY DEF Blank, Generation, Content, Empty

LEMMA TypeInit == Init => TypeOK
BY ConstantsAssumption, BlankType
   DEF Init, InitShells, TypeOK, Content, Empty

LEMMA WithCopyType ==
    ASSUME NEW dir \in Generation, NEW part \in Part, NEW content \in SUBSET Fact
    PROVE  /\ WithCopy(dir, part, content) \in Generation
           /\ WithCopy(dir, part, content).dir = dir.dir
           /\ WithCopy(dir, part, content).sealed = dir.sealed
           /\ WithCopy(dir, part, content).have = dir.have \cup {part}
           /\ WithCopy(dir, part, content).snap[part] = content
           /\ \A other \in Part \ {part} :
                 WithCopy(dir, part, content).snap[other] = dir.snap[other]
BY DEF WithCopy, Generation, Content

LEMMA MarkType ==
    ASSUME NEW g, NEW f \in [Gen -> Generation]
    PROVE  /\ [f EXCEPT ![g].sealed = TRUE] \in [Gen -> Generation]
           /\ [f EXCEPT ![g].dir = "final"] \in [Gen -> Generation]
BY DEF Generation

LEMMA ObjectType ==
    ASSUME NEW dir \in Generation, NEW part \in Part, NEW f \in Fact,
           NEW content \in SUBSET Fact
    PROVE  /\ WithObject(dir, part, f, content) \in Generation
           /\ WithObject(dir, part, f, content).dir = dir.dir
           /\ WithObject(dir, part, f, content).sealed = dir.sealed
           /\ WithObject(dir, part, f, content).have = dir.have
           /\ WithObject(dir, part, f, content).snap[part] =
                 (dir.snap[part] \ {f}) \cup (content \cap {f})
           /\ \A other \in Part \ {part} :
                 WithObject(dir, part, f, content).snap[other] = dir.snap[other]
BY DEF WithObject, Generation, Content

LEMMA HaveType ==
    ASSUME NEW dir \in Generation, NEW part \in Part
    PROVE  LET new == [dir EXCEPT !.have = @ \cup {part}]
           IN  /\ new \in Generation
               /\ new.dir = dir.dir /\ new.sealed = dir.sealed /\ new.snap = dir.snap
               /\ new.have = dir.have \cup {part}
BY DEF Generation

LEMMA BucketType == \A step : Bucket(step) \in Part
BY DEF Bucket, Part

LEMMA AbandonedType ==
    ASSUME TypeOK, NEW p \in Proc
    PROVE  Abandoned(p) \in [Gen -> Generation]
BY BlankType DEF Abandoned, TypeOK

LEMMA CopyType ==
    ASSUME TypeOK, NEW p \in Proc, CreateInv(p),
           DumpPostgres(p) \/ MirrorObject(p) \/ MirrorPrivate(p) \/ MirrorPublic(p)
    PROVE  TypeOK'
<1>1. /\ gen[p] \in Gen /\ gens[gen[p]] \in Generation /\ gens \in [Gen -> Generation]
      /\ \A part \in Part : live[p][part] \in SUBSET Fact
  BY DEF TypeOK, Content, CreateInv, DumpPostgres, MirrorObject, MirrorPrivate,
         MirrorPublic, MirrorEnds
<1>2. CASE DumpPostgres(p)
  <2>1. gens' \in [Gen -> Generation]
    BY <1>1, <1>2, WithCopyType DEF DumpPostgres, Part
  <2> QED
    BY <1>2, <2>1 DEF DumpPostgres, TypeOK, Goto, Critical, CreateSteps, stackVars
<1>3. CASE MirrorObject(p)
  <2>1. gens' \in [Gen -> Generation]
    BY <1>1, <1>3, ObjectType, BucketType DEF MirrorObject
  <2> QED
    BY <1>3, <2>1 DEF MirrorObject, TypeOK, stackVars
<1>4. CASE MirrorPrivate(p) \/ MirrorPublic(p)
  <2>1. PICK at, next : MirrorEnds(p, at, next) /\ next \in {"cPublic", "cSeal"}
    <3>1. MirrorEnds(p, "cPrivate", "cPublic") \/ MirrorEnds(p, "cPublic", "cSeal")
      BY <1>4 DEF MirrorPrivate, MirrorPublic
    <3> QED
      BY <3>1
  <2>2. gens' \in [Gen -> Generation]
    BY <1>1, <2>1, HaveType, BucketType DEF MirrorEnds
  <2> QED
    BY <2>1, <2>2 DEF MirrorEnds, TypeOK, Goto, Critical, CreateSteps, stackVars
<1> QED
  BY <1>2, <1>3, <1>4

LEMMA TrappedType ==
    ASSUME TypeOK, NEW p \in Proc, Trapped(p), lock' \in Proc \cup {NoProc},
           UNCHANGED <<latest, legacy, stackVars>>
    PROVE  TypeOK'
BY AbandonedType DEF Trapped, TypeOK, stackVars

LEMMA TypeCreate ==
    ASSUME TypeOK, NEW p \in Proc, CreateInv(p), CreateStep(p)
    PROVE  TypeOK'
<1> USE DEF Goto, Return, Critical, CreateSteps
<1>1. CASE CreateLock(p)
  BY <1>1, BlankType DEF CreateLock, TypeOK, stackVars
<1>2. CASE DumpPostgres(p) \/ MirrorObject(p) \/ MirrorPrivate(p) \/ MirrorPublic(p)
  BY <1>2, CopyType
<1>3. CASE CreateFails(p)
  BY <1>3 DEF CreateFails, TypeOK, rootVars, stackVars
<1>4. CASE Discard(p)
  BY <1>4, BlankType DEF Discard, TypeOK, stackVars
<1>5. CASE Seal(p) \/ MoveGeneration(p)
  <2>1. gens' \in [Gen -> Generation]
    <3>1. gens \in [Gen -> Generation]
      BY DEF TypeOK
    <3>2. CASE Seal(p)
      BY <3>1, <3>2, MarkType DEF Seal
    <3>3. CASE MoveGeneration(p)
      BY <3>1, <3>3, MarkType DEF MoveGeneration
    <3> QED
      BY <1>5, <3>2, <3>3
  <2> QED
    BY <1>5, <2>1 DEF Seal, MoveGeneration, TypeOK, stackVars
<1>6. CASE PointLatest(p)
  BY <1>6 DEF PointLatest, CreateInv, TypeOK, stackVars
<1>7. CASE MoveGenerationFault(p) \/ WritePointerFault(p) \/ MovePointerFault(p)
  <2>1. \/ Trapped(p) /\ UNCHANGED <<latest, lock, legacy, stackVars>>
        \/ /\ Goto(p, "cPoint") \/ Goto(p, "cPrune")
           /\ latest' \in {latest, BadPointer} /\ UNCHANGED <<gens, legacy, stackVars>>
    BY <1>7 DEF MoveGenerationFault, WritePointerFault, MovePointerFault, CommitFault
  <2> QED
    BY <2>1, TrappedType DEF TypeOK, stackVars
<1>8. CASE PruneStart(p)
  <2>1. OutsideWindow \in SUBSET Gen
    BY DEF OutsideWindow, Finals
  <2> QED
    BY <1>8, <2>1 DEF PruneStart, TypeOK, rootVars, stackVars
<1>9. CASE PruneOne(p)
  BY <1>9, BlankType DEF PruneOne, TypeOK, stackVars
<1>10. CASE CreateReturns(p)
  BY <1>10 DEF CreateReturns, TypeOK, rootVars, stackVars
<1>11. CASE MkdirFails(p) \/ ManifestFails(p)
  <2>1. \/ Trapped(p) /\ lock' \in Proc \cup {NoProc}
        \/ Return(p) /\ UNCHANGED gens
    BY <1>11 DEF MkdirFails, ManifestFails, TypeOK
  <2>2. UNCHANGED <<latest, legacy, stackVars>>
    BY <1>11 DEF MkdirFails, ManifestFails
  <2> QED
    BY <2>1, <2>2, TrappedType DEF TypeOK, stackVars
<1> QED
  BY <1>1, <1>2, <1>3, <1>4, <1>5, <1>6, <1>7, <1>8, <1>9, <1>10, <1>11 DEF CreateStep

LEMMA SourceType ==
    ASSUME TypeOK, NEW g
    PROVE  g \in Gen \cup {LegacyDump} => SourceContent(g) \in Content
BY ConstantsAssumption DEF SourceContent, TypeOK, Generation, Content

LEMMA TypeRestore ==
    ASSUME TypeOK, NEW p \in Proc, RestoreInv(p), RestoreStep(p)
    PROVE  TypeOK'
<1> USE DEF Goto, Return, Critical, RestoreSteps
<1>1. CASE RestoreLock(p)
  BY <1>1 DEF RestoreLock, TypeOK, rootVars, stackVars
<1>2. CASE RestoreRead(p)
  BY <1>2 DEF RestoreRead, ChooseSource, TypeOK, rootVars, stackVars
<1>3. CASE RestoreRefuses(p) \/ RestoreFindsNothing(p) \/ RestoreReturns(p)
  BY <1>3 DEF RestoreRefuses, RestoreFindsNothing, RestoreReturns, TypeOK,
              rootVars, stackVars
<1>4. ASSUME NEW part \in Part, NEW some \in SUBSET Fact,
             live' = [live EXCEPT ![p][part] = some]
      PROVE  live' \in [Proc -> Content]
  BY <1>4 DEF TypeOK, Content
<1>5. \A part \in Part : SourceContent(gen[p])[part] \in SUBSET Fact
                           \/ pc[p] \notin RestoreSteps \ {"rRead"}
  BY SourceType DEF RestoreInv, Content
<1>6. CASE ResetDatabase(p) \/ ResetFails(p)
  <2>1. live' = live \/ live' = [live EXCEPT ![p]["pg"] = {}]
    BY <1>6 DEF ResetDatabase, ResetFails
  <2>2. live' \in [Proc -> Content]
    <3>1. live \in [Proc -> Content] /\ "pg" \in Part
      BY DEF TypeOK, Part
    <3> QED
      BY <2>1, <3>1, <1>4
  <2> QED
    BY <1>6, <2>2 DEF ResetDatabase, ResetFails, TypeOK, rootVars
<1>7. CASE LoadPostgres(p) \/ LoadPrivate(p) \/ LoadPublic(p)
  <2>1. PICK part \in Part, at \in RestoreSteps \ {"rRead"}, next \in Critical :
           LoadPart(p, at, part, next)
    BY <1>7 DEF LoadPostgres, LoadPrivate, LoadPublic, Part
  <2>2. live' \in [Proc -> Content]
    BY <2>1, <1>4, <1>5 DEF LoadPart
  <2> QED
    BY <2>1, <2>2 DEF LoadPart, TypeOK, rootVars
<1>8. CASE LoadFails(p, "rPg", "pg") \/ LoadFails(p, "rPrivate", "private")
           \/ LoadFails(p, "rPublic", "public")
  <2>1. PICK part \in Part, at \in RestoreSteps \ {"rRead"} :
           LoadFails(p, at, part)
    BY <1>8 DEF Part
  <2>2. live[p][part] \in SUBSET Fact
    BY DEF TypeOK, Content
  <2>3. live' \in [Proc -> Content]
    BY <2>1, <2>2, <1>4, <1>5 DEF LoadFails
  <2> QED
    BY <2>1, <2>3 DEF LoadFails, TypeOK, rootVars
<1> QED
  BY <1>1, <1>2, <1>3, <1>6, <1>7, <1>8 DEF RestoreStep, RestoreFails

LEMMA TypeCaller ==
    ASSUME TypeOK, NEW p \in Proc,
           LockTimeout(p) \/ Release(p) \/ Crash(p) \/ Interrupt(p) \/ Environment(p)
    PROVE  TypeOK'
<1> USE DEF Return, Call
<1>1. CASE LockTimeout(p) \/ Release(p)
  BY <1>1 DEF LockTimeout, Release, TypeOK, rootVars, stackVars
<1>2. CASE Crash(p) \/ Interrupt(p)
  <2>1. CASE Interrupt(p)
    BY <2>1, TrappedType DEF Interrupt, TypeOK
  <2>2. CASE Crash(p)
    <3>1. gens' \in [Gen -> Generation]
      BY <2>2, BlankType, AbandonedType DEF Crash, TypeOK
    <3> QED
      BY <2>2, <3>1 DEF Crash, TypeOK, stackVars
  <2> QED
    BY <1>2, <2>1, <2>2
<1>3. CASE CallCreate(p) \/ CallRestore(p)
  BY <1>3, ConstantsAssumption DEF CallCreate, CallRestore, TypeOK, rootVars, stackVars
<1>4. CASE StopWriters(p) \/ StartWriters(p)
  BY <1>4 DEF StopWriters, StartWriters, TypeOK, rootVars, shellVars
<1>5. CASE Write(p)
  <2>1. live' \in [Proc -> Content]
    BY <1>5 DEF Write, TypeOK, Content
  <2> QED
    BY <1>5, <2>1 DEF Write, TypeOK, rootVars, shellVars
<1>6. CASE Seed(p) \/ NewAllocation(p)
  <2>1. live' \in [Proc -> Content]
    <3>1. [live EXCEPT ![p]["pg"] = (@ \ Superseded) \cup SeedRows] \in [Proc -> Content]
      BY ConstantsAssumption DEF TypeOK, Content, Part
    <3>2. CASE Seed(p)
      BY <3>1, <3>2 DEF Seed
    <3>3. CASE NewAllocation(p)
      BY <3>3 DEF NewAllocation, Empty, TypeOK, Content
    <3> QED
      BY <1>6, <3>2, <3>3
  <2> QED
    BY <1>6, <2>1 DEF Seed, NewAllocation, TypeOK, rootVars, shellVars
<1> QED
  BY <1>1, <1>2, <1>3, <1>4, <1>5, <1>6 DEF Environment

-----------------------------------------------------------------------------
(* A step of p leaves what belongs to another shell alone, *)
Untouched(q) ==
    /\ pc'[q] = pc[q] /\ gen'[q] = gen[q] /\ quiesced'[q] = quiesced[q]
    /\ victims'[q] = victims[q] /\ looked'[q] = looked[q] /\ live'[q] = live[q]
    /\ writers'[q] = writers[q] /\ marker'[q] = marker[q]

LEMMA Frame ==
    ASSUME TypeOK, NEW p \in Proc, NEW q \in Proc \ {p}, Step(p)
    PROVE  Untouched(q) /\ legacy' = legacy
<1> USE DEF Goto, Return, Call, Untouched, TypeOK, rootVars, shellVars, stackVars
<1>1. CASE CreateStep(p)
  BY <1>1 DEF CreateStep, CreateLock, MkdirFails, DumpPostgres, MirrorObject, MirrorPrivate,
              MirrorPublic, MirrorEnds, CreateFails, Discard, ManifestFails, Trapped, Seal,
              MoveGeneration, PointLatest,
              MoveGenerationFault, WritePointerFault, MovePointerFault, CommitFault,
              PruneStart, PruneOne, CreateReturns
<1>2. CASE RestoreStep(p)
  BY <1>2 DEF RestoreStep, RestoreLock, RestoreRead, ChooseSource, RestoreRefuses,
              RestoreFindsNothing, ResetDatabase, LoadPostgres, LoadPrivate,
              LoadPublic, LoadPart, RestoreFails, ResetFails, LoadFails,
              RestoreReturns
<1>3. CASE LockTimeout(p) \/ Release(p) \/ Crash(p) \/ Interrupt(p)
  BY <1>3 DEF LockTimeout, Release, Crash, Interrupt, Trapped
<1>4. CASE Environment(p)
  BY <1>4 DEF Environment, CallCreate, CallRestore, StopWriters, StartWriters, Write,
              Seed, NewAllocation
<1> QED
  BY <1>1, <1>2, <1>3, <1>4 DEF Step, ShellStep

(* and, outside the critical sections, the checkpoint root and a lock that  *)
(* is not its own as well.                                                  *)
LEMMA RootNeedsLock ==
    ASSUME TypeOK, NEW p \in Proc, Step(p), pc[p] \notin Critical,
           lock # p, lock # NoProc, IdleInv(p)
    PROVE  gens' = gens /\ latest' = latest /\ lock' = lock
<1> USE DEF Critical, CreateSteps, RestoreSteps
<1>1. CASE CreateStep(p)
  BY <1>1 DEF CreateStep, CreateLock, MkdirFails, DumpPostgres, MirrorObject, MirrorPrivate,
              MirrorPublic, MirrorEnds, CreateFails, Discard, ManifestFails, Trapped, Seal,
              MoveGeneration, PointLatest,
              MoveGenerationFault, WritePointerFault, MovePointerFault, CommitFault,
              PruneStart, PruneOne, CreateReturns
<1>2. CASE RestoreStep(p)
  BY <1>2 DEF RestoreStep, RestoreLock, RestoreRead, RestoreRefuses,
              RestoreFindsNothing, ResetDatabase, LoadPostgres, LoadPrivate,
              LoadPublic, LoadPart, RestoreFails, ResetFails, LoadFails,
              RestoreReturns
<1>3. CASE LockTimeout(p) \/ Release(p) \/ Environment(p)
  BY <1>3 DEF LockTimeout, Release, Environment, CallCreate, CallRestore, StopWriters,
              StartWriters, Write, Seed, NewAllocation, Return, Call, rootVars,
              shellVars
<1>4. CASE Crash(p) \/ Interrupt(p)
  BY <1>4, ConstantsAssumption DEF Crash, Interrupt, Trapped, Abandoned, IdleInv, Return
<1> QED
  BY <1>1, <1>2, <1>3, <1>4 DEF Step, ShellStep

LEMMA OthersKeep ==
    ASSUME TypeOK, NEW p \in Proc, NEW q \in Proc \ {p}, Step(p),
           LockInv(p), IdleInv(p), ShellInv(q)
    PROVE  ShellInv(q)'
<1>1. Untouched(q) /\ legacy' = legacy
  BY Frame
<1>2. CASE pc[q] \in Critical
  <2>1. lock = q /\ lock # p /\ lock # NoProc
    BY <1>2, ConstantsAssumption DEF ShellInv, LockInv
  <2>2. pc[p] \notin Critical
    BY <2>1 DEF LockInv
  <2>3. gens' = gens /\ latest' = latest /\ lock' = lock
    BY <2>1, <2>2, RootNeedsLock
  <2> QED
    BY <1>1, <2>3 DEF Untouched, ShellInv, LockInv, IdleInv, CreateInv, PruneInv, WriterInv,
                      RestoreInv, Supplied, SourceContent, LookedAt
<1>3. CASE pc[q] \notin Critical
  BY <1>1, <1>3 DEF Untouched, ShellInv, LockInv, IdleInv, CreateInv, PruneInv, WriterInv,
                    RestoreInv, Critical, CreateSteps, RestoreSteps
<1> QED
  BY <1>2, <1>3

-----------------------------------------------------------------------------
(* A shell through its own steps. *)
LEMMA ReturnKeeps ==
    ASSUME TypeOK, NEW p \in Proc, ShellInv(p), Return(p),
           writers' = writers, marker' = marker
    PROVE  ShellInv(p)'
BY DEF Return, TypeOK, ShellInv, LockInv, IdleInv, CreateInv, PruneInv, WriterInv,
       RestoreInv, Critical, CreateSteps, RestoreSteps

LEMMA TrappedKeeps ==
    ASSUME TypeOK, NEW p \in Proc, ShellInv(p), Trapped(p),
           pc[p] \in {"cLock"} \cup CreateSteps, writers' = writers, marker' = marker
    PROVE  ShellInv(p)'
BY DEF Trapped, TypeOK, ShellInv, LockInv, IdleInv, CreateInv, PruneInv, WriterInv,
       RestoreInv, Critical, CreateSteps, RestoreSteps

(* How far a shell has been through the stores, at each step. *)
LEMMA LookedSteps ==
    ASSUME NEW p \in Proc
    PROVE  /\ pc[p] = "cDump" => \A part \in Part : LookedAt(p, part) = {}
           /\ pc[p] = "cPrivate" => /\ LookedAt(p, "pg") = Fact
                                    /\ LookedAt(p, "private") = looked[p]
                                    /\ LookedAt(p, "public") = {}
           /\ pc[p] = "cPublic" => /\ LookedAt(p, "pg") = Fact
                                   /\ LookedAt(p, "private") = Fact
                                   /\ LookedAt(p, "public") = looked[p]
           /\ pc[p] \in {"cSeal", "cMove", "cPoint"} =>
                 \A part \in Part : LookedAt(p, part) = Fact
           /\ pc[p] \notin Copying => \A part \in Part : LookedAt(p, part) = {}
BY DEF LookedAt, Bucket, Copying, Part

LEMMA LookedType ==
    ASSUME TypeOK, NEW p \in Proc, NEW part \in Part
    PROVE  LookedAt(p, part) \subseteq Fact
BY DEF LookedAt, TypeOK

LEMMA DumpKeeps ==
    ASSUME TypeOK, NEW p \in Proc, ShellInv(p), DumpPostgres(p)
    PROVE  /\ ShellInv(p)' /\ live' = live
           /\ gen'[p] = gen[p] /\ gen[p] \in Gen /\ gens[gen[p]] \in Generation
           /\ gens'[gen[p]].snap["pg"] = live[p]["pg"]
           /\ \A part \in Part \ {"pg"} : gens'[gen[p]].snap[part] = gens[gen[p]].snap[part]
<1> DEFINE g == gen[p]
<1>1. /\ pc[p] = "cDump" /\ g \in Gen /\ gens[g] \in Generation /\ gens[g].dir = "tmp"
      /\ live[p]["pg"] \in SUBSET Fact /\ lock = p /\ "pg" \in Part
  BY DEF DumpPostgres, ShellInv, CreateInv, LockInv, TypeOK, Content, Critical, CreateSteps,
         Part
<1>2. gens'[g] = WithCopy(gens[g], "pg", live[p]["pg"])
  BY <1>1 DEF DumpPostgres, TypeOK
<1>3. /\ pc'[p] = "cPrivate" /\ gen'[p] = g /\ lock' = lock /\ live' = live
      /\ quiesced' = quiesced /\ victims' = victims /\ latest' = latest
      /\ writers' = writers /\ marker' = marker /\ looked'[p] = {}
  BY DEF DumpPostgres, Goto, TypeOK, stackVars
<1>4. /\ gens'[g].dir = "tmp" /\ gens'[g].have = gens[g].have \cup {"pg"}
      /\ gens'[g].snap["pg"] = live[p]["pg"]
      /\ \A other \in Part \ {"pg"} : gens'[g].snap[other] = gens[g].snap[other]
  BY <1>1, <1>2, WithCopyType
<1>5. \A part \in Part : \A f \in LookedAt(p, part)' :
         f \in gens'[g].snap[part] <=> f \in live[p][part]
  <2>1. LookedAt(p, "private")' = {} /\ LookedAt(p, "public")' = {}
    BY <1>3 DEF LookedAt, Bucket, Copying
  <2> QED
    BY <1>4, <2>1 DEF Part
<1>6. CreateInv(p)'
  BY <1>1, <1>3, <1>4, <1>5 DEF CreateInv, CopiedAt
<1>7. LockInv(p)' /\ IdleInv(p)' /\ PruneInv(p)' /\ WriterInv(p)' /\ RestoreInv(p)'
  BY <1>1, <1>3 DEF ShellInv, LockInv, IdleInv, PruneInv, WriterInv, RestoreInv,
                    Critical, CreateSteps, RestoreSteps
<1> QED
  BY <1>1, <1>3, <1>4, <1>6, <1>7 DEF ShellInv

LEMMA ObjectKeeps ==
    ASSUME TypeOK, NEW p \in Proc, ShellInv(p), MirrorObject(p)
    PROVE  /\ ShellInv(p)' /\ live' = live /\ gen'[p] = gen[p] /\ gen[p] \in Gen
           /\ pc' = pc /\ pc[p] \in {"cPrivate", "cPublic"}
           /\ \E part \in Part, f \in Fact :
                 /\ LookedAt(p, part)' = LookedAt(p, part) \cup {f}
                 /\ gens'[gen[p]].snap[part] =
                       (gens[gen[p]].snap[part] \ {f}) \cup (live[p][part] \cap {f})
                 /\ \A other \in Part \ {part} :
                       /\ LookedAt(p, other)' = LookedAt(p, other)
                       /\ gens'[gen[p]].snap[other] = gens[gen[p]].snap[other]
<1> DEFINE g == gen[p]
<1>0. PICK part \in Part : part = Bucket(pc[p])
  BY BucketType
<1>1. /\ pc[p] \in {"cPrivate", "cPublic"} /\ g \in Gen /\ gens[g] \in Generation
      /\ gens[g].dir = "tmp" /\ lock = p /\ live[p][part] \in SUBSET Fact
  BY DEF MirrorObject, ShellInv, CreateInv, LockInv, TypeOK, Content, Critical,
                    CreateSteps
<1>2. PICK f \in Fact \ looked[p] :
         /\ gens'[g] = WithObject(gens[g], part, f, live[p][part])
         /\ looked' = [looked EXCEPT ![p] = @ \cup {f}]
  BY <1>0, <1>1 DEF MirrorObject, TypeOK
<1>3. /\ pc' = pc /\ gen' = gen /\ lock' = lock /\ live' = live
      /\ quiesced' = quiesced /\ victims' = victims /\ latest' = latest
      /\ writers' = writers /\ marker' = marker /\ looked'[p] = looked[p] \cup {f}
  BY <1>2 DEF MirrorObject, TypeOK, stackVars
<1>4. /\ gens'[g].dir = "tmp" /\ gens'[g].have = gens[g].have
      /\ gens'[g].snap[part] = (gens[g].snap[part] \ {f}) \cup (live[p][part] \cap {f})
      /\ \A other \in Part \ {part} : gens'[g].snap[other] = gens[g].snap[other]
  BY <1>1, <1>2, ObjectType
<1>5. /\ LookedAt(p, part)' = LookedAt(p, part) \cup {f}
      /\ \A other \in Part \ {part} : LookedAt(p, other)' = LookedAt(p, other)
  BY <1>0, <1>1, <1>3 DEF LookedAt, Bucket, Copying, Part
<1>6. CreateInv(p)'
  <2>1. ASSUME quiesced[p], NEW other \in Part, NEW h \in LookedAt(p, other)'
        PROVE  h \in gens'[g].snap[other] <=> h \in live[p][other]
    <3>1. \A k \in LookedAt(p, other) : k \in gens[g].snap[other] <=> k \in live[p][other]
      BY <1>1, <2>1 DEF ShellInv, CreateInv
    <3>2. CASE other = part /\ h = f
      BY <1>4, <3>2
    <3>4. CASE other = part /\ h # f
      <4>1. h \in LookedAt(p, part)
        BY <1>5, <2>1, <3>4
      <4> QED
        BY <1>4, <3>1, <3>4, <4>1
    <3>3. CASE other # part
      BY <1>4, <1>5, <2>1, <3>1, <3>3
    <3> QED
      BY <3>2, <3>3, <3>4
  <2>2. CopiedAt(pc[p]) \subseteq gens[g].have
    BY <1>1 DEF ShellInv, CreateInv
  <2> QED
    BY <1>1, <1>3, <1>4, <2>1, <2>2 DEF CreateInv
<1>7. LockInv(p)' /\ IdleInv(p)' /\ PruneInv(p)' /\ WriterInv(p)' /\ RestoreInv(p)'
  BY <1>1, <1>3 DEF ShellInv, LockInv, IdleInv, PruneInv, WriterInv, RestoreInv,
                    Critical, CreateSteps, RestoreSteps
<1> QED
  BY <1>1, <1>3, <1>4, <1>5, <1>6, <1>7 DEF ShellInv

LEMMA EndsKeeps ==
    ASSUME TypeOK, NEW p \in Proc, ShellInv(p), MirrorPrivate(p) \/ MirrorPublic(p)
    PROVE  /\ ShellInv(p)' /\ live' = live /\ gen'[p] = gen[p] /\ gen[p] \in Gen
           /\ pc[p] \in Copying \ {"cPoint"} /\ pc'[p] \in Copying \ {"cDump"}
           /\ gens'[gen[p]].snap = gens[gen[p]].snap
           /\ \A part \in Part : LookedAt(p, part)' = LookedAt(p, part)
<1> DEFINE g == gen[p]
<1>1. PICK at, next :
         /\ MirrorEnds(p, at, next)
         /\ \/ at = "cPrivate" /\ next = "cPublic"
            \/ at = "cPublic" /\ next = "cSeal"
  <2>1. MirrorEnds(p, "cPrivate", "cPublic") \/ MirrorEnds(p, "cPublic", "cSeal")
    BY DEF MirrorPrivate, MirrorPublic
  <2> QED
    BY <2>1
<1>2. /\ pc[p] = at /\ g \in Gen /\ gens[g] \in Generation /\ gens[g].dir = "tmp"
      /\ lock = p /\ looked[p] = Fact /\ CopiedAt(at) \subseteq gens[g].have
  BY <1>1 DEF MirrorEnds, ShellInv, CreateInv, LockInv, TypeOK, Critical, CreateSteps
<1>3. /\ pc'[p] = next /\ gen'[p] = g /\ lock' = lock /\ live' = live
      /\ quiesced' = quiesced /\ victims' = victims /\ latest' = latest
      /\ writers' = writers /\ marker' = marker /\ looked'[p] = {}
  BY <1>1 DEF MirrorEnds, Goto, TypeOK, stackVars
<1>4. /\ gens'[g].dir = "tmp" /\ gens'[g].snap = gens[g].snap
      /\ gens'[g].have = gens[g].have \cup {Bucket(at)}
  BY <1>1, <1>2, HaveType, BucketType DEF MirrorEnds, TypeOK
<1>5. \A part \in Part : LookedAt(p, part)' = LookedAt(p, part)
  BY <1>1, <1>2, <1>3 DEF LookedAt, Bucket, Copying, Part
<1>6. CopiedAt(next) \subseteq gens'[g].have
  BY <1>1, <1>2, <1>4 DEF CopiedAt, Bucket, Part
<1>7. CreateInv(p)'
  BY <1>1, <1>2, <1>3, <1>4, <1>5, <1>6 DEF ShellInv, CreateInv
<1>8. LockInv(p)' /\ IdleInv(p)' /\ PruneInv(p)' /\ WriterInv(p)' /\ RestoreInv(p)'
  BY <1>1, <1>2, <1>3 DEF ShellInv, LockInv, IdleInv, PruneInv, WriterInv, RestoreInv,
                    Critical, CreateSteps, RestoreSteps
<1> QED
  BY <1>1, <1>2, <1>3, <1>4, <1>5, <1>7, <1>8 DEF ShellInv, Copying

LEMMA CreateKeeps ==
    ASSUME TypeOK, NEW p \in Proc, ShellInv(p), CreateStep(p)
    PROVE  ShellInv(p)'
<1> USE DEF Critical, CreateSteps, RestoreSteps
<1>1. CASE CreateLock(p)
  <2>1. \A part \in Part : LookedAt(p, part)' = {}
    BY <1>1 DEF CreateLock, TypeOK, LookedAt, Copying
  <2> QED
    BY <1>1, <2>1 DEF CreateLock, TypeOK, stackVars, ShellInv, LockInv, IdleInv, CreateInv,
                      PruneInv, WriterInv, RestoreInv, CopiedAt, Blank
<1>2. CASE DumpPostgres(p) \/ MirrorObject(p) \/ MirrorPrivate(p) \/ MirrorPublic(p)
  BY <1>2, DumpKeeps, ObjectKeeps, EndsKeeps
<1>3. CASE CreateFails(p)
  BY <1>3 DEF CreateFails, Goto, TypeOK, rootVars, stackVars, ShellInv, LockInv,
              IdleInv, CreateInv, PruneInv, WriterInv, RestoreInv, CopiedAt, LookedAt, Copying
<1>4. CASE Discard(p) \/ CreateReturns(p) \/ MkdirFails(p) \/ ManifestFails(p)
  BY <1>4, ReturnKeeps, TrappedKeeps DEF Discard, CreateReturns, MkdirFails, ManifestFails,
                                         rootVars, stackVars
<1>5. CASE Seal(p)
  <2>1. /\ gen[p] \in Gen /\ gens[gen[p]] \in Generation
        /\ gens'[gen[p]] = [gens[gen[p]] EXCEPT !.sealed = TRUE]
    BY <1>5 DEF Seal, ShellInv, CreateInv, TypeOK
  <2>2. /\ gens'[gen[p]].sealed /\ gens'[gen[p]].dir = gens[gen[p]].dir
        /\ gens'[gen[p]].have = gens[gen[p]].have
        /\ gens'[gen[p]].snap = gens[gen[p]].snap
    BY <2>1 DEF Generation
  <2>3. \A part \in Part : LookedAt(p, part)' = LookedAt(p, part)
    BY <1>5 DEF Seal, Goto, TypeOK, LookedAt, Copying, Part
  <2> QED
    BY <1>5, <2>1, <2>2, <2>3 DEF Seal, Goto, TypeOK, stackVars, ShellInv, LockInv,
                  IdleInv, CreateInv, PruneInv, WriterInv, RestoreInv, CopiedAt
<1>6. CASE MoveGeneration(p)
  <2>1. /\ gen[p] \in Gen /\ gens[gen[p]] \in Generation
        /\ gens'[gen[p]] = [gens[gen[p]] EXCEPT !.dir = "final"]
    BY <1>6 DEF MoveGeneration, ShellInv, CreateInv, TypeOK
  <2>2. /\ gens'[gen[p]].dir = "final" /\ gens'[gen[p]].sealed = gens[gen[p]].sealed
        /\ gens'[gen[p]].have = gens[gen[p]].have
        /\ gens'[gen[p]].snap = gens[gen[p]].snap
    BY <2>1 DEF Generation
  <2>3. \A part \in Part : LookedAt(p, part)' = LookedAt(p, part)
    BY <1>6 DEF MoveGeneration, Goto, TypeOK, LookedAt, Copying, Part
  <2> QED
    BY <1>6, <2>1, <2>2, <2>3 DEF MoveGeneration, Goto, TypeOK, stackVars, ShellInv,
                  LockInv, IdleInv, CreateInv, PruneInv, WriterInv, RestoreInv, CopiedAt
<1>7. CASE PointLatest(p)
  BY <1>7 DEF PointLatest, Goto, TypeOK, stackVars, ShellInv, LockInv, IdleInv,
              CreateInv, PruneInv, WriterInv, RestoreInv
<1>8. CASE MoveGenerationFault(p) \/ WritePointerFault(p) \/ MovePointerFault(p)
  <2>1. /\ \/ Trapped(p)
           \/ Goto(p, "cPoint") /\ pc[p] = "cMove" /\ latest' = latest /\ gens' = gens
           \/ Goto(p, "cPrune") /\ pc[p] = "cPoint" /\ gens' = gens
        /\ legacy' = legacy /\ live' = live /\ pc[p] \in {"cMove", "cPoint"}
        /\ writers' = writers /\ marker' = marker /\ CommitFaults # {}
    BY <1>8 DEF MoveGenerationFault, WritePointerFault, MovePointerFault, CommitFault,
                stackVars
  <2>2. CASE Trapped(p)
    BY <2>1, <2>2, TrappedKeeps
  <2>3. CASE ~Trapped(p)
    BY <2>1, <2>3 DEF Goto, TypeOK, ShellInv, LockInv, IdleInv, CreateInv, PruneInv,
                      WriterInv, RestoreInv, CopiedAt, LookedAt, Copying
  <2> QED
    BY <2>2, <2>3
<1>9. CASE PruneStart(p)
  <2>1. CASE Return(p)
    BY <1>9, <2>1, ReturnKeeps DEF PruneStart, stackVars
  <2>2. CASE ~Return(p)
    BY <1>9, <2>2 DEF PruneStart, OutsideWindow, TypeOK, rootVars, stackVars,
                      ShellInv, LockInv, IdleInv, CreateInv, PruneInv, WriterInv, RestoreInv
  <2> QED
    BY <2>1, <2>2
<1>10. CASE PruneOne(p)
  BY <1>10 DEF PruneOne, TypeOK, stackVars, ShellInv, LockInv, IdleInv, CreateInv,
               PruneInv, WriterInv, RestoreInv
<1> QED
  BY <1>1, <1>2, <1>3, <1>4, <1>5, <1>6, <1>7, <1>8, <1>9, <1>10 DEF CreateStep

LEMMA LoadKeeps ==
    ASSUME TypeOK, NEW p \in Proc, ShellInv(p), NEW part \in Part,
           NEW at \in {"rPg", "rPrivate", "rPublic"},
           NEW next \in {"rPrivate", "rPublic", "rMark"},
           LoadedAt(next) \cap Supplied(gen[p])
              \subseteq (LoadedAt(at) \cap Supplied(gen[p])) \cup {part},
           LoadPart(p, at, part, next)
    PROVE  ShellInv(p)'
<1>1. /\ pc'[p] = next /\ gen' = gen /\ lock' = lock /\ quiesced' = quiesced
      /\ victims' = victims /\ gens' = gens /\ latest' = latest /\ legacy' = legacy
      /\ writers' = writers /\ marker' = marker /\ pc[p] = at /\ looked'[p] = {}
  BY DEF LoadPart, Goto, TypeOK, rootVars
<1>2. /\ live'[p][part] = SourceContent(gen[p])[part]
      /\ \A other \in Part \ {part} : live'[p][other] = live[p][other]
  BY DEF LoadPart, TypeOK, Content
<1>3. SourceContent(gen[p])' = SourceContent(gen[p]) /\ Supplied(gen[p])' = Supplied(gen[p])
  BY <1>1 DEF SourceContent, Supplied
<1>4. Supplied(gen[p]) \subseteq Part
  BY DEF Supplied, Part
<1>5. RestoreInv(p)'
  <2>1. \A other \in LoadedAt(next) \cap Supplied(gen[p]) :
           live'[p][other] = SourceContent(gen[p])[other]
    BY <1>1, <1>2, <1>4 DEF ShellInv, RestoreInv, RestoreSteps
  <2> QED
    BY <1>1, <1>3, <2>1 DEF ShellInv, RestoreInv, RestoreSteps
<1>6. LockInv(p)' /\ IdleInv(p)' /\ CreateInv(p)' /\ PruneInv(p)' /\ WriterInv(p)'
  BY <1>1 DEF ShellInv, LockInv, IdleInv, CreateInv, PruneInv, WriterInv, Critical,
              CreateSteps, RestoreSteps
<1> QED
  BY <1>5, <1>6 DEF ShellInv

LEMMA RestoreKeeps ==
    ASSUME TypeOK, NEW p \in Proc, ShellInv(p), RestoreStep(p)
    PROVE  ShellInv(p)'
<1> USE DEF Critical, CreateSteps, RestoreSteps
<1>1. CASE RestoreLock(p)
  BY <1>1 DEF RestoreLock, TypeOK, rootVars, stackVars, ShellInv, LockInv, IdleInv,
              CreateInv, PruneInv, WriterInv, RestoreInv
<1>2. CASE RestoreRead(p)
  BY <1>2 DEF RestoreRead, ChooseSource, TypeOK, rootVars, stackVars, ShellInv,
              LockInv, IdleInv, CreateInv, PruneInv, WriterInv, RestoreInv, LoadedAt
<1>3. CASE RestoreRefuses(p) \/ RestoreFindsNothing(p) \/ RestoreReturns(p) \/ RestoreFails(p)
  BY <1>3, ReturnKeeps DEF RestoreRefuses, RestoreFindsNothing, RestoreReturns,
                           RestoreFails, ResetFails, LoadFails, stackVars
<1>4. CASE ResetDatabase(p)
  BY <1>4 DEF ResetDatabase, Goto, TypeOK, rootVars, ShellInv, LockInv, IdleInv,
              CreateInv, PruneInv, WriterInv, RestoreInv, LoadedAt
<1>5. CASE LoadPostgres(p) \/ LoadPrivate(p) \/ LoadPublic(p)
  <2>1. /\ LoadedAt("rPg") = {} /\ LoadedAt("rPrivate") = {"pg"}
        /\ LoadedAt("rPublic") = {"pg", "private"}
        /\ LoadedAt("rMark") = {"pg", "private", "public"}
    BY DEF LoadedAt, Part
  <2>2. CASE LoadPostgres(p)
    <3>1. "private" \in Supplied(gen[p]) \/ Supplied(gen[p]) = {"pg"}
      BY DEF Supplied, Part
    <3> QED
      BY <2>1, <2>2, <3>1, LoadKeeps DEF LoadPostgres, Part
  <2>3. CASE LoadPrivate(p)
    <3>1. "public" \in Supplied(gen[p]) \/ Supplied(gen[p]) \subseteq {"pg", "private"}
      BY DEF Supplied, Part
    <3> QED
      BY <2>1, <2>3, <3>1, LoadKeeps DEF LoadPrivate, Part
  <2>4. CASE LoadPublic(p)
    BY <2>1, <2>4, LoadKeeps DEF LoadPublic, Part
  <2> QED
    BY <1>5, <2>2, <2>3, <2>4
<1> QED
  BY <1>1, <1>2, <1>3, <1>4, <1>5 DEF RestoreStep

LEMMA CallerKeeps ==
    ASSUME TypeOK, NEW p \in Proc, ShellInv(p),
           LockTimeout(p) \/ Release(p) \/ Crash(p) \/ Interrupt(p) \/ Environment(p)
    PROVE  ShellInv(p)'
<1> USE DEF Critical, CreateSteps, RestoreSteps
<1>1. CASE LockTimeout(p) \/ Release(p) \/ Crash(p)
  BY <1>1, ReturnKeeps DEF LockTimeout, Release, Crash, rootVars, stackVars
<1>2. CASE CallCreate(p) \/ (~writers[p] /\ CallRestore(p))
  BY <1>2 DEF CallCreate, CallRestore, Call, TypeOK, rootVars, stackVars, ShellInv,
              LockInv, IdleInv, CreateInv, PruneInv, WriterInv, RestoreInv
<1>3. CASE StopWriters(p) \/ StartWriters(p)
  <2>1. /\ pc[p] \in {"idle", "trapped"}
        /\ UNCHANGED <<rootVars, lock, shellVars, live>>
    BY <1>3 DEF StopWriters, StartWriters
  <2>2. marker'[p] => ~writers'[p]
    BY <1>3 DEF StopWriters, StartWriters, TypeOK
  <2> QED
    BY <2>1, <2>2 DEF rootVars, shellVars, ShellInv, LockInv, IdleInv, CreateInv,
                      PruneInv, WriterInv, RestoreInv
<1>4. CASE Write(p)
  <2>1. writers[p] /\ ~quiesced[p] /\ pc[p] \notin RestoreSteps
    BY <1>4 DEF Write, ShellInv, WriterInv
  <2>2. UNCHANGED <<rootVars, lock, shellVars, writers, marker>>
    BY <1>4 DEF Write
  <2> QED
    BY <2>1, <2>2 DEF rootVars, shellVars, ShellInv, LockInv, IdleInv, CreateInv, PruneInv,
                      WriterInv, RestoreInv
<1>5. CASE Interrupt(p)
  BY <1>5, TrappedKeeps DEF Interrupt, stackVars
<1>6. CASE Seed(p) \/ NewAllocation(p)
  <2>1. /\ pc[p] = "idle" /\ UNCHANGED <<rootVars, lock, shellVars>>
        /\ marker'[p] => ~writers'[p]
    BY <1>6 DEF Seed, NewAllocation, TypeOK, ShellInv, WriterInv
  <2> QED
    BY <2>1 DEF rootVars, shellVars, ShellInv, LockInv, IdleInv, CreateInv, PruneInv,
                WriterInv, RestoreInv
<1> QED
  BY <1>1, <1>2, <1>3, <1>4, <1>5, <1>6 DEF Environment

-----------------------------------------------------------------------------
(* With the commit's commands working, only PointLatest changes what        *)
(* `latest` says or what it stands for.                                     *)
LEMMA LatestKept ==
    ASSUME TypeOK, LatestComplete, CommitFaults = {}, NEW p \in Proc, ShellInv(p),
           Step(p), ~PointLatest(p)
    PROVE  latest' = latest /\ (latest \in Gen => gens'[latest] = gens[latest])
<1> USE DEF LatestComplete, Whole, Valid, TypeOK
<1>1. CASE CreateStep(p)
  <2>1. CASE CreateLock(p)
    BY <2>1 DEF CreateLock
  <2>2. CASE DumpPostgres(p) \/ MirrorObject(p) \/ MirrorPrivate(p) \/ MirrorPublic(p)
             \/ Discard(p) \/ Seal(p) \/ MoveGeneration(p)
    <3>1. gen[p] \in Gen /\ gens[gen[p]].dir = "tmp"
      BY <2>2 DEF DumpPostgres, MirrorObject, MirrorPrivate, MirrorPublic, MirrorEnds,
                  Discard, Seal, MoveGeneration, ShellInv, CreateInv
    <3>2. latest # gen[p] \/ latest \notin Gen
      BY <3>1
    <3> QED
      BY <2>2, <3>1, <3>2 DEF DumpPostgres, MirrorObject, MirrorPrivate, MirrorPublic,
                  MirrorEnds, Discard, Seal, MoveGeneration
  <2>3. CASE CreateFails(p) \/ MkdirFails(p) \/ ManifestFails(p) \/ PruneStart(p)
             \/ CreateReturns(p)
    BY <2>3 DEF CreateFails, MkdirFails, ManifestFails, Trapped, Abandoned, PruneStart,
                CreateReturns, rootVars
  <2>4. CASE PruneOne(p)
    BY <2>4 DEF PruneOne, ShellInv, PruneInv
  <2>5. ~(MoveGenerationFault(p) \/ WritePointerFault(p) \/ MovePointerFault(p))
    BY DEF MoveGenerationFault, WritePointerFault, MovePointerFault, CommitFault
  <2> QED
    BY <1>1, <2>1, <2>2, <2>3, <2>4, <2>5 DEF CreateStep
<1>2. CASE RestoreStep(p)
  BY <1>2 DEF RestoreStep, RestoreLock, RestoreRead, RestoreRefuses,
              RestoreFindsNothing, ResetDatabase, LoadPostgres, LoadPrivate,
              LoadPublic, LoadPart, RestoreFails, ResetFails, LoadFails,
              RestoreReturns, rootVars
<1>3. CASE LockTimeout(p) \/ Release(p) \/ Environment(p)
  BY <1>3 DEF LockTimeout, Release, Environment, CallCreate, CallRestore, StopWriters,
              StartWriters, Write, Seed, NewAllocation, Call, rootVars
<1>4. CASE Crash(p) \/ Interrupt(p)
  <2>1. latest \notin victims[p]
    BY DEF ShellInv, PruneInv
  <2>2. latest \in Gen => gens[latest].dir = "final"
    OBVIOUS
  <2> QED
    BY <1>4, <2>1, <2>2 DEF Crash, Interrupt, Trapped, Abandoned
<1> QED
  BY <1>1, <1>2, <1>3, <1>4 DEF Step, ShellStep

LEMMA LatestStep ==
    ASSUME TypeOK, LatestComplete, CommitFaults = {}, NEW p \in Proc, ShellInv(p),
           Step(p)
    PROVE  LatestComplete'
<1>1. CASE PointLatest(p)
  <2>1. /\ gen[p] \in Gen /\ latest' = gen[p] /\ gens' = gens
        /\ gens[gen[p]].dir = "final" /\ gens[gen[p]].sealed
        /\ Part \subseteq gens[gen[p]].have /\ gens[gen[p]] \in Generation
    BY <1>1 DEF PointLatest, ShellInv, CreateInv, CopiedAt, TypeOK
  <2> QED
    BY <2>1, ConstantsAssumption DEF LatestComplete, Whole, Valid, Generation, Part
<1>2. CASE ~PointLatest(p)
  BY <1>2, LatestKept DEF LatestComplete, Whole, Valid
<1> QED
  BY <1>1, <1>2

LEMMA InvInit == Init => IInv
<1> SUFFICES ASSUME Init PROVE IInv
  OBVIOUS
<1>1. TypeOK
  BY TypeInit
<1>2. LatestComplete
  BY ConstantsAssumption DEF Init, InitShells, LatestComplete
<1>3. ASSUME NEW p \in Proc PROVE ShellInv(p)
  BY <1>3 DEF Init, InitShells, ShellInv, LockInv, IdleInv, CreateInv, PruneInv,
         WriterInv, RestoreInv, Critical, CreateSteps, RestoreSteps
<1> QED
  BY <1>1, <1>2, <1>3 DEF IInv

LEMMA InvStep == IInv /\ [Next]_vars => IInv'
<1> SUFFICES ASSUME IInv, [Next]_vars PROVE IInv'
  OBVIOUS
<1>1. CASE UNCHANGED vars
  BY <1>1 DEF IInv, TypeOK, LatestComplete, Whole, Valid, ShellInv, LockInv, IdleInv,
         CreateInv, PruneInv, WriterInv, RestoreInv, Supplied, SourceContent, LookedAt,
         vars, rootVars, shellVars, stackVars
<1>2. ASSUME NEW p \in Proc, Step(p) PROVE IInv'
  <2>1. TypeOK /\ ShellInv(p)
    BY DEF IInv
  <2>2. TypeOK'
    BY <1>2, <2>1, TypeCreate, TypeRestore, TypeCaller DEF Step, ShellStep, ShellInv
  <2>3. ShellInv(p)'
    BY <1>2, <2>1, CreateKeeps, RestoreKeeps, CallerKeeps DEF Step, ShellStep
  <2>4. ASSUME NEW q \in Proc \ {p} PROVE ShellInv(q)'
    <3>1. ShellInv(q) /\ LockInv(p) /\ IdleInv(p)
      BY <2>1 DEF IInv, ShellInv
    <3> QED
      BY <1>2, <2>1, <3>1, OthersKeep
  <2>5. CommitFaults = {} => LatestComplete'
    BY <1>2, <2>1, LatestStep DEF IInv
  <2> QED
    BY <2>2, <2>3, <2>4, <2>5 DEF IInv
<1> QED
  BY <1>1, <1>2 DEF Next, Step

(* The inductive invariant holds in every reachable state, whichever of the *)
(* commit's commands may fail.                                              *)
THEOREM Inductive == Spec => []IInv
BY InvInit, InvStep, PTL DEF Spec

(* Every variable keeps its type (state of checkpoint.sh and its callers). *)
THEOREM TypeCorrect == Spec => []TypeOK
<1>1. IInv => TypeOK
  BY DEF IInv
<1> QED
  BY <1>1, Inductive, PTL

(* As long as the two renames and the printf of the commit work, `latest`   *)
(* only ever names a complete generation: no interleaving of creations,     *)
(* prunings, restores and crashes in any number of allocations breaks it    *)
(* (checkpoint.sh:171-187, 75-95).                                          *)
THEOREM LatestAlwaysComplete ==
    ASSUME CommitFaults = {}
    PROVE  Spec => []LatestComplete
<1>1. IInv => LatestComplete
  BY DEF IInv
<1> QED
  BY <1>1, Inductive, PTL

(* A restore that is about to report success has reproduced its source part *)
(* by part (checkpoint.sh:201-296).                                         *)
THEOREM RestoreAlwaysExact == Spec => []RestoreExact
<1>1. IInv => RestoreExact
  <2>1. ASSUME NEW p \in Proc, pc[p] = "rMark", NEW part \in Supplied(gen[p]), IInv
        PROVE  live[p][part] = SourceContent(gen[p])[part]
    <3>1. RestoreInv(p) /\ part \in Part /\ LoadedAt("rMark") = Part
      BY <2>1 DEF IInv, ShellInv, Supplied, Part, LoadedAt
    <3> QED
      BY <2>1, <3>1 DEF RestoreInv, RestoreSteps
  <2> QED
    BY <2>1 DEF RestoreExact
<1> QED
  BY <1>1, Inductive, PTL

(* A generation that is committed as quiesced shows one moment of all three *)
(* stores (checkpoint.sh:117-144).                                          *)
THEOREM QuiescedAlwaysCut == Spec => []QuiescedIsCut
<1>1. IInv => QuiescedIsCut
  <2>1. ASSUME NEW p \in Proc, pc[p] \in {"cMove", "cPoint"}, quiesced[p], IInv
        PROVE  gens[gen[p]].snap = live[p]
    <3>1. /\ gen[p] \in Gen /\ gens[gen[p]].snap \in Content /\ live[p] \in Content
          /\ \A part \in Part : gens[gen[p]].snap[part] = live[p][part]
      <4>1. \A part \in Part : LookedAt(p, part) = Fact
        BY <2>1, LookedSteps
      <4>2. /\ gen[p] \in Gen /\ gens[gen[p]].snap \in Content /\ live[p] \in Content
            /\ \A part \in Part : \A f \in Fact :
                  f \in gens[gen[p]].snap[part] <=> f \in live[p][part]
        BY <2>1, <4>1 DEF IInv, ShellInv, CreateInv, TypeOK, Generation
      <4> QED
        BY <4>2 DEF Content
    <3> QED
      BY <3>1 DEF Content
  <2> QED
    BY <2>1 DEF QuiescedIsCut
<1> QED
  BY <1>1, Inductive, PTL

(* What the register knows of a shell, step by step.  Another shell leaves  *)
(* it alone, *)
LEMMA OthersLook ==
    ASSUME IInv, NEW p \in Proc, NEW q \in Proc \ {p}, Step(p)
    PROVE  read'[q] = read[q] /\ seen'[q] = seen[q]
<1>1. TypeOK /\ LockInv(p) /\ IdleInv(p) /\ LockInv(q)
  BY DEF IInv, ShellInv
<1>2. Untouched(q)
  BY <1>1, Frame
<1>3. \A part \in Part : LookedAt(q, part)' = LookedAt(q, part)
  BY <1>2 DEF Untouched, LookedAt
<1>4. seen'[q] = seen[q]
  <2>1. CASE pc[q] \in Copying
    <3>1. lock = q /\ lock # p /\ lock # NoProc /\ pc[p] \notin Critical
      BY <1>1, <2>1, ConstantsAssumption DEF LockInv, Copying, Critical, CreateSteps
    <3>2. gens' = gens
      BY <1>1, <3>1, RootNeedsLock
    <3> QED
      BY <1>2, <3>2 DEF Untouched, seen
  <2>2. CASE pc[q] \notin Copying
    BY <1>2, <2>2 DEF Untouched, seen
  <2> QED
    BY <2>1, <2>2
<1> QED
  BY <1>3, <1>4 DEF read

(* a step that copies something is a Look, *)
LEMMA Looks ==
    ASSUME IInv, NEW p \in Proc, Step(p), good' = good, live' = live,
           gen[p] \in Gen, gen'[p] = gen[p], pc[p] \in Copying, pc'[p] \in Copying,
           NEW part \in Part, NEW some \in SUBSET Fact,
           LookedAt(p, part)' = LookedAt(p, part) \cup some,
           gens'[gen[p]].snap[part] =
              (gens[gen[p]].snap[part] \ some) \cup (live[p][part] \cap some),
           \A other \in Part \ {part} :
              /\ LookedAt(p, other)' = LookedAt(p, other)
              /\ gens'[gen[p]].snap[other] = gens[gen[p]].snap[other],
           gens[gen[p]].snap \in Content, gens'[gen[p]].snap \in Content
    PROVE  Backup!Look(p)
<1>1. \A q \in Proc \ {p} : read'[q] = read[q] /\ seen'[q] = seen[q]
  BY OthersLook
<1>2. read' = [read EXCEPT ![p][part] = @ \cup some]
  <2>1. read'[p] = [read[p] EXCEPT ![part] = @ \cup some]
    BY DEF read
  <2> QED
    BY <1>1, <2>1 DEF read
<1>3. seen' = [seen EXCEPT ![p][part] = (@ \ some) \cup (live[p][part] \cap some)]
  <2>1. seen[p] = gens[gen[p]].snap /\ seen'[p] = gens'[gen[p]].snap
    BY DEF seen
  <2>2. seen'[p] = [seen[p] EXCEPT ![part] = (@ \ some) \cup (live[p][part] \cap some)]
    BY <2>1 DEF Content
  <2> QED
    BY <1>1, <2>2 DEF seen
<1> QED
  BY <1>2, <1>3 DEF Backup!Look

(* one that does not change what it has seen is Work or a stutter, *)
LEMMA Works ==
    ASSUME IInv, IInv', NEW p \in Proc, Step(p), good' = good,
           \A part \in Part : LookedAt(p, part)' = LookedAt(p, part),
           seen'[p] = seen[p]
    PROVE  Backup!Work
<1>1. \A q \in Proc : read'[q] = read[q] /\ seen'[q] = seen[q]
  BY OthersLook DEF read
<1>2. read' = read /\ seen' = seen
  BY <1>1 DEF read, seen
<1>3. live' \in [Proc -> Content]
  BY DEF IInv, TypeOK
<1> QED
  BY <1>2, <1>3 DEF Backup!Work, Backup!Content, Content

(* and one that leaves the copying forgets it. *)
LEMMA Forgets ==
    ASSUME IInv, NEW p \in Proc, Step(p), live' = live, pc'[p] \notin Copying
    PROVE  Backup!Forget(p)
<1>1. \A q \in Proc \ {p} : read'[q] = read[q] /\ seen'[q] = seen[q]
  BY OthersLook
<1>2. read'[p] = Empty
  <2>1. \A part \in Part : LookedAt(p, part)' = {}
    BY DEF LookedAt, Copying
  <2> QED
    BY <2>1 DEF read, Empty
<1>3. seen'[p] = Empty
  BY DEF seen
<1>4. read' = [read EXCEPT ![p] = Empty] /\ seen' = [seen EXCEPT ![p] = Empty]
  BY <1>1, <1>2, <1>3 DEF read, seen
<1> QED
  BY <1>4 DEF Backup!Forget, Backup!Empty, Empty

(* The rest of the steps stay outside the copying, or leave it.             *)
LEMMA Leaves ==
    ASSUME IInv, NEW p \in Proc, Step(p),
           ~(\/ CreateLock(p) \/ DumpPostgres(p) \/ MirrorObject(p) \/ MirrorPrivate(p)
             \/ MirrorPublic(p) \/ Seal(p) \/ MoveGeneration(p)
             \/ MoveGenerationFault(p) \/ Write(p))
    PROVE  pc'[p] \notin Copying /\ (pc[p] \in Copying => live' = live)
<1>1. TypeOK
  BY DEF IInv
<1> USE <1>1 DEF TypeOK, Goto, Return, Call, Copying, rootVars, shellVars, stackVars
<1>2. CASE CreateStep(p)
  BY <1>2 DEF CreateStep, MkdirFails, CreateFails, Discard, ManifestFails, Trapped,
        PointLatest, WritePointerFault, MovePointerFault, CommitFault, PruneStart,
        PruneOne, CreateReturns
<1>3. CASE RestoreStep(p)
  BY <1>3 DEF RestoreStep, RestoreLock, RestoreRead, ChooseSource, RestoreRefuses,
        RestoreFindsNothing, ResetDatabase, LoadPostgres, LoadPrivate, LoadPublic,
        LoadPart, RestoreFails, ResetFails, LoadFails, RestoreReturns
<1>4. CASE LockTimeout(p) \/ Release(p) \/ Crash(p) \/ Interrupt(p)
  BY <1>4 DEF LockTimeout, Release, Crash, Interrupt, Trapped
<1>5. CASE Environment(p)
  BY <1>5 DEF Environment, CallCreate, CallRestore, StopWriters, StartWriters, Seed,
        NewAllocation
<1> QED
  BY <1>2, <1>3, <1>4, <1>5 DEF Step, ShellStep

LEMMA StepRefines ==
    ASSUME CommitFaults = {}, IInv, IInv', NEW p \in Proc, Step(p)
    PROVE  Backup!Next
<1>1. TypeOK /\ TypeOK' /\ LatestComplete /\ ShellInv(p)
  BY DEF IInv
<1>2. gens \in [Gen -> Generation] /\ gens' \in [Gen -> Generation] /\ live \in [Proc -> Content]
  BY <1>1 DEF TypeOK
<1>3. CASE PointLatest(p)
  <2>1. /\ gen[p] \in Gen /\ latest' = gen[p] /\ gens' = gens /\ live' = live
        /\ gens[gen[p]].dir = "final" /\ gens[gen[p]].sealed /\ pc[p] = "cPoint"
        /\ gens[gen[p]] \in Generation /\ Part \subseteq gens[gen[p]].have
        /\ pc'[p] = "cPrune"
    BY <1>1, <1>3 DEF PointLatest, Goto, ShellInv, CreateInv, CopiedAt, TypeOK, stackVars
  <2>2. good' = gens[gen[p]].snap
    BY <2>1, ConstantsAssumption DEF good, Whole, Valid, Generation, Part
  <2>3. seen[p] = gens[gen[p]].snap
    BY <2>1 DEF seen, Copying
  <2>4. \A part \in Part : read[p][part] = Fact
    BY <2>1, LookedSteps DEF read
  <2>5. Backup!Forget(p)
    BY <2>1, Forgets DEF Copying
  <2> QED
    BY <2>2, <2>3, <2>4, <2>5 DEF Backup!Next, Backup!Publish
<1>4. CASE ~PointLatest(p)
  <2>1. good' = good
    BY <1>1, <1>4, LatestKept DEF good, Whole, Valid
  <2>2. CASE DumpPostgres(p)
    <3>1. /\ live' = live /\ gen'[p] = gen[p] /\ gen[p] \in Gen
          /\ gens'[gen[p]].snap["pg"] = live[p]["pg"]
          /\ \A part \in Part \ {"pg"} : gens'[gen[p]].snap[part] = gens[gen[p]].snap[part]
      BY <1>1, <2>2, DumpKeeps
    <3>2. pc[p] = "cDump" /\ pc'[p] = "cPrivate" /\ looked'[p] = {}
      BY <1>1, <2>2 DEF DumpPostgres, Goto, TypeOK
    <3>3. /\ LookedAt(p, "pg")' = LookedAt(p, "pg") \cup Fact
          /\ \A part \in Part \ {"pg"} : LookedAt(p, part)' = LookedAt(p, part)
      BY <3>2 DEF LookedAt, Bucket, Copying, Part
    <3>4. gens[gen[p]].snap \in Content /\ gens'[gen[p]].snap \in Content
      BY <1>2, <3>1 DEF Generation
    <3>5. /\ gens'[gen[p]].snap["pg"] =
               (gens[gen[p]].snap["pg"] \ Fact) \cup (live[p]["pg"] \cap Fact)
          /\ "pg" \in Part
      BY <1>2, <3>1, <3>4 DEF Content, Part
    <3>6. Backup!Look(p)
      BY <2>1, <3>1, <3>2, <3>3, <3>4, <3>5, Looks DEF Copying
    <3> QED
      BY <3>6 DEF Backup!Next
  <2>3. CASE MirrorObject(p)
    <3>1. /\ live' = live /\ gen'[p] = gen[p] /\ gen[p] \in Gen
          /\ pc' = pc /\ pc[p] \in {"cPrivate", "cPublic"}
      BY <1>1, <2>3, ObjectKeeps
    <3>2. PICK part \in Part, f \in Fact :
             /\ LookedAt(p, part)' = LookedAt(p, part) \cup {f}
             /\ gens'[gen[p]].snap[part] =
                   (gens[gen[p]].snap[part] \ {f}) \cup (live[p][part] \cap {f})
             /\ \A other \in Part \ {part} :
                   /\ LookedAt(p, other)' = LookedAt(p, other)
                   /\ gens'[gen[p]].snap[other] = gens[gen[p]].snap[other]
      BY <1>1, <2>3, ObjectKeeps
    <3>3. gens[gen[p]].snap \in Content /\ gens'[gen[p]].snap \in Content
      BY <1>2, <3>1 DEF Generation
    <3>4. Backup!Look(p)
      BY <2>1, <3>1, <3>2, <3>3, Looks DEF Copying
    <3> QED
      BY <3>4 DEF Backup!Next
  <2>4. CASE MirrorPrivate(p) \/ MirrorPublic(p)
    BY <1>1, <2>1, <2>4, EndsKeeps, Works DEF seen, Backup!Next
  <2>5. CASE CreateLock(p)
    <3>1. pc[p] = "cLock" /\ pc'[p] = "cDump" /\ gens'[gen'[p]].snap = Empty
      BY <1>1, <2>5 DEF CreateLock, TypeOK, Blank
    <3>2. \A part \in Part : LookedAt(p, part)' = LookedAt(p, part)
      BY <3>1 DEF LookedAt, Copying
    <3>3. seen'[p] = seen[p]
      BY <3>1 DEF seen, Copying
    <3> QED
      BY <2>1, <3>2, <3>3, Works DEF Backup!Next
  <2>6. CASE Seal(p) \/ MoveGeneration(p)
    <3>1. /\ pc[p] \in {"cSeal", "cMove"} /\ pc'[p] \in {"cMove", "cPoint"}
          /\ gen'[p] = gen[p] /\ gen[p] \in Gen
      BY <1>1, <2>6 DEF Seal, MoveGeneration, Goto, ShellInv, CreateInv, TypeOK
    <3>2. gens'[gen[p]].snap = gens[gen[p]].snap
      BY <1>2, <2>6, <3>1 DEF Seal, MoveGeneration, Generation
    <3>3. \A part \in Part : LookedAt(p, part)' = LookedAt(p, part)
      BY <3>1 DEF LookedAt, Copying, Part
    <3>4. seen'[p] = seen[p]
      BY <3>1, <3>2 DEF seen, Copying
    <3> QED
      BY <2>1, <3>3, <3>4, Works DEF Backup!Next
  <2>7. CASE Write(p)
    <3>1. UNCHANGED <<gens, pc, gen, looked>>
      BY <2>7 DEF Write, rootVars, shellVars
    <3>2. \A part \in Part : LookedAt(p, part)' = LookedAt(p, part)
      BY <3>1 DEF LookedAt
    <3> QED
      BY <2>1, <3>1, <3>2, Works DEF seen, Backup!Next
  <2>8. CASE ~(\/ CreateLock(p) \/ DumpPostgres(p) \/ MirrorObject(p) \/ MirrorPrivate(p)
               \/ MirrorPublic(p) \/ Seal(p) \/ MoveGeneration(p) \/ Write(p))
    <3>1. ~MoveGenerationFault(p)
      BY DEF MoveGenerationFault, CommitFault
    <3>2. pc'[p] \notin Copying /\ (pc[p] \in Copying => live' = live)
      BY <2>8, <3>1, Leaves
    <3>3. CASE pc[p] \in Copying
      BY <2>1, <3>2, <3>3, Forgets DEF Backup!Abandon, Backup!Next
    <3>4. CASE pc[p] \notin Copying
      <4>1. \A part \in Part : LookedAt(p, part)' = LookedAt(p, part)
        BY <3>2, <3>4 DEF LookedAt, Copying
      <4> QED
        BY <2>1, <3>2, <3>4, <4>1, Works DEF seen, Backup!Next
    <3> QED
      BY <3>3, <3>4
  <2> QED
    BY <2>2, <2>3, <2>4, <2>5, <2>6, <2>7, <2>8
<1> QED
  BY <1>3, <1>4

(* The shells implement the last-good register: the backup is replaced only *)
(* as a whole, by PointLatest, with what was seen in the stores of one      *)
(* allocation while they were copied, although workflows change and delete  *)
(* what was copied; every other step leaves it alone                        *)
(* (checkpoint.sh:97-188, stack-up.sh:162-171 and 261).                     *)
THEOREM Refinement ==
    ASSUME CommitFaults = {}
    PROVE  Spec => ImplementsLastGood
<1>1. Init => Backup!Init
  BY DEF Init, InitShells, Backup!Init, good, Backup!Content, Backup!Empty, Content, Empty,
         read, seen, LookedAt, Copying
<1>2. ASSUME IInv, IInv', [Next]_vars
      PROVE  [Backup!Next]_<<good, live, read, seen>>
  <2>1. CASE UNCHANGED vars
    BY <2>1 DEF vars, rootVars, shellVars, stackVars, good, Whole, Valid, read, seen, LookedAt
  <2>2. CASE Next
    BY <1>2, <2>2, StepRefines DEF Next
  <2> QED
    BY <1>2, <2>1, <2>2
<1> QED
  BY <1>1, <1>2, Inductive, PTL DEF Spec, ImplementsLastGood, Backup!Spec

-----------------------------------------------------------------------------
(* Retention.  While a shell sweeps, either enough generations are outside  *)
(* its victims already, or it has removed none and each victim still has    *)
(* Keep - 1 newer ones besides `latest`.                                    *)
Spared(p) == Finals \ victims[p]

RetainInv(p) ==
    pc[p] = "cSweep" =>
        /\ latest \in Gen
        /\ \/ Cardinality(Spared(p)) >= Keep
           \/ \A v \in victims[p] : Cardinality(Newer(v)) >= Keep

LEMMA FinalsFinite == ASSUME NEW S \in SUBSET Gen PROVE IsFiniteSet(S) /\ Cardinality(S) \in Nat
<1>1. IsFiniteSet(Gen)
  BY FS_Interval, ConstantsAssumption DEF Gen
<1> QED
  BY <1>1, FS_Subset, FS_CardinalityType

(* The newest victim is out of the window, and everything newer is spared. *)
LEMMA NewestVictim ==
    ASSUME TypeOK, LatestComplete, NEW p \in Proc, RetainInv(p), PruneInv(p),
           pc[p] = "cSweep", NEW g \in victims[p], \A h \in victims[p] : h <= g
    PROVE  Cardinality(Spared(p)) >= Keep
<1> SUFFICES ASSUME Cardinality(Newer(g)) >= Keep
             PROVE  Cardinality(Spared(p)) >= Keep
  BY DEF RetainInv
<1> DEFINE K == Spared(p) \ {latest}
<1>1. /\ latest \in Spared(p) /\ latest \in Finals /\ g \in Gen /\ g \notin K
      /\ Spared(p) \in SUBSET Gen /\ K \in SUBSET Gen /\ Newer(g) \in SUBSET Gen
  BY DEF RetainInv, PruneInv, LatestComplete, Whole, Valid, Spared, Finals, Newer, TypeOK
<1>2. Newer(g) \subseteq K \cup {g}
  <2>1. ASSUME NEW h \in Newer(g), h # g PROVE h \in K
    <3>1. h \in Gen /\ h \in Finals /\ h # latest /\ h >= g
      BY <2>1 DEF Newer, Finals
    <3>2. h \notin victims[p]
      BY <1>1, <2>1, <3>1 DEF Gen
    <3> QED
      BY <3>1, <3>2 DEF Spared
  <2> QED
    BY <2>1
<1>3. IsFiniteSet(K) /\ IsFiniteSet(K \cup {g}) /\ Cardinality(K) \in Nat
  BY <1>1, FinalsFinite, FS_AddElement
<1>4. Cardinality(K \cup {g}) = Cardinality(K) + 1
  BY <1>1, <1>3, FS_AddElement
<1>5. Cardinality(Newer(g)) <= Cardinality(K \cup {g})
  BY <1>2, <1>3, FS_Subset
<1>6. Spared(p) = K \cup {latest} /\ latest \notin K
  BY <1>1
<1>7. Cardinality(Spared(p)) = Cardinality(K) + 1
  BY <1>3, <1>6, FS_AddElement
<1>8. Cardinality(Newer(g)) \in Nat
  BY <1>1, FinalsFinite
<1> QED
  BY <1>3, <1>4, <1>5, <1>7, <1>8, ConstantsAssumption

LEMMA RetainStep ==
    ASSUME IInv, CommitFaults = {}, NEW p \in Proc, Step(p), IInv',
           NEW q \in Proc, RetainInv(q)
    PROVE  RetainInv(q)'
<1>1. TypeOK /\ TypeOK' /\ LatestComplete /\ ShellInv(p) /\ ShellInv(q)
  BY DEF IInv
<1>2. CASE q # p
  <2>1. Untouched(q)
    BY <1>1, <1>2, Frame
  <2>2. SUFFICES ASSUME pc[q] = "cSweep" PROVE RetainInv(q)'
    BY <2>1 DEF Untouched, RetainInv
  <2>3. lock = q /\ lock # p /\ lock # NoProc /\ pc[p] \notin Critical
    BY <1>1, <1>2, <2>2, ConstantsAssumption
       DEF ShellInv, LockInv, Critical, CreateSteps
  <2>4. gens' = gens /\ latest' = latest
    BY <1>1, <2>3, RootNeedsLock DEF ShellInv
  <2> QED
    BY <2>1, <2>4 DEF Untouched, RetainInv, Spared, Finals, Newer
<1>3. CASE q = p
  <2>1. SUFFICES ASSUME pc'[p] = "cSweep" PROVE RetainInv(p)'
    BY <1>3 DEF RetainInv
  <2>2. PruneStart(p) \/ PruneOne(p) \/ (pc[p] = "cSweep" /\ UNCHANGED <<gens, latest, victims>>)
    <3> USE <1>1 DEF Goto, Return, Call, TypeOK
    <3>1. CASE CreateStep(p)
      BY <2>1, <3>1 DEF CreateStep, CreateLock, MkdirFails, DumpPostgres, MirrorObject,
            MirrorPrivate, MirrorPublic, MirrorEnds, CreateFails, Discard, ManifestFails,
            Trapped, Seal, MoveGeneration, PointLatest, MoveGenerationFault, WritePointerFault, MovePointerFault,
            CommitFault, CreateReturns
    <3>2. CASE RestoreStep(p)
      BY <2>1, <3>2 DEF RestoreStep, RestoreLock, RestoreRead, ChooseSource,
            RestoreRefuses, RestoreFindsNothing, ResetDatabase, LoadPostgres,
            LoadPrivate, LoadPublic, LoadPart, RestoreFails, ResetFails, LoadFails,
            RestoreReturns
    <3>3. CASE LockTimeout(p) \/ Release(p) \/ Crash(p) \/ Interrupt(p)
      BY <2>1, <3>3 DEF LockTimeout, Release, Crash, Interrupt, Trapped
    <3>4. CASE Environment(p)
      BY <2>1, <3>4 DEF Environment, CallCreate, CallRestore, StopWriters,
            StartWriters, Write, Seed, NewAllocation, rootVars, shellVars
    <3> QED
      BY <3>1, <3>2, <3>3, <3>4 DEF Step, ShellStep
  <2>3. CASE PruneStart(p)
    <3>1. /\ victims'[p] = OutsideWindow /\ gens' = gens /\ latest' = latest
          /\ latest \in Gen
      BY <1>1, <2>1, <2>3 DEF PruneStart, Return, TypeOK, rootVars
    <3> QED
      BY <3>1 DEF RetainInv, OutsideWindow, Newer, Finals
  <2>4. CASE PruneOne(p)
    <3>1. PICK g \in victims[p] :
             /\ \A h \in victims[p] : h <= g
             /\ gens' = IF Valid(g) THEN [gens EXCEPT ![g] = Blank("none")] ELSE gens
             /\ victims' = [victims EXCEPT ![p] = @ \ {g}]
             /\ pc[p] = "cSweep" /\ latest' = latest
      BY <2>4 DEF PruneOne
    <3>2. Cardinality(Spared(p)) >= Keep
      BY <1>1, <1>3, <3>1, NewestVictim DEF ShellInv
    <3>3. Spared(p) \subseteq Spared(p)'
      <4>1. victims[p] \in SUBSET Gen /\ victims'[p] = victims[p] \ {g}
        BY <1>1, <3>1 DEF TypeOK
      <4>2. \A h \in Gen \ {g} : gens'[h] = gens[h]
        BY <1>1, <3>1 DEF TypeOK
      <4> QED
        BY <3>1, <4>1, <4>2 DEF Spared, Finals
    <3>4. Spared(p)' \in SUBSET Gen /\ Spared(p) \in SUBSET Gen
      BY DEF Spared, Finals
    <3>5. /\ IsFiniteSet(Spared(p)') /\ Cardinality(Spared(p)') \in Nat
          /\ Cardinality(Spared(p)) \in Nat
      BY <3>4, FinalsFinite
    <3>6. Cardinality(Spared(p)) <= Cardinality(Spared(p)')
      BY <3>3, <3>5, FS_Subset
    <3> QED
      BY <1>3, <3>1, <3>2, <3>5, <3>6, ConstantsAssumption DEF RetainInv
  <2>5. CASE pc[p] = "cSweep" /\ UNCHANGED <<gens, latest, victims>>
    BY <1>3, <2>5 DEF RetainInv, Spared, Finals, Newer
  <2> QED
    BY <1>3, <2>2, <2>3, <2>4, <2>5
<1> QED
  BY <1>2, <1>3

(* Only the sweep removes a finished generation. *)
LEMMA RemovedBySweep ==
    ASSUME IInv, NEW p \in Proc, Step(p), NEW g \in Gen,
           gens[g].dir = "final", gens'[g].dir = "none"
    PROVE  /\ pc[p] = "cSweep" /\ g \in victims[p]
           /\ \A h \in victims[p] : h <= g
           /\ \A h \in Gen \ {g} : gens'[h] = gens[h]
<1>1. TypeOK /\ ShellInv(p)
  BY DEF IInv
<1> USE <1>1 DEF TypeOK
<1>2. CASE CreateStep(p)
  <2>1. CASE CreateLock(p)
    BY <2>1 DEF CreateLock, Blank
  <2>2. CASE DumpPostgres(p) \/ MirrorObject(p) \/ MirrorPrivate(p) \/ MirrorPublic(p)
             \/ Discard(p) \/ Seal(p) \/ MoveGeneration(p)
    <3>1. gen[p] \in Gen /\ gens[gen[p]].dir = "tmp"
      BY <2>2 DEF DumpPostgres, MirrorObject, MirrorPrivate, MirrorPublic, MirrorEnds,
                  Discard, Seal, MoveGeneration, ShellInv, CreateInv
    <3>2. g # gen[p]
      BY <3>1
    <3> QED
      BY <2>2, <3>1, <3>2 DEF DumpPostgres, MirrorObject, MirrorPrivate, MirrorPublic,
                  MirrorEnds, Discard, Seal, MoveGeneration
  <2>3. CASE CreateFails(p) \/ MkdirFails(p) \/ ManifestFails(p) \/ PointLatest(p)
             \/ PruneStart(p) \/ CreateReturns(p)
             \/ MoveGenerationFault(p) \/ WritePointerFault(p) \/ MovePointerFault(p)
    BY <2>3 DEF CreateFails, MkdirFails, ManifestFails, PointLatest, PruneStart,
          CreateReturns, MoveGenerationFault, WritePointerFault, MovePointerFault,
          CommitFault, Trapped, Abandoned, Blank, rootVars
  <2>4. CASE PruneOne(p)
    BY <2>4 DEF PruneOne
  <2> QED
    BY <1>2, <2>1, <2>2, <2>3, <2>4 DEF CreateStep
<1>3. CASE RestoreStep(p)
  BY <1>3 DEF RestoreStep, RestoreLock, RestoreRead, RestoreRefuses,
        RestoreFindsNothing, ResetDatabase, LoadPostgres, LoadPrivate,
        LoadPublic, LoadPart, RestoreFails, ResetFails, LoadFails,
        RestoreReturns, rootVars
<1>4. CASE LockTimeout(p) \/ Release(p) \/ Environment(p)
  BY <1>4 DEF LockTimeout, Release, Environment, CallCreate, CallRestore, StopWriters,
        StartWriters, Write, Seed, NewAllocation, Call, rootVars
<1>5. CASE Crash(p) \/ Interrupt(p)
  BY <1>5 DEF Crash, Interrupt, Trapped, Abandoned, Blank
<1> QED
  BY <1>2, <1>3, <1>4, <1>5 DEF Step, ShellStep

(* However the node clocks order the names and whichever shells die while   *)
(* they prune: a removal never takes `latest` and leaves at least Keep      *)
(* finished generations (checkpoint.sh:75-95).                              *)
THEOREM Retention ==
    ASSUME CommitFaults = {}
    PROVE  Spec => PruneRetains
<1> DEFINE RetainAll == \A q \in Proc : RetainInv(q)
           Kept(g) == /\ g # latest
                      /\ Cardinality({h \in Gen : gens'[h].dir = "final"}) >= Keep
           Retained == \A g \in Gen :
                          gens[g].dir = "final" /\ gens'[g].dir = "none" => Kept(g)
<1>1. Init => RetainAll
  BY DEF Init, InitShells, RetainInv
<1>2. IInv /\ IInv' /\ RetainAll /\ [Next]_vars => RetainAll'
  <2> SUFFICES ASSUME IInv, IInv', RetainAll, [Next]_vars PROVE RetainAll'
    OBVIOUS
  <2>1. CASE UNCHANGED vars
    BY <2>1 DEF vars, rootVars, shellVars, RetainInv, Spared, Finals, Newer
  <2>2. CASE Next
    BY <2>2, RetainStep DEF Next, Step
  <2> QED
    BY <2>1, <2>2
<1>3. IInv /\ RetainAll /\ [Next]_vars => [Retained]_vars
  <2> SUFFICES ASSUME IInv, RetainAll, NEW p \in Proc, Step(p), NEW g \in Gen,
                      gens[g].dir = "final", gens'[g].dir = "none"
               PROVE  Kept(g)
    BY DEF Next, Step
  <2>1. /\ pc[p] = "cSweep" /\ g \in victims[p]
        /\ \A h \in victims[p] : h <= g
        /\ \A h \in Gen \ {g} : gens'[h] = gens[h]
    BY RemovedBySweep
  <2>2. TypeOK /\ LatestComplete /\ ShellInv(p)
    BY DEF IInv
  <2>3. Cardinality(Spared(p)) >= Keep
    BY <2>1, <2>2, NewestVictim DEF ShellInv
  <2> DEFINE Left == {h \in Gen : gens'[h].dir = "final"}
  <2>4. Spared(p) \subseteq Left /\ Left \in SUBSET Gen /\ Spared(p) \in SUBSET Gen
    BY <2>1 DEF Spared, Finals
  <2>5. Cardinality(Spared(p)) <= Cardinality(Left) /\ Cardinality(Left) \in Nat
        /\ Cardinality(Spared(p)) \in Nat
    BY <2>4, FinalsFinite, FS_Subset
  <2> QED
    BY <2>1, <2>2, <2>3, <2>5, ConstantsAssumption DEF ShellInv, PruneInv
<1> QED
  BY <1>1, <1>2, <1>3, Inductive, PTL DEF Spec, PruneRetains

=============================================================================
