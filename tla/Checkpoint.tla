----------------------------- MODULE Checkpoint -----------------------------
(***************************************************************************)
(* deploy/soc/stack/checkpoint.sh: versioned checkpoints of one stack's    *)
(* PostgreSQL database and two MinIO buckets, in a directory that every    *)
(* allocation of the owner shares (STACK_CHECKPOINT_ROOT).                 *)
(*                                                                         *)
(* A Proc is a shell that runs checkpoint_create or checkpoint_restore     *)
(* against that directory, for the stack of its own allocation.  One TLA+  *)
(* step is one command whose effect another shell, a crash or a failing    *)
(* command can separate from the next.                                     *)
(***************************************************************************)
EXTENDS Integers, FiniteSets

CONSTANTS
    Proc,          \* the shells
    Fact,          \* versions of rows and objects the stores can hold
    SeedRows,      \* the rows of seed-demo-data.sql
    Superseded,    \* what its ON CONFLICT ... DO UPDATE turns into them
    MaxGen,        \* bound: how many generation directories exist at a time
    Keep,          \* STACK_CHECKPOINT_KEEP, after the floor of 2
    CommitFaults,  \* which unchecked commands of the commit may fail
    ErrexitCalls,  \* whether callers run create under errexit: a set of BOOLEAN
    LegacyFound,   \* what an older stack may have left: a set of LegacyState
    LegacyContent, \* and what its dump and its bucket hold
    NoProc, NoGen, BadPointer, LegacyDump

(* Directory names, as places in the order of `sort`.  The code never draws *)
(* a name twice; a place that a removed directory leaves is taken again by  *)
(* any later name that sorts there.                                         *)
Gen == 1..MaxGen

(* What a generation copies, in the order the copies are taken. *)
Part == {"pg", "private", "public"}

(* "truncated": without the line pg_dump ends with.  "dump_only": without   *)
(* the mutable directory the old stack mirrored its only bucket to.         *)
LegacyState == {"absent", "truncated", "dump_only", "complete"}

Content == [Part -> SUBSET Fact]
Empty   == [part \in Part |-> {}]

ASSUME ConstantsAssumption ==
    /\ SeedRows \subseteq Fact
    /\ Superseded \subseteq Fact \ SeedRows
    /\ MaxGen \in Nat
    /\ Keep \in Nat /\ Keep >= 2
    /\ CommitFaults \subseteq {"mv_generation", "write_pointer", "mv_pointer"}
    /\ ErrexitCalls \subseteq BOOLEAN
    /\ LegacyFound \subseteq LegacyState
    /\ LegacyContent \in Content
    /\ NoProc \notin Proc
    /\ {NoGen, BadPointer, LegacyDump} \cap Gen = {}
    /\ NoGen # BadPointer /\ NoGen # LegacyDump /\ BadPointer # LegacyDump

VARIABLES
    gens,     \* the generation directories, by name
    latest,   \* what the file `latest` says: NoGen when there is no such file
    legacy,   \* the pg-*.sql dump an older stack may have left in the root
    lock,     \* who holds flock on .checkpoint.lock
    pc,       \* where in checkpoint.sh each shell is
    gen,      \* its local variable `generation`
    quiesced, \* its local variable `consistency` is "quiesced"
    errexit,  \* whether its caller left `set -e` in force
    looked,   \* the objects its running mirror has been through
    victims,  \* generations its pruning loop has still to remove
    live,     \* what the stores of its allocation hold
    database, \* STACK_PGDB exists: dropdb ran without createdb otherwise
    writers,  \* whether gateway, FlowMesh and Lumilake of the allocation run
    marker    \* $STACK_RUNTIME_DIR/writers.stopped exists

rootVars  == <<gens, latest, legacy>>
shellVars == <<pc, gen, quiesced, errexit, looked, victims>>
stackVars == <<live, database, writers, marker>>
vars      == <<rootVars, lock, shellVars, stackVars>>

(* dir is "tmp" for .tmp-<name>, "final" for <name>; have is the parts      *)
(* whose copy finished; sealed says that manifest and checksums describe    *)
(* exactly the files that are there.  What is in a directory that an        *)
(* interrupted shell left unusable is never read: it is forgotten.          *)
Generation == [dir    : {"none", "tmp", "final"},
               snap   : Content,
               have   : SUBSET Part,
               sealed : BOOLEAN]

Blank(where) ==
    [dir |-> where, snap |-> Empty, have |-> {}, sealed |-> FALSE]

CreateSteps  == {"cDump", "cPrivate", "cPublic", "cSeal", "cMove", "cPoint",
                 "cPrune", "cSweep", "cDiscard"}
RestoreSteps == {"rRead", "rReset", "rPg", "rPrivate", "rPublic", "rMark"}
Critical     == CreateSteps \cup RestoreSteps
Copying      == {"cDump", "cPrivate", "cPublic", "cSeal", "cMove", "cPoint"}

TypeOK ==
    /\ gens \in [Gen -> Generation]
    /\ latest \in Gen \cup {NoGen, BadPointer}
    /\ legacy \in LegacyState
    /\ lock \in Proc \cup {NoProc}
    /\ pc \in [Proc -> {"idle", "cLock", "rLock", "trapped"} \cup Critical]
    /\ gen \in [Proc -> Gen \cup {NoGen, LegacyDump}]
    /\ quiesced \in [Proc -> BOOLEAN]
    /\ errexit \in [Proc -> BOOLEAN]
    /\ looked \in [Proc -> SUBSET Fact]
    /\ victims \in [Proc -> SUBSET Gen]
    /\ live \in [Proc -> Content]
    /\ database \in [Proc -> BOOLEAN]
    /\ writers \in [Proc -> BOOLEAN]
    /\ marker \in [Proc -> BOOLEAN]

(* checkpoint_validate_dir on a finished directory.  The two bucket         *)
(* directories exist from the first mkdir on, so their presence proves      *)
(* nothing about the mirrors: only the dump and the checksums do.           *)
Valid(g) == gens[g].dir = "final" /\ gens[g].sealed /\ "pg" \in gens[g].have

Finals == {g \in Gen : gens[g].dir = "final"}

-----------------------------------------------------------------------------
(* Leaving a function: unlock (where the lock is held) and return.  Which   *)
(* status the caller sees is told by the action that returns.               *)
Return(p) ==
    /\ pc' = [pc EXCEPT ![p] = "idle"]
    /\ gen' = [gen EXCEPT ![p] = NoGen]
    /\ quiesced' = [quiesced EXCEPT ![p] = FALSE]
    /\ errexit' = [errexit EXCEPT ![p] = FALSE]
    /\ looked' = [looked EXCEPT ![p] = {}]
    /\ victims' = [victims EXCEPT ![p] = {}]
    /\ lock' = IF lock = p THEN NoProc ELSE lock

Goto(p, step) ==
    /\ pc' = [pc EXCEPT ![p] = step]
    /\ looked' = [looked EXCEPT ![p] = {}]
    /\ UNCHANGED <<lock, gen, quiesced, errexit, victims>>

(* The directory under construction stays behind.                           *)
Abandoned(p) ==
    IF gen[p] \in Gen /\ gens[gen[p]].dir = "tmp"
    THEN [gens EXCEPT ![gen[p]] = Blank("tmp")]
    ELSE gens

(* The shell leaves checkpoint_create for its EXIT trap, with descriptor 9, *)
(* and so the lock where it has it, still open.                             *)
Trapped(p) ==
    /\ gens' = Abandoned(p)
    /\ pc' = [pc EXCEPT ![p] = "trapped"]
    /\ gen' = [gen EXCEPT ![p] = NoGen]
    /\ quiesced' = [quiesced EXCEPT ![p] = FALSE]
    /\ errexit' = [errexit EXCEPT ![p] = FALSE]
    /\ looked' = [looked EXCEPT ![p] = {}]
    /\ victims' = [victims EXCEPT ![p] = {}]

Call(p, step) ==
    /\ pc[p] = "idle"
    /\ pc' = [pc EXCEPT ![p] = step]
    /\ UNCHANGED <<lock, gen, quiesced, looked, victims, rootVars, stackVars>>

CallCreate(p) ==
    /\ Call(p, "cLock")
    /\ \E e \in ErrexitCalls : errexit' = [errexit EXCEPT ![p] = e]

CallRestore(p) ==
    /\ Call(p, "rLock")
    /\ UNCHANGED errexit

(* flock -w gives up after STACK_CHECKPOINT_LOCK_TIMEOUT seconds. *)
LockTimeout(p) ==
    /\ pc[p] \in {"cLock", "rLock"}
    /\ lock \notin {NoProc, p}
    /\ Return(p)
    /\ UNCHANGED <<rootVars, stackVars>>

-----------------------------------------------------------------------------
(* checkpoint_create *)

(* The name begins with the node's clock, so it is fresh but need not sort  *)
(* after the names other nodes drew.  Consistency is decided here, once.    *)
CreateLock(p) ==
    /\ pc[p] = "cLock"
    /\ lock = NoProc
    /\ lock' = p
    /\ \E g \in Gen :
        /\ gens[g].dir = "none"
        /\ gens' = [gens EXCEPT ![g] = Blank("tmp")]
        /\ gen' = [gen EXCEPT ![p] = g]
    /\ quiesced' = [quiesced EXCEPT ![p] = marker[p]]
    /\ pc' = [pc EXCEPT ![p] = "cDump"]
    /\ UNCHANGED <<latest, legacy, errexit, looked, victims, stackVars>>

(* The unchecked mkdir fails: so does pg_dump, and there is nothing to      *)
(* remove; under errexit the shell exits.                                   *)
MkdirFails(p) ==
    /\ pc[p] = "cLock"
    /\ lock = NoProc
    /\ \/ ~errexit[p] /\ Return(p) /\ UNCHANGED gens
       \/ errexit[p] /\ Trapped(p) /\ lock' = p
    /\ UNCHANGED <<latest, legacy, stackVars>>

WithCopy(dir, part, content) ==
    [dir EXCEPT !.snap[part] = content, !.have = @ \cup {part}]

(* pg_dump reads in one transaction: the dump shows one moment. *)
DumpPostgres(p) ==
    /\ pc[p] = "cDump"
    /\ database[p]
    /\ gens' = [gens EXCEPT ![gen[p]] = WithCopy(@, "pg", live[p]["pg"])]
    /\ Goto(p, "cPrivate")
    /\ UNCHANGED <<latest, legacy, stackVars>>

(* mc mirror goes through the bucket object by object, in no order one may  *)
(* rely on, while workflows store, overwrite and remove objects.            *)
Bucket(step) == IF step = "cPrivate" THEN "private" ELSE "public"

WithObject(dir, part, f, content) ==
    [dir EXCEPT !.snap[part] = (@ \ {f}) \cup (content \cap {f})]

MirrorObject(p) ==
    /\ pc[p] \in {"cPrivate", "cPublic"}
    /\ \E f \in Fact \ looked[p] :
        /\ gens' = [gens EXCEPT ![gen[p]] =
                       WithObject(@, Bucket(pc[p]), f, live[p][Bucket(pc[p])])]
        /\ looked' = [looked EXCEPT ![p] = @ \cup {f}]
    /\ UNCHANGED <<latest, legacy, lock, pc, gen, quiesced, errexit, victims, stackVars>>

MirrorEnds(p, at, next) ==
    /\ pc[p] = at
    /\ looked[p] = Fact
    /\ gens' = [gens EXCEPT ![gen[p]].have = @ \cup {Bucket(at)}]
    /\ Goto(p, next)
    /\ UNCHANGED <<latest, legacy, stackVars>>

MirrorPrivate(p) == MirrorEnds(p, "cPrivate", "cPublic")

(* Mutant: after the last copy the shell goes to a step that is not there. *)
MirrorPublicAstray(p) == MirrorEnds(p, "cPublic", "cVerify")

MirrorPublic(p)  == MirrorEnds(p, "cPublic", "cSeal")

(* Mutant: a failing mirror of the private bucket does not set rc.          *)
CreateFailsUnnoticed(p) ==
    /\ pc[p] \in {"cDump", "cPrivate", "cPublic", "cSeal"}
    /\ Goto(p, IF pc[p] = "cPrivate" THEN "cPublic" ELSE "cDiscard")
    /\ UNCHANGED <<rootVars, stackVars>>

(* Dump, either mirror, checksums or the final validation fail: rc=1 skips  *)
(* every later step but the removal of the temporary directory.             *)
CreateFails(p) ==
    /\ pc[p] \in {"cDump", "cPrivate", "cPublic", "cSeal"}
    /\ Goto(p, "cDiscard")
    /\ UNCHANGED <<rootVars, stackVars>>

Discard(p) ==
    /\ pc[p] = "cDiscard"
    /\ gens' = [gens EXCEPT ![gen[p]] = Blank("none")]
    /\ Return(p)
    /\ UNCHANGED <<latest, legacy, stackVars>>

(* The manifest cannot be written: under errexit the shell exits at once,   *)
(* otherwise the validation finds it missing.                               *)
ManifestFails(p) ==
    /\ pc[p] = "cSeal"
    /\ errexit[p]
    /\ Trapped(p)
    /\ UNCHANGED <<latest, legacy, lock, stackVars>>

(* manifest.txt, checksums.sha256 and checkpoint_validate_dir on the result *)
Seal(p) ==
    /\ pc[p] = "cSeal"
    /\ gens' = [gens EXCEPT ![gen[p]].sealed = TRUE]
    /\ Goto(p, "cMove")
    /\ UNCHANGED <<latest, legacy, stackVars>>

MoveGeneration(p) ==
    /\ pc[p] = "cMove"
    /\ gens' = [gens EXCEPT ![gen[p]].dir = "final"]
    /\ Goto(p, "cPoint")
    /\ UNCHANGED <<latest, legacy, stackVars>>

PointLatest(p) ==
    /\ pc[p] = "cPoint"
    /\ latest' = gen[p]
    /\ Goto(p, "cPrune")
    /\ UNCHANGED <<gens, legacy, stackVars>>

(* mv, printf and mv -f are not checked.  Where the caller tests the        *)
(* status (`if checkpoint_create`, `checkpoint_create || ...`) or runs under *)
(* `set +e`, bash ignores their failure and goes on; under errexit the      *)
(* shell exits.                                                             *)
CommitFault(p, at, fault, next, pointer) ==
    /\ pc[p] = at
    /\ fault \in CommitFaults
    /\ \/ ~errexit[p] /\ Goto(p, next) /\ latest' = pointer /\ UNCHANGED gens
       \/ errexit[p] /\ Trapped(p) /\ UNCHANGED <<latest, lock>>
    /\ UNCHANGED <<legacy, stackVars>>

MoveGenerationFault(p) ==
    CommitFault(p, "cMove", "mv_generation", "cPoint", latest)
WritePointerFault(p) ==
    CommitFault(p, "cPoint", "write_pointer", "cPrune", BadPointer)
MovePointerFault(p) ==
    CommitFault(p, "cPoint", "mv_pointer", "cPrune", latest)

(* checkpoint_prune_old reads `latest`, lists every finished directory but  *)
(* that one, newest name first, and keeps the first Keep - 1 of them.       *)
Newer(g) == {h \in Finals \ {latest} : h >= g}

(* Mutants: one generation too few is kept; `latest` is not skipped.        *)
OutsideTightWindow ==
    {g \in Finals \ {latest} : Cardinality(Newer(g)) >= Keep - 1}
OutsideWindowOfAll ==
    {g \in Finals : Cardinality({h \in Finals : h >= g}) >= Keep}

OutsideWindow ==
    {g \in Finals \ {latest} : Cardinality(Newer(g)) >= Keep}

PruneStart(p) ==
    /\ pc[p] = "cPrune"
    /\ IF latest = BadPointer \/ latest = NoGen
       THEN Return(p)
       ELSE /\ pc' = [pc EXCEPT ![p] = "cSweep"]
            /\ victims' = [victims EXCEPT ![p] = OutsideWindow]
            /\ UNCHANGED <<lock, gen, quiesced, errexit, looked>>
    /\ UNCHANGED <<rootVars, stackVars>>

(* The loop goes from the newest victim to the oldest and leaves a          *)
(* directory that does not validate where it is.                            *)
PruneOne(p) ==
    /\ pc[p] = "cSweep"
    /\ \E g \in victims[p] :
        /\ \A h \in victims[p] : h <= g
        /\ gens' = IF Valid(g) THEN [gens EXCEPT ![g] = Blank("none")] ELSE gens
        /\ victims' = [victims EXCEPT ![p] = @ \ {g}]
    /\ UNCHANGED <<latest, legacy, lock, pc, gen, quiesced, errexit, looked, stackVars>>

CreateReturns(p) ==
    /\ pc[p] = "cSweep"
    /\ victims[p] = {}
    /\ Return(p)
    /\ UNCHANGED <<rootVars, stackVars>>

-----------------------------------------------------------------------------
(* checkpoint_restore_latest and checkpoint_restore_legacy *)

RestoreLock(p) ==
    /\ pc[p] = "rLock"
    /\ lock = NoProc
    /\ lock' = p
    /\ pc' = [pc EXCEPT ![p] = "rRead"]
    /\ UNCHANGED <<rootVars, gen, quiesced, errexit, looked, victims, stackVars>>

ChooseSource(p, source) ==
    /\ gen' = [gen EXCEPT ![p] = source]
    /\ pc' = [pc EXCEPT ![p] = "rReset"]
    /\ UNCHANGED <<lock, quiesced, errexit, looked, victims>>

RestoreRead(p) ==
    /\ pc[p] = "rRead"
    /\ \/ latest \in Gen /\ Valid(latest) /\ ChooseSource(p, latest)
       \/ /\ latest = NoGen
          /\ legacy \in {"complete", "dump_only"}
          /\ ChooseSource(p, LegacyDump)
    /\ UNCHANGED <<rootVars, stackVars>>

(* Status 1: a pointer that cannot be read, or names a damaged generation,  *)
(* or a legacy dump without its completion marker.                          *)
RestoreRefuses(p) ==
    /\ pc[p] = "rRead"
    /\ \/ latest \in Gen /\ ~Valid(latest)
       \/ latest = BadPointer
       \/ latest = NoGen /\ legacy = "truncated"
    /\ Return(p)
    /\ UNCHANGED <<rootVars, stackVars>>

(* Status 10: there is no backup of any kind. *)
RestoreFindsNothing(p) ==
    /\ pc[p] = "rRead"
    /\ latest = NoGen /\ legacy = "absent"
    /\ Return(p)
    /\ UNCHANGED <<rootVars, stackVars>>

(* dropdb and createdb *)
ResetDatabase(p) ==
    /\ pc[p] = "rReset"
    /\ live' = [live EXCEPT ![p]["pg"] = {}]
    /\ database' = [database EXCEPT ![p] = TRUE]
    /\ Goto(p, "rPg")
    /\ UNCHANGED <<rootVars, writers, marker>>

(* The legacy dump comes with the only bucket of the old stack, or alone. *)
Supplied(g) ==
    CASE g # LegacyDump                          -> Part
      [] g = LegacyDump /\ legacy = "dump_only"  -> {"pg"}
      [] OTHER                                   -> {"pg", "private"}

SourceContent(g) ==
    IF g = LegacyDump THEN LegacyContent ELSE gens[g].snap

LoadPart(p, at, part, next) ==
    /\ pc[p] = at
    /\ live' = [live EXCEPT ![p][part] = SourceContent(gen[p])[part]]
    /\ Goto(p, next)
    /\ UNCHANGED <<rootVars, database, writers, marker>>

LoadPostgres(p) ==
    LoadPart(p, "rPg", "pg",
             IF "private" \in Supplied(gen[p]) THEN "rPrivate" ELSE "rMark")
LoadPrivate(p) ==
    LoadPart(p, "rPrivate", "private",
             IF "public" \in Supplied(gen[p]) THEN "rPublic" ELSE "rMark")
LoadPublic(p) == LoadPart(p, "rPublic", "public", "rMark")

(* createdb fails, with the old database dropped, or because it was not.   *)
ResetFails(p) ==
    /\ pc[p] = "rReset"
    /\ \/ UNCHANGED <<live, database>>
       \/ /\ live' = [live EXCEPT ![p]["pg"] = {}]
          /\ database' = [database EXCEPT ![p] = FALSE]
    /\ Return(p)
    /\ UNCHANGED <<rootVars, writers, marker>>

(* Mutant: the status of the load is not looked at. *)
LoadFailsUnnoticed(p, at, part) ==
    /\ pc[p] = at
    /\ \E some \in SUBSET (live[p][part] \cup SourceContent(gen[p])[part]) :
        live' = [live EXCEPT ![p][part] = some]
    /\ Goto(p, CASE at = "rPg" -> "rPrivate" [] at = "rPrivate" -> "rPublic"
                 [] OTHER -> "rMark")
    /\ UNCHANGED <<rootVars, database, writers, marker>>

(* pg_restore or a mirror stops half way: what it had already loaded or     *)
(* removed stays that way.  The legacy dump loads in one transaction.       *)
LoadFails(p, at, part) ==
    /\ pc[p] = at
    /\ \E some \in SUBSET (live[p][part] \cup SourceContent(gen[p])[part]) :
        /\ live[p][part] \cap SourceContent(gen[p])[part] \subseteq some
        /\ gen[p] = LegacyDump /\ part = "pg" => some = live[p][part]
        /\ live' = [live EXCEPT ![p][part] = some]
    /\ Return(p)
    /\ UNCHANGED <<rootVars, database, writers, marker>>

RestoreFails(p) ==
    \/ ResetFails(p)
    \/ LoadFails(p, "rPg", "pg")
    \/ LoadFails(p, "rPrivate", "private")
    \/ LoadFails(p, "rPublic", "public")

(* restore.complete is written, the lock released. *)
RestoreReturns(p) ==
    /\ pc[p] = "rMark"
    /\ Return(p)
    /\ UNCHANGED <<rootVars, stackVars>>

-----------------------------------------------------------------------------
(* The shell is killed, and flock dies with it.  A directory whose removal  *)
(* had begun is left without some of its files.                             *)
Crash(p) ==
    /\ pc[p] # "idle"
    /\ \/ gens' = Abandoned(p)
       \/ \E g \in victims[p] :
            /\ Valid(g) /\ \A h \in victims[p] : h <= g
            /\ gens' = [gens EXCEPT ![g] = Blank("final")]
    /\ Return(p)
    /\ UNCHANGED <<latest, legacy, stackVars>>

(* slurm-stack.sbatch traps TERM and INT: between two commands of           *)
(* checkpoint_create the shell leaves it for its EXIT trap.                 *)
Interrupt(p) ==
    /\ pc[p] \in {"cLock"} \cup CreateSteps
    /\ Trapped(p)
    /\ UNCHANGED <<latest, legacy, lock, stackVars>>

(* Descriptor 9 is closed when the shell exits, or when the next call of    *)
(* checkpoint_lock opens it again.                                          *)
Release(p) ==
    /\ pc[p] = "trapped"
    /\ Return(p)
    /\ UNCHANGED <<rootVars, stackVars>>

CreateStep(p) ==
    \/ CreateLock(p) \/ MkdirFails(p)
    \/ DumpPostgres(p) \/ MirrorObject(p) \/ MirrorPrivate(p) \/ MirrorPublic(p)
    \/ CreateFails(p) \/ Discard(p) \/ ManifestFails(p) \/ Seal(p)
    \/ MoveGeneration(p) \/ PointLatest(p)
    \/ MoveGenerationFault(p) \/ WritePointerFault(p) \/ MovePointerFault(p)
    \/ PruneStart(p) \/ PruneOne(p) \/ CreateReturns(p)

RestoreStep(p) ==
    \/ RestoreLock(p) \/ RestoreRead(p) \/ RestoreRefuses(p)
    \/ RestoreFindsNothing(p) \/ ResetDatabase(p)
    \/ LoadPostgres(p) \/ LoadPrivate(p) \/ LoadPublic(p)
    \/ RestoreFails(p) \/ RestoreReturns(p)

ShellStep(p) ==
    CreateStep(p) \/ RestoreStep(p) \/ LockTimeout(p) \/ Release(p)

-----------------------------------------------------------------------------
(* What the callers do around the two functions, as far as checkpoint.sh    *)
(* depends on it.  StackLifecycle replaces this environment by the real     *)
(* stack-up.sh, stack-down.sh and slurm-stack.sbatch.                       *)

(* stack-down.sh --writers-only: the marker is written only when every      *)
(* writer is confirmed gone and removed otherwise.                          *)
StopWriters(p) ==
    /\ pc[p] \in {"idle", "trapped"}
    /\ \E confirmed \in BOOLEAN :
        /\ writers' = [writers EXCEPT ![p] = @ /\ ~confirmed]
        /\ marker' = [marker EXCEPT ![p] = confirmed]
    /\ UNCHANGED <<rootVars, lock, shellVars, live, database>>

(* Mutant: the marker outlives the start of the writers. *)
StartWritersMarked(p) ==
    /\ pc[p] = "idle"
    /\ ~writers[p] /\ database[p]
    /\ writers' = [writers EXCEPT ![p] = TRUE]
    /\ UNCHANGED <<rootVars, lock, shellVars, live, database, marker>>

(* stack-up.sh removes the marker before it starts the gateway. *)
StartWriters(p) ==
    /\ pc[p] = "idle"
    /\ ~writers[p] /\ database[p]
    /\ writers' = [writers EXCEPT ![p] = TRUE]
    /\ marker' = [marker EXCEPT ![p] = FALSE]
    /\ UNCHANGED <<rootVars, lock, shellVars, live, database>>

(* A workflow commits rows or stores an object, changes them or deletes     *)
(* them: the roles of the services may do all of that.  A row that is       *)
(* updated, or an object that is overwritten, is another fact.              *)
Write(p) ==
    /\ writers[p]
    /\ \E part \in Part, some \in SUBSET Fact :
        live' = [live EXCEPT ![p][part] = some]
    /\ UNCHANGED <<rootVars, lock, shellVars, database, writers, marker>>

(* stack-up.sh runs seed-demo-data.sql on whatever the database holds: what *)
(* became of a seed row is overwritten by the row as it was.                *)
Seed(p) ==
    /\ pc[p] = "idle"
    /\ database[p]
    /\ live' = [live EXCEPT ![p]["pg"] = (@ \ Superseded) \cup SeedRows]
    /\ UNCHANGED <<rootVars, lock, shellVars, database, writers, marker>>

(* The next job starts on a node of its own, with empty stores.             *)
NewAllocation(p) ==
    /\ pc[p] = "idle"
    /\ live' = [live EXCEPT ![p] = Empty]
    /\ database' = [database EXCEPT ![p] = TRUE]
    /\ writers' = [writers EXCEPT ![p] = FALSE]
    /\ marker' = [marker EXCEPT ![p] = FALSE]
    /\ UNCHANGED <<rootVars, lock, shellVars>>

Environment(p) ==
    \/ CallCreate(p)
    \/ ~writers[p] /\ CallRestore(p)
    \/ StopWriters(p) \/ StartWriters(p) \/ Write(p) \/ Seed(p)
    \/ NewAllocation(p)

InitShells ==
    /\ gens = [g \in Gen |-> Blank("none")]
    /\ latest = NoGen
    /\ legacy \in LegacyFound
    /\ lock = NoProc
    /\ pc = [p \in Proc |-> "idle"]
    /\ gen = [p \in Proc |-> NoGen]
    /\ quiesced = [p \in Proc |-> FALSE]
    /\ errexit = [p \in Proc |-> FALSE]
    /\ looked = [p \in Proc |-> {}]
    /\ victims = [p \in Proc |-> {}]

Init ==
    /\ InitShells
    /\ live = [p \in Proc |-> Empty]
    /\ database = [p \in Proc |-> TRUE]
    /\ writers = [p \in Proc |-> FALSE]
    /\ marker = [p \in Proc |-> FALSE]

Step(p) == ShellStep(p) \/ Crash(p) \/ Interrupt(p) \/ Environment(p)

Next == \E p \in Proc : Step(p)

Spec == Init /\ [][Next]_vars

(* Commands terminate and bash runs the next one: a shell that is inside    *)
(* checkpoint.sh takes its next step unless it is killed.                   *)
FairSpec == Spec /\ \A p \in Proc : WF_vars(ShellStep(p))
-----------------------------------------------------------------------------
(* The promise of the whole file: one last-good backup, replaced only as a  *)
(* whole.  A pointer that names anything but a whole generation maps to     *)
(* Damaged, which no step of LastGood reaches.                              *)
CONSTANTS NoBackup, Damaged

Whole(g) == Valid(g) /\ gens[g].have = Part

good == IF latest = NoGen THEN NoBackup
        ELSE IF latest \in Gen /\ Whole(latest) THEN gens[latest].snap
        ELSE Damaged

(* What the shell has been through since it began: a part whose copy is     *)
(* finished, or as much of a bucket as the running mirror has looked at.    *)
LookedAt(p, part) ==
    CASE part = "pg" /\ pc[p] \in Copying \ {"cDump"}              -> Fact
      [] part = "private" /\ pc[p] \in Copying \ {"cDump", "cPrivate"} -> Fact
      [] part = "public" /\ pc[p] \in {"cSeal", "cMove", "cPoint"}  -> Fact
      [] pc[p] \in {"cPrivate", "cPublic"} /\ part = Bucket(pc[p])   -> looked[p]
      [] OTHER                                                      -> {}

read == [p \in Proc |-> [part \in Part |-> LookedAt(p, part)]]
seen == [p \in Proc |-> IF pc[p] \in Copying THEN gens[gen[p]].snap ELSE Empty]

Backup == INSTANCE LastGood

(* The detailed protocol implements the register: between two commits the  *)
(* last-good backup is neither lost nor altered by pruning, by failed or    *)
(* interrupted creations, or by restores in other allocations, and what a   *)
(* commit puts there is exactly what was seen in the stores of one          *)
(* allocation, each row and object looked at while that backup was made,    *)
(* however workflows added, changed and deleted them meanwhile              *)
(* (checkpoint.sh:97-188, comment at 176-177).                              *)
ImplementsLastGood == Backup!Spec

(* `latest`, when it exists, names a finished generation that validates     *)
(* and whose three copies all completed (checkpoint.sh:176-177: readers see *)
(* "either the old last-good or this fully validated generation").          *)
LatestComplete ==
    /\ latest # BadPointer
    /\ latest \in Gen => Whole(latest)

(* A restore about to report success has made the stores of its allocation  *)
(* equal to its source, part by part: nothing of an earlier content is left *)
(* and pruning by another shell has not eaten the source while it was read  *)
(* (checkpoint.sh:201-296; a legacy dump supplies fewer parts).              *)
RestoreExact ==
    \A p \in Proc : pc[p] = "rMark" =>
        \A part \in Supplied(gen[p]) :
            live[p][part] = SourceContent(gen[p])[part]

(* A generation that is committed as consistency=quiesced is one cut of the *)
(* stores: the dump and both mirrors, taken one after the other, show the   *)
(* state the stores still have (checkpoint.sh:117-121, stack-down.sh:35-42).*)
QuiescedIsCut ==
    \A p \in Proc :
        pc[p] \in {"cMove", "cPoint"} /\ quiesced[p] =>
            gens[gen[p]].snap = live[p]

(* Removing a generation leaves at least Keep finished ones, `latest` among *)
(* them, whatever order the node clocks gave the names and whichever shells *)
(* died while pruning (checkpoint.sh:75-95).                                *)
PruneRetains ==
    [][\A g \in Gen : gens[g].dir = "final" /\ gens'[g].dir = "none" =>
          /\ g # latest
          /\ Cardinality({h \in Gen : gens'[h].dir = "final"}) >= Keep]_vars

(* Every path through create and restore, the refusals and failures         *)
(* included, gives the lock back, so no shell can block the others for ever *)
(* (checkpoint_unlock on each return; flock dies with its holder).          *)
LockReleased == \A p \in Proc : lock = p ~> lock # p
=============================================================================
