---------------------------- MODULE MCCheckpoint ----------------------------
(* Model values and symmetry for the configurations of Checkpoint. *)
EXTENDS Checkpoint, TLC

CONSTANTS p1, p2, f1

MCProc    == {p1, p2}
MCOneProc == {p1}
MCFact    == {f1}
MCLegacy  == [part \in Part |-> IF part = "public" THEN {} ELSE {f1}]

(* Shells are interchangeable: nothing compares them, and the runs that use *)
(* this check no liveness.                                                  *)
Shells == Permutations(MCProc)

(* Bounds: one allocation serves and backs up, the other only restores;     *)
Roles == /\ ~writers[p2] /\ ~marker[p2] /\ pc[p2] # "cLock"
         /\ pc[p1] # "rLock"

(* a dump of an older stack is there only until the first checkpoint: after *)
(* that nothing reads it;                                                   *)
LegacyFirst == legacy = "absent" \/ latest = NoGen

(* a restore begins with empty stores or without a database: one into full  *)
(* stores is the rehearsal of StackLifecycle;                               *)
StartsOver == pc[p2] = "idle" => live[p2] = Empty \/ ~database[p2]

(* the one that serves is not replaced by another within the run;           *)
SameAllocation == live'[p1] # live[p1] => writers[p1] /\ writers'[p1]

(* and its public bucket stays empty: its private one shows what a mirror   *)
(* of a changing bucket can see.                                            *)
PublicEmpty == live[p1]["public"] = {}
=============================================================================
