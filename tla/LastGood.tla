------------------------------ MODULE LastGood ------------------------------
(***************************************************************************)
(* What deploy/soc/stack/checkpoint.sh promises to the allocations that    *)
(* share a checkpoint root: a register that holds the last good backup of  *)
(* somebody's stores.  It is empty at first, it changes only by being      *)
(* replaced as a whole, and it is never emptied again.                     *)
(*                                                                         *)
(* A backup is read off stores that workflows go on changing, so it need   *)
(* not show any one moment of them: but every row and object is looked at  *)
(* while the backup is made, and the backup holds exactly what was seen.   *)
(***************************************************************************)
CONSTANTS Proc, Part, Fact, NoBackup

VARIABLES
    good,   \* the last-good backup, NoBackup when there is none
    live,   \* what the stores of each allocation hold
    read,   \* what a shell that makes a backup has looked at,
    seen    \* and what of that was there

Content == [Part -> SUBSET Fact]
Empty   == [part \in Part |-> {}]

Init ==
    /\ good = NoBackup
    /\ live \in [Proc -> Content]
    /\ read = [p \in Proc |-> Empty]
    /\ seen = [p \in Proc |-> Empty]

Look(p) ==
    /\ \E part \in Part, some \in SUBSET Fact :
        /\ read' = [read EXCEPT ![p][part] = @ \cup some]
        /\ seen' = [seen EXCEPT ![p][part] = (@ \ some) \cup (live[p][part] \cap some)]
    /\ UNCHANGED <<good, live>>

Forget(p) ==
    /\ read' = [read EXCEPT ![p] = Empty]
    /\ seen' = [seen EXCEPT ![p] = Empty]
    /\ UNCHANGED live

Abandon(p) == Forget(p) /\ UNCHANGED good

Publish(p) ==
    /\ \A part \in Part : read[p][part] = Fact
    /\ good' = seen[p]
    /\ Forget(p)

(* Workflows write and delete, restores replace: not this register's        *)
(* business.                                                                *)
Work ==
    /\ live' \in [Proc -> Content]
    /\ UNCHANGED <<good, read, seen>>

Next == Work \/ \E p \in Proc : Look(p) \/ Abandon(p) \/ Publish(p)

Spec == Init /\ [][Next]_<<good, live, read, seen>>
=============================================================================
