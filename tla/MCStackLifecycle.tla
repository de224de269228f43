-------------------------- MODULE MCStackLifecycle --------------------------
(* Model values for the configurations of StackLifecycle. *)
EXTENDS StackLifecycle, TLC

CONSTANTS p1, p2, f1

MCProc     == {p1, p2}
MCOneProc  == {p1}
MCFact     == {f1}
MCSeed     == {f1}
MCLegacy   == [part \in Part |-> IF part = "public" THEN {} ELSE {f1}]

(* Bound: the public bucket stays empty; the private one shows what a       *)
(* mirror of a changing bucket can see.                                     *)
PublicEmpty == \A p \in Proc : live[p]["public"] = {}

(* Bound: what an older stack left is there only until the first checkpoint *)
(* is: after that nothing reads it.                                         *)
LegacyFirst == legacy = "absent" \/ latest = NoGen

(* Bound: the jobs of one node rehearse, those of the other serve. *)
OneRehearses == \A p \in Proc : At(p, "off") /\ stage'[p] = "boot" =>
                   mode'[p] = IF p = p1 THEN "test" ELSE "serve"
=============================================================================
