--------------------------- MODULE MCMemoryStore ---------------------------
(* Model values for the configurations of MemoryStore. *)
EXTENDS MemoryStore, TLC

CONSTANTS c1, c2, e1, e2, s1, s2

MCConn  == {c1, c2}
MCId    == {e1, e2}
MCScope == {s1, s2}

(* Bound: e1 is an original or corrects e2, and the other way round; scopes *)
(* and splits differ where a check compares them.                           *)
MCOffered ==
    LET Ep(id, scope, split, eligible, corrects) ==
            [id |-> id, scope |-> scope, split |-> split, eligible |-> eligible,
             corrects |-> corrects]
    IN  {Ep(e1, s1, "train", 1, NoId), Ep(e1, s1, "dev", 0, NoId),
         Ep(e2, s1, "train", 1, e1), Ep(e2, s2, "train", 1, e1),
         Ep(e2, s1, "dev", 0, NoId), Ep(e1, s1, "dev", 0, e2),
         Ep(e2, s1, "train", 2, NoId)}

Objs == Permutations(MCConn)
=============================================================================
