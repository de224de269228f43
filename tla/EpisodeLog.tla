----------------------------- MODULE EpisodeLog -----------------------------
(***************************************************************************)
(* What the MemoryAdapter of learning/base.py promises to the learning     *)
(* loop: a history of immutable episodes that only grows, each id once,    *)
(* and every correction after the episode it corrects.                     *)
(***************************************************************************)
EXTENDS Naturals, Sequences

CONSTANTS Episode, NoId

VARIABLE log

Recorded == {log[i] : i \in DOMAIN log}

(* A correction refers to an older episode of its own scope and split. *)
Admissible(e) ==
    /\ \A old \in Recorded : old.id # e.id
    /\ e.corrects # NoId =>
         \E old \in Recorded : /\ old.id = e.corrects
                               /\ old.scope = e.scope
                               /\ old.split = e.split

Init == log = <<>>

Next == \E e \in Episode : Admissible(e) /\ log' = Append(log, e)

Spec == Init /\ [][Next]_log
=============================================================================
