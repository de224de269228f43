----------------------- MODULE ProcessOwnershipProofs -----------------------
(***************************************************************************)
(* Theorems about ProcessOwnership, for any number of services, processes  *)
(* and pids.  What the scripts rely on: pids and groups name one process   *)
(* and one service at a time, a record and a listed line keep naming what  *)
(* they were written for, and the marker comes from a walk over all        *)
(* services.                                                               *)
(***************************************************************************)
EXTENDS ProcessOwnership, TLAPS

(* Where the script is, and what it then holds. *)
ScriptInv ==
    /\ pc \in {"up", "launched", "term", "kill"} => at \in 1..Len(Writers)
    /\ pc = "down" => at \in 1..(Len(Writers) + 1)
    /\ (pc = "launched") <=> (fresh # NoId)
    /\ (pc = "launched") <=> (child # NoPid)
    /\ pc = "launched" => rec[Writers[at]] = NoRecord
    /\ pc \in {"term", "kill"} => rec[Writers[at]] \in Entry
    /\ pc \notin {"term", "kill"} => snap = {} /\ owed = {}

(* Pids, groups and family trees among the processes there are. *)
PidInv ==
    \A i \in Id : Present(i) => proc[i].pid \in Pid /\ proc[i].pgid \in Pid

OneHolderInv ==
    \A i, j \in Id : Present(i) /\ Present(j) /\ proc[i].pid = proc[j].pid => i = j

GroupInv ==
    \A i, j \in Id : Present(i) /\ Present(j) /\ proc[i].pgid = proc[j].pgid
                       => proc[i].svc = proc[j].svc

FamilyInv ==
    \A i \in Id : Present(i) /\ proc[i].parent # NoId =>
        /\ proc[proc[i].parent].state = "running"
        /\ proc[proc[i].parent].svc = proc[i].svc

LeaderInv ==
    \A i \in Id : Present(i) /\ proc[i].leader => proc[i].svc \in Service

ProcInv == PidInv /\ OneHolderInv /\ GroupInv /\ FamilyInv /\ LeaderInv

(* i is, or was, the launched process of s; or one of s, or of an owner     *)
(* whose process a launch took for its child.                               *)
LedBy(s, i) ==
    /\ proc[i].state # "unborn"
    /\ Present(i) => proc[i].svc = s /\ proc[i].leader

NamedFor(s, i) ==
    /\ proc[i].state # "unborn"
    /\ Present(i) => proc[i].svc \in {s} \cup mistaken

(* Records, the launched process and listed lines keep their meaning.       *)
RecInv ==
    \A s \in Service : rec[s] \in Entry =>
        /\ NamedFor(s, rec[s].start)
        /\ Present(rec[s].start) => EntryOf(rec[s].start) = rec[s]

FreshInv ==
    pc = "launched" =>
        /\ LedBy(Writers[at], fresh)
        /\ Present(fresh) => proc[fresh].pid = child

SnapInv ==
    \A e \in snap :
        /\ NamedFor(Writers[at], e.start)
        /\ Present(e.start) => EntryOf(e.start) = e

OwedInv ==
    \A i \in owed : /\ proc[i].state # "unborn"
                    /\ Running(i) => EntryOf(i) \in snap

NameInv == RecInv /\ FreshInv /\ SnapInv /\ OwedInv

(* How far a stop of all services has come, and what its marker says. *)
MarkerInv ==
    /\ pc \in {"down", "term", "kill"} /\ ok =>
         \A k \in 1..(at - 1) : rec[Writers[k]] = NoRecord
    /\ marker => /\ pc \notin {"up", "launched"}
                 /\ \A s \in Service : rec[s] = NoRecord

IInv ==
    /\ TypeOK /\ ScriptInv /\ ProcInv /\ NameInv /\ MarkerInv
    /\ OnlyOwnSignalled

(* A step after which everybody who is left is who they were.               *)
Continues ==
    \A i \in Id : proc[i].state # "unborn" =>
        /\ proc'[i].state # "unborn"
        /\ Present(i)' => /\ Present(i)
                          /\ proc'[i].svc = proc[i].svc
                          /\ proc'[i].leader = proc[i].leader
                          /\ EntryOf(i)' = EntryOf(i)
        /\ Running(i)' => Running(i)

-----------------------------------------------------------------------------
(* The operating system keeps ProcInv *)

(* A free pid is neither the pid nor the group of a process there is.       *)
LEMMA FreePids ==
    ASSUME NEW q \in FreePid, NEW i \in Id, Present(i)
    PROVE  q \in Pid /\ q # proc[i].pid /\ q # proc[i].pgid
BY DEF FreePid, TakenPid

(* A birth on a free pid, in a group of its own or that of its own service. *)
LEMMA BirthKeeps ==
    ASSUME TypeOK, ProcInv,
           NEW i \in Unused, NEW q \in FreePid, NEW group,
           NEW mother \in Id \cup {NoId}, NEW owner \in Service \cup {Other},
           NEW led \in BOOLEAN,
           \/ group = q
           \/ \E m \in Id : Running(m) /\ group = proc[m].pgid /\ owner = proc[m].svc,
           mother # NoId => Running(mother) /\ owner = proc[mother].svc,
           led => owner \in Service,
           Born(i, q, group, mother, owner, led)
    PROVE  ProcInv' /\ Continues /\ proc' \in [Id -> Process]
<1>1. i \in Id /\ proc[i].state = "unborn" /\ q \in Pid
  BY DEF Unused, FreePid
<1>2. ~Present(i) /\ ~Running(i)
  BY <1>1 DEF Present, Running
<1>3. group \in Pid
  BY <1>1 DEF ProcInv, PidInv, Running, Present
<1>4. /\ proc'[i] = [state |-> "running", pid |-> q, pgid |-> group,
                     parent |-> mother, svc |-> owner, leader |-> led]
      /\ \A j \in Id : j # i => proc'[j] = proc[j]
  BY <1>1 DEF Born, TypeOK
<1>5. proc' \in [Id -> Process]
  BY <1>1, <1>3 DEF Born, TypeOK, Process
<1>6. Continues
  BY <1>1, <1>4 DEF Continues, Present, Running, EntryOf
<1>7. Present(i)' /\ \A j \in Id : j # i => (Present(j)' <=> Present(j))
  BY <1>4 DEF Present
<1>8. ProcInv'
  <2>1. PidInv'
    BY <1>1, <1>3, <1>4, <1>7 DEF ProcInv, PidInv
  <2>2. OneHolderInv'
    BY <1>4, <1>7, FreePids DEF ProcInv, OneHolderInv
  <2>3. GroupInv'
    <3>1. \A j \in Id : j # i /\ Present(j) /\ proc[j].pgid = group => proc[j].svc = owner
      BY FreePids DEF ProcInv, GroupInv, Running, Present
    <3> QED BY <3>1, <1>4, <1>7 DEF ProcInv, GroupInv
  <2>4. FamilyInv'
    <3> SUFFICES ASSUME NEW j \in Id, Present(j)', proc'[j].parent # NoId
                 PROVE  /\ proc'[proc'[j].parent].state = "running"
                        /\ proc'[proc'[j].parent].svc = proc'[j].svc
      BY DEF FamilyInv
    <3>1. CASE j = i
      BY <3>1, <1>1, <1>4 DEF Running
    <3>2. CASE j # i
      <4>1. /\ proc[proc[j].parent].state = "running"
            /\ proc[proc[j].parent].svc = proc[j].svc
        BY <3>2, <1>4, <1>7 DEF ProcInv, FamilyInv
      <4>2. proc[j].parent \in Id
        BY <3>2, <1>4 DEF TypeOK, Process
      <4> QED BY <4>1, <4>2, <3>2, <1>1, <1>4
    <3> QED BY <3>1, <3>2
  <2>5. LeaderInv'
    BY <1>4, <1>7 DEF ProcInv, LeaderInv
  <2> QED BY <2>1, <2>2, <2>3, <2>4, <2>5 DEF ProcInv
<1> QED BY <1>5, <1>6, <1>8

(* Exits leave no child with a dead parent.                                 *)
LEMMA EndKeeps ==
    ASSUME TypeOK, ProcInv, NEW dead \in SUBSET Id, \A i \in dead : Running(i),
           Ended(dead)
    PROVE  /\ ProcInv' /\ Continues /\ proc' \in [Id -> Process]
           /\ \A i \in Id : Running(i)' => Running(i) /\ i \notin dead
           /\ \A i \in Id : proc'[i].svc = proc[i].svc
<1>1. \A j \in Id :
        proc'[j] = [proc[j] EXCEPT !.state = IF j \in dead THEN "zombie" ELSE @,
                                   !.parent = IF @ \in dead THEN NoId ELSE @]
  BY DEF Ended
<1>3. \A j \in Id : /\ proc'[j].pid = proc[j].pid /\ proc'[j].pgid = proc[j].pgid
                    /\ proc'[j].svc = proc[j].svc /\ proc'[j].leader = proc[j].leader
                    /\ proc'[j].state = (IF j \in dead THEN "zombie" ELSE proc[j].state)
                    /\ proc'[j].parent = (IF proc[j].parent \in dead THEN NoId
                                          ELSE proc[j].parent)
                    /\ proc'[j] \in Process
  <2> SUFFICES ASSUME NEW j \in Id
               PROVE  /\ proc'[j].pid = proc[j].pid /\ proc'[j].pgid = proc[j].pgid
                      /\ proc'[j].svc = proc[j].svc /\ proc'[j].leader = proc[j].leader
                      /\ proc'[j].state = (IF j \in dead THEN "zombie" ELSE proc[j].state)
                      /\ proc'[j].parent = (IF proc[j].parent \in dead THEN NoId
                                            ELSE proc[j].parent)
                      /\ proc'[j] \in Process
    OBVIOUS
  <2>1. proc[j] \in Process
    BY DEF TypeOK
  <2> DEFINE s == IF j \in dead THEN "zombie" ELSE proc[j].state
             m == IF proc[j].parent \in dead THEN NoId ELSE proc[j].parent
  <2>2. s \in {"unborn", "running", "zombie", "gone"} /\ m \in Id \cup {NoId}
    BY <2>1 DEF Process
  <2>3. proc'[j] = [proc[j] EXCEPT !.state = s, !.parent = m]
    BY <1>1
  <2> HIDE DEF s, m
  <2>4. /\ proc'[j].pid = proc[j].pid /\ proc'[j].pgid = proc[j].pgid
        /\ proc'[j].svc = proc[j].svc /\ proc'[j].leader = proc[j].leader
        /\ proc'[j].state = s /\ proc'[j].parent = m
        /\ proc'[j] \in Process
    BY <2>1, <2>2, <2>3 DEF Process
  <2> QED BY <2>4 DEF s, m
<1>2. proc' \in [Id -> Process]
  BY <1>3 DEF Ended
<1>4. \A j \in Id : Present(j)' <=> Present(j)
  BY <1>3 DEF Present, Running
<1>5. \A j \in Id : Running(j)' <=> Running(j) /\ j \notin dead
  BY <1>3 DEF Running
<1>6. Continues
  BY <1>3, <1>4, <1>5 DEF Continues, EntryOf
<1>7. ProcInv'
  <2>1. FamilyInv'
    <3> SUFFICES ASSUME NEW j \in Id, Present(j)', proc'[j].parent # NoId
                 PROVE  /\ proc'[proc'[j].parent].state = "running"
                        /\ proc'[proc'[j].parent].svc = proc'[j].svc
      BY DEF FamilyInv
    <3>1. proc[j].parent \notin dead /\ proc'[j].parent = proc[j].parent
      BY <1>3
    <3>2. proc[j].parent \in Id
      BY <3>1 DEF TypeOK, Process
    <3>3. proc[proc[j].parent].state = "running" /\ proc[proc[j].parent].svc = proc[j].svc
      BY <3>1, <1>4 DEF ProcInv, FamilyInv
    <3> QED BY <3>1, <3>2, <3>3, <1>3
  <2>2. PidInv' /\ LeaderInv'
    BY <1>3, <1>4 DEF ProcInv, PidInv, LeaderInv
  <2>3. OneHolderInv' /\ GroupInv'
    BY <1>3, <1>4 DEF ProcInv, OneHolderInv, GroupInv
  <2> QED BY <2>1, <2>2, <2>3 DEF ProcInv
<1> QED BY <1>2, <1>3, <1>5, <1>6, <1>7

LEMMA ReapKeeps ==
    ASSUME TypeOK, ProcInv, NEW z \in Id, proc[z].state = "zombie",
           proc' = [proc EXCEPT ![z] = Blank("gone")]
    PROVE  /\ ProcInv' /\ Continues /\ proc' \in [Id -> Process]
           /\ \A i \in Id : Running(i)' => Running(i)
<1>1. proc'[z] = Blank("gone") /\ \A j \in Id : j # z => proc'[j] = proc[j]
  BY DEF TypeOK
<1>2. proc' \in [Id -> Process]
  BY DEF TypeOK, Process, Blank
<1>3. \A j \in Id : Present(j)' <=> Present(j) /\ j # z
  BY <1>1 DEF Present, Blank
<1>4. Continues
  <2>1. \A j \in Id : j # z => /\ EntryOf(j)' = EntryOf(j)
                               /\ Running(j)' <=> Running(j)
    BY <1>1 DEF EntryOf, Running
  <2>2. ~Running(z)' /\ proc'[z].state # "unborn"
    BY <1>1 DEF Running, Blank
  <2> QED BY <1>1, <1>3, <2>1, <2>2 DEF Continues
<1>5. ProcInv'
  <2>1. FamilyInv'
    <3> SUFFICES ASSUME NEW j \in Id, Present(j)', proc'[j].parent # NoId
                 PROVE  /\ proc'[proc'[j].parent].state = "running"
                        /\ proc'[proc'[j].parent].svc = proc'[j].svc
      BY DEF FamilyInv
    <3>1. proc[proc[j].parent].state = "running" /\ proc[proc[j].parent].svc = proc[j].svc
      BY <1>1, <1>3 DEF ProcInv, FamilyInv
    <3>2. proc[j].parent \in Id /\ proc[j].parent # z
      BY <3>1, <1>1, <1>3 DEF TypeOK, Process
    <3> QED BY <3>1, <3>2, <1>1, <1>3
  <2>2. PidInv' /\ LeaderInv'
    BY <1>1, <1>3 DEF ProcInv, PidInv, LeaderInv
  <2>3. OneHolderInv' /\ GroupInv'
    BY <1>1, <1>3 DEF ProcInv, OneHolderInv, GroupInv
  <2> QED BY <2>1, <2>2, <2>3 DEF ProcInv
<1>6. \A j \in Id : Running(j)' => Running(j)
  BY <1>1 DEF Running, Blank
<1> QED BY <1>2, <1>4, <1>5, <1>6

LEMMA SameProcesses ==
    ASSUME proc' = proc
    PROVE  Continues /\ (ProcInv => ProcInv')
BY DEF Continues, EntryOf, Present, Running,
       ProcInv, PidInv, OneHolderInv, GroupInv, FamilyInv, LeaderInv

-----------------------------------------------------------------------------
(* What the checks of process-lib.sh find out *)

LEMMA AliveNames ==
    ASSUME NEW e \in Entry
    PROVE  Alive(e) <=> Running(e.start) /\ proc[e.start].pid = e.pid
BY DEF Alive, Entry

(* Who passes the check of identity, group and deployment is the process    *)
(* the entry was written for, and its group is its service's.               *)
LEMMA OwnedNames ==
    ASSUME TypeOK, ProcInv, NEW e \in Entry, Owned(e),
           Present(e.start) => EntryOf(e.start) = e
    PROVE  /\ Running(e.start) /\ Present(e.start) /\ e.start \in Members(e.pgid)
           /\ \A i \in Members(e.pgid) :
                Running(i) /\ proc[i].svc = proc[e.start].svc
<1>1. e.start \in Id /\ Running(e.start)
  BY AliveNames DEF Owned, Entry
<1>2. Present(e.start)
  BY <1>1 DEF Running, Present
<1>3. proc[e.start].pgid = e.pgid
  BY <1>2 DEF EntryOf
<1>4. \A i \in Members(e.pgid) : i \in Id /\ Running(i) /\ Present(i) /\ proc[i].pgid = e.pgid
  BY DEF Members, Running, Present
<1>5. \A i \in Members(e.pgid) : proc[i].svc = proc[e.start].svc
  BY <1>1, <1>2, <1>3, <1>4 DEF ProcInv, GroupInv
<1>6. e.start \in Members(e.pgid)
  BY <1>1, <1>3 DEF Members
<1> QED BY <1>1, <1>2, <1>4, <1>5, <1>6

(* All descendants belong to the service of their ancestor.                 *)
LEMMA DescendantsOfService ==
    ASSUME TypeOK, ProcInv, NEW i \in Id, Present(i), NEW j \in Descendants(i)
    PROVE  j \in Id /\ Present(j) /\ proc[j].svc = proc[i].svc
<1> DEFINE S == {k \in Id : proc[k].svc = proc[i].svc}
<1>1. S \in SUBSET Id /\ i \in S
  OBVIOUS
<1>2. \A k \in Id : Present(k) /\ proc[k].parent \in S => k \in S
  BY NoIdAssumption DEF ProcInv, FamilyInv
<1>3. j \in S
  BY <1>1, <1>2 DEF Descendants
<1> QED BY <1>3 DEF Descendants

LEMMA WriterIsService ==
    ASSUME NEW k \in 1..Len(Writers)
    PROVE  Writers[k] \in Service
BY WritersAssumption DEF Service

LEMMA ServiceIsWriter ==
    ASSUME NEW s \in Service
    PROVE  \E k \in 1..Len(Writers) : s = Writers[k]
BY WritersAssumption DEF Service

(* The records that are left go on naming what they were written for.       *)
LEMMA RecKept ==
    ASSUME TypeOK, NameInv, Continues, mistaken \subseteq mistaken',
           \A s \in Service : rec'[s] \in Entry => rec'[s] = rec[s]
    PROVE  RecInv'
<1> SUFFICES ASSUME NEW s \in Service, rec'[s] \in Entry
             PROVE  /\ NamedFor(s, rec[s].start)'
                    /\ Present(rec[s].start)' => EntryOf(rec[s].start)' = rec[s]
  BY DEF RecInv
<1>1. rec[s] \in Entry /\ rec[s].start \in Id /\ NamedFor(s, rec[s].start)
  BY DEF NameInv, RecInv, Entry
<1>2. NamedFor(s, rec[s].start)'
  BY <1>1 DEF NamedFor, Continues
<1>3. Present(rec[s].start)' => EntryOf(rec[s].start)' = rec[s]
  BY <1>1 DEF NameInv, RecInv, Continues, NamedFor
<1> QED BY <1>2, <1>3

(* Names go on meaning what they did when the process table changes.        *)
LEMMA NamesKept ==
    ASSUME TypeOK, ScriptInv, NameInv, Continues, mistaken \subseteq mistaken',
           UNCHANGED <<rec, at, fresh, child, snap, owed>>, pc' = "launched" => pc = "launched"
    PROVE  NameInv'
<1>1. \A s \in Service, i \in Id : LedBy(s, i) => LedBy(s, i)'
  BY DEF LedBy, Continues
<1>2. RecInv'
  BY RecKept
<1>3. FreshInv'
  <2> SUFFICES ASSUME pc = "launched"
               PROVE  /\ LedBy(Writers[at], fresh)'
                      /\ Present(fresh)' => proc'[fresh].pid = child
    BY DEF FreshInv
  <2>1. /\ fresh \in Id /\ Writers[at] \in Service
        /\ LedBy(Writers[at], fresh)
        /\ Present(fresh) => proc[fresh].pid = child
    BY WriterIsService DEF NameInv, FreshInv, ScriptInv, TypeOK
  <2>2. LedBy(Writers[at], fresh)'
    BY <1>1, <2>1
  <2>3. Present(fresh)' => proc'[fresh].pid = child
    BY <2>1 DEF LedBy, Continues, EntryOf
  <2> QED BY <2>2, <2>3
<1>4. SnapInv'
  BY DEF NameInv, SnapInv, NamedFor, Continues, TypeOK, Entry
<1>5. OwedInv'
  BY DEF NameInv, OwedInv, Continues, TypeOK, Running, Present
<1> QED BY <1>2, <1>3, <1>4, <1>5 DEF NameInv

-----------------------------------------------------------------------------
(* The steps of the operating system *)

LEMMA SystemStep ==
    ASSUME IInv, UNCHANGED <<rec, marker, script, mistaken>>, lost' \in SUBSET lost, signalled' = {},
           ProcInv' /\ Continues /\ proc' \in [Id -> Process]
    PROVE  IInv'
<1>1. TypeOK'
  BY DEF IInv, TypeOK, script
<1>2. ScriptInv' /\ MarkerInv'
  BY DEF IInv, ScriptInv, MarkerInv, script
<1>3. NameInv'
  BY NamesKept DEF IInv, script
<1>4. OnlyOwnSignalled'
  BY DEF OnlyOwnSignalled
<1> QED BY <1>1, <1>2, <1>3, <1>4 DEF IInv

LEMMA ForkStep ==
    ASSUME IInv, NEW i \in Id, Fork(i), signalled' = {}
    PROVE  IInv'
<1>1. PICK j \in Unused, q \in FreePid : \E group \in {proc[i].pgid, q} :
        Born(j, q, group, i, proc[i].svc, FALSE)
  BY DEF Fork
<1>2. PICK group \in {proc[i].pgid, q} : Born(j, q, group, i, proc[i].svc, FALSE)
  BY <1>1
<1>3. /\ \/ group = q
         \/ \E m \in Id : Running(m) /\ group = proc[m].pgid /\ proc[i].svc = proc[m].svc
      /\ i # NoId => Running(i) /\ proc[i].svc = proc[i].svc
      /\ proc[i].svc \in Service \cup {Other} /\ i \in Id \cup {NoId}
  BY DEF Fork, IInv, TypeOK, Process
<1>4. ProcInv' /\ Continues /\ proc' \in [Id -> Process]
  BY <1>2, <1>3, BirthKeeps DEF IInv
<1> QED BY <1>4, SystemStep DEF Fork

LEMMA StrangerStep ==
    ASSUME IInv, Stranger, signalled' = {}
    PROVE  IInv'
<1>1. PICK j \in Unused, q \in FreePid : Born(j, q, q, NoId, Other, FALSE)
  BY DEF Stranger
<1>2. ProcInv' /\ Continues /\ proc' \in [Id -> Process]
  BY <1>1, BirthKeeps DEF IInv
<1> QED BY <1>2, SystemStep DEF Stranger

LEMMA ExitStep ==
    ASSUME IInv, NEW i \in Id, Exit(i), signalled' = {}
    PROVE  IInv'
<1>1. ProcInv' /\ Continues /\ proc' \in [Id -> Process]
  BY EndKeeps DEF IInv, Exit
<1> QED BY <1>1, SystemStep DEF Exit

LEMMA ReapStep ==
    ASSUME IInv, NEW i \in Id, Reap(i), signalled' = {}
    PROVE  IInv'
<1>1. ProcInv' /\ Continues /\ proc' \in [Id -> Process]
  BY ReapKeeps DEF IInv, Reap
<1> QED BY <1>1, SystemStep DEF Reap
-----------------------------------------------------------------------------
(* The steps of the scripts that leave the processes alone *)

(* At most records are removed, and the line between two stops is blank.    *)
LEMMA Unmoved ==
    ASSUME IInv, proc' = proc, snap' = {}, owed' = {}, pc' # "launched",
           mistaken \subseteq mistaken',
           \A s \in Service : rec'[s] \in Entry => rec'[s] = rec[s]
    PROVE  ProcInv' /\ NameInv'
<1>1. ProcInv'
  BY SameProcesses DEF IInv
<1>2. RecInv'
  BY SameProcesses, RecKept DEF IInv
<1>3. FreshInv' /\ SnapInv' /\ OwedInv'
  BY DEF FreshInv, SnapInv, OwedInv
<1> QED BY <1>1, <1>2, <1>3 DEF NameInv

LEMMA StackUpStep ==
    ASSUME IInv, StackUp, signalled' = {}
    PROVE  IInv'
<1>1. Len(Writers) \in Nat /\ Len(Writers) > 0
  BY WritersAssumption
<1>2. pc = "idle" /\ snap = {} /\ owed = {} /\ fresh = NoId
  BY DEF StackUp, IInv, ScriptInv
<1>3. /\ Len(Writers) \in 1..Len(Writers) /\ Len(Writers) \in 0..(Len(Writers) + 1)
      /\ pc' = "up" /\ at' = Len(Writers) /\ marker' = FALSE
      /\ UNCHANGED <<proc, rec, ok, fresh, child, snap, owed, lost, mistaken>>
  BY <1>1 DEF StackUp
<1>5. TypeOK'
  BY <1>3 DEF IInv, TypeOK
<1>6. ScriptInv' /\ MarkerInv'
  BY <1>2, <1>3 DEF IInv, ScriptInv, MarkerInv
<1>7. ProcInv' /\ NameInv'
  BY <1>2, <1>3, Unmoved
<1> QED BY <1>7, <1>5, <1>6 DEF IInv, OnlyOwnSignalled

LEMMA AdoptStep ==
    ASSUME IInv, NEW s \in Service, Adopt(s), signalled' = {}
    PROVE  IInv'
<1>1. Len(Writers) \in Nat /\ Len(Writers) > 0
  BY WritersAssumption
<1>2. /\ pc = "up" /\ snap = {} /\ owed = {} /\ fresh = NoId
      /\ at \in 1..Len(Writers) /\ ~marker
  BY DEF Adopt, IInv, ScriptInv, MarkerInv
<1>3. /\ at' = at - 1 /\ pc' = (IF at = 1 THEN "idle" ELSE "up")
      /\ UNCHANGED <<proc, rec, marker, ok, fresh, child, snap, owed, lost, mistaken>>
  BY DEF Adopt, Upward
<1>4. TypeOK' /\ ScriptInv' /\ MarkerInv'
  BY <1>1, <1>2, <1>3 DEF IInv, TypeOK, ScriptInv, MarkerInv
<1>5. ProcInv' /\ NameInv'
  BY <1>2, <1>3, Unmoved
<1> QED BY <1>4, <1>5 DEF IInv, OnlyOwnSignalled

LEMMA RefuseStep ==
    ASSUME IInv, NEW s \in Service, Refuse(s), signalled' = {}
    PROVE  IInv'
<1>1. /\ pc = "up" /\ snap = {} /\ owed = {} /\ fresh = NoId
      /\ at \in 1..Len(Writers) /\ ~marker
  BY DEF Refuse, IInv, ScriptInv, MarkerInv
<1>2. TypeOK' /\ ScriptInv' /\ MarkerInv'
  BY <1>1, WritersAssumption DEF Refuse, IInv, TypeOK, ScriptInv, MarkerInv
<1>3. ProcInv' /\ NameInv'
  BY <1>1, Unmoved DEF Refuse
<1> QED BY <1>2, <1>3 DEF IInv, OnlyOwnSignalled

LEMMA StackDownStep ==
    ASSUME IInv, StackDown, signalled' = {}
    PROVE  IInv'
<1>1. Len(Writers) \in Nat /\ Len(Writers) > 0
  BY WritersAssumption
<1>2. pc = "idle" /\ snap = {} /\ owed = {} /\ fresh = NoId
  BY DEF StackDown, IInv, ScriptInv
<1>3. TypeOK' /\ ScriptInv' /\ MarkerInv'
  BY <1>1, <1>2 DEF StackDown, IInv, TypeOK, ScriptInv, MarkerInv
<1>4. ProcInv' /\ NameInv'
  BY <1>2, Unmoved DEF StackDown
<1> QED BY <1>3, <1>4 DEF IInv, OnlyOwnSignalled

(* One service is done with: whatever its stop came to, a stop that counts  *)
(* as successful has left no record.                                        *)
LEMMA ProceedStep ==
    ASSUME IInv, NEW s \in Service, NEW stopped \in BOOLEAN,
           s = Writers[at], at \in 1..Len(Writers), pc \in {"down", "term", "kill"},
           Proceed(stopped), stopped => rec'[s] = NoRecord,
           rec' = rec \/ rec' = [rec EXCEPT ![s] = NoRecord],
           UNCHANGED <<proc, marker, fresh, child, lost, mistaken>>, signalled' = {}
    PROVE  IInv'
<1>1. /\ at' = at + 1 /\ pc' = "down" /\ ok' = (ok /\ stopped)
      /\ snap' = {} /\ owed' = {} /\ fresh = NoId
      /\ Len(Writers) \in Nat /\ at \in Nat
  BY WritersAssumption DEF Proceed, IInv, ScriptInv
<1>2. /\ rec' \in [Service -> Entry \cup {NoRecord, Torn}]
      /\ \A r \in Service : rec'[r] = rec[r] \/ rec'[r] = NoRecord
  BY DEF IInv, TypeOK
<1>3. TypeOK' /\ ScriptInv'
  BY <1>1, <1>2 DEF IInv, TypeOK, ScriptInv
<1>4. MarkerInv'
  <2>1. ok' => \A k \in 1..at : rec'[Writers[k]] = NoRecord
    <3> SUFFICES ASSUME ok', NEW k \in 1..at
                 PROVE  rec'[Writers[k]] = NoRecord
      OBVIOUS
    <3>4. (k = at \/ k \in 1..(at - 1)) /\ k \in 1..Len(Writers)
      BY <1>1
    <3>5. ok /\ stopped
      BY <1>1, Zenon
    <3>1. ok /\ stopped /\ (k = at \/ k \in 1..(at - 1)) /\ k \in 1..Len(Writers)
      BY <3>4, <3>5
    <3>2. CASE k = at
      BY <3>1, <3>2
    <3>3. CASE k \in 1..(at - 1)
      BY <3>1, <3>3, <1>2, WriterIsService DEF IInv, MarkerInv
    <3> QED BY <3>1, <3>2, <3>3
  <2>2. (at + 1) - 1 = at
    BY <1>1
  <2> QED BY <1>1, <1>2, <2>1, <2>2 DEF IInv, MarkerInv
<1>5. ProcInv' /\ NameInv'
  BY <1>1, <1>2, RecordAssumption, Unmoved
<1> QED BY <1>3, <1>4, <1>5 DEF IInv, OnlyOwnSignalled

LEMMA StopUntrackedStep ==
    ASSUME IInv, NEW s \in Service, StopUntracked(s), signalled' = {}
    PROVE  IInv'
<1>1. at \in 1..Len(Writers) /\ s = Writers[at] /\ pc = "down" /\ rec \in [Service -> Entry \cup {NoRecord, Torn}]
  BY WritersAssumption DEF StopUntracked, IInv, ScriptInv, TypeOK
<1>2. \/ rec[s] = NoRecord /\ Proceed(TRUE) /\ rec' = rec
      \/ Proceed(TRUE) /\ rec' = [rec EXCEPT ![s] = NoRecord]
      \/ Proceed(FALSE) /\ rec' = rec
  BY DEF StopUntracked
<1>3. UNCHANGED <<proc, marker, fresh, child, lost, mistaken>>
  BY DEF StopUntracked
<1> QED BY <1>1, <1>2, <1>3, ProceedStep

LEMMA TermRefusedStep ==
    ASSUME IInv, NEW s \in Service, TermRefused(s), signalled' = {}
    PROVE  IInv'
<1>1. at \in 1..Len(Writers)
  BY DEF TermRefused, IInv, ScriptInv
<1> QED BY <1>1, ProceedStep DEF TermRefused

LEMMA StopConfirmedStep ==
    ASSUME IInv, NEW s \in Service, StopConfirmed(s), signalled' = {}
    PROVE  IInv'
<1>1. at \in 1..Len(Writers) /\ rec \in [Service -> Entry \cup {NoRecord, Torn}]
  BY DEF StopConfirmed, IInv, ScriptInv, TypeOK
<1> QED BY <1>1, ProceedStep DEF StopConfirmed

LEMMA StopSurvivedStep ==
    ASSUME IInv, NEW s \in Service, StopSurvived(s), signalled' = {}
    PROVE  IInv'
<1>1. at \in 1..Len(Writers)
  BY DEF StopSurvived, IInv, ScriptInv
<1> QED BY <1>1, ProceedStep DEF StopSurvived

LEMMA MarkStep ==
    ASSUME IInv, Mark, signalled' = {}
    PROVE  IInv'
<1>1. /\ Len(Writers) \in Nat /\ at = Len(Writers) + 1 /\ at - 1 = Len(Writers)
      /\ pc = "down" /\ snap = {} /\ owed = {} /\ fresh = NoId
  BY WritersAssumption DEF Mark, IInv, ScriptInv
<1>2. ok => \A s \in Service : rec[s] = NoRecord
  BY <1>1, ServiceIsWriter DEF IInv, MarkerInv
<1>3. TypeOK' /\ ScriptInv' /\ MarkerInv'
  BY <1>1, <1>2 DEF Mark, IInv, TypeOK, ScriptInv, MarkerInv
<1>4. ProcInv' /\ NameInv'
  BY <1>1, Unmoved DEF Mark
<1> QED BY <1>3, <1>4 DEF IInv, OnlyOwnSignalled

LEMMA ScriptDiesStep ==
    ASSUME IInv, ScriptDies, signalled' = {}
    PROVE  IInv'
<1>1. Len(Writers) \in Nat /\ (fresh # NoId => fresh \in Id)
  BY WritersAssumption DEF IInv, TypeOK
<1>2. TypeOK' /\ ScriptInv' /\ MarkerInv'
  BY <1>1 DEF ScriptDies, IInv, TypeOK, ScriptInv, MarkerInv
<1>3. ProcInv' /\ NameInv'
  BY Unmoved DEF ScriptDies
<1> QED BY <1>2, <1>3 DEF IInv, OnlyOwnSignalled

LEMMA LaunchFailsStep ==
    ASSUME IInv, NEW s \in Service, LaunchFails(s)
    PROVE  IInv'
<1>1. /\ pc = "launched" /\ fresh \in Id /\ snap = {} /\ owed = {} /\ ~marker
      /\ Len(Writers) \in Nat /\ LedBy(Writers[at], fresh)
      /\ mistaken' = mistaken \cup {proc[i].svc : i \in Holders \ {fresh}}
  BY WritersAssumption DEF LaunchFails, Mistake, IInv, ScriptInv, TypeOK, NameInv, FreshInv, MarkerInv
<1>2. TypeOK' /\ ScriptInv' /\ MarkerInv'
  <2>1. mistaken' \subseteq Service \cup {Other}
    BY <1>1 DEF Holders, IInv, TypeOK, Process
  <2> QED BY <1>1, <2>1 DEF LaunchFails, Holders, IInv, TypeOK, ScriptInv, MarkerInv
<1>3. ProcInv' /\ NameInv'
  BY <1>1, Unmoved DEF LaunchFails
<1>4. OnlyOwnSignalled'
  <2>1. \A i \in signalled' : i \in Id /\ Present(i) /\ i \in Holders
    BY DEF LaunchFails, Holders
  <2>2. \A i \in signalled' : proc[i].svc \in {Writers[at]} \cup mistaken'
    BY <1>1, <2>1 DEF LedBy
  <2> QED BY <2>2 DEF LaunchFails, OnlyOwnSignalled
<1> QED BY <1>2, <1>3, <1>4 DEF IInv

-----------------------------------------------------------------------------
(* The steps that launch, record and signal *)

LEMMA LaunchStep ==
    ASSUME IInv, NEW s \in Service, Launch(s), signalled' = {}
    PROVE  IInv'
<1>1. /\ pc = "up" /\ s = Writers[at] /\ at \in 1..Len(Writers) /\ ~marker
      /\ pc' = "launched" /\ rec' = [rec EXCEPT ![s] = NoRecord]
      /\ fresh = NoId /\ snap = {} /\ owed = {}
      /\ UNCHANGED <<marker, at, ok, snap, owed, lost, mistaken>>
  BY DEF Launch, IInv, ScriptInv, MarkerInv
<1>2. PICK i \in Unused, q \in FreePid : Born(i, q, q, NoId, s, TRUE)
                                          /\ child' = q /\ fresh' = i
  BY DEF Launch
<1>3. ProcInv' /\ Continues /\ proc' \in [Id -> Process]
  BY <1>2, BirthKeeps DEF IInv
<1>4. /\ i \in Id /\ proc'[i].state = "running"
      /\ proc'[i].svc = s /\ proc'[i].leader /\ proc'[i].pid = q
      /\ q \in Pid /\ q # NoPid /\ Present(i)'
  BY <1>2, NoIdAssumption DEF Born, FreePid, Present, Unused, IInv, TypeOK
<1>5. \A r \in Service : rec'[r] = (IF r = s THEN NoRecord ELSE rec[r])
  BY <1>1 DEF IInv, TypeOK
<1>6. TypeOK'
  BY <1>1, <1>2, <1>3, <1>4 DEF IInv, TypeOK
<1>7. ScriptInv' /\ MarkerInv'
  BY <1>1, <1>2, <1>4, <1>5, NoIdAssumption DEF ScriptInv, MarkerInv
<1>8. NameInv'
  <2>1. RecInv'
    BY <1>1, <1>3, <1>5, RecordAssumption, RecKept DEF IInv
  <2>2. FreshInv'
    <3>1. \A j \in Id : Present(j)' /\ proc'[j].pid = q => j = i
      BY <1>3, <1>4 DEF ProcInv, OneHolderInv
    <3> QED BY <1>1, <1>2, <1>4, <3>1 DEF FreshInv, LedBy
  <2>3. SnapInv' /\ OwedInv'
    BY <1>1 DEF SnapInv, OwedInv
  <2> QED BY <2>1, <2>2, <2>3 DEF NameInv
<1> QED BY <1>3, <1>6, <1>7, <1>8 DEF IInv, OnlyOwnSignalled

(* A process there is makes a proper record.                                *)
LEMMA PresentEntry ==
    ASSUME ProcInv, NEW i \in Id, Present(i)
    PROVE  EntryOf(i) \in Entry /\ EntryOf(i).start = i
BY DEF ProcInv, PidInv, EntryOf, Entry

LEMMA RecordStep ==
    ASSUME IInv, NEW s \in Service, Record(s), signalled' = {}
    PROVE  IInv'
<1>1. /\ pc = "launched" /\ s = Writers[at] /\ at \in 1..Len(Writers) /\ ~marker
      /\ fresh \in Id /\ LedBy(s, fresh) /\ snap = {} /\ owed = {}
      /\ mistaken' = mistaken \cup {proc[i].svc : i \in Holders \ {fresh}}
      /\ at' = at - 1 /\ pc' = (IF at = 1 THEN "idle" ELSE "up")
      /\ fresh' = NoId /\ child' = NoPid
      /\ UNCHANGED <<proc, marker, ok, snap, owed, lost>>
  BY DEF Record, Mistake, Upward, IInv, TypeOK, ScriptInv, NameInv, FreshInv, MarkerInv
<1>9. PICK h \in Holders :
        /\ h \in Id /\ Present(h)
        /\ \E r \in {EntryOf(h), Torn} : rec' = [rec EXCEPT ![s] = r]
  BY DEF Record, Holders
<1>2. PICK r \in {EntryOf(h), Torn} : rec' = [rec EXCEPT ![s] = r]
  BY <1>9
<1>3. EntryOf(h) \in Entry /\ EntryOf(h).start = h /\ NamedFor(s, h)'
  <2>1. h = fresh \/ proc[h].svc \in mistaken'
    BY <1>1, <1>9
  <2> QED BY <2>1, <1>1, <1>9, PresentEntry DEF IInv, NamedFor, LedBy, Present
<1>4. \A t \in Service : rec'[t] = (IF t = s THEN r ELSE rec[t])
  BY <1>2 DEF IInv, TypeOK
<1>5. TypeOK'
  <2>1. Len(Writers) \in Nat
    BY WritersAssumption
  <2>2. rec' \in [Service -> Entry \cup {NoRecord, Torn}]
    BY <1>2, <1>3 DEF IInv, TypeOK
  <2>3. at' \in 0..(Len(Writers) + 1)
    BY <1>1, <2>1
  <2>4. mistaken' \subseteq Service \cup {Other}
    BY <1>1 DEF Holders, IInv, TypeOK, Process
  <2> QED BY <1>1, <2>2, <2>3, <2>4 DEF IInv, TypeOK
<1>6. ScriptInv' /\ MarkerInv'
  BY <1>1, WritersAssumption DEF ScriptInv, MarkerInv
<1>7. NameInv'
  <2>1. /\ \A i \in Id : (Present(i)' <=> Present(i)) /\ EntryOf(i)' = EntryOf(i)
        /\ \A t \in Service, i \in Id : NamedFor(t, i) => NamedFor(t, i)'
    BY <1>1 DEF Present, EntryOf, NamedFor
  <2>2. RecInv'
    <3> SUFFICES ASSUME NEW t \in Service, rec'[t] \in Entry
                 PROVE  (/\ NamedFor(t, rec[t].start)
                         /\ Present(rec[t].start) => EntryOf(rec[t].start) = rec[t])'
      BY DEF RecInv
    <3>1. CASE t = s
      <4>1. rec'[t] = EntryOf(h) /\ rec'[t].start = h
        BY <3>1, <1>2, <1>3, <1>4, RecordAssumption
      <4> QED BY <4>1, <3>1, <2>1, <1>3, <1>9 DEF NamedFor
    <3>2. CASE t # s
      <4>1. rec'[t] = rec[t] /\ rec[t].start \in Id
        BY <3>2, <1>4 DEF Entry
      <4> QED BY <4>1, <2>1 DEF IInv, NameInv, RecInv
    <3> QED BY <3>1, <3>2
  <2>3. FreshInv' /\ SnapInv' /\ OwedInv'
    BY <1>1 DEF FreshInv, SnapInv, OwedInv
  <2> QED BY <2>2, <2>3 DEF NameInv
<1>8. ProcInv'
  BY <1>1, SameProcesses DEF IInv
<1> QED BY <1>5, <1>6, <1>7, <1>8 DEF IInv, OnlyOwnSignalled

(* What is listed before TERM are processes of the service in hand.         *)
LEMMA CaptureStep ==
    ASSUME IInv, NEW s \in Service, Capture(s), signalled' = {}
    PROVE  IInv'
<1>1. /\ pc = "down" /\ s = Writers[at] /\ at \in 1..Len(Writers) /\ fresh = NoId
      /\ pc' = "term" /\ UNCHANGED <<proc, rec, marker, at, ok, fresh, child, lost, mistaken>>
      /\ rec[s] \in Entry /\ Owned(rec[s])
  BY WritersAssumption DEF Capture, Tracked, IInv, ScriptInv, TypeOK
<1>2. PICK unread \in SUBSET Id :
        /\ owed' = {rec[s].start} \cup (Descendants(rec[s].start) \ unread)
        /\ snap' = {EntryOf(i) : i \in owed'}
  BY DEF Capture
<1> DEFINE r == rec[s].start
<1>3. r \in Id /\ Present(r) /\ NamedFor(s, r) /\ EntryOf(r) = rec[s]
  BY <1>1, OwnedNames DEF IInv, NameInv, RecInv, Entry
<1>4. ASSUME NEW i \in owed'
      PROVE  i \in Id /\ Present(i) /\ proc[i].svc \in {s} \cup mistaken
  BY <1>2, <1>3, DescendantsOfService DEF IInv, NamedFor
<1>5. ASSUME NEW i \in owed'
      PROVE  EntryOf(i) \in Entry /\ EntryOf(i).start = i /\ EntryOf(i) \in snap'
  BY <1>2, <1>4, PresentEntry DEF IInv
<1>6. snap' \subseteq Entry /\ owed' \subseteq Id
  BY <1>2, <1>4, <1>5
<1>7. TypeOK' /\ ScriptInv' /\ MarkerInv'
  BY <1>1, <1>6 DEF IInv, TypeOK, ScriptInv, MarkerInv
<1>8. NameInv'
  <2>1. \A i \in Id : /\ (Present(i)' <=> Present(i)) /\ (Running(i)' <=> Running(i))
                       /\ EntryOf(i)' = EntryOf(i)
    BY <1>1 DEF Present, Running, EntryOf
  <2>2. RecInv' /\ FreshInv'
    BY <1>1, SameProcesses, RecKept DEF IInv, FreshInv
  <2>3. SnapInv'
    <3> SUFFICES ASSUME NEW e \in snap'
                 PROVE  (/\ NamedFor(Writers[at], e.start)
                         /\ Present(e.start) => EntryOf(e.start) = e)'
      BY DEF SnapInv
    <3>1. PICK i \in owed' : e = EntryOf(i)
      BY <1>2
    <3> QED BY <3>1, <2>1, <1>1, <1>4, <1>5 DEF Present, NamedFor
  <2>4. OwedInv'
    BY <2>1, <1>1, <1>4, <1>5 DEF OwedInv, Present
  <2> QED BY <2>2, <2>3, <2>4 DEF NameInv
<1>9. ProcInv'
  BY <1>1, SameProcesses DEF IInv
<1> QED BY <1>7, <1>8, <1>9 DEF IInv, OnlyOwnSignalled

LEMMA TermStep ==
    ASSUME IInv, NEW s \in Service, Term(s)
    PROVE  IInv'
<1>1. /\ pc = "term" /\ pc' = "kill" /\ s = Writers[at] /\ rec[s] \in Entry
      /\ UNCHANGED <<proc, rec, marker, at, ok, fresh, child, snap, owed, lost, mistaken>>
  BY DEF Term, IInv, ScriptInv
<1>2. signalled' \subseteq Id /\ \A i \in signalled' : proc[i].svc \in {s} \cup mistaken
  <2>1. CASE Owned(rec[s]) /\ signalled' = Members(rec[s].pgid)
    <3>1. /\ NamedFor(s, rec[s].start)
          /\ Present(rec[s].start) => EntryOf(rec[s].start) = rec[s]
      BY <1>1 DEF IInv, NameInv, RecInv
    <3> QED BY <3>1, <2>1, <1>1, OwnedNames DEF IInv, NamedFor, Members
  <2> QED BY <2>1 DEF Term
<1>3. TypeOK' /\ ScriptInv' /\ MarkerInv' /\ OnlyOwnSignalled'
  BY <1>1, <1>2 DEF IInv, TypeOK, ScriptInv, MarkerInv, OnlyOwnSignalled
<1>4. ProcInv' /\ NameInv'
  BY <1>1, SameProcesses, NamesKept DEF IInv
<1> QED BY <1>3, <1>4 DEF IInv

LEMMA KillStep ==
    ASSUME IInv, NEW e \in snap, Kill(e)
    PROVE  IInv'
<1>1. /\ pc = "kill" /\ e \in Entry /\ e.start \in Id /\ Owned(e)
      /\ signalled' = Members(e.pgid) /\ snap' = snap \ {e}
      /\ UNCHANGED <<rec, marker, pc, at, ok, fresh, child, lost, mistaken>>
  BY DEF Kill, IInv, TypeOK, Entry
<1>2. PICK hung \in SUBSET Members(e.pgid) :
        Ended(Members(e.pgid) \ hung) /\ owed' = owed \ hung
  BY DEF Kill
<1>3. /\ \A i \in Members(e.pgid) : /\ i \in Id /\ Running(i)
                                    /\ proc[i].svc \in {Writers[at]} \cup mistaken
      /\ e.start \in Members(e.pgid)
  BY <1>1, OwnedNames DEF IInv, NameInv, SnapInv, NamedFor, Members
<1>4. /\ ProcInv' /\ Continues /\ proc' \in [Id -> Process]
      /\ \A i \in Members(e.pgid) \ hung : ~Running(i)'
      /\ \A i \in Id : proc'[i].svc = proc[i].svc
  BY <1>2, <1>3, EndKeeps DEF IInv
<1>5. TypeOK' /\ ScriptInv' /\ MarkerInv'
  BY <1>1, <1>2, <1>3, <1>4 DEF IInv, TypeOK, ScriptInv, MarkerInv
<1>6. OnlyOwnSignalled'
  BY <1>1, <1>3, <1>4 DEF OnlyOwnSignalled
<1>7. NameInv'
  <2>1. RecInv' /\ FreshInv'
    BY <1>1, <1>4, RecKept DEF IInv, FreshInv
  <2>2. SnapInv'
    BY <1>1, <1>4 DEF IInv, NameInv, SnapInv, NamedFor, Continues, TypeOK, Entry
  <2>3. OwedInv'
    <3> SUFFICES ASSUME NEW i \in owed'
                 PROVE  (/\ proc[i].state # "unborn"
                         /\ Running(i) => EntryOf(i) \in snap)'
      BY DEF OwedInv
    <3>1. i \in owed /\ i \in Id /\ i \notin hung
      BY <1>2 DEF IInv, TypeOK
    <3>2. proc[i].state # "unborn" /\ (Running(i) => EntryOf(i) \in snap)
      BY <3>1 DEF IInv, NameInv, OwedInv
    <3>3. ASSUME Running(i)' PROVE EntryOf(i)' \in snap'
      <4>1. Running(i) /\ Present(i)' /\ EntryOf(i)' = EntryOf(i)
        BY <3>1, <3>2, <3>3, <1>4 DEF Continues, Running, Present
      <4>2. EntryOf(i) # e
        BY <3>1, <3>3, <1>3, <1>4 DEF EntryOf
      <4> QED BY <4>1, <4>2, <3>2, <1>1
    <3> QED BY <3>1, <3>2, <3>3, <1>4 DEF Continues
  <2> QED BY <2>1, <2>2, <2>3 DEF NameInv
<1> QED BY <1>4, <1>5, <1>6, <1>7 DEF IInv

LEMMA SpareStep ==
    ASSUME IInv, NEW e \in snap, Spare(e), signalled' = {}
    PROVE  IInv'
<1>1. /\ pc = "kill" /\ e \in Entry /\ snap' = snap \ {e}
      /\ owed' = (IF Alive(e) THEN owed \ {e.start} ELSE owed)
      /\ UNCHANGED <<proc, rec, marker, pc, at, ok, fresh, child, lost, mistaken>>
  BY DEF Spare, IInv, TypeOK
<1>2. TypeOK' /\ ScriptInv' /\ MarkerInv'
  BY <1>1 DEF IInv, TypeOK, ScriptInv, MarkerInv
<1>3. NameInv'
  <2>1. RecInv' /\ FreshInv'
    BY <1>1, SameProcesses, RecKept DEF IInv, FreshInv
  <2>2. SnapInv'
    BY <1>1 DEF IInv, NameInv, SnapInv, NamedFor, Present, EntryOf
  <2>3. \A i \in owed' : Running(i) => EntryOf(i) # e
    BY <1>1, AliveNames DEF EntryOf
  <2>4. OwedInv'
    BY <1>1, <2>3 DEF IInv, NameInv, OwedInv, Running, EntryOf
  <2> QED BY <2>1, <2>2, <2>4 DEF NameInv
<1>4. ProcInv'
  BY <1>1, SameProcesses DEF IInv
<1> QED BY <1>2, <1>3, <1>4 DEF IInv, OnlyOwnSignalled

-----------------------------------------------------------------------------
(* The theorems *)

LEMMA InitEstablishes == Init => IInv
<1> SUFFICES ASSUME Init PROVE IInv
  OBVIOUS
<1>1. \A i \in Id : proc[i] = Blank("unborn")
  BY DEF Init
<1>2. \A i \in Id : ~Present(i)
  BY <1>1 DEF Present, Blank
<1>3. TypeOK
  <2>1. Blank("unborn") \in Process
    BY DEF Blank, Process
  <2>2. proc \in [Id -> Process] /\ rec \in [Service -> Entry \cup {NoRecord, Torn}]
    BY <2>1 DEF Init
  <2>3. 0 \in 0..(Len(Writers) + 1)
    BY WritersAssumption
  <2> QED BY <2>2, <2>3 DEF Init, TypeOK
<1>4. ScriptInv /\ MarkerInv /\ OnlyOwnSignalled
  BY DEF Init, ScriptInv, MarkerInv, OnlyOwnSignalled
<1>5. ProcInv
  BY <1>2 DEF ProcInv, PidInv, OneHolderInv, GroupInv, FamilyInv, LeaderInv
<1>6. NameInv
  BY RecordAssumption DEF Init, NameInv, RecInv, FreshInv, SnapInv, OwedInv
<1> QED BY <1>3, <1>4, <1>5, <1>6 DEF IInv

LEMMA StutterStep ==
    ASSUME IInv, UNCHANGED vars
    PROVE  IInv'
<1>1. UNCHANGED <<proc, rec, marker, pc, at, ok, fresh, child, snap, owed, signalled, lost, mistaken>>
  BY DEF vars, script
<1>2. TypeOK' /\ ScriptInv' /\ MarkerInv' /\ OnlyOwnSignalled'
  BY <1>1 DEF IInv, TypeOK, ScriptInv, MarkerInv, OnlyOwnSignalled
<1>3. ProcInv' /\ NameInv'
  BY <1>1, SameProcesses, NamesKept DEF IInv
<1> QED BY <1>2, <1>3 DEF IInv

LEMMA NextKeeps ==
    ASSUME IInv, [Next]_vars
    PROVE  IInv'
<1>1. CASE Signals
  BY <1>1, LaunchFailsStep, TermStep, KillStep DEF Signals
<1>2. CASE Silent /\ signalled' = {}
  <2>1. CASE Stranger \/ \E i \in Id : Fork(i) \/ Exit(i) \/ Reap(i)
    BY <2>1, <1>2, ForkStep, ExitStep, ReapStep, StrangerStep
  <2>2. CASE StackUp \/ StackDown \/ Mark \/ ScriptDies
    BY <2>2, <1>2, StackUpStep, StackDownStep, MarkStep, ScriptDiesStep
  <2>3. CASE \E s \in Service : Adopt(s) \/ Refuse(s) \/ Launch(s) \/ Record(s)
    BY <2>3, <1>2, AdoptStep, RefuseStep, LaunchStep, RecordStep
  <2>4. CASE \E s \in Service : \/ StopUntracked(s) \/ Capture(s) \/ TermRefused(s)
                               \/ StopConfirmed(s) \/ StopSurvived(s)
    BY <2>4, <1>2, StopUntrackedStep, CaptureStep, TermRefusedStep,
       StopConfirmedStep, StopSurvivedStep
  <2>5. CASE \E e \in snap : Spare(e)
    BY <2>5, <1>2, SpareStep
  <2> QED BY <1>2, <2>1, <2>2, <2>3, <2>4, <2>5 DEF Silent
<1>3. CASE UNCHANGED vars
  BY <1>3, StutterStep
<1> QED BY <1>1, <1>2, <1>3 DEF Next

(* The inductive invariant.                                                 *)
THEOREM OwnershipInductive == Spec => []IInv
<1>1. IInv /\ [Next]_vars => IInv'
  BY NextKeeps
<1> QED BY InitEstablishes, <1>1, PTL DEF Spec

(* The variables have their types.                                          *)
THEOREM OwnershipTypeCorrect == Spec => []TypeOK
<1>1. IInv => TypeOK
  BY DEF IInv
<1> QED BY OwnershipInductive, <1>1, PTL

(* However pids and groups are used again, whatever check, write or script  *)
(* fails: a failed launch and stop_tracked_service signal processes of the  *)
(* service in hand only, or of an owner whose process had the number of a   *)
(* launched one when the launch came back to it.                            *)
THEOREM SignalsReachOwn == Spec => []OnlyOwnSignalled
<1>1. IInv => OnlyOwnSignalled
  BY DEF IInv
<1> QED BY OwnershipInductive, <1>1, PTL

(* An entry whose check of identity fails for certain names nobody alive.   *)
LEMMA DeadNames ==
    ASSUME TypeOK, NameInv, NEW s \in Service, rec[s] \in Entry, ~Alive(rec[s])
    PROVE  rec[s].start \in Id /\ ~Running(rec[s].start)
BY AliveNames DEF NameInv, RecInv, Entry, EntryOf, Running, Present

(* Which records a step may touch, if the final check of a stop cannot      *)
(* fail: that of a process known dead, or one that is not there.            *)
LEMMA RecordsRemoved ==
    ASSUME IInv, [Next]_vars, "confirm" \notin Faults,
           NEW s \in Service, rec'[s] # rec[s], rec[s] # NoRecord
    PROVE  rec[s] \in Entry /\ ~Alive(rec[s])
<1>1. CASE \E t \in Service : Launch(t)
  BY <1>1 DEF IInv, TypeOK, Launch, ConclusivelyGone
<1>2. CASE \E t \in Service : Record(t)
  BY <1>2 DEF IInv, TypeOK, ScriptInv, Record
<1>3. CASE \E t \in Service : StopUntracked(t)
  BY <1>3 DEF IInv, TypeOK, StopUntracked, ConclusivelyGone
<1>4. CASE \E t \in Service : StopConfirmed(t)
  BY <1>4 DEF IInv, TypeOK, ScriptInv, StopConfirmed, Missed
<1>5. rec' = rec \/ \E t \in Service : Launch(t) \/ Record(t) \/ StopUntracked(t) \/ StopConfirmed(t)
  BY DEF Next, Signals, Silent, vars, Fork, Stranger, Exit, Reap, StackUp, StackDown, Mark,
         ScriptDies, Adopt, Refuse, Capture, TermRefused, StopSurvived, Spare,
         LaunchFails, Term, Kill
<1> QED BY <1>1, <1>2, <1>3, <1>4, <1>5

LEMMA NextContinues ==
    ASSUME IInv, [Next]_vars
    PROVE  /\ Continues
           /\ \A i \in Id : Running(i)' /\ proc'[i].leader /\ proc[i].state = "unborn"
                              => i = fresh'
<1> DEFINE Q == /\ Continues
                /\ \A i \in Id : Running(i)' /\ proc'[i].leader /\ proc[i].state = "unborn"
                                   => i = fresh'
<1>1. CASE proc' = proc
  BY <1>1, SameProcesses DEF Running
<1>2. ASSUME NEW i \in Id, Fork(i) PROVE Q
  <2>1. PICK j \in Unused, q \in FreePid : \E group \in {proc[i].pgid, q} :
          Born(j, q, group, i, proc[i].svc, FALSE)
    BY <1>2 DEF Fork
  <2>2. PICK group \in {proc[i].pgid, q} : Born(j, q, group, i, proc[i].svc, FALSE)
    BY <2>1
  <2>3. /\ \/ group = q
           \/ \E m \in Id : Running(m) /\ group = proc[m].pgid /\ proc[i].svc = proc[m].svc
        /\ i # NoId => Running(i) /\ proc[i].svc = proc[i].svc
        /\ proc[i].svc \in Service \cup {Other} /\ i \in Id \cup {NoId}
    BY <1>2 DEF Fork, IInv, TypeOK, Process
  <2>4. Continues
    BY <2>2, <2>3, BirthKeeps DEF IInv
  <2>5. \A k \in Id : proc'[k].state = "running" /\ proc'[k].leader => proc[k].state = "running"
    BY <2>2 DEF Born, IInv, TypeOK
  <2> QED BY <2>4, <2>5 DEF Running
<1>3. CASE Stranger
  <2>1. PICK j \in Unused, q \in FreePid : Born(j, q, q, NoId, Other, FALSE)
    BY <1>3 DEF Stranger
  <2>2. Continues
    BY <2>1, BirthKeeps DEF IInv
  <2>3. \A k \in Id : proc'[k].state = "running" /\ proc'[k].leader => proc[k].state = "running"
    BY <2>1 DEF Born, IInv, TypeOK
  <2> QED BY <2>2, <2>3 DEF Running
<1>4. ASSUME NEW i \in Id, Exit(i) \/ Reap(i) PROVE Q
  <2>1. Continues /\ \A k \in Id : Running(k)' => Running(k)
    BY <1>4, EndKeeps, ReapKeeps DEF IInv, Exit, Reap
  <2> QED BY <2>1 DEF Running
<1>5. ASSUME NEW s \in Service, Launch(s) PROVE Q
  <2>1. PICK j \in Unused, q \in FreePid : Born(j, q, q, NoId, s, TRUE) /\ fresh' = j
    BY <1>5 DEF Launch
  <2>2. Continues
    BY <2>1, BirthKeeps DEF IInv
  <2>3. \A k \in Id : k # j => proc'[k] = proc[k]
    BY <2>1 DEF Born, IInv, TypeOK
  <2> QED BY <2>1, <2>2, <2>3 DEF Running
<1>6. ASSUME NEW e \in snap, Kill(e) PROVE Q
  <2>1. PICK dead \in SUBSET Id : Ended(dead) /\ \A i \in dead : Running(i)
    BY <1>6 DEF Kill, Members
  <2>2. Continues /\ \A k \in Id : Running(k)' => Running(k)
    BY <2>1, EndKeeps DEF IInv
  <2> QED BY <2>2 DEF Running
<1>7. \/ proc' = proc \/ Stranger
      \/ \E i \in Id : Fork(i) \/ Exit(i) \/ Reap(i)
      \/ \E s \in Service : Launch(s)
      \/ \E e \in snap : Kill(e)
  BY DEF Next, Signals, Silent, vars, StackUp, StackDown, Mark, ScriptDies, Adopt, Refuse,
         Record, StopUntracked, StopConfirmed, Capture, TermRefused, StopSurvived, Spare,
         LaunchFails, Term
<1> QED BY <1>1, <1>2, <1>3, <1>4, <1>5, <1>6, <1>7

(* A service that lives and is not lost stays on record, one step after     *)
(* the other.                                                               *)
LEMMA RememberStep ==
    ASSUME IInv, NeverForgotten, [Next]_vars, "confirm" \notin Faults
    PROVE  NeverForgotten'
<1> SUFFICES ASSUME NEW i \in Id, Running(i)', proc'[i].leader
             PROVE  \/ i \in lost' \cup {fresh'}
                    \/ rec'[proc'[i].svc] = Torn
                    \/ rec'[proc'[i].svc] = EntryOf(i)'
  BY DEF NeverForgotten
<1>1. CASE proc[i].state = "unborn"
  BY <1>1, NextContinues
<1>2. CASE proc[i].state # "unborn"
  <2> DEFINE s == proc[i].svc
  <2>1. /\ Running(i) /\ Present(i) /\ proc[i].leader /\ s \in Service
        /\ proc'[i].svc = s /\ EntryOf(i)' = EntryOf(i)
    BY <1>2, NextContinues DEF Continues, Running, Present, IInv, ProcInv, LeaderInv
  <2>2. EntryOf(i) \in Entry /\ EntryOf(i).start = i
    BY <2>1, PresentEntry DEF IInv
  <2>3. CASE i \in lost
    <3>1. i \in lost'
      BY <2>1, <2>3 DEF Next, Signals, Silent, vars, Fork, Stranger, Exit, Reap, StackUp,
         StackDown, Mark, ScriptDies, Adopt, Refuse, Launch, Record, StopUntracked,
         StopConfirmed, Capture, TermRefused, StopSurvived, Spare, LaunchFails, Term, Kill, Running
    <3> QED BY <3>1
  <2>4. CASE i = fresh
    <3>1. \/ i \in lost' \cup {fresh'}
          \/ \E t \in Service : Record(t)
      BY <2>1, <2>4, NoIdAssumption DEF Next, Signals, Silent, vars, Fork, Stranger, Exit, Reap,
         StackUp, StackDown, Mark, ScriptDies, Adopt, Refuse, Launch, StopUntracked,
         StopConfirmed, Capture, TermRefused, StopSurvived, Spare, LaunchFails, Term, Kill,
         IInv, ScriptInv, script
    <3>2. ASSUME NEW t \in Service, Record(t)
          PROVE  rec'[s] = Torn \/ rec'[s] = EntryOf(i)
      <4>1. s = t
        BY <2>1, <2>4, <3>2 DEF Record, IInv, NameInv, FreshInv, LedBy
      <4>2. PICK h \in Holders : \E r \in {EntryOf(h), Torn} : rec' = [rec EXCEPT ![t] = r]
        BY <3>2 DEF Record
      <4>3. h = i
        BY <4>2, <2>1, <2>4, <3>2 DEF Record, Holders, IInv, NameInv, FreshInv, ProcInv,
           OneHolderInv
      <4>4. PICK r \in {EntryOf(i), Torn} : rec' = [rec EXCEPT ![t] = r]
        BY <4>2, <4>3
      <4>5. rec'[t] = r
        BY <4>4 DEF IInv, TypeOK
      <4> QED BY <4>1, <4>4, <4>5
    <3> QED BY <3>1, <3>2, <2>1
  <2>5. CASE i \notin lost \cup {fresh}
    <3>1. rec[s] = Torn \/ rec[s] = EntryOf(i)
      BY <2>1, <2>5 DEF NeverForgotten
    <3>2. rec[s] = EntryOf(i) => Alive(rec[s])
      BY <2>1, <2>2, AliveNames DEF EntryOf
    <3>3. rec'[s] = rec[s]
      BY <3>1, <3>2, <2>1, <2>2, RecordsRemoved, RecordAssumption
    <3> QED BY <3>1, <3>3, <2>1
  <2> QED BY <2>3, <2>4, <2>5
<1> QED BY <1>1, <1>2

(* If the last check of a stop is never misread: whichever script dies,     *)
(* fails or gives up, a launched service that lives is on record for the    *)
(* next one, or its script ended before it wrote the record.                *)
THEOREM LaunchedIsOnRecord ==
    ASSUME "confirm" \notin Faults
    PROVE  Spec => []NeverForgotten
<1>1. Init => NeverForgotten
  BY DEF Init, NeverForgotten, Running, Blank
<1>2. IInv /\ NeverForgotten /\ [Next]_vars => NeverForgotten'
  BY RememberStep
<1> QED BY OwnershipInductive, <1>1, <1>2, PTL DEF Spec

(* Under the same assumption the file writers.stopped, which stack-down.sh  *)
(* --writers-only leaves for the checkpoint, never stands while a service   *)
(* of this deployment runs, save one whose launch was cut short.            *)
THEOREM MarkerIsTrue ==
    ASSUME "confirm" \notin Faults
    PROVE  Spec => []MarkerMeansStopped
<1>1. IInv /\ NeverForgotten => MarkerMeansStopped
  <2> SUFFICES ASSUME IInv, NeverForgotten, marker,
                      NEW i \in Id, Running(i), proc[i].leader
               PROVE  i \in lost
    BY DEF MarkerMeansStopped
  <2>1. Present(i) /\ proc[i].svc \in Service
    BY DEF Running, Present, IInv, ProcInv, LeaderInv
  <2>2. EntryOf(i) \in Entry /\ rec[proc[i].svc] = NoRecord /\ fresh = NoId
    BY <2>1, PresentEntry DEF IInv, MarkerInv, ScriptInv
  <2> QED BY <2>2, NoIdAssumption, RecordAssumption DEF NeverForgotten
<1> QED BY OwnershipInductive, LaunchedIsOnRecord, <1>1, PTL

(* A stop that succeeds has ended everything it listed before TERM that     *)
(* could be verified and did not outlive SIGKILL.                           *)
THEOREM StopEndsCaptured == Spec => CapturedGone
<1>1. IInv /\ [Next]_vars =>
        [pc = "kill" /\ (\E s \in Service : rec'[s] # rec[s]) =>
           \A i \in owed : proc'[i].state # "running"]_vars
  <2> SUFFICES ASSUME IInv, [Next]_vars, pc = "kill",
                      NEW s \in Service, rec'[s] # rec[s], NEW i \in owed
               PROVE  proc'[i].state # "running"
    OBVIOUS
  <2>1. \E t \in Service : StopConfirmed(t)
    BY DEF Next, Signals, Silent, vars, Fork, Stranger, Exit, Reap, StackUp, StackDown, Mark,
       ScriptDies, Adopt, Refuse, Launch, Record, StopUntracked, Capture, TermRefused,
       StopSurvived, Spare, LaunchFails, Term, Kill
  <2>2. snap = {} /\ proc' = proc
    BY <2>1 DEF StopConfirmed
  <2> QED BY <2>2 DEF IInv, NameInv, OwedInv, Running
<1> QED BY OwnershipInductive, <1>1, PTL DEF Spec, CapturedGone

(* Only a process known to be gone loses its record: the rule that          *)
(* process-lib.sh states for stale records holds of all removals if the     *)
(* last check of a stop is never misread.  It is that check alone that      *)
(* breaks it.                                                               *)
THEOREM RecordsAreKept ==
    ASSUME "confirm" \notin Faults
    PROVE  Spec => RecordKept
<1>1. IInv /\ [Next]_vars =>
        [\A s \in Service : rec[s] \in Entry /\ rec'[s] # rec[s]
           => proc'[rec[s].start].state # "running"]_vars
  <2> SUFFICES ASSUME IInv, [Next]_vars,
                      NEW s \in Service, rec[s] \in Entry, rec'[s] # rec[s]
               PROVE  proc'[rec[s].start].state # "running"
    OBVIOUS
  <2>1. ~Alive(rec[s])
    BY RecordsRemoved, RecordAssumption
  <2>2. /\ rec[s].start \in Id /\ ~Running(rec[s].start)
        /\ proc[rec[s].start].state # "unborn"
    BY <2>1, DeadNames DEF IInv, NameInv, RecInv, NamedFor
  <2> QED BY <2>2, NextContinues DEF Continues, Running
<1> QED BY OwnershipInductive, <1>1, PTL DEF Spec, RecordKept
=============================================================================
