-------------------------- MODULE ProcessOwnership --------------------------
(***************************************************************************)
(* process-lib.sh and its two callers: stack-up.sh launches the services   *)
(* that write, stack-down.sh --writers-only stops them and says so in      *)
(* writers.stopped.  One script runs at a time and may die anywhere.  What *)
(* it knows of a service is a record (pid, process group, start time);     *)
(* between its commands processes fork, exit, and pids are used again.     *)
(*                                                                         *)
(* A process is named by its start time, which no two holders of a pid     *)
(* share.  A check and the kill that follows it are one step: no pid is    *)
(* taken by somebody else between two adjacent commands.  While a launch   *)
(* sleeps the shell has no more than the number of its child, which may be *)
(* somebody else's when it looks again.                                    *)
(***************************************************************************)
EXTENDS Naturals, Sequences, FiniteSets

CONSTANTS
    Id,      \* processes, each one birth of a pid: bounds the births
    Pid,     \* pid numbers, which are also the numbers of process groups
    Writers, \* services in the order stop_writers stops them
    Other,   \* the owner of processes of other deployments
    Faults,  \* a subset of FaultKinds
    NoId, NoPid, NoRecord, Torn

(* A check that cannot be read, before and after a kill; an unchecked write *)
(* of a record; a process beyond SIGKILL; a script that dies.               *)
FaultKinds == {"verify", "confirm", "write", "hang", "die"}

Service == {Writers[k] : k \in DOMAIN Writers}

ASSUME WritersAssumption == Writers \in Seq(Service) /\ Len(Writers) > 0
ASSUME OtherAssumption == Other \notin Service
ASSUME NoIdAssumption == NoId \notin Id /\ NoPid \notin Pid
ASSUME FaultsAssumption == Faults \subseteq FaultKinds

Entry == [pid : Pid, pgid : Pid, start : Id]

ASSUME RecordAssumption == NoRecord \notin Entry /\ Torn \notin Entry
                           /\ NoRecord # Torn

VARIABLES
    proc,      \* the process table
    rec,       \* the pid records of the services
    marker,    \* writers.stopped exists
    pc, at,    \* where the script is, and at which service of Writers
    ok,        \* rc = 0 in stack-down.sh
    child,     \* pid=$! of the launch in hand
    fresh,     \* the process launched there, and not recorded yet (history)
    snap,      \* the lines of the descendants file still to be read
    owed,      \* of those, what this stop has not failed to kill (history)
    signalled, \* the processes the last step signalled (history)
    lost,      \* launched by a script that ended before the record (history)
    mistaken   \* whose process a launch took for its child (history)

script == <<pc, at, ok, child, fresh, snap, owed>>
vars == <<proc, rec, marker, script, signalled, lost, mistaken>>

Process == [state : {"unborn", "running", "zombie", "gone"}, pid : Pid \cup {NoPid},
            pgid : Pid \cup {NoPid}, parent : Id \cup {NoId},
            svc : Service \cup {Other}, leader : BOOLEAN]

TypeOK ==
    /\ proc \in [Id -> Process]
    /\ rec \in [Service -> Entry \cup {NoRecord, Torn}]
    /\ marker \in BOOLEAN
    /\ pc \in {"idle", "up", "launched", "down", "term", "kill"}
    /\ at \in 0..(Len(Writers) + 1)
    /\ ok \in BOOLEAN
    /\ child \in Pid \cup {NoPid}
    /\ fresh \in Id \cup {NoId}
    /\ snap \subseteq Entry
    /\ owed \subseteq Id
    /\ signalled \subseteq Id
    /\ lost \subseteq Id
    /\ mistaken \subseteq Service \cup {Other}

Blank(state) == [state |-> state, pid |-> NoPid, pgid |-> NoPid,
                 parent |-> NoId, svc |-> Other, leader |-> FALSE]

Running(i) == proc[i].state = "running"
Present(i) == proc[i].state \in {"running", "zombie"}

(* Mutant: the group is written as ps printed it, a number or not. *)
EntryNoGroup(i) == [pid |-> proc[i].pid, pgid |-> NoPid, start |-> i]

EntryOf(i) == [pid |-> proc[i].pid, pgid |-> proc[i].pgid, start |-> i]

(* Mutant: whoever holds the pid. *)
AliveByPid(e) ==
    \E i \in Id : Running(i) /\ proc[i].pid = e.pid

(* The process that holds the pid now was started when the entry says, and  *)
(* is no zombie.                                                            *)
Alive(e) ==
    \E i \in Id : Running(i) /\ proc[i].pid = e.pid /\ i = e.start

(* ... and is in the same group and has this deployment in its environment. *)
Owned(e) ==
    /\ Alive(e)
    /\ \E i \in Id : /\ Present(i) /\ proc[i].pid = e.pid
                     /\ proc[i].pgid = e.pgid /\ proc[i].svc # Other

Tracked(s) == rec[s] \in Entry /\ Owned(rec[s])

(* A check fails when the fact is not so or, with this fault, cannot be     *)
(* read: /proc, awk and ps failing count as FALSE everywhere.               *)
Missed(fact, fault) == ~fact \/ fault \in Faults

(* Mutant: a record whose process could not be verified is stale. *)
GoneUnlessOwned(e) == TRUE

ConclusivelyGone(e) == ~Alive(e)

Members(g) == {i \in Id : Running(i) /\ proc[i].pgid = g}

(* pgrep -P, over and over: the smallest set that has, with the process i,  *)
(* the children of everyone in it.                                          *)
Descendants(i) ==
    {j \in Id : /\ Present(j)
                /\ \A S \in SUBSET Id :
                     (/\ i \in S
                      /\ \A k \in Id : Present(k) /\ proc[k].parent \in S => k \in S)
                     => j \in S}

Unused == {i \in Id : proc[i].state = "unborn"}
TakenPid == UNION {{proc[i].pid, proc[i].pgid} : i \in {j \in Id : Present(j)}}
FreePid == Pid \ TakenPid

-----------------------------------------------------------------------------
(* The operating system *)

Born(i, q, group, mother, owner, led) ==
    proc' = [proc EXCEPT ![i] =
        [state |-> "running", pid |-> q, pgid |-> group,
         parent |-> mother, svc |-> owner, leader |-> led]]

(* Exited processes are zombies; their children go to init. *)
Ended(dead) ==
    proc' = [i \in Id |->
        [proc[i] EXCEPT
            !.state  = IF i \in dead THEN "zombie" ELSE @,
            !.parent = IF @ \in dead THEN NoId ELSE @]]

(* A service starts a child, in its own group or, as FlowMesh its workers,  *)
(* in a session of the child's own.                                         *)
Fork(i) ==
    /\ Running(i) /\ proc[i].svc # Other
    /\ \E j \in Unused, q \in FreePid : \E group \in {proc[i].pgid, q} :
         Born(j, q, group, i, proc[i].svc, FALSE)
    /\ UNCHANGED <<rec, marker, script, lost, mistaken>>

Stranger ==
    /\ \E j \in Unused, q \in FreePid : Born(j, q, q, NoId, Other, FALSE)
    /\ UNCHANGED <<rec, marker, script, lost, mistaken>>

Exit(i) ==
    /\ Running(i)
    /\ Ended({i})
    /\ UNCHANGED <<rec, marker, script, lost, mistaken>>

Reap(i) ==
    /\ proc[i].state = "zombie"
    /\ proc' = [proc EXCEPT ![i] = Blank("gone")]
    /\ lost' = lost \ {i}
    /\ UNCHANGED <<rec, marker, script, mistaken>>

-----------------------------------------------------------------------------
(* stack-up.sh: the services, last stopped first *)

(* Mutant: writers.stopped is left to whoever stops the writers next. *)
StackUpMarked ==
    /\ pc = "idle"
    /\ pc' = "up" /\ at' = Len(Writers)
    /\ UNCHANGED <<proc, rec, marker, ok, fresh, child, snap, owed, lost, mistaken>>

StackUp ==
    /\ pc = "idle"
    /\ marker' = FALSE
    /\ pc' = "up" /\ at' = Len(Writers)
    /\ UNCHANGED <<proc, rec, ok, fresh, child, snap, owed, lost, mistaken>>

Upward ==
    /\ at' = at - 1
    /\ pc' = IF at = 1 THEN "idle" ELSE "up"

Adopt(s) ==
    /\ pc = "up" /\ s = Writers[at]
    /\ Tracked(s)
    /\ Upward
    /\ UNCHANGED <<proc, rec, marker, ok, fresh, child, snap, owed, lost, mistaken>>

(* The port is taken by a process that is not tracked; the record cannot be *)
(* read, or names a process that lives but cannot be verified; or no more   *)
(* processes can be made.                                                   *)
Refuse(s) ==
    /\ pc = "up" /\ s = Writers[at]
    /\ Missed(Tracked(s), "verify")
    /\ \/ \E i \in Id : Running(i)
       \/ rec[s] = Torn
       \/ rec[s] \in Entry /\ Missed(ConclusivelyGone(rec[s]), "verify")
       \/ Unused = {} \/ FreePid = {}
    /\ pc' = "idle" /\ at' = 0
    /\ UNCHANGED <<proc, rec, marker, ok, fresh, child, snap, owed, lost, mistaken>>

(* remove_conclusively_stale_record succeeds; setsid makes the new process  *)
(* the leader of a group of its own.                                        *)
Launch(s) ==
    /\ pc = "up" /\ s = Writers[at]
    /\ Missed(Tracked(s), "verify")
    /\ rec[s] # NoRecord => rec[s] \in Entry /\ ConclusivelyGone(rec[s])
    /\ \E i \in Unused, q \in FreePid :
         /\ Born(i, q, q, NoId, s, TRUE)
         /\ child' = q /\ fresh' = i
    /\ rec' = [rec EXCEPT ![s] = NoRecord]
    /\ pc' = "launched"
    /\ UNCHANGED <<marker, at, ok, snap, owed, lost, mistaken>>

(* Whoever has the number by the time the launch looks again. *)
Holders == {i \in Id : Present(i) /\ proc[i].pid = child}

Mistake == mistaken' = mistaken \cup {proc[i].svc : i \in Holders \ {fresh}}

(* It is of this deployment: the record is written and renamed, or an       *)
(* unchecked write left it empty.                                           *)
Record(s) ==
    /\ pc = "launched" /\ s = Writers[at]
    /\ \E i \in Holders :
         /\ proc[i].svc # Other
         /\ \E r \in {EntryOf(i)} \cup (IF "write" \in Faults THEN {Torn} ELSE {}) :
              rec' = [rec EXCEPT ![s] = r]
    /\ child' = NoPid /\ fresh' = NoId
    /\ Upward
    /\ Mistake
    /\ UNCHANGED <<proc, marker, ok, snap, owed, lost>>

(* Nobody has it, whoever has it does not show the deployment, or the       *)
(* record could not be made: the number is sent TERM, unless nobody has it, *)
(* and the script exits.                                                    *)
LaunchFails(s) ==
    /\ pc = "launched" /\ s = Writers[at]
    /\ \/ Missed(\E i \in Holders : Running(i) /\ proc[i].svc # Other, "verify")
       \/ "write" \in Faults
    /\ signalled' = {i \in Holders : Running(i)}
    /\ Mistake
    /\ lost' = lost \cup {fresh}
    /\ child' = NoPid /\ fresh' = NoId
    /\ pc' = "idle"
    /\ UNCHANGED <<proc, rec, marker, at, ok, snap, owed>>

-----------------------------------------------------------------------------
(* stack-down.sh --writers-only *)

StackDown ==
    /\ pc = "idle"
    /\ pc' = "down" /\ at' = 1 /\ ok' = TRUE
    /\ UNCHANGED <<proc, rec, marker, fresh, child, snap, owed, lost, mistaken>>

(* Mutant: the result of a stop is not looked at. *)
ProceedUnheeded(stopped) ==
    /\ at' = at + 1
    /\ pc' = "down"
    /\ ok' = ok
    /\ snap' = {} /\ owed' = {}

(* stop_one returns; stop_writers goes on with the next service either way. *)
Proceed(stopped) ==
    /\ at' = at + 1
    /\ pc' = "down"
    /\ ok' = (ok /\ stopped)
    /\ snap' = {} /\ owed' = {}

(* Not tracked: the stale record is removed, or retained with an error. *)
StopUntracked(s) ==
    /\ pc = "down" /\ at <= Len(Writers) /\ s = Writers[at]
    /\ Missed(Tracked(s), "verify")
    /\ \/ /\ rec[s] = NoRecord
          /\ Proceed(TRUE)
          /\ UNCHANGED rec
       \/ /\ rec[s] \in Entry
          /\ ConclusivelyGone(rec[s])
          /\ Proceed(TRUE)
          /\ rec' = [rec EXCEPT ![s] = NoRecord]
       \/ /\ \/ rec[s] = Torn
             \/ rec[s] \in Entry /\ Missed(ConclusivelyGone(rec[s]), "verify")
          /\ Proceed(FALSE)
          /\ UNCHANGED rec
    /\ UNCHANGED <<proc, marker, fresh, child, lost, mistaken>>

(* The process and its descendants are listed before it is signalled; a     *)
(* descendant that cannot be read is left out.                              *)
Capture(s) ==
    /\ pc = "down" /\ at <= Len(Writers) /\ s = Writers[at]
    /\ Tracked(s)
    /\ \E unread \in IF "verify" \in Faults THEN SUBSET Id ELSE {{}} :
         /\ owed' = {rec[s].start} \cup (Descendants(rec[s].start) \ unread)
         /\ snap' = {EntryOf(i) : i \in owed'}
    /\ pc' = "term"
    /\ UNCHANGED <<proc, rec, marker, at, ok, fresh, child, lost, mistaken>>

Term(s) ==
    /\ pc = "term" /\ s = Writers[at]
    /\ \/ Owned(rec[s]) /\ signalled' = Members(rec[s].pgid)
       \/ Missed(Alive(rec[s]), "verify") /\ signalled' = {}
    /\ pc' = "kill"
    /\ UNCHANGED <<proc, rec, marker, at, ok, fresh, child, snap, owed, lost, mistaken>>

TermRefused(s) ==
    /\ pc = "term" /\ s = Writers[at]
    /\ Alive(rec[s]) /\ Missed(Owned(rec[s]), "verify")
    /\ Proceed(FALSE)
    /\ UNCHANGED <<proc, rec, marker, fresh, child, lost, mistaken>>

(* After the grace period, for each line of the file.  A process may be     *)
(* beyond the reach of SIGKILL for a while.                                 *)
Kill(e) ==
    /\ pc = "kill" /\ e \in snap
    /\ Owned(e)
    /\ \E hung \in IF "hang" \in Faults THEN SUBSET Members(e.pgid) ELSE {{}} :
         /\ Ended(Members(e.pgid) \ hung)
         /\ owed' = owed \ hung
    /\ signalled' = Members(e.pgid)
    /\ snap' = snap \ {e}
    /\ UNCHANGED <<rec, marker, pc, at, ok, fresh, child, lost, mistaken>>

(* Mutant: once the service itself has exited the rest of the file is left. *)
SpareAfterExit(e) ==
    /\ pc = "kill" /\ e \in snap
    /\ snap' = snap \ {e}
    /\ \/ Missed(Owned(e), "verify") /\ owed' = owed \ {e.start}
       \/ ~Alive(rec[Writers[at]]) /\ owed' = owed
    /\ UNCHANGED <<proc, rec, marker, pc, at, ok, fresh, child, lost, mistaken>>

(* It has exited, or it cannot be verified and is not signalled. *)
Spare(e) ==
    /\ pc = "kill" /\ e \in snap
    /\ Missed(Owned(e), "verify")
    /\ snap' = snap \ {e}
    /\ owed' = IF Alive(e) THEN owed \ {e.start} ELSE owed
    /\ UNCHANGED <<proc, rec, marker, pc, at, ok, fresh, child, lost, mistaken>>

StopConfirmed(s) ==
    /\ pc = "kill" /\ snap = {} /\ s = Writers[at]
    /\ Missed(Alive(rec[s]), "confirm")
    /\ Proceed(TRUE)
    /\ rec' = [rec EXCEPT ![s] = NoRecord]
    /\ UNCHANGED <<proc, marker, fresh, child, lost, mistaken>>

StopSurvived(s) ==
    /\ pc = "kill" /\ snap = {} /\ s = Writers[at]
    /\ Alive(rec[s])
    /\ Proceed(FALSE)
    /\ UNCHANGED <<proc, rec, marker, fresh, child, lost, mistaken>>

Mark ==
    /\ pc = "down" /\ at > Len(Writers)
    /\ marker' = ok
    /\ pc' = "idle" /\ at' = 0 /\ ok' = TRUE
    /\ UNCHANGED <<proc, rec, fresh, child, snap, owed, lost, mistaken>>

(* Killed, interrupted, or stopped by an error of its own. *)
ScriptDies ==
    /\ "die" \in Faults
    /\ pc # "idle"
    /\ pc' = "idle" /\ at' = 0 /\ ok' = TRUE
    /\ lost' = IF fresh = NoId THEN lost ELSE lost \cup {fresh}
    /\ child' = NoPid /\ fresh' = NoId /\ snap' = {} /\ owed' = {}
    /\ UNCHANGED <<proc, rec, marker, mistaken>>

-----------------------------------------------------------------------------

Init ==
    /\ proc = [i \in Id |-> Blank("unborn")]
    /\ rec = [s \in Service |-> NoRecord]
    /\ marker = FALSE
    /\ pc = "idle" /\ at = 0 /\ ok = TRUE
    /\ child = NoPid /\ fresh = NoId /\ snap = {} /\ owed = {}
    /\ signalled = {} /\ lost = {} /\ mistaken = {}

Silent ==
    \/ \E i \in Id : Fork(i) \/ Exit(i) \/ Reap(i)
    \/ Stranger
    \/ StackUp \/ StackDown \/ Mark \/ ScriptDies
    \/ \E s \in Service : \/ Adopt(s) \/ Refuse(s) \/ Launch(s) \/ Record(s)
                          \/ StopUntracked(s) \/ Capture(s) \/ TermRefused(s)
                          \/ StopConfirmed(s) \/ StopSurvived(s)
    \/ \E e \in snap : Spare(e)

Signals ==
    \/ \E s \in Service : LaunchFails(s) \/ Term(s)
    \/ \E e \in snap : Kill(e)

Next == Signals \/ (Silent /\ signalled' = {})

Spec == Init /\ [][Next]_vars

-----------------------------------------------------------------------------

(* process-lib.sh:1, "exact process ownership": every signal reaches        *)
(* processes of the service in hand only, whoever has the pids and groups   *)
(* on record by now.  The exception is process-lib.sh:165-172, where no     *)
(* record helps: who has had the number of a launched process when the      *)
(* launch came back to it may be signalled, then or by way of its record.   *)
OnlyOwnSignalled ==
    \A i \in signalled : proc[i].svc \in {Writers[at]} \cup mistaken

(* A launched service that lives is on record, so that a later script finds *)
(* it, unless the script that launched it ended before it could write the   *)
(* record, or wrote an empty one.                                           *)
NeverForgotten ==
    \A i \in Id : Running(i) /\ proc[i].leader =>
        \/ i \in lost \cup {fresh}
        \/ rec[proc[i].svc] = Torn
        \/ rec[proc[i].svc] = EntryOf(i)

(* While writers.stopped exists no service runs but a lost one.             *)
MarkerMeansStopped ==
    marker => \A i \in Id : Running(i) /\ proc[i].leader => i \in lost

(* A stop that goes through has ended every process that was listed before  *)
(* TERM, save those that could not be verified or outlived SIGKILL.         *)
CapturedGone ==
    [][pc = "kill" /\ (\E s \in Service : rec'[s] # rec[s]) =>
         \A i \in owed : proc'[i].state # "running"]_vars

(* process-lib.sh:95-97: only a process known to be gone loses its record.  *)
RecordKept ==
    [][\A s \in Service : rec[s] \in Entry /\ rec'[s] # rec[s]
         => proc'[rec[s].start].state # "running"]_vars

(* stack-down.sh:29-31: the gateway, last of the writers, stops only after  *)
(* the workers of the service before it are gone.                           *)
GatewayLast ==
    [][\A i \in signalled' :
         proc[i].svc = Writers[Len(Writers)] /\ pc \in {"term", "kill"} =>
         \A j \in Id : Running(j) => proc[j].svc \notin Service \ {proc[i].svc}]_vars
=============================================================================
