------------------------- MODULE MemoryStoreProofs -------------------------
(***************************************************************************)
(* What holds of MemoryStore for every number of open objects, ids, scopes *)
(* and offered episodes.                                                   *)
(*                                                                         *)
(* The argument: the version row is only ever written after the whole      *)
(* schema, so whoever gets past __init__ has every trigger under it; with  *)
(* the triggers there, `rows` only grows; and since it only grows, what    *)
(* append_episode read before its INSERT still holds at the INSERT.        *)
(***************************************************************************)
EXTENDS MemoryStore, TLAPS

(* What an object that runs the schema script has made already. *)
MadeBefore(k) == {Objects[i] : i \in 1..(k - 1)}

SchemaInv ==
    /\ version = "2" => schema = Everything
    /\ version = "1" => schema = {"metadata"}
    /\ rows # <<>> => version = "2"

OpenInv(c) ==
    /\ at[c] = "create" => MadeBefore(made[c]) \subseteq schema
    /\ at[c] \in {"create", "stamp", "verify", "ready"} \cup Appending => version # "1"
    /\ at[c] \in {"stamp", "verify"} => schema = Everything
    /\ at[c] \in {"ready"} \cup Appending => version = "2"
    /\ at[c] = "verify" => version = "2"

Answers(old, e) ==
    old.id = e.corrects /\ old.scope = e.scope /\ old.split = e.split

(* Why the INSERT is refused: by UNIQUE, or by the CHECK of a truth value. *)
IdTaken(e)    == \E j \in DOMAIN rows : rows[j].id = e.id
Untruthful(e) == e.eligible \notin {0, 1}

AppendInv(c) ==
    /\ at[c] \in Appending => arg[c] \in Episode
    /\ at[c] = "insert" /\ arg[c].corrects # NoId =>
          \E j \in DOMAIN rows : Answers(rows[j], arg[c])
    /\ at[c] = "explain" => IdTaken(arg[c]) \/ Untruthful(arg[c])
    /\ result[c] = "stored" => \E j \in DOMAIN rows : rows[j] = arg[c]
    /\ result[c] = "contract" => Untruthful(arg[c])

Unique == \A i, j \in DOMAIN rows : rows[i].id = rows[j].id => i = j

Apart == \A c, d \in Conn :
            result[c] = "stored" /\ result[d] = "stored" /\ c # d => arg[c].id # arg[d].id

IInv ==
    /\ TypeOK
    /\ SchemaInv
    /\ \A c \in Conn : OpenInv(c) /\ AppendInv(c)
    /\ Unique /\ Apart /\ CorrectionSound

-----------------------------------------------------------------------------
LEMMA ObjectsFacts ==
    /\ Len(Objects) = 5
    /\ \A k \in 1..5 : Objects[k] \in Everything
    /\ MadeBefore(1) = {}
    /\ \A k \in 1..5 : MadeBefore(k + 1) = MadeBefore(k) \cup {Objects[k]}
    /\ MadeBefore(6) = Everything
<1>1. /\ Len(Objects) = 5 /\ Objects[1] = "metadata" /\ Objects[2] = "episodes"
      /\ Objects[3] = "no_update" /\ Objects[4] = "no_replace"
      /\ Objects[5] = "no_delete"
  BY DEF Objects
<1>2. \A k \in 1..5 : k = 1 \/ k = 2 \/ k = 3 \/ k = 4 \/ k = 5
  OBVIOUS
<1>3. \A k \in 1..5 : 1..((k + 1) - 1) = (1..(k - 1)) \cup {k}
  OBVIOUS
<1>4. \A k \in 1..5 : MadeBefore(k + 1) = MadeBefore(k) \cup {Objects[k]}
  BY <1>3 DEF MadeBefore
<1>5. MadeBefore(1) = {}
  BY DEF MadeBefore
<1>6. MadeBefore(6) = Everything
  <2>1. 1..(6 - 1) = {1, 2, 3, 4, 5}
    OBVIOUS
  <2> QED
    BY <1>1, <2>1 DEF MadeBefore, Everything
<1> QED
  BY <1>1, <1>2, <1>4, <1>5, <1>6 DEF Everything

(* The row that an INSERT adds comes after all the others. *)
LEMMA AppendFacts ==
    ASSUME NEW S, NEW s \in Seq(S), NEW e \in S
    PROVE  /\ Append(s, e) \in Seq(S)
           /\ DOMAIN Append(s, e) = DOMAIN s \cup {Len(s) + 1}
           /\ Append(s, e)[Len(s) + 1] = e
           /\ \A i \in DOMAIN s : Append(s, e)[i] = s[i]
           /\ DOMAIN s = 1..Len(s) /\ Len(s) \in Nat
OBVIOUS

(* Opening: neither rows nor calls are concerned. *)
LEMMA OpenStep ==
    ASSUME IInv, NEW c \in Conn,
           Open(c) \/ ReadVersion(c) \/ Create(c) \/ Stamp(c) \/ Verify(c)
    PROVE  /\ TypeOK' /\ SchemaInv' /\ \A d \in Conn : OpenInv(d)'
           /\ rows' = rows /\ arg' = arg /\ result' = result
           /\ \A d \in Conn : at'[d] \in Appending => at'[d] = at[d]
<1> USE DEF Goto, Opening, Appending
<1>1. TypeOK /\ SchemaInv /\ \A d \in Conn : OpenInv(d)
  BY DEF IInv
<1>2. CASE Open(c)
  BY <1>1, <1>2, ObjectsFacts DEF Open, TypeOK, SchemaInv, OpenInv
<1>3. CASE ReadVersion(c)
  <2>1. version = "2" => MadeBefore(made[c]) \subseteq schema
    <3>1. made[c] \in 1..5
      BY <1>1, ObjectsFacts DEF TypeOK
    <3>2. \A i \in 1..(made[c] - 1) : i \in 1..5
      BY <3>1
    <3> QED
      BY <1>1, <3>2, ObjectsFacts DEF MadeBefore, SchemaInv
  <2> QED
    BY <1>1, <1>3, <2>1 DEF ReadVersion, TypeOK, SchemaInv, OpenInv
<1>4. CASE Create(c)
  <2>1. made[c] \in 1..5 /\ at[c] = "create" /\ version # "1"
    BY <1>1, <1>4, ObjectsFacts DEF Create, TypeOK, OpenInv
  <2>2. /\ schema' = schema \cup {Objects[made[c]]}
        /\ MadeBefore(made[c] + 1) \subseteq schema'
        /\ Objects[made[c]] \in Everything
    BY <1>1, <1>4, <2>1, ObjectsFacts DEF Create, OpenInv
  <2>3. TypeOK'
    BY <1>1, <1>4, <2>1, <2>2, ObjectsFacts DEF Create, TypeOK
  <2>4. SchemaInv'
    BY <1>1, <1>4, <2>1, <2>2 DEF Create, SchemaInv, TypeOK
  <2>5. made[c] = 5 => schema' = Everything
    BY <2>2, <2>3, ObjectsFacts DEF TypeOK
  <2>6. OpenInv(c)'
    BY <1>1, <1>4, <2>1, <2>2, <2>5, ObjectsFacts DEF Create, TypeOK, OpenInv
  <2>7. ASSUME NEW d \in Conn \ {c} PROVE OpenInv(d)'
    BY <1>1, <1>4, <2>2, <2>3 DEF Create, TypeOK, OpenInv
  <2> QED
    BY <1>1, <1>4, <2>3, <2>4, <2>6, <2>7 DEF Create, TypeOK
<1>5. CASE Stamp(c)
  BY <1>1, <1>5 DEF Stamp, TypeOK, SchemaInv, OpenInv
<1>6. CASE Verify(c)
  BY <1>1, <1>6 DEF Verify, TypeOK, SchemaInv, OpenInv
<1> QED
  BY <1>2, <1>3, <1>4, <1>5, <1>6

(* Steps of a call that add nothing. *)
LEMMA CallStep ==
    ASSUME IInv, NEW c \in Conn,
           Call(c) \/ Look(c) \/ Explain(c) \/ LockedOut(c) \/ Leave(c)
    PROVE  IInv'
<1> USE DEF Goto, Return, Opening, Appending
<1>1. /\ TypeOK /\ SchemaInv /\ Unique /\ Apart /\ CorrectionSound
      /\ \A d \in Conn : OpenInv(d) /\ AppendInv(d)
  BY DEF IInv
<1>2. TypeOK' /\ UNCHANGED <<schema, version, rows, made>>
  <2>1. CASE Call(c)
    BY <1>1, <2>1, MemoryAssumption DEF Call, TypeOK
  <2>2. CASE Look(c) \/ Explain(c) \/ LockedOut(c) \/ Leave(c)
    BY <1>1, <2>2 DEF Look, Explain, LockedOut, Leave, TypeOK
  <2> QED
    BY <2>1, <2>2
<1>3. SchemaInv' /\ Unique' /\ CorrectionSound'
  BY <1>1, <1>2 DEF SchemaInv, Unique, CorrectionSound
<1>4. \A d \in Conn : OpenInv(d)'
  BY <1>1, <1>2 DEF Call, Look, Explain, LockedOut, Leave, TypeOK, OpenInv
<1>5. Apart'
  <2>1. \A d \in Conn : result'[d] = "stored" => result[d] = "stored" /\ arg'[d] = arg[d]
    <3>1. CASE Call(c)
      BY <1>1, <3>1 DEF Call, TypeOK
    <3>2. CASE Look(c) \/ Explain(c) \/ LockedOut(c) \/ Leave(c)
      BY <1>1, <3>2 DEF Look, Explain, LockedOut, Leave, TypeOK
    <3> QED
      BY <3>1, <3>2
  <2> QED
    BY <1>1, <2>1 DEF Apart
<1>6. ASSUME NEW d \in Conn PROVE AppendInv(d)'
  <2>1. CASE d # c
    BY <1>1, <1>2, <2>1 DEF Call, Look, Explain, LockedOut, Leave, TypeOK, AppendInv, IdTaken
  <2>2. CASE d = c
    <3>1. CASE Call(c)
      BY <1>1, <1>2, <2>2, <3>1, MemoryAssumption DEF Call, TypeOK, AppendInv, IdTaken
    <3>2. CASE Look(c)
      <4>1. arg[c] \in Episode /\ arg' = arg /\ rows' = rows /\ at[c] = "look"
        BY <1>1, <3>2 DEF Look, AppendInv
      <4>2. CASE Correctable(arg[c])
        <5>1. \E j \in DOMAIN rows : Answers(rows[j], arg[c])
          BY <4>2 DEF Correctable, Stored, Answers
        <5>2. at'[c] = "insert" /\ result' = result
          BY <1>1, <3>2, <4>2 DEF Look, TypeOK
        <5> QED
          BY <1>1, <2>2, <4>1, <5>1, <5>2 DEF AppendInv, IdTaken
      <4>3. CASE ~Correctable(arg[c])
        BY <1>1, <2>2, <3>2, <4>1, <4>3 DEF Look, TypeOK, AppendInv, IdTaken
      <4> QED
        BY <4>2, <4>3
    <3>3. CASE Explain(c)
      <4>1. arg[c].id \in StoredIds \/ Untruthful(arg[c])
        BY <1>1, <3>3 DEF Explain, AppendInv, IdTaken, StoredIds, Stored
      <4> QED
        BY <1>1, <1>2, <2>2, <3>3, <4>1 DEF Explain, TypeOK, AppendInv, IdTaken
    <3>4. CASE LockedOut(c) \/ Leave(c)
      BY <1>1, <1>2, <2>2, <3>4 DEF LockedOut, Leave, TypeOK, AppendInv, IdTaken
    <3> QED
      BY <3>1, <3>2, <3>3, <3>4
  <2> QED
    BY <2>1, <2>2
<1> QED
  BY <1>2, <1>3, <1>4, <1>5, <1>6 DEF IInv

LEMMA InsertStep ==
    ASSUME IInv, NEW c \in Conn, Insert(c)
    PROVE  IInv'
<1> USE DEF Goto, Return, Opening, Appending
<1>1. /\ TypeOK /\ SchemaInv /\ Unique /\ Apart /\ CorrectionSound
      /\ \A d \in Conn : OpenInv(d) /\ AppendInv(d)
  BY DEF IInv
<1>2. /\ at[c] = "insert" /\ arg[c] \in Episode /\ rows \in Seq(Episode)
      /\ version = "2" /\ UNCHANGED <<schema, version, made, arg>>
  BY <1>1 DEF Insert, AppendInv, OpenInv, TypeOK
<1>3. CASE ~Accepted(arg[c])
  <2>1. IdTaken(arg[c]) \/ Untruthful(arg[c])
    BY <1>1, <1>2, <1>3 DEF IdTaken, Untruthful, Accepted, AppendInv, Answers, StoredIds, Stored, Episode
  <2>2. rows' = rows /\ result' = result /\ at' = [at EXCEPT ![c] = "explain"]
    BY <1>3 DEF Insert
  <2>3. TypeOK' /\ SchemaInv' /\ Unique' /\ Apart' /\ CorrectionSound'
    BY <1>1, <1>2, <2>2 DEF TypeOK, SchemaInv, Unique, Apart, CorrectionSound
  <2>4. \A d \in Conn : OpenInv(d)'
    BY <1>1, <1>2, <2>2 DEF TypeOK, OpenInv
  <2>5. \A d \in Conn : AppendInv(d)'
    BY <1>1, <1>2, <2>1, <2>2 DEF TypeOK, AppendInv, IdTaken
  <2> QED
    BY <2>3, <2>4, <2>5 DEF IInv
<1>4. CASE Accepted(arg[c])
  <2>1. /\ rows' = Append(rows, arg[c]) /\ at' = [at EXCEPT ![c] = "ready"]
        /\ result' = [result EXCEPT ![c] = "stored"]
    BY <1>4 DEF Insert
  <2>2. /\ rows' \in Seq(Episode) /\ DOMAIN rows' = DOMAIN rows \cup {Len(rows) + 1}
        /\ rows'[Len(rows) + 1] = arg[c] /\ \A i \in DOMAIN rows : rows'[i] = rows[i]
        /\ DOMAIN rows = 1..Len(rows) /\ Len(rows) \in Nat
    BY <1>2, <2>1, AppendFacts
  <2>3. \A i \in DOMAIN rows : rows[i].id # arg[c].id
    BY <1>4 DEF Accepted, StoredIds, Stored
  <2>4. TypeOK'
    BY <1>1, <1>2, <2>1, <2>2 DEF TypeOK
  <2>5. SchemaInv'
    BY <1>1, <1>2 DEF SchemaInv
  <2>6. Unique'
    BY <1>1, <2>2, <2>3 DEF Unique
  <2>7. Apart'
    <3>1. \A d \in Conn \ {c} : result[d] = "stored" => arg[d].id # arg[c].id
      BY <1>1, <2>3 DEF AppendInv
    <3> QED
      BY <1>1, <1>2, <2>1, <3>1 DEF Apart, TypeOK
  <2>8. CorrectionSound'
    <3>1. SUFFICES ASSUME NEW i \in DOMAIN rows', rows'[i].corrects # NoId
                   PROVE  \E j \in 1..(i - 1) : Answers(rows'[j], rows'[i])
      BY DEF CorrectionSound, Answers
    <3>2. CASE i \in DOMAIN rows
      <4>1. PICK j \in 1..(i - 1) : Answers(rows[j], rows[i])
        BY <1>1, <2>2, <3>1, <3>2 DEF CorrectionSound, Answers
      <4>2. j \in DOMAIN rows
        BY <2>2, <3>2
      <4> QED
        BY <2>2, <3>2, <4>1, <4>2
    <3>3. CASE i = Len(rows) + 1
      <4>1. PICK j \in DOMAIN rows : Answers(rows[j], arg[c])
        BY <1>1, <1>2, <2>2, <3>1, <3>3 DEF AppendInv
      <4> QED
        BY <2>2, <3>3, <4>1
    <3> QED
      BY <2>2, <3>2, <3>3
  <2>9. \A d \in Conn : OpenInv(d)'
    BY <1>1, <1>2, <2>1 DEF TypeOK, OpenInv
  <2>10. \A d \in Conn : AppendInv(d)'
    BY <1>1, <1>2, <2>1, <2>2 DEF TypeOK, AppendInv, IdTaken, Untruthful
  <2> QED
    BY <2>4, <2>5, <2>6, <2>7, <2>8, <2>9, <2>10 DEF IInv
<1> QED
  BY <1>3, <1>4

(* With the triggers there, no statement of another client has any effect. *)
LEMMA OtherClientStep ==
    ASSUME IInv, OtherClient
    PROVE  UNCHANGED vars
<1>1. PICK i \in DOMAIN rows, s \in Scope : Rewrite(i, [rows[i] EXCEPT !.scope = s])
  BY DEF OtherClient
<1>2. rows # <<>> /\ schema = Everything
  BY <1>1 DEF IInv, SchemaInv
<1> QED
  BY <1>1, <1>2 DEF OtherClient, Rewrite, Everything, vars

-----------------------------------------------------------------------------
LEMMA InvInit == Init => IInv
<1> SUFFICES ASSUME Init PROVE IInv
  OBVIOUS
<1>1. TypeOK
  BY ObjectsFacts DEF Init, TypeOK, Everything
<1>2. SchemaInv /\ Unique /\ Apart /\ CorrectionSound
  BY DEF Init, SchemaInv, Unique, Apart, CorrectionSound
<1>3. ASSUME NEW c \in Conn PROVE OpenInv(c) /\ AppendInv(c)
  BY <1>3 DEF Init, OpenInv, AppendInv, Appending
<1> QED
  BY <1>1, <1>2, <1>3 DEF IInv

LEMMA StutterKeeps ==
    ASSUME IInv, UNCHANGED vars
    PROVE  IInv'
BY DEF IInv, TypeOK, SchemaInv, OpenInv, AppendInv, IdTaken, Unique, Apart, CorrectionSound, vars,
       connVars

LEMMA InvStep == IInv /\ [Next]_vars => IInv'
<1> SUFFICES ASSUME IInv, [Next]_vars PROVE IInv'
  OBVIOUS
<1>1. ASSUME NEW c \in Conn,
             Open(c) \/ ReadVersion(c) \/ Create(c) \/ Stamp(c) \/ Verify(c)
      PROVE  IInv'
  <2>1. /\ TypeOK' /\ SchemaInv' /\ \A d \in Conn : OpenInv(d)'
        /\ rows' = rows /\ arg' = arg /\ result' = result
        /\ \A d \in Conn : at'[d] \in Appending => at'[d] = at[d]
    BY <1>1, OpenStep
  <2>2. \A d \in Conn : AppendInv(d)'
    BY <2>1 DEF IInv, AppendInv, IdTaken, Appending
  <2>3. Unique' /\ Apart' /\ CorrectionSound'
    BY <2>1 DEF IInv, Unique, Apart, CorrectionSound
  <2> QED
    BY <2>1, <2>2, <2>3 DEF IInv
<1>2. ASSUME NEW c \in Conn, Step(c) PROVE IInv'
  BY <1>1, <1>2, CallStep, InsertStep DEF Step
<1> QED
  BY <1>2, OtherClientStep, StutterKeeps DEF Next

THEOREM Inductive == Spec => []IInv
BY InvInit, InvStep, PTL DEF Spec

(* Every variable keeps its type. *)
THEOREM TypeCorrect == Spec => []TypeOK
<1>1. IInv => TypeOK
  BY DEF IInv
<1> QED
  BY <1>1, Inductive, PTL

(* Whoever gets past __init__ has the whole schema under it, with any       *)
(* number of concurrent and interrupted initialisations                     *)
(* (sqlite_store.py:56-151).                                                *)
THEOREM ReadyAlwaysWhole == Spec => []ReadyIsWhole
<1>1. IInv => ReadyIsWhole
  BY DEF IInv, SchemaInv, OpenInv, ReadyIsWhole
<1> QED
  BY <1>1, Inductive, PTL

(* A correction follows what it corrects, in its scope and split            *)
(* (sqlite_store.py:170-205).                                               *)
THEOREM CorrectionsAlwaysSound == Spec => []CorrectionSound
<1>1. IInv => CorrectionSound
  BY DEF IInv
<1> QED
  BY <1>1, Inductive, PTL

(* One caller at most is told that its episode was stored under an id, and  *)
(* it was (sqlite_store.py:207-249).                                        *)
THEOREM AlwaysStoredOnce == Spec => []StoredOnce
<1>1. IInv => StoredOnce
  <2>1. ASSUME IInv, NEW c \in Conn, result[c] = "stored"
        PROVE  /\ \E i \in DOMAIN rows :
                     /\ rows[i] = arg[c]
                     /\ \A j \in DOMAIN rows : rows[j].id = arg[c].id => j = i
               /\ \A d \in Conn \ {c} :
                     result[d] = "stored" => arg[d].id # arg[c].id
    <3>1. PICK i \in DOMAIN rows : rows[i] = arg[c]
      BY <2>1 DEF IInv, AppendInv
    <3> QED
      BY <2>1, <3>1 DEF IInv, Unique, Apart
  <2> QED
    BY <2>1 DEF StoredOnce
<1> QED
  BY <1>1, Inductive, PTL

(* The error "violates the SQLite memory contract" is unreachable for a     *)
(* validated episode whose retrieval_eligible is a truth value              *)
(* (sqlite_store.py:207-250; learning/models.py:98).                        *)
THEOREM RefusalAlwaysDuplicate == Spec => []RefusalIsDuplicate
<1>1. IInv => RefusalIsDuplicate
  BY DEF IInv, AppendInv, Untruthful, RefusalIsDuplicate
<1> QED
  BY <1>1, Inductive, PTL

(* A store of schema version 1 stays as it was found                        *)
(* (sqlite_store.py:63-75).                                                 *)
THEOREM OldStoreAlwaysUntouched == Spec => OldStoreUntouched
<1>1. IInv /\ [Next]_vars => [version = "1" => UNCHANGED <<schema, version, rows>>]_vars
  <2> SUFFICES ASSUME IInv, Next, version = "1"
               PROVE  UNCHANGED <<schema, version, rows>>
    OBVIOUS
  <2>1. CASE OtherClient
    BY <2>1, OtherClientStep DEF vars
  <2>2. ASSUME NEW c \in Conn, Step(c) PROVE UNCHANGED <<schema, version, rows>>
    BY <2>2 DEF IInv, OpenInv, Step, Open, ReadVersion, Create, Stamp, Verify, Call, Look,
                Insert, Explain, LockedOut, Leave, Appending
  <2> QED
    BY <2>1, <2>2 DEF Next
<1> QED
  BY <1>1, Inductive, PTL DEF Spec, OldStoreUntouched

(* The store implements the append-only log of the memory contract: no step *)
(* of any client does anything to the history but to append an admissible   *)
(* episode (sqlite_store.py:115-136, 157-250; base.py:14-15).               *)
THEOREM Refinement == Spec => ImplementsLog
<1>1. Init => Log!Init
  BY DEF Init, Log!Init
<1>2. IInv /\ [Next]_vars => [Log!Next]_rows
  <2> SUFFICES ASSUME IInv, [Next]_vars, rows' # rows PROVE Log!Next
    OBVIOUS
  <2>1. PICK c \in Conn : Step(c)
    BY OtherClientStep DEF Next, vars
  <2>2. Insert(c) /\ Accepted(arg[c])
    BY <2>1 DEF Step, Open, ReadVersion, Create, Stamp, Verify, Call, Look, Insert, Explain,
                LockedOut, Leave
  <2>3. arg[c] \in Episode /\ rows' = Append(rows, arg[c]) /\ at[c] = "insert"
    BY <2>2 DEF Insert, IInv, AppendInv, Appending
  <2>4. Log!Admissible(arg[c])
    BY <2>2, <2>3 DEF IInv, AppendInv, Answers, Accepted, StoredIds, Stored, Log!Admissible,
                      Log!Recorded
  <2> QED
    BY <2>3, <2>4 DEF Log!Next
<1> QED
  BY <1>1, <1>2, Inductive, PTL DEF Spec, ImplementsLog, Log!Spec
=============================================================================
