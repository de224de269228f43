---------------------------- MODULE MemoryStore ----------------------------
(***************************************************************************)
(* learning/sqlite_store.py: the append-only episode memory, one SQLite    *)
(* file that any number of SQLiteMemoryStore objects have open.            *)
(*                                                                         *)
(* One step is one SQL statement with its commit: executescript commits    *)
(* every statement of the schema by itself, and the reads of               *)
(* append_episode precede the transaction that its INSERT begins.          *)
(***************************************************************************)
EXTENDS Integers, Sequences

CONSTANTS
    Conn,     \* SQLiteMemoryStore objects
    Id,       \* episode ids
    Scope,    \* (tenant_id, privacy_scope, catalog_version)
    NoId,     \* corrects_episode_id is None
    Offered,  \* the episodes callers append
    Found     \* the files that may be there at first: a set of FileState

Split == {"train", "dev", "test"}

(* What LearningEpisode.__post_init__ lets pass.  It does not ask for the   *)
(* type of retrieval_eligible: 2 is what int() makes of any other true      *)
(* value than True.                                                         *)
Episode ==
    {e \in [id : Id, scope : Scope, split : Split, eligible : {0, 1, 2},
            corrects : Id \cup {NoId}] :
        /\ e.eligible # 0 => e.split = "train"
        /\ e.corrects # e.id}

(* "old": a store of schema version 1. *)
FileState == {"none", "old"}

ASSUME MemoryAssumption ==
    /\ NoId \notin Id
    /\ Offered \subseteq Episode
    /\ Found \subseteq FileState

VARIABLES
    schema,   \* the tables and triggers that exist
    version,  \* store_schema_version: "none" when the row is missing
    rows,     \* learning_episodes, in the order of `sequence`
    at,       \* where in __init__ or append_episode each object is
    made,     \* which statement of the schema it runs next
    arg,      \* the episode of its last append_episode
    result    \* how that call ended

connVars == <<at, made, arg, result>>
vars     == <<schema, version, rows, connVars>>

(* Mutant: REPLACE is not thought of. *)
ObjectsNoReplace == <<"metadata", "episodes", "no_update", "no_delete">>

(* The script, in its order; the index changes nothing that is modelled. *)
Objects == <<"metadata", "episodes", "no_update", "no_replace", "no_delete">>

Everything == {"metadata", "episodes", "no_update", "no_replace", "no_delete"}

Opening   == {"read", "create", "stamp", "verify"}
Appending == {"look", "insert", "explain"}

TypeOK ==
    /\ schema \subseteq Everything
    /\ version \in {"none", "1", "2"}
    /\ rows \in Seq(Episode)
    /\ at \in [Conn -> {"closed", "refused", "ready"} \cup Opening \cup Appending]
    /\ made \in [Conn -> 1..Len(Objects)]
    /\ arg \in [Conn -> Episode \cup {NoId}]
    /\ result \in [Conn -> {"none", "stored", "reference", "duplicate",
                            "contract", "locked"}]

Stored    == {rows[i] : i \in DOMAIN rows}
StoredIds == {e.id : e \in Stored}

Goto(c, step) == at' = [at EXCEPT ![c] = step]

-----------------------------------------------------------------------------
(* __init__ and _initialize_schema *)

Open(c) ==
    /\ at[c] \in {"closed", "refused"}
    /\ Goto(c, IF "metadata" \in schema THEN "read" ELSE "create")
    /\ made' = [made EXCEPT ![c] = 1]
    /\ UNCHANGED <<schema, version, rows, arg, result>>

(* Mutant: any version will do. *)
ReadVersionLenient(c) ==
    /\ at[c] = "read"
    /\ Goto(c, IF version # "none" THEN "create" ELSE "refused")
    /\ UNCHANGED <<schema, version, rows, made, arg, result>>

ReadVersion(c) ==
    /\ at[c] = "read"
    /\ Goto(c, IF version = "2" THEN "create" ELSE "refused")
    /\ UNCHANGED <<schema, version, rows, made, arg, result>>

(* Mutants: the counter is not reset; the triggers are left to later. *)
CreateUnbounded(c) ==
    /\ at[c] = "create"
    /\ schema' = schema \cup {Objects[made[c]]}
    /\ Goto(c, IF made[c] = Len(Objects) THEN "stamp" ELSE "create")
    /\ made' = [made EXCEPT ![c] = @ + 1]
    /\ UNCHANGED <<version, rows, arg, result>>
CreateTablesOnly(c) ==
    /\ at[c] = "create"
    /\ schema' = schema \cup {Objects[made[c]]}
    /\ Goto(c, IF made[c] = 2 THEN "stamp" ELSE "create")
    /\ made' = [made EXCEPT ![c] = IF @ = 2 THEN 1 ELSE @ + 1]
    /\ UNCHANGED <<version, rows, arg, result>>

(* CREATE ... IF NOT EXISTS *)
Create(c) ==
    /\ at[c] = "create"
    /\ schema' = schema \cup {Objects[made[c]]}
    /\ Goto(c, IF made[c] = Len(Objects) THEN "stamp" ELSE "create")
    /\ made' = [made EXCEPT ![c] = IF @ = Len(Objects) THEN 1 ELSE @ + 1]
    /\ UNCHANGED <<version, rows, arg, result>>

(* INSERT OR IGNORE of the version *)
Stamp(c) ==
    /\ at[c] = "stamp"
    /\ version' = IF version = "none" THEN "2" ELSE version
    /\ Goto(c, "verify")
    /\ UNCHANGED <<schema, rows, made, arg, result>>

Verify(c) ==
    /\ at[c] = "verify"
    /\ Goto(c, IF version = "2" THEN "ready" ELSE "refused")
    /\ UNCHANGED <<schema, version, rows, made, arg, result>>

-----------------------------------------------------------------------------
(* append_episode *)

Return(c, status) ==
    /\ Goto(c, "ready")
    /\ result' = [result EXCEPT ![c] = status]

Call(c) ==
    /\ at[c] = "ready"
    /\ \E e \in Offered :
        /\ arg' = [arg EXCEPT ![c] = e]
        /\ Goto(c, IF e.corrects = NoId THEN "insert" ELSE "look")
    /\ result' = [result EXCEPT ![c] = "none"]
    /\ UNCHANGED <<schema, version, rows, made>>

(* Mutant: only the scope of the corrected episode is compared. *)
CorrectableScope(e) ==
    \E old \in Stored : old.id = e.corrects /\ old.scope = e.scope

Correctable(e) ==
    \E old \in Stored :
        /\ old.id = e.corrects
        /\ old.scope = e.scope
        /\ old.split = e.split
        /\ e.eligible # 0 => old.split = "train"

(* Mutant: that the corrected episode is missing is left to the database. *)
LookUnheeded(c) ==
    /\ at[c] = "look"
    /\ IF arg[c].corrects \in StoredIds => Correctable(arg[c])
       THEN Goto(c, "insert") /\ UNCHANGED result
       ELSE Return(c, "reference")
    /\ UNCHANGED <<schema, version, rows, made, arg>>

Look(c) ==
    /\ at[c] = "look"
    /\ IF Correctable(arg[c])
       THEN Goto(c, "insert") /\ UNCHANGED result
       ELSE Return(c, "reference")
    /\ UNCHANGED <<schema, version, rows, made, arg>>

(* UNIQUE and the no_replace trigger, FOREIGN KEY, CHECK *)
Accepted(e) ==
    /\ e.id \notin StoredIds
    /\ e.corrects = NoId \/ e.corrects \in StoredIds
    /\ e.eligible \in {0, 1}
    /\ e.split = "train" \/ e.eligible = 0

(* Mutant: the table has no UNIQUE constraint. *)
InsertAgain(c) ==
    /\ at[c] = "insert"
    /\ rows' = Append(rows, arg[c])
    /\ Return(c, "stored")
    /\ UNCHANGED <<schema, version, made, arg>>

Insert(c) ==
    /\ at[c] = "insert"
    /\ IF Accepted(arg[c])
       THEN rows' = Append(rows, arg[c]) /\ Return(c, "stored")
       ELSE Goto(c, "explain") /\ UNCHANGED <<rows, result>>
    /\ UNCHANGED <<schema, version, made, arg>>

(* IntegrityError: was it the id? *)
Explain(c) ==
    /\ at[c] = "explain"
    /\ Return(c, IF arg[c].id \in StoredIds THEN "duplicate" ELSE "contract")
    /\ UNCHANGED <<schema, version, rows, made, arg>>

(* busy_timeout runs out while another object writes. *)
LockedOut(c) ==
    /\ at[c] \in Appending
    /\ Return(c, "locked")
    /\ UNCHANGED <<schema, version, rows, made, arg>>

(* close(), the end of the process, or an __init__ that raises half way. *)
Leave(c) ==
    /\ at[c] # "closed"
    /\ Goto(c, "closed")
    /\ result' = [result EXCEPT ![c] = "none"]
    /\ UNCHANGED <<schema, version, rows, made, arg>>

-----------------------------------------------------------------------------
(* Statements sent to the file past the store's API. *)

Without(i) == [j \in 1..(Len(rows) - 1) |-> IF j < i THEN rows[j] ELSE rows[j + 1]]

(* UPDATE, INSERT OR REPLACE with an id that is there, DELETE: each is      *)
(* aborted by its trigger.  A replaced row gets a new sequence number.      *)
Rewrite(i, row) ==
    \/ rows' = IF "no_update" \in schema THEN rows ELSE [rows EXCEPT ![i] = row]
    \/ rows' = IF "no_replace" \in schema THEN rows ELSE Append(Without(i), row)
    \/ rows' = IF "no_delete" \in schema THEN rows ELSE Without(i)

OtherClient ==
    /\ \E i \in DOMAIN rows, s \in Scope : Rewrite(i, [rows[i] EXCEPT !.scope = s])
    /\ UNCHANGED <<schema, version, connVars>>

-----------------------------------------------------------------------------
Init ==
    /\ \E file \in Found :
        /\ schema = IF file = "old" THEN {"metadata"} ELSE {}
        /\ version = IF file = "old" THEN "1" ELSE "none"
    /\ rows = <<>>
    /\ at = [c \in Conn |-> "closed"]
    /\ made = [c \in Conn |-> 1]
    /\ arg = [c \in Conn |-> NoId]
    /\ result = [c \in Conn |-> "none"]

Step(c) ==
    \/ Open(c) \/ ReadVersion(c) \/ Create(c) \/ Stamp(c) \/ Verify(c)
    \/ Call(c) \/ Look(c) \/ Insert(c) \/ Explain(c) \/ LockedOut(c)
    \/ Leave(c)

Next == (\E c \in Conn : Step(c)) \/ OtherClient

Spec == Init /\ [][Next]_vars

-----------------------------------------------------------------------------
Log == INSTANCE EpisodeLog WITH log <- rows

(* The file is the history the learning loop was promised, with statements  *)
(* of any client, concurrent appends and lost processes: nothing recorded   *)
(* is changed, moved or removed, and no id is recorded twice                *)
(* (sqlite_store.py:84-136, 157-250; base.py:14-15).                        *)
ImplementsLog == Log!Spec

(* An object that can be used has every table and trigger under it, even    *)
(* when another process died in the middle of the script or runs it at the  *)
(* same time (sqlite_store.py:56-151).                                      *)
ReadyIsWhole ==
    \A c \in Conn : at[c] \in {"ready"} \cup Appending =>
        schema = Everything /\ version = "2"

(* A store of another schema version is refused before anything in it is    *)
(* changed (sqlite_store.py:63-75).                                         *)
OldStoreUntouched ==
    [][version = "1" => UNCHANGED <<schema, version, rows>>]_vars

(* What a correction refers to is recorded before it, in the same scope and *)
(* split, so no chain of corrections leads from training data into held-out *)
(* data, although the check and the insertion are separate transactions     *)
(* (sqlite_store.py:170-205).                                               *)
CorrectionSound ==
    \A i \in DOMAIN rows : rows[i].corrects # NoId =>
        \E j \in 1..(i - 1) : /\ rows[j].id = rows[i].corrects
                              /\ rows[j].scope = rows[i].scope
                              /\ rows[j].split = rows[i].split

(* At most one caller is told that an id was stored, and what it appended   *)
(* is what the file holds under that id (sqlite_store.py:207-249).          *)
StoredOnce ==
    \A c \in Conn : result[c] = "stored" =>
        /\ \E i \in DOMAIN rows :
              /\ rows[i] = arg[c]
              /\ \A j \in DOMAIN rows : rows[j].id = arg[c].id => j = i
        /\ \A d \in Conn \ {c} :
              result[d] = "stored" => arg[d].id # arg[c].id

(* "episode violates the SQLite memory contract" (sqlite_store.py:250) is   *)
(* said of no episode whose retrieval_eligible is a truth value: whenever   *)
(* the database refuses one that LearningEpisode accepted, its id is taken, *)
(* and the caller is told so.                                               *)
RefusalIsDuplicate ==
    \A c \in Conn : result[c] = "contract" => arg[c].eligible \notin {0, 1}
=============================================================================
