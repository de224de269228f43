--------------------------- MODULE SqlAcceptance ---------------------------
(***************************************************************************)
(* The acceptance of the demo's SQL: adapt_zhengyuan_demo.py writes a      *)
(* bundle of artifacts for each ticker; validate_demo_intake_sql.py reads  *)
(* the bundles and the dump again, trusting neither, starts a PostgreSQL   *)
(* server of its own on a private copy of the dump, runs the queries,      *)
(* stops the server and prints a report.                                   *)
(*                                                                         *)
(* Files may change while they are read, any command may fail or exceed    *)
(* its timeout, the server may crash, and KeyboardInterrupt may land       *)
(* anywhere, in the handlers that deal with another failure too.           *)
(***************************************************************************)
EXTENDS Integers, FiniteSets

CONSTANTS
    Ticker,    \* ALLOWED_TICKERS
    Symbol,    \* what a manifest may name as its ticker
    FirstDay,  \* the dates _validate_inputs allows
    LastDay,
    DATE,      \* the start date that is accepted
    Day,       \* the dates that are asked for or named
    Pair,      \* the --case arguments, one output directory each
    Chunks,    \* chunks that the dump is read in
    Query,     \* the four authored queries
    EXPECTED_COUNTS,
    Fetch,     \* rows that fetchmany asks for
    MaxRows,   \* bound: rows that a query returns
    Absent,    \* no such file
    Torn,      \* a file with part of its bytes
    Idle,      \* adapt_zhengyuan_demo.py has not run
    Gone       \* it has ended, one way or another

(* A text names the inputs it was adapted for; it is exact if its bytes are *)
(* those that adapt_workflow makes of them.                                 *)
Text   == [kind : {"workflow", "manifest"}, ticker : Symbol, date : Day, exact : BOOLEAN]
File   == Text \cup {Absent, Torn}
Bundle == [workflow : File, manifest : File]
None   == [workflow |-> Absent, manifest |-> Absent]

ASSUME AcceptanceAssumption ==
    /\ Ticker \subseteq Symbol
    /\ IsFiniteSet(Ticker)
    /\ FirstDay \in Int /\ LastDay \in Int /\ Day \subseteq Int
    /\ DATE \in Day /\ DATE \in FirstDay..LastDay
    /\ Chunks \in Nat \ {0}
    /\ EXPECTED_COUNTS \in [Query -> Nat]
    /\ Fetch \in Nat /\ MaxRows \in Nat
    /\ \A q \in Query : EXPECTED_COUNTS[q] < Fetch
    /\ Absent \notin Text /\ Torn \notin Text
    /\ Idle \notin Ticker \X Day /\ Gone \notin Ticker \X Day

VARIABLES
    \* files
    original,    \* whether the workflow's original is the pinned one
    bundle,      \* what each output directory holds
    author,      \* what adapt_zhengyuan_demo.py does for it
    dump,        \* which chunks of the dump are as pinned
    \* the script
    execute,     \* --execute-isolated
    step,        \* the next command
    cases,       \* the bundles that load_cases accepted
    chunk,       \* chunks of the dump that verify_dump has read
    digest,      \* whether they were all as pinned
    snapshot,    \* the private copy: none, other or pinned
    initialized, \* OwnedCluster.initialized
    pid,         \* whether OwnedCluster.pid is known
    todo,        \* queries still to run
    ok,          \* evidence["ok"]
    cleanup,     \* evidence["cleanup"]
    flies,       \* an exception that nothing catches
    \* the server
    server,      \* the postmaster and its postmaster.pid
    reused,      \* its pid belongs to another process
    database,    \* what the database holds
    returned,    \* rows that each query returned
    cut          \* pg_ctl start did not come back with 0

texts     == <<original, bundle, author>>
verifying == <<chunk, digest, snapshot>>
report    == <<ok, cleanup, flies>>
process   == <<server, reused>>
data      == <<database, returned>>
vars      == <<texts, dump, execute, step, cases, verifying, initialized, pid, todo,
               report, process, data, cut>>

Loading   == {"original", "load"}
Verifying == {"verify", "snapshot"}
Starting  == {"initdb", "pg_ctl", "starting", "capture", "createdb", "restore", "grant"}
Trying    == Loading \cup Verifying \cup Starting \cup {"programs", "cluster", "query", "finish"}
Stopping  == {"stop", "fast", "again", "immediate", "status", "file", "kill"}
Ended     == {"reported", "died"}

TypeOK ==
    /\ original \in BOOLEAN
    /\ bundle \in [Pair -> Bundle]
    /\ author \in [Pair -> {Idle, Gone} \cup (Ticker \X Day)]
    /\ dump \in [1..Chunks -> BOOLEAN]
    /\ execute \in BOOLEAN
    /\ step \in Trying \cup Stopping \cup {"report"} \cup Ended
    /\ cases \in [Pair -> Bundle]
    /\ chunk \in 0..Chunks /\ digest \in BOOLEAN
    /\ snapshot \in {"none", "other", "pinned"}
    /\ initialized \in BOOLEAN /\ pid \in BOOLEAN
    /\ todo \subseteq Ticker \X Query
    /\ ok \in BOOLEAN /\ flies \in BOOLEAN
    /\ cleanup \in {"none", "stopped", "failed"}
    /\ server \in {"none", "forked", "booting", "up", "stopping", "exiting", "gone", "crashed"}
    /\ reused \in BOOLEAN
    /\ database \in {"none", "empty", "other", "pinned"}
    /\ returned \in [Ticker \X Query -> 0..MaxRows]
    /\ cut \in BOOLEAN

Alive   == server \in {"forked", "booting", "up", "stopping", "exiting"}
PidFile == server \in {"booting", "up", "stopping", "crashed"}

Goto(s) == step' = s
-----------------------------------------------------------------------------
(* demo_intake.py *)

ValidInputs(ticker, date) == ticker \in Ticker /\ date \in FirstDay..LastDay

(* The two artifacts that count; every query in them is qualified with the  *)
(* demo schema and has ticker and date for literals.                        *)
Adapted(kind, ticker, date) ==
    [kind |-> kind, ticker |-> ticker, date |-> date, exact |-> TRUE]

AdaptWorkflow(ticker, date) ==
    [workflow |-> Adapted("workflow", ticker, date),
     manifest |-> Adapted("manifest", ticker, date)]

(* Mutant: the hash that the manifest states of itself is believed. *)
VerifiedByManifest(b) ==
    /\ original
    /\ b.manifest \in Text /\ b.workflow \in Text
    /\ ValidInputs(b.manifest.ticker, b.manifest.date)

(* verified_sql_queries: of the manifest only the inputs are believed, and  *)
(* everything is derived from them again.                                   *)
Verified(b) ==
    /\ original
    /\ b.manifest \in Text
    /\ ValidInputs(b.manifest.ticker, b.manifest.date)
    /\ b = AdaptWorkflow(b.manifest.ticker, b.manifest.date)
-----------------------------------------------------------------------------
(* adapt_zhengyuan_demo.py, one run for each output directory.  Nobody      *)
(* reads these files once load_cases has: they rest from then on.           *)

Adapt(p, ticker, date) ==
    /\ step \in Loading /\ author[p] = Idle
    /\ original /\ ValidInputs(ticker, date)
    /\ author' = [author EXCEPT ![p] = <<ticker, date>>]
    /\ UNCHANGED <<original, bundle, dump, execute, step, cases, verifying,
                   initialized, pid, todo, report, process, data, cut>>

(* One write: the file is torn until the last byte is out. *)
Written(file, text) == IF file = Absent THEN Torn ELSE text

WriteBundle(p) ==
    /\ step \in Loading /\ author[p] \in Ticker \X Day
    /\ LET result == AdaptWorkflow(author[p][1], author[p][2]) IN
       \/ /\ bundle[p].workflow \in {Absent, Torn}
          /\ bundle' = [bundle EXCEPT ![p].workflow = Written(@, result.workflow)]
          /\ UNCHANGED author
       \/ /\ bundle[p].workflow \in Text
          /\ bundle' = [bundle EXCEPT ![p].manifest = Written(@, result.manifest)]
          /\ author' = IF bundle[p].manifest = Torn
                       THEN [author EXCEPT ![p] = Gone] ELSE author
    /\ UNCHANGED <<original, dump, execute, step, cases, verifying,
                   initialized, pid, todo, report, process, data, cut>>

(* It fails or dies; mkdir refuses the directory to any later run. *)
LeaveBundle(p) ==
    /\ step \in Loading /\ author[p] \in Ticker \X Day
    /\ author' = [author EXCEPT ![p] = Gone]
    /\ UNCHANGED <<original, bundle, dump, execute, step, cases, verifying,
                   initialized, pid, todo, report, process, data, cut>>

(* Somebody edits a bundle that is still to be read. *)
EditBundle(p) ==
    /\ step \in Loading /\ author[p] = Gone /\ cases[p] = None
    /\ \/ \E symbol \in Symbol :
             /\ bundle[p].manifest \in Text
             /\ bundle' = [bundle EXCEPT ![p].manifest.ticker = symbol,
                                         ![p].manifest.exact = FALSE]
       \/ /\ bundle[p].workflow \in Text
          /\ bundle' = [bundle EXCEPT ![p].workflow.exact = FALSE]
    /\ UNCHANGED <<original, author, dump, execute, step, cases, verifying,
                   initialized, pid, todo, report, process, data, cut>>

(* The dump changes, between the first and the last time it is read. *)
EditDump ==
    /\ step \in Verifying \cup {"programs", "cluster"}
    /\ \E i \in 1..Chunks : dump' = [dump EXCEPT ![i] = ~@]
    /\ UNCHANGED <<texts, execute, step, cases, verifying, initialized, pid, todo,
                   report, process, data, cut>>
-----------------------------------------------------------------------------
(* The server, from its fork to its end *)

Boot ==
    /\ \/ server = "forked" /\ server' = "booting"
       \/ server = "booting" /\ server' = "up"
    /\ UNCHANGED <<texts, dump, execute, step, cases, verifying, initialized, pid,
                   todo, report, reused, data, cut>>

(* A shutdown removes postmaster.pid while the process is still there; a    *)
(* crash leaves the file.                                                   *)
Exit ==
    /\ \/ server \in {"booting", "up", "stopping"} /\ server' \in {"exiting", "crashed"}
       \/ server \in {"forked", "exiting"} /\ server' = "gone"
    /\ UNCHANGED <<texts, dump, execute, step, cases, verifying, initialized, pid,
                   todo, report, reused, data, cut>>

Reuse ==
    /\ server \in {"gone", "crashed"}
    /\ reused' = TRUE
    /\ UNCHANGED <<texts, dump, execute, step, cases, verifying, initialized, pid,
                   todo, report, server, data, cut>>
-----------------------------------------------------------------------------
(* main: load_cases, verify_dump, verify_programs *)

ReadOriginal ==
    /\ step = "original" /\ original
    /\ Goto("load")
    /\ UNCHANGED <<texts, dump, execute, cases, verifying, initialized, pid, todo,
                   report, process, data, cut>>

LoadCase(p) ==
    /\ step = "load" /\ cases[p] = None
    /\ Verified(bundle[p])
    /\ bundle[p].manifest.date = DATE
    /\ cases' = [cases EXCEPT ![p] = bundle[p]]
    /\ UNCHANGED <<texts, dump, execute, step, verifying, initialized, pid, todo,
                   report, process, data, cut>>

Loaded == {cases[p].manifest.ticker : p \in Pair}

CasesLoaded ==
    /\ step = "load" /\ \A p \in Pair : cases[p] # None
    /\ Loaded = Ticker
    /\ Goto("verify")
    /\ todo' = Loaded \X Query
    /\ UNCHANGED <<texts, dump, execute, cases, verifying, initialized, pid, report,
                   process, data, cut>>

(* Mutant: the size is not held against DUMP_BYTES. *)
ReadChunkUnbounded ==
    /\ step \in Verifying
    /\ chunk' = chunk + 1
    /\ digest' = (digest /\ chunk < Chunks /\ dump[chunk'])
    /\ snapshot' = IF step = "snapshot" THEN "other" ELSE "none"
    /\ UNCHANGED <<texts, dump, execute, step, cases, initialized, pid, todo, report,
                   process, data, cut>>

ReadChunk ==
    /\ step \in Verifying /\ chunk < Chunks
    /\ chunk' = chunk + 1
    /\ digest' = (digest /\ dump[chunk'])
    /\ snapshot' = IF step = "snapshot" THEN "other" ELSE "none"
    /\ UNCHANGED <<texts, dump, execute, step, cases, initialized, pid, todo, report,
                   process, data, cut>>

(* verify_dump: the copy is the very stream that was hashed. *)
DumpVerified ==
    /\ step \in Verifying /\ chunk = Chunks /\ digest
    /\ chunk' = 0 /\ digest' = TRUE
    /\ snapshot' = IF step = "snapshot" THEN "pinned" ELSE "none"
    /\ Goto(IF step = "verify" THEN "programs" ELSE "initdb")
    /\ UNCHANGED <<texts, dump, execute, cases, initialized, pid, todo, report,
                   process, data, cut>>

ProgramsVerified ==
    /\ step = "programs"
    /\ Goto(IF execute THEN "cluster" ELSE "finish")
    /\ UNCHANGED <<texts, dump, execute, cases, verifying, initialized, pid, todo,
                   report, process, data, cut>>
-----------------------------------------------------------------------------
(* OwnedCluster.__init__ and start *)

NewCluster ==
    /\ step = "cluster"
    /\ Goto("snapshot")
    /\ UNCHANGED <<texts, dump, execute, cases, verifying, initialized, pid, todo,
                   report, process, data, cut>>

Initdb ==
    /\ step = "initdb"
    /\ initialized' = TRUE
    /\ Goto("pg_ctl")
    /\ UNCHANGED <<texts, dump, execute, cases, verifying, pid, todo, report,
                   process, data, cut>>

(* pg_ctl start forks the postmaster, then waits for it. *)
PgCtlForks ==
    /\ step = "pg_ctl"
    /\ server' = "forked"
    /\ cut' = TRUE
    /\ Goto("starting")
    /\ UNCHANGED <<texts, dump, execute, cases, verifying, initialized, pid, todo,
                   report, reused, data>>

PgCtlStarted ==
    /\ step = "starting" /\ server = "up"
    /\ cut' = FALSE
    /\ Goto("capture")
    /\ UNCHANGED <<texts, dump, execute, cases, verifying, initialized, pid, todo,
                   report, process, data>>

(* capture_pid: a postmaster.pid that is incomplete, or whose process is    *)
(* not this server, raises.                                                 *)
Captured == server \in {"up", "stopping"}

CapturePid ==
    /\ step = "capture" /\ (Captured \/ ~PidFile)
    /\ pid' = (pid \/ Captured)
    /\ Goto("createdb")
    /\ UNCHANGED <<texts, dump, execute, cases, verifying, initialized, todo, report,
                   process, data, cut>>

(* createdb, pg_restore and psql *)
Command(from, to, holds) ==
    /\ step = from /\ server = "up"
    /\ database' = holds
    /\ Goto(to)
    /\ UNCHANGED <<texts, dump, execute, cases, verifying, initialized, pid, todo,
                   report, process, returned, cut>>

Createdb  == Command("createdb", "restore", "empty")
PgRestore == Command("restore", "grant", snapshot)
Grant     == Command("grant", "query", database)
-----------------------------------------------------------------------------
(* run_queries *)

(* fetchmany *)
Fetched(q, n) == IF n < Fetch THEN n ELSE Fetch

(* summarize_rows: what else is wrong with the rows may raise. *)
AsRequired(q, n) == Fetched(q, n) = EXPECTED_COUNTS[q]

RunQuery(t, q) ==
    /\ step = "query" /\ server = "up" /\ <<t, q>> \in todo
    /\ \E n \in 0..MaxRows :
          /\ AsRequired(q, n)
          /\ returned' = [returned EXCEPT ![<<t, q>>] = n]
    /\ todo' = todo \ {<<t, q>>}
    /\ UNCHANGED <<texts, dump, execute, step, cases, verifying, initialized, pid,
                   report, process, database, cut>>

QueriesRun ==
    /\ step = "query" /\ todo = {}
    /\ Goto("finish")
    /\ UNCHANGED <<texts, dump, execute, cases, verifying, initialized, pid, todo,
                   report, process, data, cut>>

Finally == IF step \in Loading \cup {"verify", "programs", "cluster"} \/ ~execute
           THEN "report" ELSE "stop"

(* The last statement of the try; its end may be delayed. *)
SetOk ==
    /\ step = "finish" /\ ~ok
    /\ ok' = TRUE
    /\ UNCHANGED <<texts, dump, execute, step, cases, verifying, initialized, pid,
                   todo, cleanup, flies, process, data, cut>>

TryEnds ==
    /\ step = "finish" /\ ok
    /\ Goto(Finally)
    /\ UNCHANGED <<texts, dump, execute, cases, verifying, initialized, pid, todo,
                   report, process, data, cut>>

(* Mutant: a server that does not start is waited for. *)
RaiseUnlessStarting ==
    /\ step \in Trying /\ (step = "starting" => ~Alive)
    /\ \E again \in BOOLEAN : flies' = again
    /\ Goto(Finally)
    /\ UNCHANGED <<texts, dump, execute, cases, verifying, initialized, pid, todo,
                   ok, cleanup, process, data, cut>>

(* A refusal, a failure, a timeout or KeyboardInterrupt in the try: caught, *)
(* unless KeyboardInterrupt lands in the handler as well.                   *)
Raise ==
    /\ step \in Trying
    /\ \E again \in BOOLEAN : flies' = again
    /\ Goto(Finally)
    /\ UNCHANGED <<texts, dump, execute, cases, verifying, initialized, pid, todo,
                   ok, cleanup, process, data, cut>>
-----------------------------------------------------------------------------
(* OwnedCluster.stop, from main's finally *)

Stopped(value) ==
    /\ cleanup' = value
    /\ Goto("report")

(* Mutant: what never gave a pid was never started. *)
StopUnlessKnown ==
    /\ step = "stop"
    /\ \/ /\ ~initialized \/ ~pid
          /\ Stopped("stopped") /\ UNCHANGED pid
       \/ /\ initialized /\ pid /\ (Captured \/ ~PidFile)
          /\ Goto(IF Captured THEN "fast" ELSE "status")
          /\ UNCHANGED <<cleanup, pid>>
    /\ UNCHANGED <<texts, dump, execute, cases, verifying, initialized, todo, ok,
                   flies, process, data, cut>>

Stop ==
    /\ step = "stop"
    /\ \/ /\ ~initialized
          /\ Stopped("stopped") /\ UNCHANGED pid
       \/ /\ initialized /\ (Captured \/ ~PidFile)
          /\ pid' = (pid \/ Captured)
          /\ Goto(IF Captured THEN "fast" ELSE "status")
          /\ UNCHANGED cleanup
    /\ UNCHANGED <<texts, dump, execute, cases, verifying, initialized, todo, ok,
                   flies, process, data, cut>>

(* pg_ctl stop signals the server, which may outlast the command. *)
PgCtlSignals ==
    /\ step \in {"fast", "immediate"} /\ server = "up"
    /\ server' = "stopping"
    /\ UNCHANGED <<texts, dump, execute, step, cases, verifying, initialized, pid,
                   todo, report, reused, data, cut>>

PgCtlStopped ==
    /\ step \in {"fast", "immediate"} /\ ~PidFile
    /\ Goto("status")
    /\ UNCHANGED <<texts, dump, execute, cases, verifying, initialized, pid, todo,
                   report, process, data, cut>>

(* Of its failures only those of the fast stop are caught in stop. *)
FastFails ==
    /\ step = "fast"
    /\ Goto("again")
    /\ UNCHANGED <<texts, dump, execute, cases, verifying, initialized, pid, todo,
                   report, process, data, cut>>

CaptureAgain ==
    /\ step = "again" /\ (Captured \/ ~PidFile)
    /\ pid' = (pid \/ Captured)
    /\ Goto(IF Captured THEN "immediate" ELSE "status")
    /\ UNCHANGED <<texts, dump, execute, cases, verifying, initialized, todo, report,
                   process, data, cut>>

(* pg_ctl status exits with 3 *)
StatusStopped ==
    /\ step = "status" /\ (~PidFile \/ (server = "crashed" /\ ~reused))
    /\ Goto("file")
    /\ UNCHANGED <<texts, dump, execute, cases, verifying, initialized, pid, todo,
                   report, process, data, cut>>

FileAbsent ==
    /\ step = "file" /\ ~PidFile
    /\ Goto("kill")
    /\ UNCHANGED <<texts, dump, execute, cases, verifying, initialized, pid, todo,
                   report, process, data, cut>>

(* Mutant: when the file is gone the process is taken to be. *)
PidGoneUnasked ==
    /\ step = "kill"
    /\ Stopped("stopped")
    /\ UNCHANGED <<texts, dump, execute, cases, verifying, initialized, pid, todo,
                   ok, flies, process, data, cut>>

(* os.kill(pid, 0): the file may be gone before the process is. *)
PidGone ==
    /\ step = "kill" /\ (pid => ~Alive /\ ~reused)
    /\ Stopped("stopped")
    /\ UNCHANGED <<texts, dump, execute, cases, verifying, initialized, pid, todo,
                   ok, flies, process, data, cut>>

(* Anything that is raised in stop, KeyboardInterrupt again included. *)
StopRaises ==
    /\ step \in Stopping
    /\ ok' = FALSE
    /\ \/ Stopped("failed") /\ UNCHANGED flies
       \/ flies' = TRUE /\ Goto("report") /\ UNCHANGED cleanup
    /\ UNCHANGED <<texts, dump, execute, cases, verifying, initialized, pid, todo,
                   process, data, cut>>

(* The report is printed, unless an exception is on its way. *)
Report ==
    /\ step = "report"
    /\ Goto(IF flies THEN "died" ELSE "reported")
    /\ UNCHANGED <<texts, dump, execute, cases, verifying, initialized, pid, todo,
                   report, process, data, cut>>

(* SIGKILL, or KeyboardInterrupt outside every try. *)
Die ==
    /\ step \notin Ended
    /\ Goto("died")
    /\ UNCHANGED <<texts, dump, execute, cases, verifying, initialized, pid, todo,
                   report, process, data, cut>>
-----------------------------------------------------------------------------
Init ==
    /\ original \in BOOLEAN
    /\ bundle = [p \in Pair |-> None]
    /\ author = [p \in Pair |-> Idle]
    /\ dump = [i \in 1..Chunks |-> TRUE]
    /\ execute \in BOOLEAN
    /\ step = "original"
    /\ cases = [p \in Pair |-> None]
    /\ chunk = 0 /\ digest = TRUE /\ snapshot = "none"
    /\ initialized = FALSE /\ pid = FALSE
    /\ todo = {}
    /\ ok = FALSE /\ cleanup = "none" /\ flies = FALSE
    /\ server = "none" /\ reused = FALSE
    /\ database = "none"
    /\ returned = [tq \in Ticker \X Query |-> 0]
    /\ cut = FALSE

Files ==
    \/ \E p \in Pair :
          \/ \E ticker \in Ticker, date \in Day : Adapt(p, ticker, date)
          \/ WriteBundle(p)
          \/ LeaveBundle(p)
          \/ EditBundle(p)
    \/ EditDump

Verification ==
    \/ ReadOriginal
    \/ \E p \in Pair : LoadCase(p)
    \/ CasesLoaded
    \/ ReadChunk
    \/ DumpVerified
    \/ ProgramsVerified

Start ==
    \/ NewCluster
    \/ Initdb
    \/ PgCtlForks
    \/ PgCtlStarted
    \/ CapturePid
    \/ Createdb
    \/ PgRestore
    \/ Grant

Queries ==
    \/ \E t \in Ticker, q \in Query : RunQuery(t, q)
    \/ QueriesRun
    \/ SetOk
    \/ TryEnds

Cleanup ==
    \/ Stop
    \/ PgCtlStopped
    \/ FastFails
    \/ CaptureAgain
    \/ StatusStopped
    \/ FileAbsent
    \/ PidGone
    \/ StopRaises
    \/ Report

Script == Verification \/ Start \/ Queries \/ Raise \/ Cleanup

Next ==
    \/ Files
    \/ Boot \/ Exit \/ Reuse
    \/ Script
    \/ PgCtlSignals
    \/ Die

Spec == Init /\ [][Next]_vars

(* Every command that the script waits for has a timeout (:274, :291), so   *)
(* it comes back.  What psycopg waits for in run_queries has none of its    *)
(* own, only the server's (:344, :368): a server that does not answer may   *)
(* keep it there for ever.  Nothing is assumed of the server.               *)
ComesBack == step # "query" /\ Script

FairSpec == Spec /\ WF_vars(ComesBack)
-----------------------------------------------------------------------------
(* Properties *)

(* A report that is ok, and exits with 0, of an execution: both tickers'    *)
(* artifacts were those derived from the pinned original, the database was  *)
(* restored from the pinned dump whatever happened to the file, and every   *)
(* query of both tickers returned exactly the rows expected                 *)
(* (validate_demo_intake_sql.py:112-158, 339-381).                          *)
AcceptedIsPinned ==
    step = "reported" /\ ok =>
       /\ \A t \in Ticker : \E p \in Pair : cases[p] = AdaptWorkflow(t, DATE)
       /\ execute =>
             /\ database = "pinned"
             /\ \A t \in Ticker, q \in Query : returned[<<t, q>>] = EXPECTED_COUNTS[q]

(* An acceptance leaves no server behind: ok is only reported of one whose  *)
(* pid was known and that is gone.  And a cleanup that says stopped is      *)
(* right of every server whose pid was known; one that was not can be left  *)
(* by a start cut short, pg_ctl being killed or giving up between the fork  *)
(* of the postmaster and its postmaster.pid, or be on its way out, with its *)
(* postmaster.pid removed (:270-276, 281-293, 316-336, 409-416).            *)
StoppedIsTrue ==
    /\ cleanup = "stopped" /\ Alive => ~pid /\ (cut \/ server = "exiting")
    /\ step = "reported" /\ ok /\ execute => cleanup = "stopped" /\ pid /\ ~Alive

(* The script ends, with a report or without, whatever hangs, the server's  *)
(* start and stop included: only a query that is never answered keeps it    *)
(* from its end (:274, 343-380).                                            *)
Ends == <>(step \in Ended) \/ <>[](step = "query")
=============================================================================
