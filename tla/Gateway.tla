------------------------------ MODULE Gateway ------------------------------
(***************************************************************************)
(* lumid_gateway: one uvicorn process answers HTTP requests out of         *)
(* PostgreSQL and two S3 buckets.                                          *)
(*                                                                         *)
(* Its handlers run in one event loop and call psycopg and boto3 there, so *)
(* a handler that waits for the database or for S3 keeps the loop from all *)
(* others.  Only the body of an upload and the two readiness checks are    *)
(* awaited; the checks run in threads that outlive their timeout.          *)
(***************************************************************************)
EXTENDS Integers, FiniteSets

CONSTANTS
    Req,        \* requests: one HTTP call each; its run_id is the request
    Segment,    \* first path segments of object keys
    Public,     \* GatewayConfig.public_bucket
    Results,    \* GatewayConfig.materialized_prefix
    Name,       \* the rest of a key; the run_id in the key of a result
    Asked,      \* the calls each request may turn out to be
    MaxRows,    \* bound: rows that the query selects
    Width,      \* UTF-8 bytes to a character of a CSV row
    MaxResult,  \* GatewayConfig.max_result_bytes
    MaxBlob,    \* GatewayConfig.max_blob_bytes
    Threads,    \* threads of the executor behind asyncio.to_thread
    Nobody,     \* the event loop is free
    NoObject    \* no object under a key

Key    == Segment \X Name
Dep    == {"database", "s3"}
Bucket == {"public", "private"}
Any    == "any"     \* the empty prefix of a listing

(* What a client may ask; a body is told apart by the request it came with. *)
Call ==
    [op : {"retrieve"}, format : {"jsonl", "csv"}, readonly : BOOLEAN]
    \cup [op : {"put"}, key : Key, size : Nat]
    \cup [op : {"get"}, key : Key]
    \cup [op : {"list"}, prefix : Segment \cup {Any}]
    \cup [op : {"catalog"}, legal : BOOLEAN]
    \cup [op : {"ready"}]

Object == [from : Req, rows : Nat, size : Nat]

(* The defaults of the buckets and the prefix differ (config.py:48-73).     *)
ASSUME GatewayAssumption ==
    /\ IsFiniteSet(Req)
    /\ Req \subseteq Name
    /\ Public \in Segment /\ Results \in Segment /\ Public # Results
    /\ Any \notin Segment
    /\ Asked \in [Req -> SUBSET Call]
    /\ MaxRows \in Nat /\ Width \in 1..4
    /\ MaxResult \in Int /\ MaxBlob \in Int
    /\ Threads \in Nat \ {0}
    /\ Nobody \notin Req
    /\ NoObject \notin Object

VARIABLES
    \* the stores
    stored,   \* the objects in each bucket
    late,     \* uploads boto3 gave up on that S3 may still carry out
    \* the process
    dbset,    \* create_app found a database URL
    loop,     \* the handler that has the event loop
    at,       \* where each request is
    call,     \* what it is
    rows,     \* rows its query selected
    check,    \* what its _probe of each store came to
    thread,   \* and the thread that runs that check
    code,     \* HTTP status of its answer
    got,      \* keys, with their objects, that it was answered
    \* observations
    before,   \* requests answered before it was sent, if it reads
    heard     \* stores that have answered the checks it began

stores  == <<stored, late>>
probes  == <<check, thread>>
history == <<before, heard>>
vars    == <<stores, dbset, loop, at, call, rows, probes, code, got, history>>

Waiting == {"sent", "query", "store", "read", "list", "checks"}
Steps   == {"idle", "body", "done", "lost"} \cup Waiting

NoCall == [op |-> "none"]

TypeOK ==
    /\ stored \in [Bucket -> [Key -> Object \cup {NoObject}]]
    /\ late \subseteq Key \X Object
    /\ dbset \in BOOLEAN
    /\ loop \in Req \cup {Nobody}
    /\ at \in [Req -> Steps]
    /\ call \in [Req -> Call \cup {NoCall}]
    /\ rows \in [Req -> 0..MaxRows]
    /\ check \in [Req -> [Dep -> {"none", "wait", "ok", "slow", "bad"}]]
    /\ thread \in [Req -> [Dep -> {"none", "queued", "runs"}]]
    /\ code \in [Req -> {0, 200, 400, 404, 413, 500, 502, 503}]
    /\ got \in [Req -> SUBSET (Key \X Object)]
    /\ before \in [Req -> SUBSET Req]
    /\ heard \in [Req -> SUBSET Dep]

Goto(r, step) == at' = [at EXCEPT ![r] = step]

(* Raising HTTPException, or returning, ends the handler and frees the loop. *)
Answer(r, status) ==
    /\ Goto(r, "done")
    /\ code' = [code EXCEPT ![r] = status]
    /\ loop' = Nobody
-----------------------------------------------------------------------------
(* storage.py *)

(* Mutant: everything is private. *)
BucketForKeyPrivate(segment) == "private"

(* bucket_for_key: of a key or of a listing's prefix, by its first segment. *)
BucketForKey(segment) == IF segment = Public THEN "public" ELSE "private"

(* _materialized_key; the run_id is a fresh uuid4. *)
ResultKey(r) == <<Results, r>>

(* The bytes of a serialized result: json.dumps escapes what is not ASCII,  *)
(* csv does not.  A row is one character; a csv header counts as part of    *)
(* its first row.                                                           *)
Size(r) == IF call[r].format = "csv" THEN Width * rows[r] ELSE rows[r]

Names(r) == IF call[r].op = "put" THEN call[r].key ELSE ResultKey(r)

(* The object that a request uploads. *)
Upload(r) ==
    IF call[r].op = "put"
    THEN [from |-> r, rows |-> 0, size |-> call[r].size]
    ELSE [from |-> r, rows |-> rows[r], size |-> Size(r)]

Put(key, object) ==
    stored' = [stored EXCEPT ![BucketForKey(key[1])][key] = object]

Objects(bucket) ==
    {<<k, stored[bucket][k]>> : k \in {j \in Key : stored[bucket][j] # NoObject}}
-----------------------------------------------------------------------------
(* Requests come in and get the loop. *)

Send(r) ==
    /\ at[r] = "idle"
    /\ \E c \in Asked[r] :
          /\ call' = [call EXCEPT ![r] = c]
          /\ Goto(r, "sent")
          /\ before' = [before EXCEPT ![r] =
                IF c.op \in {"get", "list"} THEN {q \in Req : at[q] = "done"} ELSE {}]
    /\ UNCHANGED <<stores, dbset, loop, rows, probes, code, got, heard>>

Sent(r, op) == at[r] = "sent" /\ loop = Nobody /\ call[r].op = op

(* /retrieve and /catalog/tables: a missing database is a 502; statements   *)
(* and identifiers are judged before anything is connected to.              *)
Refusal(r) ==
    CASE ~dbset -> 502
      [] dbset /\ call[r].op = "retrieve" /\ ~call[r].readonly -> 400
      [] dbset /\ call[r].op = "catalog" /\ ~call[r].legal -> 400
      [] OTHER -> 0

BeginQuery(r) ==
    /\ Sent(r, "retrieve") \/ Sent(r, "catalog")
    /\ IF Refusal(r) # 0
       THEN Answer(r, Refusal(r))
       ELSE Goto(r, "query") /\ loop' = r /\ UNCHANGED code
    /\ UNCHANGED <<stores, dbset, call, rows, probes, got, history>>

(* put_blob: `await request.body()` leaves the loop to the others. *)
BeginUpload(r) ==
    /\ Sent(r, "put")
    /\ Goto(r, "body")
    /\ UNCHANGED <<stores, dbset, loop, call, rows, probes, code, got, history>>

BeginRead(r) ==
    /\ Sent(r, "get") \/ Sent(r, "list")
    /\ Goto(r, IF call[r].op = "get" THEN "read" ELSE "list")
    /\ loop' = r
    /\ UNCHANGED <<stores, dbset, call, rows, probes, code, got, history>>
-----------------------------------------------------------------------------
(* The database *)

(* DB.select and _serialize: the cursor has its whole result when execute   *)
(* returns, and the cap is compared with characters.                        *)
Select(r) ==
    /\ at[r] = "query" /\ call[r].op = "retrieve"
    /\ \E count \in 0..MaxRows :
          IF count > 0 /\ count > MaxResult
          THEN Answer(r, 413) /\ UNCHANGED rows
          ELSE /\ rows' = [rows EXCEPT ![r] = count]
               /\ Goto(r, "store")
               /\ UNCHANGED <<code, loop>>
    /\ UNCHANGED <<stores, dbset, call, probes, got, history>>

(* catalog_columns: no column means no such table. *)
Columns(r) ==
    /\ at[r] = "query" /\ call[r].op = "catalog"
    /\ \E status \in {200, 404} : Answer(r, status)
    /\ UNCHANGED <<stores, dbset, call, rows, probes, got, history>>

QueryFails(r) ==
    /\ at[r] = "query"
    /\ Answer(r, 502)
    /\ UNCHANGED <<stores, dbset, call, rows, probes, got, history>>
-----------------------------------------------------------------------------
(* Uploads *)

BodyIn(r) ==
    /\ at[r] = "body" /\ loop = Nobody
    /\ Goto(r, "store")
    /\ loop' = r
    /\ UNCHANGED <<stores, dbset, call, rows, probes, code, got, history>>

(* The client goes away: request.body() raises ClientDisconnect. *)
BodyLost(r) ==
    /\ at[r] = "body" /\ loop = Nobody
    /\ Goto(r, "lost")
    /\ UNCHANGED <<stores, dbset, loop, call, rows, probes, code, got, history>>

(* The handler and Storage.put_blob both refuse what is over the quota. *)
OverQuota(r) ==
    /\ at[r] = "store" /\ Upload(r).size > MaxBlob
    /\ Answer(r, 413)
    /\ UNCHANGED <<stores, dbset, call, rows, probes, got, history>>

ReadyToStore(r) == at[r] = "store" /\ Upload(r).size <= MaxBlob

Stored(r) ==
    /\ ReadyToStore(r)
    /\ Put(Names(r), Upload(r))
    /\ Answer(r, 200)
    /\ UNCHANGED <<late, dbset, call, rows, probes, got, history>>

(* An attempt that times out or loses its connection; boto3 tries again. *)
AttemptLost(r) ==
    /\ ReadyToStore(r)
    /\ late' = late \cup {<<Names(r), Upload(r)>>}
    /\ UNCHANGED <<stored, dbset, loop, at, call, rows, probes, code,
                   got, history>>

(* Mutant: the failure of put_object is not noticed. *)
StoreFailsQuietly(r) ==
    /\ ReadyToStore(r)
    /\ Answer(r, 200)
    /\ UNCHANGED <<stores, dbset, call, rows, probes, got, history>>

StoreFails(r) ==
    /\ ReadyToStore(r)
    /\ Answer(r, 502)
    /\ UNCHANGED <<stores, dbset, call, rows, probes, got, history>>
-----------------------------------------------------------------------------
(* Reads *)

Found(r) == {o \in Objects(BucketForKey(call[r].key[1])) : o[1] = call[r].key}

(* get_blob, and get_materialized for a key under the results. *)
Read(r) ==
    /\ at[r] = "read"
    /\ got' = [got EXCEPT ![r] = Found(r)]
    /\ Answer(r, IF Found(r) = {} THEN 404 ELSE 200)
    /\ UNCHANGED <<stores, dbset, call, rows, probes, history>>

(* Mutant: the entries of a listing lose what they are entries of. *)
ListedNames(r) ==
    {o[1] : o \in {x \in Objects(BucketForKey(call[r].prefix)) :
                      call[r].prefix \in {Any, x[1][1]}}}

(* Mutant: the listing is of the private bucket whatever the prefix. *)
ListedPrivate(r) ==
    {o \in Objects("private") : call[r].prefix \in {Any, o[1][1]}}

(* list_blobs looks in the bucket that the prefix implies. *)
Listed(r) ==
    {o \in Objects(BucketForKey(call[r].prefix)) : call[r].prefix \in {Any, o[1][1]}}

(* A listing that `limit` does not cut short. *)
List(r) ==
    /\ at[r] = "list"
    /\ got' = [got EXCEPT ![r] = Listed(r)]
    /\ Answer(r, 200)
    /\ UNCHANGED <<stores, dbset, call, rows, probes, history>>

(* Neither handler catches anything but BlobMissing. *)
ReadFails(r) ==
    /\ at[r] \in {"read", "list"}
    /\ Answer(r, 500)
    /\ UNCHANGED <<stores, dbset, call, rows, probes, got, history>>
-----------------------------------------------------------------------------
(* Readiness *)

(* readyz: without a database only S3 is probed. *)
BeginChecks(r) ==
    /\ Sent(r, "ready")
    /\ Goto(r, "checks")
    /\ check' = [check EXCEPT ![r] =
          [d \in Dep |-> IF d = "s3" \/ dbset THEN "wait" ELSE "bad"]]
    /\ thread' = [thread EXCEPT ![r] =
          [d \in Dep |-> IF d = "s3" \/ dbset THEN "queued" ELSE "none"]]
    /\ UNCHANGED <<stores, dbset, loop, call, rows, code, got, history>>

Running == {p \in Req \X Dep : thread[p[1]][p[2]] = "runs"}

ThreadStarts(r, d) ==
    /\ thread[r][d] = "queued" /\ Cardinality(Running) < Threads
    /\ thread' = [thread EXCEPT ![r][d] = "runs"]
    /\ UNCHANGED <<stores, dbset, loop, at, call, rows, check, code, got, history>>

(* What the loop makes of the end of a check: nothing after a timeout. *)
Deliver(r, d, result) ==
    /\ thread[r][d] = "runs" /\ loop = Nobody
    /\ check' = [check EXCEPT ![r][d] = IF @ = "wait" THEN result ELSE @]
    /\ thread' = [thread EXCEPT ![r][d] = "none"]

(* DB.check_ready and Storage.check_ready return, or raise. *)
StoreAnswers(r, d) ==
    /\ Deliver(r, d, "ok")
    /\ heard' = [heard EXCEPT ![r] = @ \cup {d}]
    /\ UNCHANGED <<stores, dbset, loop, at, call, rows, code, got, before>>

CheckRaises(r, d) ==
    /\ Deliver(r, d, "bad")
    /\ UNCHANGED <<stores, dbset, loop, at, call, rows, code, got, history>>

(* Mutant: only a check that has not begun is given up. *)
TimeOutQueued(r, d) ==
    /\ check[r][d] = "wait" /\ loop = Nobody /\ thread[r][d] = "queued"
    /\ check' = [check EXCEPT ![r][d] = "slow"]
    /\ thread' = [thread EXCEPT ![r][d] = "none"]
    /\ UNCHANGED <<stores, dbset, loop, at, call, rows, code, got, history>>

(* asyncio.wait_for: a thread that has begun goes on, one that has not is   *)
(* taken off the queue.                                                     *)
TimeOut(r, d) ==
    /\ check[r][d] = "wait" /\ loop = Nobody
    /\ check' = [check EXCEPT ![r][d] = "slow"]
    /\ thread' = [thread EXCEPT ![r][d] = IF @ = "queued" THEN "none" ELSE @]
    /\ UNCHANGED <<stores, dbset, loop, at, call, rows, code, got, history>>

(* Mutant: a check that is only slow does not count against readiness. *)
AnswerReadyLenient(r) ==
    /\ at[r] = "checks" /\ loop = Nobody
    /\ \A d \in Dep : check[r][d] # "wait"
    /\ Answer(r, IF \A d \in Dep : check[r][d] # "bad" THEN 200 ELSE 503)
    /\ UNCHANGED <<stores, dbset, call, rows, probes, got, history>>

AnswerReady(r) ==
    /\ at[r] = "checks" /\ loop = Nobody
    /\ \A d \in Dep : check[r][d] # "wait"
    /\ Answer(r, IF \A d \in Dep : check[r][d] = "ok" THEN 200 ELSE 503)
    /\ UNCHANGED <<stores, dbset, call, rows, probes, got, history>>
-----------------------------------------------------------------------------
(* The surroundings *)

(* S3 carries out an attempt its client gave up on; it need not. *)
LateLands ==
    \E a \in late :
       /\ late' = late \ {a}
       /\ Put(a[1], a[2])
       /\ UNCHANGED <<dbset, loop, at, call, rows, probes, code, got, history>>

(* The process dies, and its requests and threads with it. *)
Crash ==
    /\ at' = [r \in Req |-> IF at[r] \in Waiting \cup {"body"} THEN "lost" ELSE at[r]]
    /\ check' = [r \in Req |-> [d \in Dep |-> "none"]]
    /\ thread' = [r \in Req |-> [d \in Dep |-> "none"]]
    /\ loop' = Nobody
    /\ UNCHANGED <<stores, dbset, call, rows, code, got, history>>
-----------------------------------------------------------------------------
Init ==
    /\ stored = [b \in Bucket |-> [k \in Key |-> NoObject]]
    /\ late = {}
    /\ dbset \in BOOLEAN
    /\ loop = Nobody
    /\ at = [r \in Req |-> "idle"]
    /\ call = [r \in Req |-> NoCall]
    /\ rows = [r \in Req |-> 0]
    /\ check = [r \in Req |-> [d \in Dep |-> "none"]]
    /\ thread = [r \in Req |-> [d \in Dep |-> "none"]]
    /\ code = [r \in Req |-> 0]
    /\ got = [r \in Req |-> {}]
    /\ before = [r \in Req |-> {}]
    /\ heard = [r \in Req |-> {}]

Begin(r) ==
    \/ BeginQuery(r)
    \/ BeginUpload(r)
    \/ BeginRead(r)
    \/ BeginChecks(r)

Database(r) ==
    \/ Select(r)
    \/ Columns(r)
    \/ QueryFails(r)

Store(r) ==
    \/ OverQuota(r)
    \/ Stored(r)
    \/ AttemptLost(r)
    \/ StoreFails(r)
    \/ Read(r)
    \/ List(r)
    \/ ReadFails(r)

Client(r) ==
    \/ Send(r)
    \/ BodyIn(r)
    \/ BodyLost(r)

Probe(r, d) ==
    \/ ThreadStarts(r, d)
    \/ StoreAnswers(r, d)
    \/ CheckRaises(r, d)
    \/ TimeOut(r, d)

Surroundings ==
    \/ LateLands
    \/ Crash

Next ==
    \/ \E r \in Req : Client(r) \/ Begin(r) \/ Database(r) \/ Store(r) \/ AnswerReady(r)
    \/ \E r \in Req, d \in Dep : Probe(r, d)
    \/ Surroundings

Spec == Init /\ [][Next]_vars

(* The event loop gives every handler that is ready its turn and its timers *)
(* run; nothing is assumed of the database, of S3 or of the threads.        *)
FairSpec ==
    /\ Spec
    /\ \A r \in Req : WF_vars(Begin(r)) /\ WF_vars(AnswerReady(r))
    /\ \A r \in Req, d \in Dep : WF_vars(TimeOut(r, d))
-----------------------------------------------------------------------------
(* Properties *)

(* Whatever is in a bucket was uploaded by a request that named this key,   *)
(* is within the quota, and is public exactly when the key's first segment  *)
(* says so, so that no result of a query ever is.  Nothing that a request   *)
(* was refused is stored for it, now or by an attempt that lands later      *)
(* (storage.py:67-82, app.py:202-219).                                      *)
ObjectsLawful ==
    \A b \in Bucket, k \in Key :
       LET o == stored[b][k] IN
       o # NoObject =>
          /\ b = "public" <=> k[1] = Public
          /\ call[o.from].op \in {"put", "retrieve"} /\ k = Names(o.from)
          /\ o.size <= MaxBlob
          /\ code[o.from] \in {0, 200, 502}

(* A retrieval that was answered with 200 has its rows under its URI, as    *)
(* many as it was told, until somebody uploads to that very key; a jsonl    *)
(* result keeps to max_result_bytes (app.py:141-183).                       *)
ResultsKept ==
    \A r \in Req :
       call[r].op = "retrieve" /\ code[r] = 200 =>
          /\ \/ stored["private"][ResultKey(r)] = Upload(r)
             \/ \E q \in Req : call[q].op = "put" /\ call[q].key = ResultKey(r)
          /\ call[r].format = "jsonl" /\ rows[r] > 0 => Upload(r).size <= MaxResult

Uploaded(q) == call[q].op \in {"put", "retrieve"} /\ code[q] = 200

OnlyWriter(q) ==
    \A p \in Req : p # q /\ call[p].op \in {"put", "retrieve"} => Names(p) # Names(q)

(* A client that was told of an upload finds it afterwards: a read of the   *)
(* key returns that object, and a listing of the key's partition holds it   *)
(* (storage.py:84-124).                                                     *)
AcknowledgedIsSeen ==
    \A r \in Req : \A q \in before[r] :
       at[r] = "done" /\ code[r] \in {200, 404} /\ Uploaded(q) /\ OnlyWriter(q) =>
          /\ call[r].op = "get" /\ call[r].key = Names(q) =>
                got[r] = {<<Names(q), Upload(q)>>}
          /\ /\ call[r].op = "list" /\ call[r].prefix \in {Any, Names(q)[1]}
             /\ BucketForKey(call[r].prefix) = BucketForKey(Names(q)[1])
             => <<Names(q), Upload(q)>> \in got[r]

(* /readyz says ok only when both stores answered its own checks: neither a *)
(* late thread, nor a timeout, nor a missing database is taken for an       *)
(* answer (app.py:102-139).                                                 *)
ReadyHonest ==
    \A r \in Req : call[r].op = "ready" /\ code[r] = 200 => heard[r] = Dep

(* As long as no handler keeps the loop for ever, every request is answered *)
(* or dies with the process, a readiness check that hangs included: a probe *)
(* is as long as its timeout, whatever its thread does (app.py:102-139).    *)
AnswersComeBack ==
    []<>(loop = Nobody) =>
       \A r \in Req : at[r] \in Waiting ~> at[r] \in {"body", "done", "lost"}
=============================================================================
