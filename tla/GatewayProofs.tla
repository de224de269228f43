--------------------------- MODULE GatewayProofs ---------------------------
(***************************************************************************)
(* What holds of Gateway for any requests, keys, calls, sizes and quotas.  *)
(*                                                                         *)
(* First what a step can do to one request (Moved); from it, what a        *)
(* request is by the place where it is (Kinds), that what is stored or may *)
(* still be is the upload of a request that may store it (Lawful), that an *)
(* acknowledged upload stays where it is (Kept), that a check is only ok   *)
(* if its store was heard (Checked), and the properties from these.        *)
(***************************************************************************)
EXTENDS Gateway, TLAPS

LEMMA TypeInit == Init => TypeOK
BY GatewayAssumption DEF Init, TypeOK, Steps, Waiting, Dep, Bucket

Writers == {"put", "retrieve"}

(* What a request is by the place where it is. *)
Kinds ==
    \A r \in Req :
       /\ at[r] = "idle" => call[r] = NoCall
       /\ at[r] = "query" => call[r].op \in {"retrieve", "catalog"}
       /\ at[r] = "body" => call[r].op = "put"
       /\ at[r] = "store" => call[r].op \in Writers
       /\ at[r] = "read" => call[r].op = "get"
       /\ at[r] = "list" => call[r].op = "list"
       /\ at[r] = "checks" => call[r].op = "ready"
       /\ at[r] # "done" => code[r] = 0
       /\ rows[r] > 0 => rows[r] <= MaxResult
       /\ \A q \in before[r] : at[q] = "done"

LEMMA PutFields == ASSUME NEW c \in Call, c.op = "put" PROVE c.key \in Key /\ c.size \in Nat
<1>1. c \in [op : {"put"}, key : Key, size : Nat]
  BY DEF Call
<1> QED
  BY <1>1

(* What a request uploads is an object under a key. *)
LEMMA UploadTypes ==
    ASSUME TypeOK, NEW r \in Req, call[r].op \in {"put", "retrieve"}
    PROVE  Upload(r) \in Object /\ Names(r) \in Key /\ Upload(r).from = r
<1>1. CASE call[r].op = "put"
  <2>1. call[r].key \in Key /\ call[r].size \in Nat
    <3>1. call[r] \in Call
      BY <1>1 DEF TypeOK, NoCall
    <3> QED
      BY <1>1, <3>1, PutFields
  <2> QED
    BY <1>1, <2>1 DEF Upload, Names, Object
<1>2. CASE call[r].op = "retrieve"
  <2>1. rows[r] \in Nat /\ Width * rows[r] \in Nat
    BY GatewayAssumption DEF TypeOK
  <2>2. ResultKey(r) \in Key
    BY GatewayAssumption DEF ResultKey, Key
  <2> QED
    BY <1>2, <2>1, <2>2 DEF Upload, Names, Object, Size
<1> QED
  BY <1>1, <1>2

LEMMA ObjectsTyped ==
    ASSUME TypeOK, NEW s PROVE Objects(BucketForKey(s)) \in SUBSET (Key \X Object)
BY DEF TypeOK, Objects, BucketForKey, Bucket

(* Putting an object under a key keeps the type of the buckets. *)
LEMMA PutTyped ==
    ASSUME TypeOK, NEW k \in Key, NEW o \in Object, Put(k, o)
    PROVE  stored' \in [Bucket -> [Key -> Object \cup {NoObject}]]
BY DEF TypeOK, Put, Bucket, BucketForKey

LEMMA TypeStep == TypeOK /\ Kinds /\ [Next]_vars => TypeOK'
<1> SUFFICES ASSUME TypeOK, Kinds, [Next]_vars PROVE TypeOK'
  OBVIOUS
<1> USE GatewayAssumption
<1> USE DEF TypeOK, Goto, Answer, Steps, Waiting, stores, probes, history
<1>1. CASE UNCHANGED vars
  BY <1>1 DEF vars
<1>2. ASSUME NEW r \in Req, Send(r) PROVE TypeOK'
  BY <1>2 DEF Send
<1>3. ASSUME NEW r \in Req, BeginQuery(r) PROVE TypeOK'
  <2>1. CASE Refusal(r) # 0
    <3>1. Refusal(r) \in {400, 502} /\ Answer(r, Refusal(r))
      BY <1>3, <2>1 DEF BeginQuery, Refusal
    <3> QED
      BY <1>3, <3>1 DEF BeginQuery
  <2>2. CASE Refusal(r) = 0
    <3>1. Goto(r, "query") /\ loop' = r /\ code' = code
      BY <1>3, <2>2 DEF BeginQuery
    <3> QED
      BY <1>3, <3>1 DEF BeginQuery
  <2> QED
    BY <2>1, <2>2
<1>4. ASSUME NEW r \in Req, BeginUpload(r) PROVE TypeOK'
  BY <1>4 DEF BeginUpload, Sent
<1>5. ASSUME NEW r \in Req, BeginRead(r) PROVE TypeOK'
  BY <1>5 DEF BeginRead, Sent
<1>6. ASSUME NEW r \in Req, BeginChecks(r) PROVE TypeOK'
  BY <1>6 DEF BeginChecks, Sent
<1>7. ASSUME NEW r \in Req, Select(r) PROVE TypeOK'
  <2>1. PICK count \in 0..MaxRows :
           IF count > 0 /\ count > MaxResult
           THEN Answer(r, 413) /\ UNCHANGED rows
           ELSE /\ rows' = [rows EXCEPT ![r] = count]
                /\ Goto(r, "store")
                /\ UNCHANGED <<code, loop>>
    BY <1>7 DEF Select
  <2>2. CASE count > 0 /\ count > MaxResult
    <3>1. Answer(r, 413) /\ rows' = rows
      BY <2>1, <2>2
    <3> QED
      BY <1>7, <3>1 DEF Select
  <2>3. CASE ~(count > 0 /\ count > MaxResult)
    <3>1. /\ rows' = [rows EXCEPT ![r] = count] /\ code' = code /\ loop' = loop
          /\ Goto(r, "store")
      BY <2>1, <2>3
    <3> QED
      BY <1>7, <3>1 DEF Select
  <2> QED
    BY <2>2, <2>3
<1>8. ASSUME NEW r \in Req, Columns(r) PROVE TypeOK'
  BY <1>8 DEF Columns
<1>9. ASSUME NEW r \in Req, QueryFails(r) PROVE TypeOK'
  BY <1>9 DEF QueryFails
<1>10. ASSUME NEW r \in Req, OverQuota(r) PROVE TypeOK'
  BY <1>10 DEF OverQuota
<1>11. ASSUME NEW r \in Req, Stored(r) PROVE TypeOK'
  <2>1. stored' \in [Bucket -> [Key -> Object \cup {NoObject}]]
    BY <1>11, UploadTypes, PutTyped DEF Stored, ReadyToStore, Kinds, Writers
  <2> QED
    BY <1>11, <2>1 DEF Stored
<1>12. ASSUME NEW r \in Req, AttemptLost(r) PROVE TypeOK'
  <2>1. late' \subseteq Key \X Object
    BY <1>12, UploadTypes DEF AttemptLost, ReadyToStore, Kinds, Writers
  <2> QED
    BY <1>12, <2>1 DEF AttemptLost
<1>13. ASSUME NEW r \in Req, StoreFails(r) PROVE TypeOK'
  BY <1>13 DEF StoreFails, ReadyToStore
<1>14. ASSUME NEW r \in Req, Read(r) PROVE TypeOK'
  <2>1. Found(r) \in SUBSET (Key \X Object)
    BY ObjectsTyped DEF Found
  <2> QED
    BY <1>14, <2>1 DEF Read
<1>15. ASSUME NEW r \in Req, List(r) PROVE TypeOK'
  <2>1. Listed(r) \in SUBSET (Key \X Object)
    BY ObjectsTyped DEF Listed
  <2> QED
    BY <1>15, <2>1 DEF List
<1>16. ASSUME NEW r \in Req, ReadFails(r) PROVE TypeOK'
  BY <1>16 DEF ReadFails
<1>17. ASSUME NEW r \in Req, BodyIn(r) PROVE TypeOK'
  BY <1>17 DEF BodyIn
<1>18. ASSUME NEW r \in Req, BodyLost(r) PROVE TypeOK'
  BY <1>18 DEF BodyLost
<1>19. ASSUME NEW r \in Req, AnswerReady(r) PROVE TypeOK'
  BY <1>19 DEF AnswerReady
<1>20. ASSUME NEW r \in Req, NEW d \in Dep, ThreadStarts(r, d) PROVE TypeOK'
  BY <1>20 DEF ThreadStarts
<1>21. ASSUME NEW r \in Req, NEW d \in Dep, StoreAnswers(r, d) PROVE TypeOK'
  BY <1>21 DEF StoreAnswers, Deliver
<1>22. ASSUME NEW r \in Req, NEW d \in Dep, CheckRaises(r, d) PROVE TypeOK'
  BY <1>22 DEF CheckRaises, Deliver
<1>23. ASSUME NEW r \in Req, NEW d \in Dep, TimeOut(r, d) PROVE TypeOK'
  BY <1>23 DEF TimeOut
<1>24. CASE LateLands
  <2>1. PICK a \in late : late' = late \ {a} /\ Put(a[1], a[2])
    BY <1>24 DEF LateLands
  <2>2. a[1] \in Key /\ a[2] \in Object
    BY <2>1
  <2>3. stored' \in [Bucket -> [Key -> Object \cup {NoObject}]]
    BY <2>1, <2>2, PutTyped
  <2> QED
    BY <1>24, <2>1, <2>3 DEF LateLands
<1>25. CASE Crash
  BY <1>25 DEF Crash
<1> QED
  BY <1>1, <1>2, <1>3, <1>4, <1>5, <1>6, <1>7, <1>8, <1>9, <1>10, <1>11,
     <1>12, <1>13, <1>14, <1>15, <1>16, <1>17, <1>18, <1>19, <1>20, <1>21,
     <1>22, <1>23, <1>24, <1>25
     DEF Next, Client, Begin, Database, Store, Probe, Surroundings
-----------------------------------------------------------------------------
(* What a step can do to one request: nothing, to send it, to take it to    *)
(* its next place or lose it, to select its rows, or to answer it.          *)

Keeps(q) == UNCHANGED <<call[q], before[q]>>

Rests(q) == Keeps(q) /\ UNCHANGED <<at[q], rows[q], code[q], got[q]>>

Sends(q) ==
    /\ at[q] = "idle" /\ at'[q] = "sent" /\ call'[q] \in Call
    /\ \A p \in before'[q] : at[p] = "done"
    /\ UNCHANGED <<rows[q], code[q], got[q]>>

Moves(q) ==
    /\ Keeps(q) /\ UNCHANGED <<rows[q], code[q], got[q]>>
    /\ \/ /\ at[q] = "sent"
          /\ \/ at'[q] = "query" /\ call[q].op \in {"retrieve", "catalog"}
             \/ at'[q] = "body" /\ call[q].op = "put"
             \/ at'[q] = "read" /\ call[q].op = "get"
             \/ at'[q] = "list" /\ call[q].op = "list"
             \/ at'[q] = "checks" /\ call[q].op = "ready"
       \/ at[q] = "body" /\ at'[q] = "store"
       \/ at[q] \notin {"idle", "done", "lost"} /\ at'[q] = "lost"

Selects(q) ==
    /\ Keeps(q) /\ UNCHANGED <<code[q], got[q]>>
    /\ at[q] = "query" /\ at'[q] = "store" /\ call[q].op = "retrieve"
    /\ rows'[q] > 0 => rows'[q] <= MaxResult

Refuses(q) ==
    /\ at[q] \in {"sent", "query"} /\ call[q].op \in {"retrieve", "catalog"}
    /\ call[q].op = "retrieve" => code'[q] \in {400, 413, 502}
    /\ got'[q] = got[q]

Uploads(q) ==
    /\ at[q] = "store" /\ got'[q] = got[q]
    /\ \/ code'[q] = 413 /\ Upload(q).size > MaxBlob
       \/ code'[q] = 502
       \/ code'[q] = 200 /\ Put(Names(q), Upload(q))

Looks(q) ==
    \/ at[q] = "read" /\ code'[q] \in {200, 404} /\ got'[q] = Found(q)
    \/ at[q] = "list" /\ code'[q] = 200 /\ got'[q] = Listed(q)
    \/ at[q] \in {"read", "list"} /\ code'[q] = 500 /\ got'[q] = got[q]

Readies(q) ==
    /\ at[q] = "checks" /\ got'[q] = got[q]
    /\ code'[q] = 200 => \A d \in Dep : check[q][d] = "ok"

Answers(q) ==
    /\ Keeps(q) /\ rows'[q] = rows[q] /\ at'[q] = "done"
    /\ Refuses(q) \/ Uploads(q) \/ Looks(q) \/ Readies(q)

Moved(q) == Rests(q) \/ Sends(q) \/ Moves(q) \/ Selects(q) \/ Answers(q)

(* What a step can do to the buckets and the attempts that may still land.  *)
MayWrite(q) == at[q] = "store" /\ Upload(q).size <= MaxBlob

Wrote ==
    /\ \/ stored' = stored
       \/ \E q \in Req : MayWrite(q) /\ Put(Names(q), Upload(q))
       \/ \E a \in late : Put(a[1], a[2])
    /\ \A a \in late' :
          a \in late \/ \E q \in Req : MayWrite(q) /\ a = <<Names(q), Upload(q)>>

LEMMA StepMoves ==
    ASSUME TypeOK, Kinds, [Next]_vars
    PROVE  (\A q \in Req : Moved(q)) /\ Wrote
<1> DEFINE Goal == (\A q \in Req : Moved(q)) /\ Wrote
<1> USE DEF Goto, Answer, Keeps, stores, probes, history
<1>1. CASE UNCHANGED vars
  BY <1>1 DEF vars, Moved, Rests, Wrote
<1>2. ASSUME NEW r \in Req, Send(r) PROVE Goal
  <2>1. ASSUME NEW q \in Req \ {r} PROVE Moved(q)
    BY <1>2 DEF Send, TypeOK, Moved, Rests
  <2>2. Moved(r)
    <3>1. at[r] = "idle" /\ at'[r] = "sent"
      BY <1>2 DEF Send, TypeOK
    <3>2. call'[r] \in Call
      <4>1. Asked[r] \subseteq Call
        BY GatewayAssumption
      <4> QED
        BY <1>2, <4>1 DEF Send, TypeOK
    <3>3. \A p \in before'[r] : at[p] = "done"
      BY <1>2 DEF Send, TypeOK
    <3> QED
      BY <1>2, <3>1, <3>2, <3>3 DEF Send, Moved, Sends
  <2> QED
    BY <1>2, <2>1, <2>2 DEF Send, Wrote
<1>3. ASSUME NEW r \in Req, BeginQuery(r) PROVE Goal
  <2>1. ASSUME NEW q \in Req \ {r} PROVE Moved(q)
    BY <1>3 DEF BeginQuery, TypeOK, Moved, Rests, Sent
  <2>2. Moved(r)
    <3>1. CASE Refusal(r) # 0
      <4>1. Refusal(r) \in {400, 502} /\ Answer(r, Refusal(r))
        BY <1>3, <3>1 DEF BeginQuery, Refusal
      <4>2. Refuses(r)
        BY <1>3, <4>1 DEF BeginQuery, Sent, Refuses, TypeOK
      <4> QED
        BY <1>3, <4>1, <4>2 DEF BeginQuery, Moved, Answers, TypeOK
    <3>2. CASE Refusal(r) = 0
      <4>1. Goto(r, "query") /\ code' = code
        BY <1>3, <3>2 DEF BeginQuery
      <4> QED
        BY <1>3, <4>1 DEF BeginQuery, Sent, Moved, Moves, TypeOK
    <3> QED
      BY <3>1, <3>2
  <2> QED
    BY <1>3, <2>1, <2>2 DEF BeginQuery, Wrote
<1>4. ASSUME NEW r \in Req, BeginUpload(r) PROVE Goal
  <2>1. ASSUME NEW q \in Req \ {r} PROVE Moved(q)
    BY <1>4 DEF BeginUpload, TypeOK, Moved, Rests, Sent
  <2>2. Moved(r)
    BY <1>4 DEF BeginUpload, Sent, TypeOK, Moved, Moves
  <2> QED
    BY <1>4, <2>1, <2>2 DEF BeginUpload, Wrote
<1>5. ASSUME NEW r \in Req, BeginRead(r) PROVE Goal
  <2>1. ASSUME NEW q \in Req \ {r} PROVE Moved(q)
    BY <1>5 DEF BeginRead, TypeOK, Moved, Rests, Sent
  <2>2. Moved(r)
    BY <1>5 DEF BeginRead, Sent, TypeOK, Moved, Moves
  <2> QED
    BY <1>5, <2>1, <2>2 DEF BeginRead, Wrote
<1>6. ASSUME NEW r \in Req, BeginChecks(r) PROVE Goal
  <2>1. ASSUME NEW q \in Req \ {r} PROVE Moved(q)
    BY <1>6 DEF BeginChecks, TypeOK, Moved, Rests, Sent
  <2>2. Moved(r)
    BY <1>6 DEF BeginChecks, Sent, TypeOK, Moved, Moves
  <2> QED
    BY <1>6, <2>1, <2>2 DEF BeginChecks, Wrote
<1>7. ASSUME NEW r \in Req, Select(r) PROVE Goal
  <2>1. ASSUME NEW q \in Req \ {r} PROVE Moved(q)
    BY <1>7 DEF Select, TypeOK, Moved, Rests
  <2>2. Moved(r)
    <3>1. PICK count \in 0..MaxRows :
             IF count > 0 /\ count > MaxResult
             THEN Answer(r, 413) /\ UNCHANGED rows
             ELSE /\ rows' = [rows EXCEPT ![r] = count]
                  /\ Goto(r, "store")
                  /\ UNCHANGED <<code, loop>>
      BY <1>7 DEF Select
    <3>2. CASE count > 0 /\ count > MaxResult
      <4>1. Answer(r, 413) /\ rows' = rows
        BY <3>1, <3>2
      <4>2. Refuses(r)
        BY <1>7, <4>1 DEF Select, Refuses, TypeOK
      <4> QED
        BY <1>7, <4>1, <4>2 DEF Select, Moved, Answers, TypeOK
    <3>3. CASE ~(count > 0 /\ count > MaxResult)
      <4>1. /\ rows' = [rows EXCEPT ![r] = count] /\ code' = code
            /\ Goto(r, "store")
        BY <3>1, <3>3
      <4>2. rows'[r] = count /\ (count > 0 => count <= MaxResult)
        BY <3>3, <4>1, GatewayAssumption DEF TypeOK
      <4> QED
        BY <1>7, <4>1, <4>2 DEF Select, Moved, Selects, TypeOK
    <3> QED
      BY <3>2, <3>3
  <2> QED
    BY <1>7, <2>1, <2>2 DEF Select, Wrote
<1>8. ASSUME NEW r \in Req, Columns(r) PROVE Goal
  <2>1. ASSUME NEW q \in Req \ {r} PROVE Moved(q)
    BY <1>8 DEF Columns, TypeOK, Moved, Rests
  <2>2. Moved(r)
    <3>1. Refuses(r)
      BY <1>8 DEF Columns, TypeOK, Refuses, Kinds
    <3> QED
      BY <1>8, <3>1 DEF Columns, TypeOK, Moved, Answers
  <2> QED
    BY <1>8, <2>1, <2>2 DEF Columns, Wrote
<1>9. ASSUME NEW r \in Req, QueryFails(r) PROVE Goal
  <2>1. ASSUME NEW q \in Req \ {r} PROVE Moved(q)
    BY <1>9 DEF QueryFails, TypeOK, Moved, Rests
  <2>2. Moved(r)
    <3>1. Refuses(r)
      BY <1>9 DEF QueryFails, TypeOK, Refuses, Kinds
    <3> QED
      BY <1>9, <3>1 DEF QueryFails, TypeOK, Moved, Answers
  <2> QED
    BY <1>9, <2>1, <2>2 DEF QueryFails, Wrote
<1>10. ASSUME NEW r \in Req, OverQuota(r) PROVE Goal
  <2>1. ASSUME NEW q \in Req \ {r} PROVE Moved(q)
    BY <1>10 DEF OverQuota, TypeOK, Moved, Rests
  <2>2. Moved(r)
    <3>1. Uploads(r)
      BY <1>10 DEF OverQuota, TypeOK, Uploads
    <3> QED
      BY <1>10, <3>1 DEF OverQuota, TypeOK, Moved, Answers
  <2> QED
    BY <1>10, <2>1, <2>2 DEF OverQuota, Wrote
<1>11. ASSUME NEW r \in Req, Stored(r) PROVE Goal
  <2>1. ASSUME NEW q \in Req \ {r} PROVE Moved(q)
    BY <1>11 DEF Stored, TypeOK, Moved, Rests
  <2>2. Moved(r)
    <3>1. Uploads(r)
      BY <1>11 DEF Stored, ReadyToStore, TypeOK, Uploads
    <3> QED
      BY <1>11, <3>1 DEF Stored, TypeOK, Moved, Answers
  <2> QED
    BY <1>11, <2>1, <2>2 DEF Stored, ReadyToStore, Wrote, MayWrite
<1>12. ASSUME NEW r \in Req, AttemptLost(r) PROVE Goal
  <2>1. ASSUME NEW q \in Req PROVE Moved(q)
    BY <1>12 DEF AttemptLost, Moved, Rests
  <2> QED
    BY <1>12, <2>1 DEF AttemptLost, ReadyToStore, Wrote, MayWrite
<1>13. ASSUME NEW r \in Req, StoreFails(r) PROVE Goal
  <2>1. ASSUME NEW q \in Req \ {r} PROVE Moved(q)
    BY <1>13 DEF StoreFails, TypeOK, Moved, Rests
  <2>2. Moved(r)
    <3>1. Uploads(r)
      BY <1>13 DEF StoreFails, ReadyToStore, TypeOK, Uploads
    <3> QED
      BY <1>13, <3>1 DEF StoreFails, TypeOK, Moved, Answers
  <2> QED
    BY <1>13, <2>1, <2>2 DEF StoreFails, Wrote
<1>14. ASSUME NEW r \in Req, Read(r) PROVE Goal
  <2>1. ASSUME NEW q \in Req \ {r} PROVE Moved(q)
    BY <1>14 DEF Read, TypeOK, Moved, Rests
  <2>2. Moved(r)
    <3>1. Looks(r)
      BY <1>14 DEF Read, TypeOK, Looks
    <3> QED
      BY <1>14, <3>1 DEF Read, TypeOK, Moved, Answers
  <2> QED
    BY <1>14, <2>1, <2>2 DEF Read, Wrote
<1>15. ASSUME NEW r \in Req, List(r) PROVE Goal
  <2>1. ASSUME NEW q \in Req \ {r} PROVE Moved(q)
    BY <1>15 DEF List, TypeOK, Moved, Rests
  <2>2. Moved(r)
    <3>1. Looks(r)
      BY <1>15 DEF List, TypeOK, Looks
    <3> QED
      BY <1>15, <3>1 DEF List, TypeOK, Moved, Answers
  <2> QED
    BY <1>15, <2>1, <2>2 DEF List, Wrote
<1>16. ASSUME NEW r \in Req, ReadFails(r) PROVE Goal
  <2>1. ASSUME NEW q \in Req \ {r} PROVE Moved(q)
    BY <1>16 DEF ReadFails, TypeOK, Moved, Rests
  <2>2. Moved(r)
    <3>1. Looks(r)
      BY <1>16 DEF ReadFails, TypeOK, Looks
    <3> QED
      BY <1>16, <3>1 DEF ReadFails, TypeOK, Moved, Answers
  <2> QED
    BY <1>16, <2>1, <2>2 DEF ReadFails, Wrote
<1>17. ASSUME NEW r \in Req, BodyIn(r) PROVE Goal
  <2>1. ASSUME NEW q \in Req \ {r} PROVE Moved(q)
    BY <1>17 DEF BodyIn, TypeOK, Moved, Rests
  <2>2. Moved(r)
    BY <1>17 DEF BodyIn, TypeOK, Moved, Moves
  <2> QED
    BY <1>17, <2>1, <2>2 DEF BodyIn, Wrote
<1>18. ASSUME NEW r \in Req, BodyLost(r) PROVE Goal
  <2>1. ASSUME NEW q \in Req \ {r} PROVE Moved(q)
    BY <1>18 DEF BodyLost, TypeOK, Moved, Rests
  <2>2. Moved(r)
    BY <1>18 DEF BodyLost, TypeOK, Moved, Moves
  <2> QED
    BY <1>18, <2>1, <2>2 DEF BodyLost, Wrote
<1>19. ASSUME NEW r \in Req, AnswerReady(r) PROVE Goal
  <2>1. ASSUME NEW q \in Req \ {r} PROVE Moved(q)
    BY <1>19 DEF AnswerReady, TypeOK, Moved, Rests
  <2>2. Moved(r)
    <3>1. Readies(r)
      BY <1>19 DEF AnswerReady, TypeOK, Readies
    <3> QED
      BY <1>19, <3>1 DEF AnswerReady, TypeOK, Moved, Answers
  <2> QED
    BY <1>19, <2>1, <2>2 DEF AnswerReady, Wrote
<1>20. ASSUME NEW r \in Req, NEW d \in Dep, ThreadStarts(r, d) PROVE Goal
  BY <1>20 DEF ThreadStarts, Moved, Rests, Wrote
<1>21. ASSUME NEW r \in Req, NEW d \in Dep, StoreAnswers(r, d) PROVE Goal
  BY <1>21 DEF StoreAnswers, Deliver, Moved, Rests, Wrote
<1>22. ASSUME NEW r \in Req, NEW d \in Dep, CheckRaises(r, d) PROVE Goal
  BY <1>22 DEF CheckRaises, Deliver, Moved, Rests, Wrote
<1>23. ASSUME NEW r \in Req, NEW d \in Dep, TimeOut(r, d) PROVE Goal
  BY <1>23 DEF TimeOut, Moved, Rests, Wrote
<1>24. CASE LateLands
  BY <1>24 DEF LateLands, Moved, Rests, Wrote
<1>25. CASE Crash
  <2>1. ASSUME NEW q \in Req PROVE Moved(q)
    <3>1. CASE at[q] \in Waiting \cup {"body"}
      BY <1>25, <3>1 DEF Crash, Moved, Moves, TypeOK, Waiting
    <3>2. CASE at[q] \notin Waiting \cup {"body"}
      BY <1>25, <3>2 DEF Crash, Moved, Rests, TypeOK
    <3> QED
      BY <3>1, <3>2
  <2> QED
    BY <1>25, <2>1 DEF Crash, Wrote
<1> QED
  BY <1>1, <1>2, <1>3, <1>4, <1>5, <1>6, <1>7, <1>8, <1>9, <1>10, <1>11,
     <1>12, <1>13, <1>14, <1>15, <1>16, <1>17, <1>18, <1>19, <1>20, <1>21,
     <1>22, <1>23, <1>24, <1>25
     DEF Next, Client, Begin, Database, Store, Probe, Surroundings

LEMMA DoneRests ==
    ASSUME NEW q \in Req, Moved(q), at[q] = "done"
    PROVE  Rests(q)
BY DEF Moved, Sends, Moves, Selects, Answers, Refuses, Uploads, Looks, Readies

LEMMA KindsInit == Init => Kinds
BY DEF Init, Kinds

LEMMA KindsStep == TypeOK /\ Kinds /\ [Next]_vars => Kinds'
<1> SUFFICES ASSUME TypeOK, Kinds, [Next]_vars, NEW r \in Req
             PROVE  /\ at'[r] = "idle" => call'[r] = NoCall
                    /\ at'[r] = "query" => call'[r].op \in {"retrieve", "catalog"}
                    /\ at'[r] = "body" => call'[r].op = "put"
                    /\ at'[r] = "store" => call'[r].op \in Writers
                    /\ at'[r] = "read" => call'[r].op = "get"
                    /\ at'[r] = "list" => call'[r].op = "list"
                    /\ at'[r] = "checks" => call'[r].op = "ready"
                    /\ at'[r] # "done" => code'[r] = 0
                    /\ rows'[r] > 0 => rows'[r] <= MaxResult
                    /\ \A q \in before'[r] : at'[q] = "done"
  BY DEF Kinds
<1>1. \A q \in Req : Moved(q)
  BY StepMoves
<1>2. \A q \in before'[r] : at'[q] = "done"
  <2>1. \A q \in before'[r] : at[q] = "done"
    BY <1>1 DEF Kinds, Moved, Rests, Sends, Moves, Selects, Answers, Keeps
  <2>2. before'[r] \subseteq Req
    BY TypeStep DEF TypeOK
  <2>3. \A q \in before'[r] : Rests(q)
    BY <1>1, <2>1, <2>2, DoneRests
  <2> QED
    BY <2>1, <2>3 DEF Rests
<1>3. CASE Rests(r)
  BY <1>2, <1>3 DEF Rests, Keeps, Kinds
<1>4. CASE Sends(r)
  BY <1>2, <1>4 DEF Sends, Kinds
<1>5. CASE Moves(r)
  BY <1>2, <1>5 DEF Moves, Keeps, Kinds, Writers
<1>6. CASE Selects(r)
  BY <1>2, <1>6 DEF Selects, Keeps, Kinds, Writers
<1>7. CASE Answers(r)
  BY <1>2, <1>7 DEF Answers, Keeps, Kinds
<1> QED
  BY <1>1, <1>3, <1>4, <1>5, <1>6, <1>7 DEF Moved

(* A request that has reached its upload uploads the same object for ever. *)
LEMMA UploadFixed ==
    ASSUME NEW q \in Req, Moved(q), at[q] \in {"store", "done", "lost"}
    PROVE  /\ at'[q] \in {"store", "done", "lost"}
           /\ Keeps(q) /\ rows'[q] = rows[q]
           /\ Upload(q)' = Upload(q) /\ Names(q)' = Names(q)
<1>1. at'[q] \in {"store", "done", "lost"} /\ Keeps(q) /\ rows'[q] = rows[q]
  BY DEF Moved, Rests, Sends, Moves, Selects, Answers
<1> QED
  BY <1>1 DEF Keeps, Upload, Names, Size, ResultKey

(* Nobody gives up a key: who writes it alone has always done so. *)
LEMMA OnlyWriterBefore ==
    ASSUME Kinds, \A p \in Req : Moved(p),
           NEW q \in Req, at[q] # "idle", OnlyWriter(q)'
    PROVE  OnlyWriter(q)
<1>1. ASSUME NEW p \in Req, at[p] # "idle"
      PROVE  call'[p] = call[p] /\ Names(p)' = Names(p)
  <2>1. call'[p] = call[p]
    BY <1>1 DEF Moved, Rests, Sends, Moves, Selects, Answers, Keeps
  <2> QED
    BY <2>1 DEF Names, ResultKey
<1>2. ASSUME NEW p \in Req, p # q, call[p].op \in {"put", "retrieve"}
      PROVE  Names(p) # Names(q)
  <2>1. at[p] # "idle"
    BY <1>2 DEF Kinds, NoCall
  <2> QED
    BY <1>1, <1>2, <2>1 DEF OnlyWriter
<1> QED
  BY <1>2 DEF OnlyWriter
-----------------------------------------------------------------------------
(* What is stored or may still be is the upload of a request that was let   *)
(* through to its upload.                                                   *)
Landed(k, o) ==
    /\ o.from \in Req /\ at[o.from] \in {"store", "done", "lost"}
    /\ call[o.from].op \in Writers
    /\ k = Names(o.from) /\ o = Upload(o.from)
    /\ o.size <= MaxBlob /\ code[o.from] \in {0, 200, 502}

Lawful ==
    /\ \A b \in Bucket, k \in Key :
          stored[b][k] # NoObject =>
             b = BucketForKey(k[1]) /\ Landed(k, stored[b][k])
    /\ \A a \in late : Landed(a[1], a[2])

(* An acknowledged upload whose key nobody else writes is there. *)
Kept ==
    \A q \in Req :
       Uploaded(q) /\ OnlyWriter(q) =>
          stored[BucketForKey(Names(q)[1])][Names(q)] = Upload(q)

LEMMA LandedStays ==
    ASSUME TypeOK, Kinds, \A q \in Req : Moved(q), NEW k, NEW o, Landed(k, o)
    PROVE  Landed(k, o)'
<1> DEFINE q == o.from
<1>1. /\ q \in Req /\ at[q] \in {"store", "done", "lost"}
      /\ call[q].op \in {"put", "retrieve"}
      /\ k = Names(q) /\ o = Upload(q) /\ o.size <= MaxBlob
      /\ code[q] \in {0, 200, 502}
  BY DEF Landed, Writers
<1>2. Upload(q).size \in Int /\ MaxBlob \in Int
  BY <1>1, UploadTypes, GatewayAssumption DEF Object
<1>3. /\ at'[q] \in {"store", "done", "lost"} /\ call'[q] = call[q]
      /\ Upload(q)' = Upload(q) /\ Names(q)' = Names(q)
  BY <1>1, UploadFixed DEF Keeps
<1>4. code'[q] \in {0, 200, 502}
  BY <1>1, <1>2 DEF Moved, Rests, Sends, Moves, Selects, Answers, Refuses, Uploads,
                    Looks, Readies
<1> QED
  BY <1>1, <1>3, <1>4 DEF Landed, Writers

LEMMA MayWriteLands ==
    ASSUME TypeOK, Kinds, NEW q \in Req, MayWrite(q)
    PROVE  Landed(Names(q), Upload(q))
BY UploadTypes DEF MayWrite, Kinds, Writers, Landed

(* The one cell of the buckets that a step may change. *)
LEMMA PutCell ==
    ASSUME TypeOK, NEW key \in Key, NEW object, Put(key, object),
           NEW b \in Bucket, NEW k \in Key
    PROVE  stored'[b][k] = IF b = BucketForKey(key[1]) /\ k = key
                           THEN object ELSE stored[b][k]
BY DEF TypeOK, Put, BucketForKey, Bucket

(* What a step writes had landed already, or was on its way. *)
LEMMA WroteLanded ==
    ASSUME TypeOK, Kinds, Lawful, Wrote
    PROVE  \/ stored' = stored
           \/ \E key \in Key, object \in Object : Landed(key, object) /\ Put(key, object)
<1>1. CASE \E q \in Req : MayWrite(q) /\ Put(Names(q), Upload(q))
  <2>1. PICK q \in Req : MayWrite(q) /\ Put(Names(q), Upload(q))
    BY <1>1
  <2>2. Names(q) \in Key /\ Upload(q) \in Object
    BY <2>1, UploadTypes DEF MayWrite, Kinds, Writers
  <2> QED
    BY <2>1, <2>2, MayWriteLands
<1>2. CASE \E a \in late : Put(a[1], a[2])
  <2>1. PICK a \in late : Put(a[1], a[2])
    BY <1>2
  <2>2. a[1] \in Key /\ a[2] \in Object /\ Landed(a[1], a[2])
    BY DEF TypeOK, Lawful
  <2> QED
    BY <2>1, <2>2
<1> QED
  BY <1>1, <1>2 DEF Wrote

LEMMA LawfulStep == TypeOK /\ Kinds /\ Lawful /\ [Next]_vars => Lawful'
<1> SUFFICES ASSUME TypeOK, Kinds, Lawful, [Next]_vars PROVE Lawful'
  OBVIOUS
<1>1. (\A q \in Req : Moved(q)) /\ Wrote
  BY StepMoves
<1>2. ASSUME NEW b \in Bucket, NEW k \in Key, stored'[b][k] # NoObject
      PROVE  b = BucketForKey(k[1]) /\ Landed(k, stored'[b][k])
  <2>1. CASE stored' = stored
    BY <1>2, <2>1 DEF Lawful
  <2>2. ASSUME NEW key \in Key, NEW object \in Object,
               Landed(key, object), Put(key, object)
        PROVE  b = BucketForKey(k[1]) /\ Landed(k, stored'[b][k])
    BY <1>2, <2>2, PutCell DEF Lawful
  <2> QED
    BY <1>1, <2>1, <2>2, WroteLanded
<1>3. ASSUME NEW b \in Bucket, NEW k \in Key, stored'[b][k] # NoObject
      PROVE  b = BucketForKey(k[1]) /\ Landed(k, stored[b][k])'
  <2> DEFINE o == stored'[b][k]
  <2>1. b = BucketForKey(k[1]) /\ Landed(k, o)
    BY <1>2, <1>3
  <2>2. ASSUME NEW p, Landed(k, p) PROVE Landed(k, p)'
    BY <1>1, <2>2, LandedStays
  <2> QED
    BY <2>1, <2>2 DEF Landed
<1>4. ASSUME NEW a \in late' PROVE Landed(a[1], a[2])'
  <2>1. Landed(a[1], a[2])
    BY <1>1, MayWriteLands DEF Lawful, Wrote
  <2> QED
    BY <1>1, <2>1, LandedStays
<1> QED
  BY <1>3, <1>4 DEF Lawful, BucketForKey

LEMMA KeptStep == TypeOK /\ Kinds /\ Lawful /\ Kept /\ [Next]_vars => Kept'
<1> SUFFICES ASSUME TypeOK, Kinds, Lawful, Kept, [Next]_vars,
                    NEW q \in Req, Uploaded(q)', OnlyWriter(q)'
             PROVE  (stored[BucketForKey(Names(q)[1])][Names(q)] = Upload(q))'
  BY DEF Kept
<1>1. (\A p \in Req : Moved(p)) /\ Wrote
  BY StepMoves
<1>2. CASE at[q] = "done"
  <2>1. Rests(q)
    BY <1>1, <1>2, DoneRests
  <2>2. Uploaded(q) /\ OnlyWriter(q)
    BY <1>1, <1>2, <2>1, OnlyWriterBefore DEF Uploaded, Rests, Keeps
  <2>3. Upload(q)' = Upload(q) /\ Names(q)' = Names(q)
    BY <1>1, <1>2, UploadFixed
  <2>4. Names(q) \in Key /\ BucketForKey(Names(q)[1]) \in Bucket
    BY <2>2, UploadTypes DEF Uploaded, BucketForKey, Bucket
  <2>5. stored[BucketForKey(Names(q)[1])][Names(q)] = Upload(q)
    BY <2>2 DEF Kept
  <2>6. ASSUME NEW key \in Key, NEW object \in Object,
               Landed(key, object), Put(key, object)
        PROVE  stored'[BucketForKey(Names(q)[1])][Names(q)] = Upload(q)
    <3>1. key = Names(q) => object = Upload(q)
      BY <2>2, <2>6 DEF Landed, OnlyWriter, Writers
    <3> QED
      BY <2>4, <2>5, <2>6, <3>1, PutCell
  <2>7. stored'[BucketForKey(Names(q)[1])][Names(q)] = Upload(q)
    BY <1>1, <2>5, <2>6, WroteLanded
  <2> QED
    BY <2>3, <2>7 DEF BucketForKey
<1>3. CASE at[q] # "done"
  <2>1. code[q] = 0 /\ code'[q] = 200 /\ call'[q].op \in {"put", "retrieve"}
    BY <1>3 DEF Kinds, Uploaded
  <2>2. Answers(q) /\ Moved(q)
    BY <1>1, <2>1 DEF Moved, Rests, Sends, Moves, Selects
  <2>3. at[q] = "store" /\ Put(Names(q), Upload(q))
    BY <2>1, <2>2 DEF Answers, Refuses, Uploads, Looks, Readies, Keeps, Kinds
  <2>4. Upload(q)' = Upload(q) /\ Names(q)' = Names(q)
    BY <2>2, <2>3, UploadFixed
  <2>5. Names(q) \in Key /\ BucketForKey(Names(q)[1]) \in Bucket
    BY <2>3, UploadTypes DEF Kinds, Writers, BucketForKey, Bucket
  <2>6. stored'[BucketForKey(Names(q)[1])][Names(q)] = Upload(q)
    BY <2>3, <2>5, PutCell
  <2> QED
    BY <2>4, <2>6 DEF BucketForKey
<1> QED
  BY <1>2, <1>3

Inv == TypeOK /\ Kinds /\ Lawful /\ Kept

LEMMA InvInit == Init => Inv
<1> SUFFICES ASSUME Init PROVE Inv
  OBVIOUS
<1>1. TypeOK /\ Kinds
  BY TypeInit, KindsInit
<1>2. Lawful
  BY DEF Init, Lawful
<1>3. Kept
  BY DEF Init, Kept, Uploaded
<1> QED
  BY <1>1, <1>2, <1>3 DEF Inv

THEOREM Inductive == Spec => []Inv
<1>1. Inv /\ [Next]_vars => Inv'
  BY TypeStep, KindsStep, LawfulStep, KeptStep DEF Inv
<1> QED
  BY <1>1, InvInit, PTL DEF Spec
-----------------------------------------------------------------------------
(* Every variable keeps its type. *)
THEOREM TypeCorrect == Spec => []TypeOK
<1>1. Inv => TypeOK
  BY DEF Inv
<1> QED
  BY <1>1, Inductive, PTL

(* Whatever is in a bucket was let through to its upload, under the key it  *)
(* names and within the quota, and is public exactly when its key says so.  *)
THEOREM StoredLawfully == Spec => []ObjectsLawful
<1>1. Inv => ObjectsLawful
  <2> SUFFICES ASSUME Inv, NEW b \in Bucket, NEW k \in Key,
                      stored[b][k] # NoObject
               PROVE  LET o == stored[b][k] IN
                      /\ b = "public" <=> k[1] = Public
                      /\ call[o.from].op \in {"put", "retrieve"} /\ k = Names(o.from)
                      /\ o.size <= MaxBlob
                      /\ code[o.from] \in {0, 200, 502}
    BY DEF ObjectsLawful
  <2>1. b = BucketForKey(k[1]) /\ Landed(k, stored[b][k])
    BY DEF Inv, Lawful
  <2> QED
    BY <2>1 DEF Landed, BucketForKey, Writers
<1> QED
  BY <1>1, Inductive, PTL

(* A retrieval that was answered with 200 has its rows under its URI unless *)
(* somebody uploads to that key, and a jsonl result is within the cap.      *)
THEOREM ResultsAreKept == Spec => []ResultsKept
<1>1. Inv => ResultsKept
  <2> SUFFICES ASSUME Inv, NEW r \in Req, call[r].op = "retrieve", code[r] = 200
               PROVE  /\ \/ stored["private"][ResultKey(r)] = Upload(r)
                         \/ \E q \in Req : call[q].op = "put" /\ call[q].key = ResultKey(r)
                      /\ call[r].format = "jsonl" /\ rows[r] > 0 =>
                            Upload(r).size <= MaxResult
    BY DEF ResultsKept
  <2>1. ASSUME OnlyWriter(r) PROVE stored["private"][ResultKey(r)] = Upload(r)
    <3>1. Names(r) = ResultKey(r) /\ BucketForKey(ResultKey(r)[1]) = "private"
      BY GatewayAssumption DEF Names, ResultKey, BucketForKey
    <3>2. stored[BucketForKey(Names(r)[1])][Names(r)] = Upload(r)
      BY <2>1 DEF Inv, Kept, Uploaded
    <3> QED
      BY <3>1, <3>2
  <2>2. ASSUME ~OnlyWriter(r)
        PROVE  \E q \in Req : call[q].op = "put" /\ call[q].key = ResultKey(r)
    <3>1. PICK q \in Req : /\ q # r /\ call[q].op \in {"put", "retrieve"}
                           /\ Names(q) = Names(r)
      BY <2>2 DEF OnlyWriter
    <3>2. CASE call[q].op = "retrieve"
      <4>1. <<Results, q>> = <<Results, r>>
        BY <3>1, <3>2 DEF Names, ResultKey
      <4> QED
        BY <3>1, <4>1
    <3>3. CASE call[q].op = "put"
      BY <3>1, <3>3 DEF Names
    <3> QED
      BY <3>1, <3>2, <3>3
  <2>3. call[r].format = "jsonl" => Upload(r).size = rows[r]
    BY DEF Upload, Size
  <2> QED
    BY <2>1, <2>2, <2>3 DEF Inv, Kinds
<1> QED
  BY <1>1, Inductive, PTL

(* What a read of a key, and a listing, find of an acknowledged upload. *)
LEMMA FoundUpload ==
    ASSUME Inv, NEW r \in Req, NEW q \in Req, Uploaded(q), OnlyWriter(q)
    PROVE  /\ call[r].op = "get" /\ call[r].key = Names(q) =>
                 Found(r) = {<<Names(q), Upload(q)>>}
           /\ /\ call[r].op = "list" /\ call[r].prefix \in {Any, Names(q)[1]}
              /\ BucketForKey(call[r].prefix) = BucketForKey(Names(q)[1])
              => <<Names(q), Upload(q)>> \in Listed(r)
<1> DEFINE b == BucketForKey(Names(q)[1])
<1>1. Names(q) \in Key /\ Upload(q) \in Object
  BY UploadTypes DEF Inv, Uploaded
<1>2. stored[b][Names(q)] = Upload(q) /\ Upload(q) # NoObject
  BY <1>1, GatewayAssumption DEF Inv, Kept
<1>3. <<Names(q), Upload(q)>> \in Objects(b)
  BY <1>1, <1>2 DEF Objects
<1>4. \A o \in Objects(b) : o[1] = Names(q) => o = <<Names(q), Upload(q)>>
  BY <1>2 DEF Objects
<1>5. ASSUME call[r].op = "get", call[r].key = Names(q)
      PROVE  Found(r) = {<<Names(q), Upload(q)>>}
  BY <1>3, <1>4, <1>5 DEF Found
<1>6. ASSUME call[r].op = "list", call[r].prefix \in {Any, Names(q)[1]},
             BucketForKey(call[r].prefix) = b
      PROVE  <<Names(q), Upload(q)>> \in Listed(r)
  BY <1>3, <1>6 DEF Listed
<1> QED
  BY <1>5, <1>6

(* A client that was told of an upload finds it afterwards, whatever dies,  *)
(* fails or lands late in between.                                          *)
THEOREM SeenAfterwards == Spec => []AcknowledgedIsSeen
<1>1. Init => AcknowledgedIsSeen
  BY DEF Init, AcknowledgedIsSeen
<1>2. Inv /\ AcknowledgedIsSeen /\ [Next]_vars => AcknowledgedIsSeen'
  <2> SUFFICES ASSUME Inv, AcknowledgedIsSeen, [Next]_vars,
                      NEW r \in Req, NEW q \in before'[r],
                      at'[r] = "done", code'[r] \in {200, 404},
                      Uploaded(q)', OnlyWriter(q)'
               PROVE  /\ call'[r].op = "get" /\ call'[r].key = Names(q)' =>
                            got'[r] = {<<Names(q)', Upload(q)'>>}
                      /\ /\ call'[r].op = "list"
                         /\ call'[r].prefix \in {Any, (Names(q)')[1]}
                         /\ BucketForKey(call'[r].prefix) = BucketForKey((Names(q)')[1])
                         => <<Names(q)', Upload(q)'>> \in got'[r]
    BY DEF AcknowledgedIsSeen, BucketForKey
  <2>1. \A p \in Req : Moved(p)
    BY StepMoves DEF Inv
  <2>2. Keeps(r)
    BY <2>1 DEF Moved, Rests, Sends, Moves, Selects, Answers
  <2>3. q \in Req /\ q \in before[r] /\ at[q] = "done"
    BY <2>2 DEF Keeps, Inv, TypeOK, Kinds
  <2>4. Rests(q) /\ Upload(q)' = Upload(q) /\ Names(q)' = Names(q)
    BY <2>1, <2>3, DoneRests, UploadFixed
  <2>5. Uploaded(q) /\ OnlyWriter(q)
    BY <2>1, <2>3, <2>4, OnlyWriterBefore DEF Inv, Uploaded, Rests, Keeps
  <2>6. CASE at[r] = "done"
    <3>1. Rests(r)
      BY <2>1, <2>6, DoneRests
    <3>2. code[r] \in {200, 404} /\ got'[r] = got[r] /\ call'[r] = call[r]
      BY <3>1 DEF Rests, Keeps
    <3> QED
      BY <2>3, <2>4, <2>5, <2>6, <3>2 DEF AcknowledgedIsSeen
  <2>7. CASE at[r] # "done"
    <3>1. Answers(r) /\ call'[r] = call[r]
      BY <2>1, <2>2, <2>7 DEF Moved, Rests, Sends, Moves, Selects, Keeps
    <3>2. call[r].op = "get" => got'[r] = Found(r)
      BY <3>1 DEF Answers, Refuses, Uploads, Looks, Readies, Inv, Kinds, Writers
    <3>3. call[r].op = "list" => got'[r] = Listed(r)
      BY <3>1 DEF Answers, Refuses, Uploads, Looks, Readies, Inv, Kinds, Writers
    <3> QED
      BY <2>3, <2>4, <2>5, <3>1, <3>2, <3>3, FoundUpload
  <2> QED
    BY <2>6, <2>7
<1> QED
  BY <1>1, <1>2, Inductive, PTL DEF Spec
-----------------------------------------------------------------------------
(* A check is only ok if its store has answered. *)
Checked == \A r \in Req, d \in Dep : check[r][d] = "ok" => d \in heard[r]

LEMMA CheckedStep ==
    ASSUME TypeOK, Checked, [Next]_vars
    PROVE  Checked' /\ \A r \in Req : heard[r] \subseteq heard'[r]
<1> DEFINE Goal == Checked' /\ \A r \in Req : heard[r] \subseteq heard'[r]
<1> USE DEF TypeOK, Checked, stores, probes, history
<1>1. CASE UNCHANGED <<probes, heard>>
  BY <1>1
<1>2. ASSUME NEW r \in Req, BeginChecks(r) PROVE Goal
  BY <1>2 DEF BeginChecks
<1>3. ASSUME NEW r \in Req, NEW d \in Dep, ThreadStarts(r, d) PROVE Goal
  BY <1>3 DEF ThreadStarts
<1>4. ASSUME NEW r \in Req, NEW d \in Dep, StoreAnswers(r, d) PROVE Goal
  BY <1>4 DEF StoreAnswers, Deliver
<1>5. ASSUME NEW r \in Req, NEW d \in Dep, CheckRaises(r, d) PROVE Goal
  BY <1>5 DEF CheckRaises, Deliver
<1>6. ASSUME NEW r \in Req, NEW d \in Dep, TimeOut(r, d) PROVE Goal
  BY <1>6 DEF TimeOut
<1>7. CASE Crash
  BY <1>7 DEF Crash
<1>8. ASSUME NEW r \in Req, Client(r) PROVE UNCHANGED <<probes, heard>>
  BY <1>8 DEF Client, Send, BodyIn, BodyLost
<1>9. ASSUME NEW r \in Req, Begin(r), ~BeginChecks(r) PROVE UNCHANGED <<probes, heard>>
  BY <1>9 DEF Begin, BeginQuery, BeginUpload, BeginRead
<1>10. ASSUME NEW r \in Req, Database(r) PROVE UNCHANGED <<probes, heard>>
  BY <1>10 DEF Database, Select, Columns, QueryFails
<1>11. ASSUME NEW r \in Req, Store(r) PROVE UNCHANGED <<probes, heard>>
  BY <1>11 DEF Store, OverQuota, Stored, AttemptLost, StoreFails, Read, List, ReadFails
<1>12. ASSUME NEW r \in Req, AnswerReady(r) PROVE UNCHANGED <<probes, heard>>
  BY <1>12 DEF AnswerReady
<1>13. CASE LateLands
  BY <1>1, <1>13 DEF LateLands
<1>14. CASE UNCHANGED vars
  BY <1>1, <1>14 DEF vars
<1> QED
  BY <1>1, <1>2, <1>3, <1>4, <1>5, <1>6, <1>7, <1>8, <1>9, <1>10, <1>11, <1>12,
     <1>13, <1>14 DEF Next, Probe, Surroundings

(* /readyz says ok only when both stores answered its own checks. *)
THEOREM ReadyIsHonest == Spec => []ReadyHonest
<1>1. Init => Checked /\ ReadyHonest
  BY DEF Init, Checked, ReadyHonest
<1>2. Inv /\ Checked /\ ReadyHonest /\ [Next]_vars => (Checked /\ ReadyHonest)'
  <2> SUFFICES ASSUME Inv, Checked, ReadyHonest, [Next]_vars
               PROVE  Checked' /\ ReadyHonest'
    OBVIOUS
  <2>1. Checked' /\ \A r \in Req : heard[r] \subseteq heard'[r]
    BY CheckedStep DEF Inv
  <2>2. ASSUME NEW r \in Req, call'[r].op = "ready", code'[r] = 200
        PROVE  heard'[r] = Dep
    <3>1. Moved(r)
      BY StepMoves DEF Inv
    <3>2. heard'[r] \subseteq Dep
      BY TypeStep DEF Inv, TypeOK
    <3>3. CASE code[r] = 200
      <4>1. at[r] = "done"
        BY <3>3 DEF Inv, Kinds
      <4>2. call[r].op = "ready"
        BY <2>2, <3>1, <4>1, DoneRests DEF Rests, Keeps
      <4>3. heard[r] = Dep
        BY <3>3, <4>2 DEF ReadyHonest
      <4>4. heard[r] \subseteq heard'[r]
        BY <2>1
      <4> QED
        BY <3>2, <4>3, <4>4
    <3>4. CASE code[r] # 200
      <4>1. Answers(r)
        BY <2>2, <3>1, <3>4 DEF Moved, Rests, Sends, Moves, Selects
      <4>2. \A d \in Dep : check[r][d] = "ok"
        BY <2>2, <4>1 DEF Answers, Refuses, Uploads, Looks, Readies, Keeps, Inv,
                          Kinds, Writers
      <4> QED
        BY <2>1, <3>2, <4>2 DEF Checked
    <3> QED
      BY <3>3, <3>4
  <2> QED
    BY <2>1, <2>2 DEF ReadyHonest
<1> QED
  BY <1>1, <1>2, Inductive, PTL DEF Spec
=============================================================================
