------------------------ MODULE SqlAcceptanceProofs ------------------------
(***************************************************************************)
(* What holds of SqlAcceptance for any tickers, dates, queries, chunks and *)
(* numbers of bundles.                                                     *)
(*                                                                         *)
(* Two invariants, each inductive by itself: what the script has verified  *)
(* by the time it is at a step (Accepts), and what it can know of the      *)
(* server there (Knows).                                                   *)
(***************************************************************************)
EXTENDS SqlAcceptance, TLAPS

AllCases == \A t \in Ticker : \E p \in Pair : cases[p] = AdaptWorkflow(t, DATE)

AllRows ==
    \A t \in Ticker, q \in Query :
       <<t, q>> \notin todo => returned[<<t, q>>] = EXPECTED_COUNTS[q]

Executed == execute /\ (ok \/ step = "finish")

Accepts ==
    /\ ok => step \in {"finish", "report"} \cup Stopping \cup Ended
    /\ \A p \in Pair :
          cases[p] = None \/ \E t \in Ticker : cases[p] = AdaptWorkflow(t, DATE)
    /\ ok \/ step \in Trying \ Loading => AllCases
    /\ ok \/ step \in Trying \ Loading => AllRows
    /\ step \in Starting \cup {"cluster", "snapshot", "query"} => execute
    /\ step \in Starting \ {"grant"} => snapshot = "pinned"
    /\ Executed \/ step \in {"grant", "query"} => database = "pinned"
    /\ Executed => todo = {}

Unforked == Loading \cup Verifying \cup {"programs", "cluster", "initdb", "pg_ctl"}

Knows ==
    /\ step \in Unforked => server = "none" /\ ~pid
    /\ ~initialized => server = "none"
    /\ step = "pg_ctl" => initialized
    /\ step = "starting" => cut
    /\ step \in {"capture", "createdb", "restore", "grant", "query"} => ~cut
    /\ ~cut => server \notin {"forked", "booting"}
    /\ pid => server \notin {"none", "forked", "booting"}
    /\ step = "createdb" => pid \/ server # "up"
    /\ Executed \/ step \in {"restore", "grant", "query"} => pid
    /\ step = "kill" /\ Alive => cut \/ server = "exiting"
    /\ cleanup # "none" => step \in {"report"} \cup Ended
    /\ cleanup = "stopped" /\ Alive => ~pid /\ (cut \/ server = "exiting")
    /\ ok => step \in {"finish", "report"} \cup Stopping \cup Ended
    /\ step \in {"report", "reported"} /\ ok /\ execute => cleanup = "stopped"
-----------------------------------------------------------------------------
LEMMA AcceptsInit == Init => Accepts
BY DEF Init, Accepts, AllCases, AllRows, Executed, Loading, Verifying, Starting,
       Trying, Stopping, Ended

(* The query returned as many rows as were expected, not only as many as    *)
(* were fetched.                                                            *)
LEMMA NoneLeftUnfetched ==
    ASSUME NEW q \in Query, NEW n \in 0..MaxRows, AsRequired(q, n)
    PROVE  n = EXPECTED_COUNTS[q]
BY AcceptanceAssumption DEF AsRequired, Fetched

LEMMA AcceptsStep == TypeOK /\ Accepts /\ [Next]_vars => Accepts'
<1> SUFFICES ASSUME TypeOK, Accepts, [Next]_vars PROVE Accepts'
  OBVIOUS
<1> USE DEF Accepts, AllCases, AllRows, Executed, Loading, Verifying, Starting,
            Trying, Stopping, Ended, Goto, texts, verifying, report, process, data
<1>1. CASE UNCHANGED vars
  BY <1>1 DEF vars
<1>2. CASE Files
  BY <1>2 DEF Files, Adapt, WriteBundle, LeaveBundle, EditBundle, EditDump
<1>3. CASE Boot \/ Exit \/ Reuse \/ PgCtlSignals
  BY <1>3 DEF Boot, Exit, Reuse, PgCtlSignals
<1>4. ASSUME NEW p \in Pair, LoadCase(p) PROVE Accepts'
  <2>1. \E t \in Ticker : bundle[p] = AdaptWorkflow(t, DATE)
    BY <1>4 DEF LoadCase, Verified, ValidInputs
  <2>2. cases' = [cases EXCEPT ![p] = bundle[p]] /\ cases \in [Pair -> Bundle]
    BY <1>4 DEF LoadCase, TypeOK
  <2>3. \A o \in Pair :
           cases'[o] = None \/ \E t \in Ticker : cases'[o] = AdaptWorkflow(t, DATE)
    BY <2>1, <2>2
  <2> QED
    BY <1>4, <2>3 DEF LoadCase
<1>5. CASE CasesLoaded
  <2>1. ASSUME NEW t \in Ticker
        PROVE  \E p \in Pair : cases[p] = AdaptWorkflow(t, DATE)
    <3>1. PICK p \in Pair : t = cases[p].manifest.ticker
      BY <1>5 DEF CasesLoaded, Loaded
    <3>2. PICK u \in Ticker : cases[p] = AdaptWorkflow(u, DATE)
      BY <1>5 DEF CasesLoaded
    <3>3. u = t
      BY <3>1, <3>2 DEF AdaptWorkflow, Adapted
    <3> QED
      BY <3>2, <3>3
  <2>2. todo' = Ticker \X Query
    BY <1>5 DEF CasesLoaded
  <2> QED
    BY <1>5, <2>1, <2>2 DEF CasesLoaded
<1>6. CASE ReadOriginal
  BY <1>6 DEF ReadOriginal
<1>7. CASE ReadChunk
  BY <1>7 DEF ReadChunk
<1>8. CASE DumpVerified
  BY <1>8 DEF DumpVerified
<1>9. CASE ProgramsVerified
  BY <1>9 DEF ProgramsVerified
<1>10. CASE NewCluster \/ Initdb \/ PgCtlForks \/ PgCtlStarted \/ CapturePid
  BY <1>10 DEF NewCluster, Initdb, PgCtlForks, PgCtlStarted, CapturePid
<1>11. CASE Createdb \/ PgRestore \/ Grant
  BY <1>11 DEF Createdb, PgRestore, Grant, Command
<1>12. ASSUME NEW t \in Ticker, NEW q \in Query, RunQuery(t, q) PROVE Accepts'
  <2>1. PICK n \in 0..MaxRows : /\ AsRequired(q, n)
                                /\ returned' = [returned EXCEPT ![<<t, q>>] = n]
    BY <1>12 DEF RunQuery
  <2>2. returned'[<<t, q>>] = EXPECTED_COUNTS[q]
    BY <2>1, NoneLeftUnfetched DEF TypeOK
  <2>3. \A u \in Ticker, s \in Query :
           <<u, s>> # <<t, q>> => returned'[<<u, s>>] = returned[<<u, s>>]
    BY <2>1 DEF TypeOK
  <2>4. AllRows'
    BY <1>12, <2>2, <2>3 DEF RunQuery
  <2> QED
    BY <1>12, <2>4 DEF RunQuery
<1>13. CASE QueriesRun \/ SetOk
  BY <1>13 DEF QueriesRun, SetOk
<1>14. CASE TryEnds \/ Raise
  BY <1>14 DEF TryEnds, Raise, Finally
<1>15. CASE Cleanup
  BY <1>15 DEF Cleanup, Stop, Stopped, PgCtlStopped, FastFails, CaptureAgain,
               StatusStopped, FileAbsent, PidGone, StopRaises, Report
<1>16. CASE Die
  BY <1>16 DEF Die
<1> QED
  BY <1>1, <1>2, <1>3, <1>4, <1>5, <1>6, <1>7, <1>8, <1>9, <1>10, <1>11, <1>12,
     <1>13, <1>14, <1>15, <1>16 DEF Next, Script, Verification, Start, Queries
-----------------------------------------------------------------------------
LEMMA KnowsInit == Init => Knows
BY DEF Init, Knows, Executed, Unforked, Loading, Verifying, Stopping, Ended, Alive

LEMMA KnowsStep == TypeOK /\ Knows /\ [Next]_vars => Knows'
<1> SUFFICES ASSUME TypeOK, Knows, [Next]_vars PROVE Knows'
  OBVIOUS
<1> USE DEF Knows, Executed, Unforked, Alive, PidFile, Captured, Loading, Verifying,
            Starting, Trying, Stopping, Ended, Goto, texts, verifying, report, process, data
<1>1. CASE UNCHANGED vars
  BY <1>1 DEF vars
<1>2. CASE Files
  BY <1>2 DEF Files, Adapt, WriteBundle, LeaveBundle, EditBundle, EditDump
<1>3. CASE Boot
  BY <1>3 DEF Boot
<1>4. CASE Exit
  BY <1>4 DEF Exit
<1>5. CASE Reuse
  BY <1>5 DEF Reuse
<1>6. CASE Verification
  BY <1>6 DEF Verification, ReadOriginal, LoadCase, CasesLoaded, ReadChunk,
              DumpVerified, ProgramsVerified
<1>7. CASE NewCluster \/ Initdb
  BY <1>7 DEF NewCluster, Initdb
<1>8. CASE PgCtlForks
  BY <1>8 DEF PgCtlForks
<1>9. CASE PgCtlStarted
  BY <1>9 DEF PgCtlStarted
<1>10. CASE CapturePid
  BY <1>10 DEF CapturePid, TypeOK
<1>11. CASE Createdb \/ PgRestore \/ Grant
  BY <1>11 DEF Createdb, PgRestore, Grant, Command
<1>12. CASE Queries
  <2>1. ASSUME NEW t \in Ticker, NEW q \in Query, RunQuery(t, q) PROVE Knows'
    BY <2>1 DEF RunQuery
  <2>2. CASE QueriesRun \/ SetOk
    BY <2>2 DEF QueriesRun, SetOk
  <2>3. CASE TryEnds
    BY <2>3 DEF TryEnds, Finally
  <2> QED
    BY <1>12, <2>1, <2>2, <2>3 DEF Queries
<1>13. CASE Raise
  BY <1>13 DEF Raise, Finally
<1>14. CASE Stop
  BY <1>14 DEF Stop, Stopped, TypeOK
<1>15. CASE PgCtlSignals
  BY <1>15 DEF PgCtlSignals
<1>16. CASE PgCtlStopped \/ FastFails \/ StatusStopped
  BY <1>16 DEF PgCtlStopped, FastFails, StatusStopped
<1>17. CASE CaptureAgain
  BY <1>17 DEF CaptureAgain, TypeOK
<1>18. CASE FileAbsent
  BY <1>18 DEF FileAbsent, TypeOK
<1>19. CASE PidGone
  BY <1>19 DEF PidGone, Stopped
<1>20. CASE StopRaises
  BY <1>20 DEF StopRaises, Stopped
<1>21. CASE Report \/ Die
  BY <1>21 DEF Report, Die
<1> QED
  BY <1>1, <1>2, <1>3, <1>4, <1>5, <1>6, <1>7, <1>8, <1>9, <1>10, <1>11, <1>12,
     <1>13, <1>14, <1>15, <1>16, <1>17, <1>18, <1>19, <1>20, <1>21
     DEF Next, Script, Start, Cleanup
-----------------------------------------------------------------------------
LEMMA TypeInit == Init => TypeOK
<1> SUFFICES ASSUME Init PROVE TypeOK
  OBVIOUS
<1>1. 0 \in 0..Chunks /\ 0 \in 0..MaxRows
  BY AcceptanceAssumption
<1>2. None \in Bundle
  BY DEF None, Bundle, File
<1>3. dump \in [1..Chunks -> BOOLEAN]
  BY DEF Init
<1>4. returned \in [Ticker \X Query -> 0..MaxRows]
  BY <1>1 DEF Init
<1>5. step \in Trying \cup Stopping \cup {"report"} \cup Ended
  BY DEF Init, Trying, Loading
<1> QED
  BY <1>1, <1>2, <1>3, <1>4, <1>5 DEF Init, TypeOK

(* Replacing one artifact of a bundle by a file leaves a bundle. *)
LEMMA BundleEdited ==
    ASSUME NEW b \in Bundle, NEW f \in File
    PROVE  /\ [b EXCEPT !.workflow = f] \in Bundle
           /\ [b EXCEPT !.manifest = f] \in Bundle
BY DEF Bundle

LEMMA TypeStep == TypeOK /\ [Next]_vars => TypeOK'
<1> SUFFICES ASSUME TypeOK, [Next]_vars PROVE TypeOK'
  OBVIOUS
<1> USE AcceptanceAssumption
<1> USE DEF TypeOK, Loading, Verifying, Starting, Trying, Stopping, Ended, Goto,
            texts, verifying, report, process, data
<1>1. CASE UNCHANGED vars
  BY <1>1 DEF vars
<1>2. ASSUME NEW p \in Pair, NEW ticker \in Ticker, NEW date \in Day,
             Adapt(p, ticker, date)
      PROVE  TypeOK'
  BY <1>2 DEF Adapt
<1>3. ASSUME NEW p \in Pair, WriteBundle(p) PROVE TypeOK'
  <2>1. PICK ticker \in Ticker, date \in Day : author[p] = <<ticker, date>>
    BY <1>3 DEF WriteBundle
  <2> DEFINE r == AdaptWorkflow(author[p][1], author[p][2])
  <2>2. r.workflow \in File /\ r.manifest \in File /\ Torn \in File
    BY <2>1 DEF AdaptWorkflow, Adapted, File, Text
  <2>3. /\ Written(bundle[p].workflow, r.workflow) \in File
        /\ Written(bundle[p].manifest, r.manifest) \in File
    BY <2>2 DEF Written
  <2>4. /\ [bundle[p] EXCEPT !.workflow = Written(@, r.workflow)] \in Bundle
        /\ [bundle[p] EXCEPT !.manifest = Written(@, r.manifest)] \in Bundle
    BY <2>3, BundleEdited
  <2>5. bundle' \in [Pair -> Bundle]
    BY <1>3, <2>4 DEF WriteBundle
  <2>6. author' \in [Pair -> {Idle, Gone} \cup (Ticker \X Day)]
    BY <1>3 DEF WriteBundle
  <2> QED
    BY <1>3, <2>5, <2>6 DEF WriteBundle
<1>4. ASSUME NEW p \in Pair, LeaveBundle(p) PROVE TypeOK'
  BY <1>4 DEF LeaveBundle
<1>5. ASSUME NEW p \in Pair, EditBundle(p) PROVE TypeOK'
  <2>1. ASSUME NEW symbol \in Symbol, bundle[p].manifest \in Text,
               bundle' = [bundle EXCEPT ![p].manifest.ticker = symbol,
                                        ![p].manifest.exact = FALSE]
        PROVE  bundle' \in [Pair -> Bundle]
    <3> DEFINE b == [bundle[p] EXCEPT !.manifest.ticker = symbol]
               c == [b EXCEPT !.manifest.exact = FALSE]
    <3>1. b.manifest \in Text /\ b \in Bundle
      <4>1. [bundle[p].manifest EXCEPT !.ticker = symbol] \in Text
        BY <2>1 DEF Text
      <4> QED
        BY <4>1, BundleEdited DEF File, Bundle
    <3>2. c \in Bundle
      <4>1. [b.manifest EXCEPT !.exact = FALSE] \in Text
        BY <3>1 DEF Text
      <4> QED
        BY <3>1, <4>1, BundleEdited DEF File
    <3>3. bundle' = [[bundle EXCEPT ![p] = b] EXCEPT ![p] = c]
      BY <2>1
    <3> HIDE DEF b, c
    <3> QED
      BY <3>1, <3>2, <3>3
  <2>2. ASSUME bundle[p].workflow \in Text,
               bundle' = [bundle EXCEPT ![p].workflow.exact = FALSE]
        PROVE  bundle' \in [Pair -> Bundle]
    <3> DEFINE b == [bundle[p] EXCEPT !.workflow.exact = FALSE]
    <3>1. [bundle[p].workflow EXCEPT !.exact = FALSE] \in File
      BY <2>2 DEF Text, File
    <3>2. b \in Bundle
      BY <3>1, BundleEdited
    <3> QED
      BY <2>2, <3>2
  <2>3. bundle' \in [Pair -> Bundle]
    BY <1>5, <2>1, <2>2 DEF EditBundle
  <2> QED
    BY <1>5, <2>3 DEF EditBundle
<1>6. CASE EditDump
  BY <1>6 DEF EditDump
<1>7. ASSUME NEW p \in Pair, LoadCase(p) PROVE TypeOK'
  BY <1>7 DEF LoadCase
<1>8. CASE ReadChunk
  <2>1. chunk' \in 0..Chunks /\ snapshot' \in {"none", "other", "pinned"}
    BY <1>8 DEF ReadChunk
  <2>2. digest' \in BOOLEAN
    BY <1>8 DEF ReadChunk
  <2> QED
    BY <1>8, <2>1, <2>2 DEF ReadChunk
<1>9. CASE DumpVerified
  BY <1>9 DEF DumpVerified
<1>10. CASE PgRestore
  <2>1. step = "restore" /\ step' = "grant" /\ database' = snapshot
    BY <1>10 DEF PgRestore, Command
  <2> QED
    BY <1>10, <2>1 DEF PgRestore, Command
<1>11. ASSUME NEW t \in Ticker, NEW q \in Query, RunQuery(t, q) PROVE TypeOK'
  BY <1>11 DEF RunQuery
<1>12. CASE Boot
  BY <1>12 DEF Boot
<1>13. CASE Exit
  BY <1>13 DEF Exit
<1>14. CASE Reuse
  BY <1>14 DEF Reuse
<1>15. CASE PgCtlSignals
  BY <1>15 DEF PgCtlSignals
<1>16. CASE ReadOriginal
  BY <1>16 DEF ReadOriginal
<1>17. CASE ProgramsVerified
  BY <1>17 DEF ProgramsVerified
<1>18. CASE CasesLoaded
  BY <1>18 DEF CasesLoaded
<1>19. CASE NewCluster
  BY <1>19 DEF NewCluster
<1>20. CASE Initdb
  BY <1>20 DEF Initdb
<1>21. CASE PgCtlForks
  BY <1>21 DEF PgCtlForks
<1>22. CASE PgCtlStarted
  <2>1. step' = "capture" /\ cut' \in BOOLEAN
    BY <1>22 DEF PgCtlStarted
  <2>2. UNCHANGED <<texts, dump, execute, cases, verifying, initialized, pid, todo,
                    report, process, data>>
    BY <1>22 DEF PgCtlStarted
  <2> QED
    BY <2>1, <2>2
<1>23. CASE CapturePid
  BY <1>23 DEF CapturePid, Captured
<1>24. CASE Createdb
  BY <1>24 DEF Createdb, Command
<1>25. CASE Grant
  BY <1>25 DEF Grant, Command
<1>26. CASE QueriesRun
  BY <1>26 DEF QueriesRun
<1>27. CASE SetOk
  BY <1>27 DEF SetOk
<1>28. CASE TryEnds
  BY <1>28 DEF TryEnds, Finally
<1>29. CASE Raise
  BY <1>29 DEF Raise, Finally
<1>30. CASE Stop
  BY <1>30 DEF Stop, Stopped, Captured
<1>31. CASE PgCtlStopped
  BY <1>31 DEF PgCtlStopped
<1>32. CASE FastFails
  BY <1>32 DEF FastFails
<1>33. CASE CaptureAgain
  BY <1>33 DEF CaptureAgain, Captured
<1>34. CASE StatusStopped
  BY <1>34 DEF StatusStopped
<1>35. CASE FileAbsent
  BY <1>35 DEF FileAbsent
<1>36. CASE PidGone
  BY <1>36 DEF PidGone, Stopped
<1>37. CASE StopRaises
  <2>1. flies' \in BOOLEAN /\ cleanup' \in {"none", "stopped", "failed"}
    BY <1>37 DEF StopRaises, Stopped
  <2>2. step' = "report" /\ ok' \in BOOLEAN
    BY <1>37 DEF StopRaises, Stopped
  <2>3. UNCHANGED <<texts, dump, execute, cases, verifying, initialized, pid, todo,
                    process, data, cut>>
    BY <1>37 DEF StopRaises
  <2> QED
    BY <2>1, <2>2, <2>3
<1>38. CASE Report
  BY <1>38 DEF Report
<1>39. CASE Die
  BY <1>39 DEF Die
<1> QED
  BY <1>1, <1>2, <1>3, <1>4, <1>5, <1>6, <1>7, <1>8, <1>9, <1>10, <1>11,
     <1>12, <1>13, <1>14, <1>15, <1>16, <1>17, <1>18, <1>19, <1>20,
     <1>21, <1>22, <1>23, <1>24, <1>25, <1>26, <1>27, <1>28, <1>29,
     <1>30, <1>31, <1>32, <1>33, <1>34, <1>35, <1>36, <1>37, <1>38,
     <1>39
     DEF Next, Files, Script, Verification, Start, Queries, Cleanup

(* Every variable keeps its type, a bundle through any edit included.       *)
THEOREM TypeCorrect == Spec => []TypeOK
<1>1. Init => TypeOK
  BY TypeInit
<1>2. TypeOK /\ [Next]_vars => TypeOK'
  BY TypeStep
<1> QED
  BY <1>1, <1>2, PTL DEF Spec

(* An accepted execution had both tickers' derived artifacts, a database    *)
(* restored from the pinned dump, and the expected rows from every query,   *)
(* for any number of bundles, chunks and queries.                           *)
THEOREM AcceptanceIsPinned == Spec => []AcceptedIsPinned
<1>1. Init => Accepts
  BY AcceptsInit
<1>2. TypeOK /\ Accepts /\ [Next]_vars => Accepts'
  BY AcceptsStep
<1>3. Accepts => AcceptedIsPinned
  BY DEF Accepts, AcceptedIsPinned, AllCases, AllRows, Executed
<1> QED
  BY <1>1, <1>2, <1>3, TypeCorrect, PTL DEF Spec

(* A report that is ok is of a server that is gone, and one that is         *)
(* reported as stopped and still there is one whose pid was never known:    *)
(* its start was cut short, or its postmaster.pid is gone already.          *)
THEOREM StopIsTrue == Spec => []StoppedIsTrue
<1>1. Init => Knows
  BY KnowsInit
<1>2. TypeOK /\ Knows /\ [Next]_vars => Knows'
  BY KnowsStep
<1>3. Knows => StoppedIsTrue
  BY DEF Knows, StoppedIsTrue, Executed
<1> QED
  BY <1>1, <1>2, <1>3, TypeCorrect, PTL DEF Spec
=============================================================================
