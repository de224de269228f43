-------------------------- MODULE ExperimentProofs --------------------------
(***************************************************************************)
(* What holds of Experiment for every set of drafts, texts, paraphrase     *)
(* groups, providers and approved contracts.                               *)
(*                                                                         *)
(* Four invariants, each inductive by itself: what is learned comes from   *)
(* the frozen manifest and what is retrieved is learned (Leak); what the   *)
(* gate has read of the result so far (Gated); how far a reported verdict  *)
(* can still be moved (Settled); and a plan in hand is plan()'s (Planned). *)
(* A fifth says, from the first and the fourth, that the episodes of the   *)
(* store can be ranked (Stored).                                           *)
(***************************************************************************)
EXTENDS Experiment, WorkflowProofs

Clean(cases) ==
    /\ Passed(ScanContamination(cases))
    /\ \A c \in cases : CaseValid(c)
    /\ \A c, d \in cases : c.id = d.id => c = d

Leak ==
    /\ at \in {"asking", "authoring"} => episodes = {} /\ case = {}
    /\ at # "recalled" => recall = NoRecall
    /\ Clean(frozen)
    /\ case \subseteq frozen
    /\ \A e \in episodes : \E c \in frozen : e = EpisodeOf(c, e.scope)
    /\ \A e \in recall.hits :
        e \in episodes /\ e.scope = recall.scope /\ e.split = "train"

(* Cases of two splits share neither a text nor a paraphrase group. *)
LEMMA CleanApart ==
    ASSUME NEW S, Passed(ScanContamination(S)),
           NEW c \in S, NEW d \in S, c.split # d.split
    PROVE  Normal[c.request] # Normal[d.request] /\ Label[c.group] # Label[d.group]
<1>1. /\ HardFindings(S, NormalizedText(S)) = {}
      /\ HardFindings(S, ParaphraseGroup(S)) = {}
  BY DEF Passed, ScanContamination
<1>2. ASSUME Normal[c.request] = Normal[d.request] PROVE FALSE
  <2>1. NormalizedText(S)[c] \in HardFindings(S, NormalizedText(S))
    BY <1>2 DEF HardFindings, NormalizedText
  <2> QED
    BY <1>1, <2>1
<1>3. ASSUME Label[c.group] = Label[d.group] PROVE FALSE
  <2>1. ParaphraseGroup(S)[c] \in HardFindings(S, ParaphraseGroup(S))
    BY <1>3 DEF HardFindings, ParaphraseGroup
  <2> QED
    BY <1>1, <2>1
<1> QED
  BY <1>2, <1>3

LEMMA RetrieveSelects ==
    ASSUME NEW rows, NEW words, NEW text, NEW s, NEW d, NEW n,
           NEW e \in Retrieve(rows, words, text, s, d, n)
    PROVE  e \in rows /\ e.scope = s /\ e.split = "train"
BY DEF Retrieve, Selected

LEMMA EmptyClean == Clean({})
BY DEF Clean, Passed, ScanContamination, HardFindings

LEMMA LeakInit == Init => Leak
BY EmptyClean DEF Init, Leak, NoRecall

LEMMA LeakStep == Leak /\ [Next]_vars => Leak'
<1> SUFFICES ASSUME Leak, [Next]_vars PROVE Leak'
  OBVIOUS
<1> USE DEF Leak, Working
<1>1. CASE UNCHANGED vars
  BY <1>1 DEF vars, caseVars
<1>2. ASSUME NEW r, NEW b, Ask(r, b) PROVE Leak'
  BY <1>2 DEF Ask
<1>3. CASE OpenFile
  BY <1>3 DEF OpenFile
<1>4. ASSUME NEW f, AuthorWrites(f) PROVE Leak'
  BY <1>4 DEF AuthorWrites, caseVars
<1>5. ASSUME NEW b, LoadManifest(b) PROVE Leak'
  <2>1. Clean(file.cases)
    BY <1>5 DEF LoadManifest, Loads, ManifestValid, Clean
  <2>2. episodes = {} /\ recall.hits = {}
    BY <1>5 DEF LoadManifest, NoRecall
  <2>3. case = {}
    BY <1>5 DEF LoadManifest
  <2> QED
    BY <1>5, <2>1, <2>2, <2>3 DEF LoadManifest, caseVars
<1>6. ASSUME NEW c \in frozen, TakeCase(c) PROVE Leak'
  BY <1>6 DEF TakeCase
<1>7. ASSUME NEW s, NEW d, Recall(s, d) PROVE Leak'
  <2>1. PICK c \in case :
            recall' = [scope |-> s,
                       hits  |-> Retrieve(episodes, Words, c.request, s, d, Limit)]
    BY <1>7 DEF Recall
  <2>2. \A e \in recall'.hits :
            e \in episodes /\ e.scope = recall'.scope /\ e.split = "train"
    BY <2>1, RetrieveSelects
  <2> QED
    BY <1>7, <2>2 DEF Recall
<1>8. CASE Infer
  BY <1>8 DEF Infer, NoRecall
<1>9. CASE Relabel
  BY <1>9 DEF Relabel
<1>10. ASSUME NEW f, NEW b, NEW t, NEW n, Gate(f, b, t, n),
              f # "recalled", t # "recalled", f \in Working, t \in Working
       PROVE  Leak'
  BY <1>10 DEF Gate
<1>11. ASSUME NEW s, NEW b, Propose(s, b) PROVE Leak'
  BY <1>11 DEF Propose
<1>12. ASSUME NEW r, Submit(r) PROVE Leak'
  BY <1>12 DEF Submit
<1>13. ASSUME NEW n, Assess(n) PROVE Leak'
  BY <1>13 DEF Assess
<1>14. ASSUME NEW m, Report(m) PROVE Leak'
  BY <1>14 DEF Report
<1>15. CASE Finish
  BY <1>15 DEF Finish, caseVars
<1>16. ASSUME NEW s, Learn(s) PROVE Leak'
  <2>1. PICK c \in case :
            episodes' = IF \E e \in episodes : e.id = c.id THEN episodes
                        ELSE episodes \cup {EpisodeOf(c, s)}
    BY <1>16 DEF Learn
  <2>2. EpisodeOf(c, s).scope = s /\ c \in frozen
    BY <2>1 DEF EpisodeOf
  <2>3. \A e \in episodes' : \E d \in frozen : e = EpisodeOf(d, e.scope)
    BY <2>1, <2>2
  <2>4. recall' = NoRecall /\ case' = {} /\ at' = "ready" /\ frozen' = frozen
    BY <1>16 DEF Learn, ClearCase
  <2> QED
    BY <2>3, <2>4 DEF NoRecall
<1>17. CASE Abandon
  BY <1>17 DEF Abandon, ClearCase, NoRecall
<1>18. ASSUME NEW p, NEW b, Redeploy(p, b) PROVE Leak'
  BY <1>18 DEF Redeploy, caseVars
<1> QED
  <2>1. CASE Author
    BY <2>1, <1>3, <1>4 DEF Author, EditCase, ComputeHashes, SetStatus
  <2>2. CASE Prepare
    BY <2>2, <1>2, <1>5, <1>6, <1>7 DEF Prepare
  <2>3. CASE Judge
    BY <2>3, <1>8, <1>9, <1>10
       DEF Judge, CheckResult, ReadMetadata, ReadReadiness
  <2>4. CASE Evaluate
    BY <2>4, <1>11, <1>12, <1>13, <1>14, <1>15, <1>16
       DEF Evaluate, JobMoves, ObserveOutput
  <2>5. CASE Surroundings
    BY <2>5, <1>17, <1>18 DEF Surroundings
  <2> QED
    BY <1>1, <2>1, <2>2, <2>3, <2>4, <2>5 DEF Next

LEMMA LeakImplies == Leak => NoLeak
<1> SUFFICES ASSUME Leak, NEW e \in recall.hits PROVE
        /\ e.scope = recall.scope
        /\ \A c \in frozen :
            c.split # "train" =>
                /\ Normal[e.text] # Normal[c.request]
                /\ \A d \in frozen : d.id = e.id => Label[d.group] # Label[c.group]
  BY DEF NoLeak
<1>1. PICK o \in frozen : e = EpisodeOf(o, e.scope)
  BY DEF Leak
<1>2. e.split = "train" /\ e.scope = recall.scope
  BY DEF Leak
<1>3. e.text = o.request /\ e.id = o.id /\ e.split = o.split
  BY <1>1 DEF EpisodeOf
<1>4. ASSUME NEW c \in frozen, c.split # "train"
      PROVE  Normal[o.request] # Normal[c.request] /\ Label[o.group] # Label[c.group]
  BY <1>2, <1>3, <1>4, CleanApart DEF Leak, Clean
<1>5. \A d \in frozen : d.id = e.id => d = o
  BY <1>3 DEF Leak, Clean
<1> QED
  BY <1>2, <1>3, <1>4, <1>5

(* Nothing that is retrieved gives a held-out case away, for any drafts,   *)
(* texts, groups and scopes (scan_contamination, retrieve).                *)
THEOREM NothingLeaks == Spec => []NoLeak
<1> QED
  BY LeakInit, LeakStep, LeakImplies, PTL DEF Spec

-----------------------------------------------------------------------------
(* The evidence gate *)

Judged == {"checked", "seen", "accepted"}

Gated ==
    /\ adapter.provider \in Deployed
    /\ result \in [by : Deployed, provider : Provider, approved : Provider,
                   seen : Deployed, copied : BOOLEAN]
    /\ ~result.copied => result.provider \in {result.by, Forged(result.by)}
    /\ at \in Judged => ApprovedEligible(result.approved)
    /\ at = "accepted" => /\ result.provider = result.approved
                          /\ result.seen = result.approved

LEMMA ForgedFacts ==
    ASSUME NEW p \in Provider
    PROVE  Forged(p) \in Provider /\ Forged(Forged(p)) = Forged(p)
                                  /\ Forged(p).identity = p.identity
BY DEF Provider, Forged

LEMMA ProvidersTyped ==
    Deployed \subseteq Provider /\ Approvals \subseteq Provider
    /\ FakeProvider \in Deployed
BY ExperimentAssumption DEF ExperimentAssumption

LEMMA NoResultTyped ==
    /\ NoResult \in [by : Deployed, provider : Provider, approved : Provider,
                     seen : Deployed, copied : BOOLEAN]
    /\ NoResult.provider = NoResult.by
BY ProvidersTyped DEF NoResult

LEMMA GatedInit == Init => Gated
BY ProvidersTyped, NoResultTyped DEF Init, Gated, Judged

LEMMA GatedStep == Gated /\ [Next]_vars => Gated'
<1> SUFFICES ASSUME Gated, [Next]_vars PROVE Gated'
  OBVIOUS
<1> USE DEF Gated, Judged, Working
<1>1. CASE UNCHANGED vars
  BY <1>1 DEF vars, caseVars
<1>2. CASE Author
  BY <1>2 DEF Author, OpenFile, EditCase, ComputeHashes, SetStatus, AuthorWrites, caseVars
<1>3. CASE Prepare
  BY <1>3 DEF Prepare, Ask, LoadManifest, TakeCase, Recall, caseVars
<1>4. CASE Infer
  <2>1. /\ result'.by = adapter.provider /\ result'.provider = adapter.provider
        /\ result' \in [by : Deployed, provider : Provider, approved : Provider,
                        seen : Deployed, copied : BOOLEAN]
    BY <1>4, ProvidersTyped, NoResultTyped DEF Infer
  <2> QED
    BY <1>4, <2>1 DEF Infer
<1>5. CASE Relabel
  <2>1. result.by \in Provider /\ result.provider \in Provider
    BY ProvidersTyped
  <2>2. CASE result' = [result EXCEPT !.provider = Forged(@)]
    <3>1. ~result.copied => result'.provider = Forged(result.by)
      BY <2>1, <2>2, ForgedFacts
    <3>2. result' \in [by : Deployed, provider : Provider, approved : Provider,
                       seen : Deployed, copied : BOOLEAN]
      BY <2>1, <2>2, ForgedFacts
    <3> QED
      BY <1>5, <2>2, <3>1, <3>2 DEF Relabel
  <2>3. ASSUME NEW p \in Approvals,
               result' = [result EXCEPT !.provider = p, !.copied = TRUE]
        PROVE  Gated'
    <3>1. p \in Provider
      BY ProvidersTyped
    <3>2. result' \in [by : Deployed, provider : Provider, approved : Provider,
                       seen : Deployed, copied : BOOLEAN]
      BY <2>3, <3>1
    <3> QED
      BY <1>5, <2>3, <3>2 DEF Relabel
  <2> QED
    BY <1>5, <2>2, <2>3 DEF Relabel
<1>6. ASSUME NEW p \in Approvals, CheckResult(p) PROVE Gated'
  BY <1>6, ProvidersTyped DEF CheckResult, Gate
<1>7. CASE ReadMetadata
  BY <1>7 DEF ReadMetadata, Gate
<1>8. CASE ReadReadiness
  BY <1>8 DEF ReadReadiness, Gate
<1>9. CASE Evaluate
  <2>1. ASSUME NEW s, NEW b, Propose(s, b) PROVE Gated'
    BY <2>1, NoResultTyped DEF Propose
  <2>2. ASSUME NEW r, Submit(r) PROVE Gated'
    BY <2>2 DEF Submit
  <2>3. ASSUME NEW n, Assess(n) PROVE Gated'
    BY <2>3 DEF Assess
  <2>4. ASSUME NEW m, Report(m) PROVE Gated'
    BY <2>4 DEF Report
  <2>5. CASE Finish
    BY <2>5 DEF Finish, caseVars
  <2>6. ASSUME NEW s, Learn(s) PROVE Gated'
    BY <2>6, NoResultTyped DEF Learn, ClearCase
  <2> QED
    BY <1>9, <2>1, <2>2, <2>3, <2>4, <2>5, <2>6 DEF Evaluate, JobMoves, ObserveOutput
<1>10. CASE Abandon
  BY <1>10, NoResultTyped DEF Abandon, ClearCase
<1>11. ASSUME NEW p \in Deployed, NEW b, Redeploy(p, b) PROVE Gated'
  BY <1>11 DEF Redeploy, caseVars
<1> QED
  BY <1>1, <1>2, <1>3, <1>4, <1>5, <1>6, <1>7, <1>8, <1>9, <1>10, <1>11
     DEF Next, Judge, Surroundings

LEMMA GatedImplies == Gated => EvidenceFresh
<1> SUFFICES ASSUME Gated, at = "accepted"
             PROVE  /\ ApprovedEligible(result.approved)
                    /\ \/ result.by = result.approved
                       \/ /\ result.copied
                          /\ result.seen = result.approved /\ result.seen # result.by
  BY DEF EvidenceFresh
<1>1. result.by \in Deployed /\ result.seen \in Deployed /\ result.by \in Provider
  BY ProvidersTyped DEF Gated
<1>2. result.provider = result.seen /\ result.seen = result.approved
  BY DEF Gated
<1>3. ASSUME ~result.copied PROVE result.by = result.seen
  <2>1. result.provider.identity = result.by.identity
    BY <1>1, <1>3, ForgedFacts DEF Gated
  <2> QED
    BY <1>1, <1>2, <2>1, ExperimentAssumption DEF ExperimentAssumption
<1> QED
  BY <1>2, <1>3 DEF Gated, Judged

(* Accepted evidence is the approved provider's, for any providers that    *)
(* are told apart and any contracts, unless the contract's metadata was     *)
(* copied onto the result and its provider put behind the adapter, both:    *)
(* the gate has no more to go by (require_evidence_eligible).              *)
THEOREM EvidenceIsFresh == Spec => []EvidenceFresh
<1> QED
  BY GatedInit, GatedStep, GatedImplies, PTL DEF Spec

-----------------------------------------------------------------------------
(* Verdicts *)

Runtime == [accepted : BOOLEAN, status : Status \cup {"None"}]

Settled ==
    /\ success \in [jobspec : BOOLEAN, runtime : Runtime, contract : OutputStatus]
    /\ \/ success.runtime = NoRuntime
       \/ success.runtime.status \in Status /\ RuntimeValid(success.runtime)
    /\ at \notin {"running", "done"} => outcome = NoOutcome
    /\ VerdictFinal

LEMMA NoSuccessTyped ==
    /\ NoSuccess \in [jobspec : BOOLEAN, runtime : Runtime, contract : OutputStatus]
    /\ NoSuccess.runtime = NoRuntime
BY DEF NoSuccess, NoRuntime, Runtime, OutputStatus

(* Nothing is decided of what has not run or has not ended. *)
LEMMA OpenFacts ==
    ASSUME NEW s
    PROVE  /\ s.runtime = NoRuntime => EndToEnd(s) = "open"
           /\ s.runtime.status \in {"PENDING", "RUNNING"} => EndToEnd(s) = "open"
BY DEF EndToEnd, RuntimeSuccess

(* Once the output decides nothing, it never will. *)
LEMMA OutputFacts ==
    ASSUME NEW s, NEW t, s.runtime = t.runtime, s.jobspec = t.jobspec,
           s.contract = "NOT_EVALUATED", EndToEnd(s) # "open"
    PROVE  EndToEnd(t) = EndToEnd(s)
BY DEF EndToEnd, RuntimeSuccess, Decide

LEMMA SettledInit == Init => Settled
BY NoSuccessTyped DEF Init, Settled, VerdictFinal, NoOutcome

LEMMA SettledStep == Settled /\ [Next]_vars => Settled'
<1> SUFFICES ASSUME Settled, [Next]_vars PROVE Settled'
  OBVIOUS
<1> USE DEF Settled, VerdictFinal, Working
<1>1. CASE UNCHANGED vars
  BY <1>1 DEF vars, caseVars
<1>2. CASE Author
  BY <1>2 DEF Author, OpenFile, EditCase, ComputeHashes, SetStatus, AuthorWrites, caseVars
<1>3. CASE Prepare
  BY <1>3 DEF Prepare, Ask, LoadManifest, TakeCase, Recall, caseVars
<1>4. CASE Judge
  <2>1. CASE Infer
    BY <2>1 DEF Infer
  <2>2. CASE Relabel
    BY <2>2 DEF Relabel
  <2>3. ASSUME NEW p, CheckResult(p) PROVE Settled'
    BY <2>3 DEF CheckResult, Gate
  <2>4. CASE ReadMetadata
    BY <2>4 DEF ReadMetadata, Gate
  <2>5. CASE ReadReadiness
    BY <2>5 DEF ReadReadiness, Gate
  <2> QED
    BY <1>4, <2>1, <2>2, <2>3, <2>4, <2>5 DEF Judge
<1>5. ASSUME NEW s, NEW b \in BOOLEAN, Propose(s, b) PROVE Settled'
  <2>1. (JobSpecValid(s) /\ b) \in BOOLEAN
    OBVIOUS
  <2>2. /\ success' \in [jobspec : BOOLEAN, runtime : Runtime, contract : OutputStatus]
        /\ success'.runtime = success.runtime
    BY <1>5, <2>1 DEF Propose
  <2>3. outcome' = NoOutcome
    BY <1>5 DEF Propose
  <2> QED
    BY <2>2, <2>3 DEF NoOutcome, RuntimeValid
<1>6. ASSUME NEW b \in BOOLEAN, NEW t \in Status,
             Submit([accepted |-> b, status |-> t])
      PROVE  Settled'
  <2>1. /\ success' \in [jobspec : BOOLEAN, runtime : Runtime, contract : OutputStatus]
        /\ success'.runtime = [accepted |-> b, status |-> t]
        /\ RuntimeValid(success'.runtime)
    BY <1>6 DEF Submit, Runtime
  <2>2. outcome' = NoOutcome
    BY <1>6 DEF Submit
  <2> QED
    BY <2>1, <2>2 DEF NoOutcome, RuntimeValid
<1>7. ASSUME NEW t \in Status \ {"NOT_RUN"}, JobMoves(t) PROVE Settled'
  <2>1. success.runtime.status \in {"PENDING", "RUNNING"}
    BY <1>7 DEF JobMoves
  <2>2. outcome.verdict = "open"
    BY <2>1, OpenFacts
  <2>3. success.runtime # NoRuntime
    BY <2>1 DEF NoRuntime
  <2>4. /\ success' \in [jobspec : BOOLEAN, runtime : Runtime, contract : OutputStatus]
        /\ success'.runtime.status = t
        /\ success'.runtime.accepted = success.runtime.accepted
    BY <1>7 DEF JobMoves, Assess, Runtime
  <2>5. RuntimeValid(success'.runtime)
    BY <2>1, <2>3, <2>4 DEF RuntimeValid
  <2> QED
    BY <1>7, <2>2, <2>4, <2>5 DEF JobMoves, Assess
<1>8. ASSUME NEW o \in {"PASS", "FAIL"}, ObserveOutput(o) PROVE Settled'
  <2>1. /\ success' \in [jobspec : BOOLEAN, runtime : Runtime, contract : OutputStatus]
        /\ success'.runtime = success.runtime /\ success'.jobspec = success.jobspec
        /\ success.contract = "NOT_EVALUATED"
    BY <1>8 DEF ObserveOutput, Assess, OutputStatus
  <2>2. EndToEnd(success) # "open" => EndToEnd(success') = EndToEnd(success)
    BY <2>1, OutputFacts
  <2> QED
    BY <1>8, <2>1, <2>2 DEF ObserveOutput, Assess, RuntimeValid
<1>9. ASSUME NEW m \in Modes, Report(m) PROVE Settled'
  <2>1. outcome' = [mode |-> m, verdict |-> EndToEnd(success)]
        /\ success' = success /\ at' = at /\ at = "running"
    BY <1>9 DEF Report
  <2>2. EndToEnd(success) # "open" => m = "live_execution"
    BY <1>9, OpenFacts DEF Report, OutcomeValid
  <2> QED
    BY <2>1, <2>2
<1>10. CASE Finish
  BY <1>10 DEF Finish, caseVars
<1>11. ASSUME NEW s, Learn(s) \/ Abandon PROVE Settled'
  BY <1>11, NoSuccessTyped DEF Learn, Abandon, ClearCase, NoOutcome
<1>12. ASSUME NEW p, NEW b, Redeploy(p, b) PROVE Settled'
  BY <1>12 DEF Redeploy, caseVars
<1> QED
  BY <1>1, <1>2, <1>3, <1>4, <1>5, <1>6, <1>7, <1>8, <1>9, <1>10, <1>11, <1>12
     DEF Next, Evaluate, Surroundings

(* A reported verdict stays, whatever the job and its output do later      *)
(* (end_to_end_success, match_evaluation_mode).                            *)
THEOREM VerdictIsFinal == Spec => []VerdictFinal
<1>1. Settled => VerdictFinal
  BY DEF Settled
<1> QED
  BY <1>1, SettledInit, SettledStep, PTL DEF Spec

-----------------------------------------------------------------------------
(* Plans *)

Planned ==
    /\ DOMAIN file = {"status", "cases", "hashes"}
    /\ file.cases \subseteq Drafts
    /\ frozen \subseteq Drafts
    /\ \A s \in spec : \E r \in Request : s = Plan(r)

(* The bindings of a plan describe its DAG. *)
LEMMA PlanIsFaithful ==
    ASSUME NEW r \in Request
    PROVE  Faithful(Plan(r))
<1> DEFINE W == GenerateWorkflow(r)
           bound == BoundSymbols(r)
<1>1. Plan(r).workflow = W /\ Plan(r).bound = bound
  BY DEF Plan
<1>2. WellWired(W)
  BY EveryDagRuns
<1> HIDE DEF W
<1>3. \E n \in 0 .. 2 : Distinct(bound, n)
  BY ExtractedDistinct, TargetsDistinct DEF BoundSymbols
<1>4. Cardinality(ToSet(bound)) = Len(bound)
  BY <1>3, DistinctLength
<1> DEFINE literal == {i \in DOMAIN W.ops : W.ops[i].literal # {}}
<1>5. literal # {} =>
         literal = DOMAIN bound /\ \A i \in literal : W.ops[i].literal = {bound[i]}
  <2>1. CASE ClassifyIntent(r) = "compare"
    <3>1. bound = Targets(r) /\ Literal(W, bound)
      BY <2>1, WrittenAreTargets DEF BoundSymbols, W
    <3> HIDE DEF bound
    <3> QED
      BY <3>1 DEF Literal
  <2>2. CASE ClassifyIntent(r) # "compare"
    <3>1. Unwritten(W)
      BY <2>2, WrittenAreTargets DEF W
    <3> QED
      BY <3>1 DEF Unwritten
  <2> QED
    BY <2>1, <2>2
<1> HIDE DEF bound
<1> QED
  BY <1>1, <1>2, <1>4, <1>5 DEF Faithful

LEMMA PlannedInit == Init => Planned
BY DEF Init, Planned

LEMMA PlannedStep == Planned /\ [Next]_vars => Planned'
<1> SUFFICES ASSUME Planned, [Next]_vars PROVE Planned'
  OBVIOUS
<1> USE DEF Planned
<1>1. /\ \A c \in Drafts : c.request \in Text
      /\ Requests \subseteq Request /\ \A t \in Text : Reads[t] \in Requests
  BY ExperimentAssumption DEF ExperimentAssumption, Case
<1>2. CASE UNCHANGED vars
  BY <1>2 DEF vars, caseVars
<1>3. CASE OpenFile
  BY <1>3 DEF OpenFile
<1>4. ASSUME NEW f, AuthorWrites(f), DOMAIN f = DOMAIN file, f.cases \subseteq Drafts
      PROVE  Planned'
  BY <1>4 DEF AuthorWrites, caseVars
<1>5. CASE Author
  <2>1. ASSUME NEW c \in Drafts, EditCase(c) PROVE Planned'
    BY <1>4, <2>1 DEF EditCase
  <2>2. CASE ComputeHashes
    BY <1>4, <2>2 DEF ComputeHashes
  <2>3. ASSUME NEW s, SetStatus(s) PROVE Planned'
    BY <1>4, <2>3 DEF SetStatus
  <2> QED
    BY <1>3, <1>5, <2>1, <2>2, <2>3 DEF Author
<1>6. ASSUME NEW r \in Requests, NEW b, Ask(r, b) PROVE Planned'
  BY <1>1, <1>6 DEF Ask
<1>7. ASSUME NEW b, LoadManifest(b) PROVE Planned'
  BY <1>7 DEF LoadManifest, caseVars
<1>8. ASSUME NEW c \in frozen, TakeCase(c) PROVE Planned'
  BY <1>1, <1>8 DEF TakeCase
<1>9. ASSUME NEW s, NEW d, Recall(s, d) PROVE Planned'
  BY <1>9 DEF Recall
<1>10. CASE Judge
  BY <1>10 DEF Judge, Infer, Relabel, CheckResult, ReadMetadata, ReadReadiness, Gate
<1>11. ASSUME NEW s, NEW b, Propose(s, b) PROVE Planned'
  BY <1>11 DEF Propose
<1>12. ASSUME NEW r, Submit(r) PROVE Planned'
  BY <1>12 DEF Submit
<1>13. ASSUME NEW n, Assess(n) PROVE Planned'
  BY <1>13 DEF Assess
<1>14. ASSUME NEW m, Report(m) PROVE Planned'
  BY <1>14 DEF Report
<1>15. CASE Finish
  BY <1>15 DEF Finish, caseVars
<1>16. ASSUME NEW s, Learn(s) \/ Abandon PROVE Planned'
  BY <1>16 DEF Learn, Abandon, ClearCase
<1>17. ASSUME NEW p, NEW b, Redeploy(p, b) PROVE Planned'
  BY <1>17 DEF Redeploy, caseVars
<1> QED
  <2>1. CASE Prepare
    BY <2>1, <1>6, <1>7, <1>8, <1>9 DEF Prepare
  <2>2. CASE Evaluate
    BY <2>2, <1>11, <1>12, <1>13, <1>14, <1>15, <1>16
       DEF Evaluate, JobMoves, ObserveOutput
  <2>3. CASE Surroundings
    BY <2>3, <1>16, <1>17 DEF Surroundings
  <2> QED
    BY <1>2, <1>5, <1>10, <2>1, <2>2, <2>3 DEF Next

LEMMA PlannedImplies == Planned => PlanFaithful
BY PlanIsFaithful DEF Planned, PlanFaithful

(* Whatever is asked, and whichever case a harness takes, the plan that is  *)
(* made can be run and its bindings describe it (api.plan).                 *)
THEOREM PlansAreFaithful == Spec => []PlanFaithful
BY PlannedInit, PlannedStep, PlannedImplies, PTL DEF Spec

-----------------------------------------------------------------------------
(* What is retrieved *)

Orders(R, S) ==
    /\ \A e \in S : <<e, e>> \notin R
    /\ \A d, e \in S : d # e => <<d, e>> \in R \/ <<e, d>> \in R
    /\ \A c, d, e \in S : <<c, d>> \in R /\ <<d, e>> \in R => <<c, e>> \in R

Ahead(S, R, e) == {d \in S : <<d, e>> \in R}

LEMMA RankRises ==
    ASSUME NEW S, IsFiniteSet(S), NEW R, Orders(R, S), NEW e \in S
    PROVE  /\ Cardinality(Ahead(S, R, e)) \in Nat
           /\ Cardinality(Ahead(S, R, e)) < Cardinality(S)
           /\ \A d \in S : <<d, e>> \in R =>
                Cardinality(Ahead(S, R, d)) < Cardinality(Ahead(S, R, e))
<1>1. ASSUME NEW x \in S PROVE IsFiniteSet(Ahead(S, R, x))
                               /\ Cardinality(Ahead(S, R, x)) \in Nat
  <2>1. Ahead(S, R, x) \in SUBSET S
    BY DEF Ahead
  <2> QED
    BY <2>1, FS_Subset, FS_CardinalityType
<1>2. Cardinality(Ahead(S, R, e)) < Cardinality(S)
  <2>1. Ahead(S, R, e) \in SUBSET S /\ Ahead(S, R, e) # S
    BY DEF Ahead, Orders
  <2> QED
    BY <1>1, <2>1, FS_Subset, FS_CardinalityType
<1>3. ASSUME NEW d \in S, <<d, e>> \in R
      PROVE  Cardinality(Ahead(S, R, d)) < Cardinality(Ahead(S, R, e))
  <2>1. Ahead(S, R, d) \in SUBSET Ahead(S, R, e)
    BY <1>3 DEF Ahead, Orders
  <2>2. Ahead(S, R, d) # Ahead(S, R, e)
    BY <1>3 DEF Ahead, Orders
  <2> QED
    BY <1>1, <2>1, <2>2, FS_Subset
<1> QED
  BY <1>1, <1>2, <1>3

(* Those with fewer than n ahead of them are the first n. *)
LEMMA FirstAreCounted ==
    ASSUME NEW S, IsFiniteSet(S), NEW R, Orders(R, S), NEW n \in Nat
    PROVE  LET First == {e \in S : Cardinality(Ahead(S, R, e)) < n}
           IN  /\ Cardinality(First) = IF Cardinality(S) <= n THEN Cardinality(S) ELSE n
               /\ \A e \in First, d \in S \ First : <<e, d>> \in R
<1> DEFINE rank == [e \in S |-> Cardinality(Ahead(S, R, e))]
           size == Cardinality(S)
           First == {e \in S : rank[e] < n}
           m == IF size <= n THEN size ELSE n
           place == [e \in First |-> rank[e]]
<1>1. size \in Nat
  BY FS_CardinalityType
<1>2. /\ rank \in [S -> 0 .. (size - 1)]
      /\ \A d, e \in S : <<d, e>> \in R => rank[d] < rank[e]
  <2>1. ASSUME NEW e \in S PROVE rank[e] \in 0 .. (size - 1)
    <3>1. rank[e] \in Nat /\ rank[e] < size
      BY RankRises
    <3> QED
      BY <1>1, <3>1
  <2>2. ASSUME NEW d \in S, NEW e \in S, <<d, e>> \in R PROVE rank[d] < rank[e]
    BY <2>2, RankRises
  <2> QED
    BY <2>1, <2>2
<1>3. First = {e \in S : Cardinality(Ahead(S, R, e)) < n}
  OBVIOUS
<1> HIDE DEF rank, size
<1>4. \A d, e \in S : rank[d] = rank[e] => d = e
  <2>1. \A d, e \in S : rank[d] < rank[e] => rank[d] # rank[e]
    BY <1>1, <1>2
  <2> QED
    BY <1>2, <2>1 DEF Orders
<1>5. rank \in Surjection(S, 0 .. (size - 1))
  <2>1. rank \in Injection(S, 0 .. (size - 1))
    BY <1>2, <1>4 DEF Injection, IsInjective
  <2>2. /\ IsFiniteSet(0 .. (size - 1))
        /\ Cardinality(0 .. (size - 1)) = size
    BY <1>1, FS_Interval
  <2> QED
    BY <2>1, <2>2, FS_Injection DEF size
<1>6. m \in Nat /\ m <= n /\ m <= size
  BY <1>1
<1>7. place \in [First -> 0 .. (m - 1)]
  BY <1>1, <1>2
<1>8. place \in Injection(First, 0 .. (m - 1))
  BY <1>4, <1>7 DEF Injection, IsInjective
<1>9. place \in Surjection(First, 0 .. (m - 1))
  <2>1. ASSUME NEW k \in 0 .. (m - 1) PROVE \E e \in First : place[e] = k
    <3>1. k \in 0 .. (size - 1) /\ k < n
      BY <1>1, <1>6
    <3>2. PICK e \in S : rank[e] = k
      BY <1>5, <3>1 DEF Surjection
    <3>3. e \in First /\ place[e] = k
      BY <3>1, <3>2
    <3> QED
      BY <3>3
  <2> QED
    BY <1>7, <2>1 DEF Surjection
<1>10. Cardinality(First) = m
  <2> HIDE DEF place, First, m
  <2>1. IsFiniteSet(0 .. (m - 1)) /\ Cardinality(0 .. (m - 1)) = m
    BY <1>6, FS_Interval
  <2> QED
    BY <1>8, <1>9, <2>1, FS_Injection
<1>11. ASSUME NEW e \in First, NEW d \in S \ First PROVE <<e, d>> \in R
  <2>1. rank[e] < n /\ ~(rank[d] < n) /\ rank[e] \in Nat /\ rank[d] \in Nat
    BY <1>1, <1>2
  <2>2. ~(rank[d] < rank[e]) /\ d # e
    BY <2>1
  <2> QED
    BY <1>2, <2>2 DEF Orders
<1> HIDE DEF First, m
<1> QED
  BY <1>3, <1>10, <1>11 DEF m, size

(* The order of two fractions, by cross multiplication. *)
Ratio(m, u)            == m \in Nat /\ u \in Nat /\ u > 0
AtLeast(m1, u1, m2, u2) == m2 * u1 <= m1 * u2
Even(m1, u1, m2, u2)    == m2 * u1 = m1 * u2

LEMMA CrossTransitive ==
    ASSUME NEW m1, NEW u1, NEW m2, NEW u2, NEW m3, NEW u3,
           Ratio(m1, u1), Ratio(m2, u2), Ratio(m3, u3),
           AtLeast(m1, u1, m2, u2), AtLeast(m2, u2, m3, u3)
    PROVE  /\ AtLeast(m1, u1, m3, u3)
           /\ Even(m1, u1, m3, u3) => Even(m1, u1, m2, u2) /\ Even(m2, u2, m3, u3)
<1>. /\ m1 \in Nat /\ u1 \in Nat /\ m2 \in Nat /\ u2 \in Nat /\ m3 \in Nat /\ u3 \in Nat
     /\ u1 > 0 /\ u2 > 0 /\ u3 > 0
  BY DEF Ratio
<1> DEFINE a == m1 * u2   b == m2 * u1   c == m2 * u3   d == m3 * u2
           p == m1 * u3   q == m3 * u1
<1>1. a \in Nat /\ b \in Nat /\ c \in Nat /\ d \in Nat /\ p \in Nat /\ q \in Nat
  OBVIOUS
<1>2. b <= a /\ d <= c
  BY DEF AtLeast
<1>3. p * u2 = a * u3 /\ q * u2 = d * u1 /\ b * u3 = c * u1
  OBVIOUS
<1>4. q <= p /\ (q = p => b = a /\ d = c)
  <2> HIDE DEF a, b, c, d, p, q
  <2>1. b * u3 <= a * u3 /\ (b < a => b * u3 + u3 <= a * u3)
    BY <1>1, <1>2, TimesMonotone
  <2>2. d * u1 <= c * u1 /\ (d < c => d * u1 + u1 <= c * u1)
    BY <1>1, <1>2, TimesMonotone
  <2>3. p < q => p * u2 + u2 <= q * u2
    BY <1>1, TimesMonotone
  <2> DEFINE pu == p * u2   qu == q * u2   au == a * u3   bu == b * u3
             cu == c * u1   du == d * u1
  <2>4. pu \in Nat /\ qu \in Nat /\ au \in Nat /\ bu \in Nat /\ cu \in Nat /\ du \in Nat
    BY <1>1
  <2>5. pu = au /\ qu = du /\ bu = cu /\ (q = p => qu = pu)
    BY <1>3
  <2>6. /\ bu <= au /\ (b < a => bu + u3 <= au)
        /\ du <= cu /\ (d < c => du + u1 <= cu)
        /\ p < q => pu + u2 <= qu
    BY <2>1, <2>2, <2>3
  <2> HIDE DEF pu, qu, au, bu, cu, du
  <2> QED
    BY <1>1, <1>2, <2>4, <2>5, <2>6
<1> QED
  BY <1>4 DEF AtLeast, Even

(* The rows of a store as the ranking sees them. *)
Rankable(rows, words, text) ==
    /\ IsFiniteSet(rows) /\ IsFiniteSet(words[text])
    /\ \A e \in rows : e.id \in Nat /\ IsFiniteSet(words[e.text])
    /\ \A d, e \in rows : d.id = e.id => d = e

Hits(rows, words, text, scope, disposition) ==
    {e \in Selected(rows, scope, disposition) :
        words[text] \cap TokensOf(words, e) # {}}

Ranking(S, words, tokens) ==
    {pair \in S \X S : Before(words, tokens, pair[1], pair[2])}

LEMMA RankingOrders ==
    ASSUME NEW S, NEW words, NEW text, Rankable(S, words, text),
           \A e \in S : words[text] \cap TokensOf(words, e) # {}
    PROVE  Orders(Ranking(S, words, words[text]), S)
<1> DEFINE tokens == words[text]
           m(e) == Cardinality(tokens \cap TokensOf(words, e))
           u(e) == Cardinality(tokens \cup TokensOf(words, e))
           R == Ranking(S, words, tokens)
<1>1. ASSUME NEW e \in S PROVE m(e) \in Nat /\ u(e) \in Nat /\ u(e) > 0
  <2> DEFINE T == TokensOf(words, e)
  <2>1. IsFiniteSet(T)
    BY FS_AddElement DEF Rankable, TokensOf
  <2>2. IsFiniteSet(tokens)
    BY DEF Rankable
  <2> HIDE DEF T
  <2>3. IsFiniteSet(tokens \cap T) /\ IsFiniteSet(tokens \cup T)
    BY <2>1, <2>2, FS_Intersection, FS_Union
  <2>4. tokens \cup T # {}
    BY DEF T
  <2>5. m(e) \in Nat /\ u(e) \in Nat /\ u(e) # 0
    BY <2>3, <2>4, FS_CardinalityType, FS_EmptySet DEF T
  <2> QED
    BY <2>5
<1>2. \A e \in S : e.id \in Nat
  BY DEF Rankable
<1>3. \A e, d \in S : <<e, d>> \in R <=>
        \/ m(e) * u(d) > m(d) * u(e)
        \/ m(e) * u(d) = m(d) * u(e) /\ m(e) > m(d)
        \/ m(e) * u(d) = m(d) * u(e) /\ m(e) = m(d) /\ e.id < d.id
  BY DEF Ranking, Before
<1>4. \A d, e \in S : d.id = e.id => d = e
  BY DEF Rankable
<1> HIDE DEF m, u, R
<1>5. \A e, d \in S : m(e) * u(d) \in Nat
  BY <1>1
<1>6. \A e \in S : <<e, e>> \notin R
  BY <1>1, <1>2, <1>3, <1>5
<1>7. ASSUME NEW d \in S, NEW e \in S, d # e PROVE <<d, e>> \in R \/ <<e, d>> \in R
  <2>1. m(d) * u(e) \in Nat /\ m(e) * u(d) \in Nat /\ m(d) \in Nat /\ m(e) \in Nat
        /\ d.id \in Nat /\ e.id \in Nat /\ d.id # e.id
    BY <1>1, <1>2, <1>4, <1>5, <1>7
  <2> QED
    BY <1>3, <2>1
<1>8. ASSUME NEW c \in S, NEW d \in S, NEW e \in S, <<c, d>> \in R, <<d, e>> \in R
      PROVE  <<c, e>> \in R
  <2>1. /\ m(d) * u(c) <= m(c) * u(d) /\ m(e) * u(d) <= m(d) * u(e)
        /\ m(d) * u(c) = m(c) * u(d) => m(c) > m(d) \/ (m(c) = m(d) /\ c.id < d.id)
        /\ m(e) * u(d) = m(d) * u(e) => m(d) > m(e) \/ (m(d) = m(e) /\ d.id < e.id)
    BY <1>3, <1>5, <1>8
  <2>2. /\ m(e) * u(c) <= m(c) * u(e)
        /\ m(e) * u(c) = m(c) * u(e) =>
              m(d) * u(c) = m(c) * u(d) /\ m(e) * u(d) = m(d) * u(e)
    <3>1. Ratio(m(c), u(c)) /\ Ratio(m(d), u(d)) /\ Ratio(m(e), u(e))
      BY <1>1 DEF Ratio
    <3>2. AtLeast(m(c), u(c), m(d), u(d)) /\ AtLeast(m(d), u(d), m(e), u(e))
      BY <2>1 DEF AtLeast
    <3>3. /\ AtLeast(m(c), u(c), m(e), u(e))
          /\ Even(m(c), u(c), m(e), u(e)) =>
                Even(m(c), u(c), m(d), u(d)) /\ Even(m(d), u(d), m(e), u(e))
      BY <3>1, <3>2, CrossTransitive, Zenon
    <3> QED
      BY <3>3 DEF AtLeast, Even
  <2>3. m(e) * u(c) = m(c) * u(e) => m(c) > m(e) \/ (m(c) = m(e) /\ c.id < e.id)
    BY <1>1, <1>2, <2>1, <2>2
  <2> QED
    BY <1>3, <1>5, <2>2, <2>3
<1> QED
  BY <1>6, <1>7, <1>8 DEF Orders, R

(* Counting those ahead is sorting and cutting: as many as there are, up to *)
(* the limit, and none that ranks after one that is left out.               *)
Best(hits, found, words, tokens, limit) ==
    /\ found \subseteq hits
    /\ Cardinality(found) = IF Cardinality(hits) <= limit THEN Cardinality(hits) ELSE limit
    /\ \A e \in found, d \in hits \ found : Before(words, tokens, e, d)

LEMMA RetrieveIsBest ==
    ASSUME NEW rows, NEW words, NEW text, NEW scope, NEW disposition,
           NEW limit \in Nat, Rankable(rows, words, text)
    PROVE  Best(Hits(rows, words, text, scope, disposition),
                Retrieve(rows, words, text, scope, disposition, limit),
                words, words[text], limit)
<1> DEFINE hits == Hits(rows, words, text, scope, disposition)
           R == Ranking(hits, words, words[text])
           First == {e \in hits : Cardinality(Ahead(hits, R, e)) < limit}
<1>1. hits \in SUBSET rows /\ \A e \in hits : words[text] \cap TokensOf(words, e) # {}
  BY DEF Hits, Selected
<1>2. \A e \in hits : Ahead(hits, R, e) = {d \in hits : Before(words, words[text], d, e)}
  BY DEF Ahead, Ranking
<1>3. Retrieve(rows, words, text, scope, disposition, limit) = First
  BY <1>2 DEF Retrieve, Hits
<1> HIDE DEF hits
<1>4. Rankable(hits, words, text)
  BY <1>1, FS_Subset DEF Rankable
<1>5. IsFiniteSet(hits) /\ Orders(R, hits)
  BY <1>1, <1>4, RankingOrders DEF Rankable
<1> HIDE DEF R
<1>6. /\ Cardinality(First) = IF Cardinality(hits) <= limit THEN Cardinality(hits)
                              ELSE limit
      /\ \A e \in First, d \in hits \ First : <<e, d>> \in R
  BY <1>5, FirstAreCounted
<1>7. \A e \in First, d \in hits \ First : Before(words, words[text], e, d)
  BY <1>6 DEF R, Ranking
<1> QED
  BY <1>3, <1>6, <1>7 DEF Best, hits

(* What the store holds can be ranked. *)
Stored ==
    /\ IsFiniteSet(episodes)
    /\ \A e \in episodes : e.id \in Nat /\ e.text \in Text
    /\ \A d, e \in episodes : d.id = e.id => d = e

LEMMA StoredInit == Init => Stored
BY FS_EmptySet DEF Init, Stored

LEMMA StoredStep == Leak /\ Planned /\ Stored /\ [Next]_vars => Stored'
<1> SUFFICES ASSUME Leak, Planned, Stored, [Next]_vars PROVE Stored'
  OBVIOUS
<1>1. ASSUME NEW s, Learn(s) PROVE Stored'
  <2>1. PICK c \in case :
            episodes' = IF \E e \in episodes : e.id = c.id THEN episodes
                        ELSE episodes \cup {EpisodeOf(c, s)}
    BY <1>1 DEF Learn
  <2> DEFINE new == EpisodeOf(c, s)
  <2>2. c \in Case
    BY ExperimentAssumption DEF ExperimentAssumption, Leak, Planned
  <2>3. new.id = c.id /\ new.id \in Nat /\ new.text \in Text
    BY <2>2 DEF EpisodeOf, Case
  <2> HIDE DEF new
  <2>4. CASE \E e \in episodes : e.id = c.id
    BY <2>1, <2>4 DEF Stored
  <2>5. CASE ~\E e \in episodes : e.id = c.id
    <3>1. episodes' = episodes \cup {new}
      BY <2>1, <2>5 DEF new
    <3>2. IsFiniteSet(episodes')
      BY <3>1, FS_AddElement DEF Stored
    <3> QED
      BY <2>3, <2>5, <3>1, <3>2 DEF Stored
  <2> QED
    BY <2>4, <2>5
<1>2. CASE UNCHANGED episodes
  BY <1>2 DEF Stored
<1> QED
  <2>1. CASE UNCHANGED vars
    BY <1>2, <2>1 DEF vars
  <2>2. CASE Author
    BY <1>2, <2>2 DEF Author, OpenFile, EditCase, ComputeHashes, SetStatus, AuthorWrites
  <2>3. CASE Prepare
    BY <1>2, <2>3 DEF Prepare, Ask, LoadManifest, TakeCase, Recall
  <2>4. CASE Judge
    BY <1>2, <2>4
       DEF Judge, Infer, Relabel, CheckResult, ReadMetadata, ReadReadiness, Gate
  <2>5. CASE Evaluate
    BY <1>1, <1>2, <2>5
       DEF Evaluate, Propose, Submit, JobMoves, ObserveOutput, Assess, Report, Finish
  <2>6. CASE Surroundings
    BY <1>2, <2>6 DEF Surroundings, Abandon, Redeploy
  <2> QED
    BY <2>1, <2>2, <2>3, <2>4, <2>5, <2>6 DEF Next

RecallsBest(scope, disposition) ==
    \E c \in case :
        Best(Hits(episodes, Words, c.request, scope, disposition), recall'.hits,
             Words, Words[c.request], Limit)

LEMMA RecallStep ==
    ASSUME Leak, Planned, Stored, NEW s, NEW d, Recall(s, d)
    PROVE  RecallsBest(s, d)
<1>1. PICK c \in case :
        recall' = [scope |-> s,
                   hits  |-> Retrieve(episodes, Words, c.request, s, d, Limit)]
  BY DEF Recall
<1>2. recall'.hits = Retrieve(episodes, Words, c.request, s, d, Limit)
  BY <1>1
<1>3. c.request \in Text
  BY ExperimentAssumption DEF ExperimentAssumption, Leak, Planned, Case
<1>4. Limit \in Nat /\ \A t \in Text : IsFiniteSet(Words[t])
  BY ExperimentAssumption DEF ExperimentAssumption
<1>5. Rankable(episodes, Words, c.request)
  BY <1>3, <1>4 DEF Stored, Rankable
<1>6. Best(Hits(episodes, Words, c.request, s, d), recall'.hits,
           Words, Words[c.request], Limit)
  BY <1>2, <1>4, <1>5, RetrieveIsBest
<1> QED
  BY <1>6 DEF RecallsBest

(* Whatever has been learned, a query is answered with the episodes of its  *)
(* scope and disposition that rank first, as many as there are up to the    *)
(* limit (sqlite_store.py, retrieve): the store never holds two that share  *)
(* an id, so the order has no ties.                                         *)
THEOREM TheBestAreRecalled ==
    Spec => [][\A s \in Scope, d \in Disposition : Recall(s, d) => RecallsBest(s, d)]_vars
<1>1. Leak /\ Planned /\ Stored /\ [Next]_vars =>
        [\A s \in Scope, d \in Disposition : Recall(s, d) => RecallsBest(s, d)]_vars
  BY RecallStep
<1> QED
  BY <1>1, LeakInit, LeakStep, PlannedInit, PlannedStep, StoredInit, StoredStep, PTL
     DEF Spec
=============================================================================
