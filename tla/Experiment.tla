----------------------------- MODULE Experiment -----------------------------
(***************************************************************************)
(* The contracts of Phase 2 put to work: an author writes and freezes a    *)
(* benchmark, and a harness takes its cases one at a time - plan, recall   *)
(* episodes, infer, pass the evidence gate, submit, assess, learn.         *)
(*                                                                         *)
(* The repository holds the parts and their contracts; the harness, the    *)
(* inference deployment and Lumilake are external and are modelled from    *)
(* what the parts require of them.  The harness may die between any two    *)
(* steps; episodes stay, and the case may be taken again.                  *)
(***************************************************************************)
EXTENDS Workflow, Benchmark, Contracts, Retrieval

CONSTANTS
    Drafts,     \* the cases an author has in hand
    Requests,   \* what the patterns see of a request
    Reads,      \* [Text -> Requests]
    Words,      \* the tokens of a text: [Text -> SUBSET tokens]
    Scope,      \* (tenant_id, privacy_scope, catalog_version)
    Limit,      \* MemoryQuery.limit
    Deployed,   \* metadata of the providers that may be behind the adapter
    Approvals   \* metadata that may be held for the approved G0 contract

Case == [id : Nat, request : Text, split : Split, disposition : Disposition,
         family : STRING, group : Group, eligible : BOOLEAN]

(* Providers are told apart by what identifies them. *)
ASSUME ExperimentAssumption ==
    /\ Drafts \subseteq Case
    /\ Requests \subseteq Request
    /\ Reads \in [Text -> Requests]
    /\ \A t \in Text : IsFiniteSet(Words[t])
    /\ Limit \in 1 .. 100
    /\ FakeProvider \in Deployed
    /\ Deployed \cup Approvals \subseteq Provider
    /\ \A p, q \in Deployed : p.identity = q.identity => p = q

VARIABLES
    at,        \* where the experiment is
    file,      \* the manifest's file
    frozen,    \* the cases of the frozen manifest that is loaded
    case,      \* the case in hand: a set, empty for none
    spec,      \* plan()'s JobSpec: a set, empty for none
    recall,    \* what was retrieved, and for which scope
    episodes,  \* the rows of the memory store
    adapter,   \* the provider behind the adapter, and whether it is ready
    result,    \* the InferenceResult and what the gate has read so far
    success,   \* the SuccessAssessment
    outcome    \* the ExecutionOutcome: the first that is decided stays

caseVars == <<case, spec, recall, result, success, outcome>>
vars == <<at, file, frozen, episodes, adapter, caseVars>>

NoRecall  == [scope |-> "None", hits |-> {}]
NoResult  == [by |-> FakeProvider, provider |-> FakeProvider,
              approved |-> FakeProvider, seen |-> FakeProvider, copied |-> FALSE]
NoSuccess == [jobspec |-> FALSE, runtime |-> NoRuntime, contract |-> "NOT_EVALUATED"]
NoOutcome == [mode |-> "None", verdict |-> "open"]

(* Where the harness is, once a manifest is loaded. *)
Working == {"ready", "planned", "recalled", "inferred", "checked", "seen",
            "accepted", "submitting", "running", "done"}

ClearCase ==
    /\ case' = {} /\ spec' = {} /\ recall' = NoRecall /\ result' = NoResult
    /\ success' = NoSuccess /\ outcome' = NoOutcome

-----------------------------------------------------------------------------
(* api.plan *)

(* Mutant: the bindings are the literal mentions. *)
BoundSymbolsMentioned(request) == ExtractSymbols(request)

BoundSymbols(request) ==
    IF ClassifyIntent(request) = "compare" THEN Targets(request)
    ELSE ExtractSymbols(request)

Plan(request) ==
    [request |-> request, bound |-> BoundSymbols(request),
     template |-> "project." \o ClassifyIntent(request) \o "-b0",
     workflow |-> GenerateWorkflow(request)]

(* A caller of the facade, or of plan() with a context that claims another *)
(* planner's provenance and is refused.  Nothing of it is kept: it is      *)
(* asked before an experiment and would answer the same in the midst.      *)
Ask(request, claimsB0) ==
    /\ at = "asking"
    /\ spec' = IF claimsB0 THEN {Plan(request)} ELSE {}
    /\ UNCHANGED <<at, file, frozen, episodes, adapter, case, recall, result,
                   success, outcome>>

-----------------------------------------------------------------------------
(* The author and the manifest's file. *)

OpenFile ==
    /\ at = "asking"
    /\ at' = "authoring"
    /\ spec' = {}
    /\ UNCHANGED <<file, frozen, episodes, adapter, case, recall, result,
                   success, outcome>>

AuthorWrites(f) ==
    /\ at = "authoring"
    /\ file' = f
    /\ UNCHANGED <<at, frozen, episodes, adapter, caseVars>>

(* Hashes that were computed before stay in the file. *)
EditCase(c) ==
    AuthorWrites([file EXCEPT !.cases = IF c \in @ THEN @ \ {c} ELSE @ \cup {c}])

ComputeHashes == AuthorWrites([file EXCEPT !.hashes = {SplitHashes(file.cases)}])
SetStatus(s)  == AuthorWrites([file EXCEPT !.status = s])

(* A draft, or a file that is refused, starts no experiment. *)
LoadManifest(requireClean) ==
    /\ at = "authoring"
    /\ Loads(file, requireClean)
    /\ file.status = "frozen"
    /\ frozen' = file.cases
    /\ at' = "ready"
    /\ UNCHANGED <<file, episodes, adapter, caseVars>>

-----------------------------------------------------------------------------
(* The harness takes a case. *)

TakeCase(c) ==
    /\ at = "ready"
    /\ at' = "planned"
    /\ case' = {c}
    /\ spec' = {Plan(Reads[c.request])}
    /\ UNCHANGED <<file, frozen, episodes, adapter, recall, result, success, outcome>>

Recall(scope, disposition) ==
    /\ at = "planned"
    /\ at' = "recalled"
    /\ \E c \in case :
        recall' = [scope |-> scope,
                   hits  |-> Retrieve(episodes, Words, c.request, scope,
                                      disposition, Limit)]
    /\ UNCHANGED <<file, frozen, episodes, adapter, case, spec, result, success, outcome>>

Infer ==
    /\ at = "recalled"
    /\ at' = "inferred"
    /\ spec' = {}
    /\ recall' = NoRecall
    /\ result' = [NoResult EXCEPT !.by = adapter.provider,
                                  !.provider = adapter.provider]
    /\ UNCHANGED <<file, frozen, episodes, adapter, case, success, outcome>>

(* The result is copied, with fields of its metadata changed or with all of *)
(* the metadata of a contract, as tests do (history: copied).               *)
Relabel ==
    /\ at = "inferred"
    /\ \/ result' = [result EXCEPT !.provider = Forged(@)]
       \/ \E p \in Approvals :
            result' = [result EXCEPT !.provider = p, !.copied = TRUE]
    /\ UNCHANGED <<at, file, frozen, episodes, adapter, case, spec, recall,
                   success, outcome>>

-----------------------------------------------------------------------------
(* require_evidence_eligible: the adapter is asked twice, and its provider *)
(* may be replaced in between.  A refusal ends the case.                   *)

Gate(from, passes, to, next) ==
    /\ at = from
    /\ result' = next
    /\ at' = IF passes THEN to ELSE "done"
    /\ UNCHANGED <<file, frozen, episodes, adapter, case, spec, recall, success, outcome>>

CheckResult(approved) ==
    Gate("inferred", ResultEligible(result.provider) /\ ApprovedEligible(approved),
         "checked", [result EXCEPT !.approved = approved])

ReadMetadata ==
    Gate("checked", ProviderValid(adapter.provider),
         "seen", [result EXCEPT !.seen = adapter.provider])

(* Mutant: a ready adapter is not compared with the contract. *)
ReadReadinessOnly ==
    Gate("seen", adapter.ready /\ result.provider = result.approved,
         "accepted", result)

ReadReadiness ==
    Gate("seen", /\ adapter.ready
                 /\ result.provider = result.approved
                 /\ result.seen = result.approved,
         "accepted", result)

-----------------------------------------------------------------------------
(* The learned planner's answer becomes a JobSpec, or fails to. *)

Proposals ==
    [disposition : Disposition,
     payload : SUBSET {"logical_plan", "output", "rendered_workflow"},
     reason : BOOLEAN, bound : BOOLEAN]

(* Only a generate JobSpec has a workflow to submit.  Nobody looks at the  *)
(* result again.                                                           *)
Propose(s, correct) ==
    /\ at = "accepted"
    /\ result' = NoResult
    /\ success' = [success EXCEPT !.jobspec = JobSpecValid(s) /\ correct]
    /\ at' = CASE ~JobSpecValid(s) -> "done"
               [] JobSpecValid(s) /\ s.disposition = "generate" -> "submitting"
               [] OTHER -> "running"
    /\ UNCHANGED <<file, frozen, episodes, adapter, case, spec, recall, outcome>>

Submit(r) ==
    /\ at = "submitting"
    /\ RuntimeValid(r)
    /\ r.status \in {"NOT_RUN", "PENDING"}
    /\ at' = "running"
    /\ success' = [success EXCEPT !.runtime = r]
    /\ UNCHANGED <<file, frozen, episodes, adapter, case, spec, recall, result, outcome>>

Assess(next) ==
    /\ at = "running"
    /\ success' = next
    /\ UNCHANGED <<at, file, frozen, episodes, adapter, case, spec, recall,
                   result, outcome>>

(* Lumilake's job goes forward only. *)
JobMoves(status) ==
    /\ \/ success.runtime.status = "PENDING" /\ status # "PENDING"
       \/ success.runtime.status = "RUNNING" /\ status \notin {"PENDING", "RUNNING"}
    /\ Assess([success EXCEPT !.runtime.status = status])

(* The output is looked at once, whether or not the job has ended. *)
ObserveOutput(contract) ==
    /\ success.runtime.accepted
    /\ success.contract = "NOT_EVALUATED"
    /\ Assess([success EXCEPT !.contract = contract])

(* A report of another mode than the evidence allows is refused. *)
Report(mode) ==
    /\ at = "running"
    /\ outcome.verdict = "open"
    /\ OutcomeValid(mode, success)
    /\ outcome' = [mode |-> mode, verdict |-> EndToEnd(success)]
    /\ UNCHANGED <<at, file, frozen, episodes, adapter, case, spec, recall,
                   result, success>>

Finish ==
    /\ at = "running"
    /\ at' = "done"
    /\ UNCHANGED <<file, frozen, episodes, adapter, caseVars>>

-----------------------------------------------------------------------------
EpisodeOf(c, scope) ==
    [id |-> c.id, scope |-> scope, split |-> c.split, eligible |-> c.eligible,
     disposition |-> c.disposition, text |-> c.request, family |-> c.family]

(* append_episode refuses an id it has; one that a dead harness wrote too. *)
Learn(scope) ==
    /\ at = "done"
    /\ at' = "ready"
    /\ \E c \in case :
        episodes' = IF \E e \in episodes : e.id = c.id THEN episodes
                    ELSE episodes \cup {EpisodeOf(c, scope)}
    /\ ClearCase
    /\ UNCHANGED <<file, frozen, adapter>>

(* The harness drops the case, or dies and is started again. *)
Abandon ==
    /\ at \in Working \ {"ready"}
    /\ at' = "ready"
    /\ ClearCase
    /\ UNCHANGED <<file, frozen, episodes, adapter>>

(* Whoever owns the inference server starts, stops or replaces it. *)
Redeploy(p, ready) ==
    /\ at \in Working
    /\ adapter' = [provider |-> p, ready |-> ready /\ ~p.double]
    /\ UNCHANGED <<at, file, frozen, episodes, caseVars>>

-----------------------------------------------------------------------------
Init ==
    /\ at = "asking"
    /\ file = [status |-> "draft", cases |-> {}, hashes |-> {}]
    /\ frozen = {}
    /\ episodes = {}
    /\ adapter = [provider |-> FakeProvider, ready |-> FALSE]
    /\ case = {} /\ spec = {} /\ recall = NoRecall /\ result = NoResult
    /\ success = NoSuccess /\ outcome = NoOutcome

Author ==
    \/ OpenFile
    \/ \E c \in Drafts : EditCase(c)
    \/ ComputeHashes
    \/ \E s \in {"draft", "frozen"} : SetStatus(s)

Prepare ==
    \/ \E r \in Requests, b \in BOOLEAN : Ask(r, b)
    \/ \E b \in BOOLEAN : LoadManifest(b)
    \/ \E c \in frozen : TakeCase(c)
    \/ \E s \in Scope, d \in Disposition : Recall(s, d)

Judge ==
    \/ Infer
    \/ Relabel
    \/ \E p \in Approvals : CheckResult(p)
    \/ ReadMetadata
    \/ ReadReadiness

Evaluate ==
    \/ \E s \in Proposals, b \in BOOLEAN : Propose(s, b)
    \/ \E b \in BOOLEAN, t \in Status :
          Submit([accepted |-> b, status |-> t])
    \/ \E t \in Status \ {"NOT_RUN"} : JobMoves(t)
    \/ \E o \in {"PASS", "FAIL"} : ObserveOutput(o)
    \/ \E m \in Modes : Report(m)
    \/ Finish
    \/ \E s \in Scope : Learn(s)

Surroundings ==
    \/ Abandon
    \/ \E p \in Deployed, b \in BOOLEAN : Redeploy(p, b)

Next == Author \/ Prepare \/ Judge \/ Evaluate \/ Surroundings

Spec == Init /\ [][Next]_vars

-----------------------------------------------------------------------------
(* Properties *)

Faithful(s) ==
    LET literal == {i \in DOMAIN s.workflow.ops : s.workflow.ops[i].literal # {}}
    IN  /\ WellWired(s.workflow)
        /\ Cardinality(ToSet(s.bound)) = Len(s.bound)
        /\ literal # {} =>
            /\ literal = DOMAIN s.bound
            /\ \A i \in literal : s.workflow.ops[i].literal = {s.bound[i]}

(* Every DAG that plan() renders can be run: operations are named once and *)
(* come after what they read, every placeholder is bound and every field   *)
(* that is aggregated is yielded by the input it is taken from.  The       *)
(* bindings describe it: each symbol once, and where symbols are written   *)
(* into the SQL, those symbols in that order (generate_workflow, plan).    *)
PlanFaithful == \A s \in spec : Faithful(s)

(* Nothing that is retrieved gives a held-out case away: whatever was      *)
(* edited, frozen and learned before, no retrieved episode has the text of *)
(* a dev or test case up to case and spacing, none belongs to a paraphrase *)
(* group of one, and none is of another scope than the query's             *)
(* (scan_contamination, LearningEpisode, retrieve).                        *)
NoLeak ==
    \A e \in recall.hits :
        /\ e.scope = recall.scope
        /\ \A c \in frozen :
            c.split # "train" =>
                /\ Normal[e.text] # Normal[c.request]
                /\ \A d \in frozen : d.id = e.id => Label[d.group] # Label[c.group]

(* What the gate accepts is evidence under an eligible contract, and was    *)
(* generated by the provider that the contract names: it takes both at once *)
(* to get anything else past the gate, the whole metadata of the contract   *)
(* copied onto the result and the provider behind the adapter replaced by   *)
(* the contract's before the gate asks it (require_evidence_eligible).      *)
EvidenceFresh ==
    at = "accepted" =>
        /\ ApprovedEligible(result.approved)
        /\ \/ result.by = result.approved
           \/ /\ result.copied
              /\ result.seen = result.approved /\ result.seen # result.by

(* A verdict that was reported is never taken back by what becomes known   *)
(* later of the job or of its output, and only a live execution reports    *)
(* one (end_to_end_success, match_evaluation_mode).                        *)
VerdictFinal ==
    outcome.verdict # "open" =>
        /\ outcome.verdict = EndToEnd(success)
        /\ outcome.mode = "live_execution"
=============================================================================
