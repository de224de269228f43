----------------------------- MODULE Contracts -----------------------------
(***************************************************************************)
(* models.py and inference/base.py: which records are valid, and what an   *)
(* assessment amounts to.                                                  *)
(***************************************************************************)
EXTENDS Integers, FiniteSets

-----------------------------------------------------------------------------
(* ProviderMetadata.  `identity` stands for the fields that only tell one  *)
(* provider from another; `pinned`: endpoint, model_artifact and           *)
(* model_revision are there; `marked`: one of the test-only markers is.    *)

Provider ==
    [identity : STRING, pinned : BOOLEAN, marked : BOOLEAN,
     lifecycle : {"external", "per_allocation", "in_process_test"},
     eligible : BOOLEAN, double : BOOLEAN]

(* validate_evidence_metadata *)
ProviderValid(p) ==
    p.eligible => /\ ~p.double
                  /\ p.lifecycle # "in_process_test"
                  /\ ~p.marked
                  /\ p.pinned

(* FakeInferenceAdapter *)
FakeProvider ==
    [identity |-> "fake", pinned |-> FALSE, marked |-> TRUE,
     lifecycle |-> "in_process_test", eligible |-> FALSE, double |-> TRUE]

(* model_copy(update = ...) of its fields, which validates nothing. *)
Forged(p) ==
    [p EXCEPT !.pinned = TRUE, !.lifecycle = "external",
              !.eligible = TRUE, !.double = FALSE]

(* The first two thirds of require_evidence_eligible. *)
ResultEligible(p) ==
    /\ ProviderValid(p)
    /\ p.eligible
    /\ ~p.double
    /\ p.lifecycle # "in_process_test"

ApprovedEligible(p) ==
    /\ ProviderValid(p)
    /\ p.eligible
    /\ ~p.double

-----------------------------------------------------------------------------
(* JobSpec.require_generate_payload: `payload` is which of logical_plan,   *)
(* output and rendered_workflow are there.                                 *)
JobSpecValid(s) ==
    IF s.disposition = "generate"
    THEN s.payload = {"logical_plan", "output", "rendered_workflow"}
    ELSE s.reason /\ s.payload = {} /\ ~s.bound

-----------------------------------------------------------------------------
(* Assessments.  "open" is a success property that is None. *)

Status == {"NOT_RUN", "PENDING", "RUNNING", "COMPLETED", "FAILED",
           "CANCELLED", "TIMED_OUT"}

OutputStatus == {"NOT_EVALUATED", "PASS", "FAIL"}
Verdict      == {"open", "yes", "no"}

Decide(b) == IF b THEN "yes" ELSE "no"

(* SuccessAssessment.runtime is None. *)
NoRuntime == [accepted |-> FALSE, status |-> "None"]

(* RuntimeAssessment.require_consistent_admission_state *)
RuntimeValid(r) == r.accepted <=> r.status # "NOT_RUN"

(* Mutant: only a job that waits is undecided. *)
RuntimeSuccessPendingOnly(r) ==
    IF r.status \in {"PENDING"} THEN "open"
    ELSE Decide(r.accepted /\ r.status = "COMPLETED")

RuntimeSuccess(r) ==
    IF r.status \in {"PENDING", "RUNNING"} THEN "open"
    ELSE Decide(r.accepted /\ r.status = "COMPLETED")

(* SuccessAssessment; `jobspec` is JobSpecAssessment.success. *)
EndToEnd(success) ==
    LET ran == RuntimeSuccess(success.runtime)
    IN  CASE success.runtime = NoRuntime \/ ran = "open" -> "open"
          [] OTHER ->
             CASE ~success.jobspec \/ ran = "no" -> "no"
               [] OTHER -> IF success.contract = "NOT_EVALUATED" THEN "open"
                           ELSE Decide(success.contract = "PASS")

(* ExecutionOutcome.match_evaluation_mode *)
Modes == {"offline_gold", "parser_preview", "live_execution"}

OutcomeValid(mode, success) == mode = "live_execution" <=> success.runtime # NoRuntime
=============================================================================
