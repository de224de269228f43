----------------------------- MODULE Benchmark -----------------------------
(***************************************************************************)
(* benchmark/: what a case, a manifest and a contamination report are, and *)
(* which manifests load.                                                   *)
(*                                                                         *)
(* A text and a paraphrase group are names; Normal gives the text that     *)
(* normalize_request_text makes of one, and Label what _normalized_label   *)
(* makes of a group.  SHA-256 tells different contents apart, so a hash is *)
(* what it is the hash of.                                                 *)
(***************************************************************************)
EXTENDS Integers, FiniteSets

CONSTANTS
    Text, Group,       \* requests and paraphrase groups, as written
    Normal, Label,     \* their normal forms: functions
    Families,          \* GENERATE_FAMILIES
    CellCount,         \* FROZEN_CELL_COUNTS: [Split -> [Disposition -> Nat]]
    FamilyCount        \* FROZEN_GENERATE_PER_FAMILY: [Split -> Nat]

Split       == {"train", "dev", "test"}
Disposition == {"generate", "clarify", "reject"}

(* enforce_split_and_gold_contract; the gold itself is left out. *)
CaseValid(c) ==
    /\ c.eligible => c.split = "train"
    /\ c.disposition = "generate" => c.family \in Families

(* split_hashes is a set: empty for None, or one map of hashes. *)
SplitHashes(cases) == [s \in Split |-> {c \in cases : c.split = s}]

(* _hard_findings: the keys under which cases of two splits are grouped;   *)
(* key is a function of the cases.                                         *)
HardFindings(cases, key) ==
    {k \in {key[c] : c \in cases} :
        \E c, d \in cases : key[c] = k /\ key[d] = k /\ c.split # d.split}

RequestText(cases)     == [c \in cases |-> c.request]
NormalizedText(cases)  == [c \in cases |-> Normal[c.request]]
ParaphraseGroup(cases) == [c \in cases |-> Label[c.group]]

(* Mutant: paraphrases are informational, as shared entities are. *)
ScanTextsOnly(cases) ==
    [request_hash     |-> HardFindings(cases, RequestText(cases)),
     normalized_text  |-> HardFindings(cases, NormalizedText(cases)),
     paraphrase_group |-> {}]

ScanContamination(cases) ==
    [request_hash     |-> HardFindings(cases, RequestText(cases)),
     normalized_text  |-> HardFindings(cases, NormalizedText(cases)),
     paraphrase_group |-> HardFindings(cases, ParaphraseGroup(cases))]

Passed(report) ==
    /\ report.request_hash = {}
    /\ report.normalized_text = {}
    /\ report.paraphrase_group = {}

CountsMatch(cases) ==
    \A s \in Split :
        /\ \A d \in Disposition :
            Cardinality({c \in cases : c.split = s /\ c.disposition = d})
                = CellCount[s][d]
        /\ \A f \in Families :
            Cardinality({c \in cases : /\ c.split = s
                                       /\ c.disposition = "generate"
                                       /\ c.family = f}) = FamilyCount[s]

(* enforce_manifest_contract *)
ManifestValid(m) ==
    /\ \A c \in m.cases : CaseValid(c)
    /\ \A c, d \in m.cases : c.id = d.id => c = d
    /\ m.hashes \subseteq {SplitHashes(m.cases)}
    /\ m.status = "frozen" =>
        /\ m.hashes # {}
        /\ CountsMatch(m.cases)
        /\ Passed(ScanContamination(m.cases))

(* load_manifest_with_report *)
Loads(m, requireClean) ==
    /\ ManifestValid(m)
    /\ requireClean => Passed(ScanContamination(m.cases))
=============================================================================
