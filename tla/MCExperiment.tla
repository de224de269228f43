---------------------------- MODULE MCExperiment ----------------------------
EXTENDS Experiment

(* Up to three mentions, and every set of keywords. *)
MCRequests ==
    [mentions : UNION {[1 .. n -> Symbols] : n \in 0 .. 3},
     keywords : SUBSET Intents]

(* The loop of extract_symbols, and what ExtractSymbols says of its result. *)
ExtractLoop(request) ==
    FoldLeft(LAMBDA seen, symbol :
                IF Contains(seen, symbol) THEN seen ELSE Append(seen, symbol),
             <<>>, request.mentions)

ASSUME LoopExtracts == \A r \in MCRequests : ExtractSymbols(r) = ExtractLoop(r)

MCText == {"price of Apple", "PRICE of  Apple", "Apple quote", "buy Apple",
           "compare both", "delete it"}

MCNormal == [t \in MCText |-> IF t = "PRICE of  Apple" THEN "price of Apple" ELSE t]

MCReads ==
    [t \in MCText |->
        CASE t = "buy Apple"    -> [mentions |-> <<"AAPL">>, keywords |-> {"trading"}]
          [] t = "compare both" -> [mentions |-> <<>>, keywords |-> {"compare"}]
          [] t = "delete it"    -> [mentions |-> <<>>, keywords |-> {}]
          [] OTHER              -> [mentions |-> <<"AAPL">>, keywords |-> {"market"}]]

MCWords ==
    [t \in MCText |->
        CASE t = "buy Apple"    -> {"buy", "apple"}
          [] t = "compare both" -> {"compare", "both"}
          [] t = "delete it"    -> {"delete", "it"}
          [] t = "Apple quote"  -> {"quote", "apple"}
          [] OTHER              -> {"price", "of", "apple"}]

MCGroup == {"quote", "Quote", "trade", "both", "drop"}
MCLabel == [g \in MCGroup |-> IF g = "Quote" THEN "quote" ELSE g]

Draft(id, split, disposition, text, group, eligible) ==
    [id |-> id, split |-> split, disposition |-> disposition, request |-> text,
     group |-> group, family |-> IF disposition = "generate" THEN "market" ELSE "other",
     eligible |-> eligible]

(* The test case is there in four versions: one that repeats the text of a *)
(* train case, one that paraphrases it, one that may be retrieved, and one *)
(* that is as it should be.  A file with the dev case has one case too     *)
(* many and is never frozen; the code treats dev as it treats test.        *)
MCDrafts ==
    {Draft(1, "train", "generate", "price of Apple", "quote", TRUE),
     Draft(2, "train", "generate", "compare both", "both", TRUE),
     Draft(3, "test", "generate", "PRICE of  Apple", "trade", FALSE),
     Draft(3, "test", "generate", "Apple quote", "Quote", FALSE),
     Draft(3, "test", "generate", "buy Apple", "trade", TRUE),
     Draft(3, "test", "generate", "buy Apple", "trade", FALSE),
     Draft(4, "dev", "reject", "delete it", "drop", FALSE)}

MCFamilies    == {"market"}
MCFamilyCount == [train |-> 2, dev |-> 0, test |-> 1]
MCCellCount   ==
    [train |-> [generate |-> 2, clarify |-> 0, reject |-> 0],
     dev   |-> [generate |-> 0, clarify |-> 0, reject |-> 0],
     test  |-> [generate |-> 1, clarify |-> 0, reject |-> 0]]

Real(identity, pinned) ==
    [identity |-> identity, pinned |-> pinned, marked |-> FALSE,
     lifecycle |-> "external", eligible |-> pinned, double |-> FALSE]

MCDeployed  == {Real("g0", TRUE), Real("g0, next revision", TRUE),
                Real("no revision", FALSE), FakeProvider}
MCApprovals == {Real("g0", TRUE), Forged(Real("no revision", FALSE)),
                Forged(FakeProvider)}

(* The DAGs that the generator can make of these requests. *)
Workflows == {GenerateWorkflow(r) : r \in MCRequests}

(* The rubric of scoring.py sees the whole difference between two of them: *)
(* a full score is an exact match, and an exact match is the same DAG.     *)
ASSUME ScoreTellsApart ==
    \A g, t \in Workflows :
        /\ (Score(g, t) = 10000) <=> Exact(g, t)
        /\ Exact(g, t) => g = t
=============================================================================
