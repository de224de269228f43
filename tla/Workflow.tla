------------------------------ MODULE Workflow ------------------------------
(***************************************************************************)
(* nl2workflow/baseline.py: the rule-based generator of workflow DAGs, and *)
(* nl2workflow/scoring.py: the structural score of a DAG against another.  *)
(*                                                                         *)
(* A request is what the patterns see of it: the symbols it mentions, in   *)
(* order, and the intents that have a keyword in it.  An operation is its  *)
(* wiring: the placeholders of its template, where their values come from, *)
(* the fields of other operations it reads and the fields it yields.       *)
(* Prompts, model settings and the text of the SQL are left out.           *)
(***************************************************************************)
EXTENDS Integers, FiniteSets, SequencesExt

Symbols == {"AAPL", "NVDA"}

(* _INTENT_RULES, in its order: the first that matches wins. *)
IntentRules ==
    <<"trading", "compare", "news", "profile", "fundamentals", "market">>

Intents == {"trading", "compare", "news", "profile", "fundamentals", "market"}

Request == [mentions : Seq(Symbols), keywords : SUBSET Intents]

MentionedBefore(mentions, s, t) ==
    \E i \in DOMAIN mentions : mentions[i] = s /\ \A j \in 1 .. i : mentions[j] # t

(* Each symbol that is mentioned once, in order of first appearance. *)
ExtractSymbols(request) ==
    CHOOSE seen \in SetToSeqs(ToSet(request.mentions)) :
        \A i, j \in DOMAIN seen :
            i < j => MentionedBefore(request.mentions, seen[i], seen[j])

ClassifyIntent(request) ==
    IF request.keywords = {} THEN "profile"
    ELSE LET matches == {i \in DOMAIN IntentRules :
                            IntentRules[i] \in request.keywords}
         IN  IntentRules[CHOOSE i \in matches : \A j \in matches : i <= j]

-----------------------------------------------------------------------------
(* SQL templates: placeholders and columns. *)

Sql(holes, columns) == [holes |-> holes, columns |-> columns]

ProfileColumns ==
    {"symbol", "companyName", "sector", "industry", "marketCap", "beta"}

IncomeColumns ==
    {"symbol", "avg_revenue", "avg_net_income", "avg_eps", "latest_report"}

MarketColumns ==
    {"symbol", "latest_ts", "recent_high", "recent_low", "recent_close_avg",
     "total_volume", "week52_high", "week52_low", "beta", "pe_ttm",
     "eps_growth_ttm"}

NewsColumns == {"symbol", "headlines", "synopses", "news_count"}

TemplateOf ==
    [profile      |-> Sql({"symbol"}, ProfileColumns),
     fundamentals |-> Sql({"symbol"}, IncomeColumns),
     market       |-> Sql({"symbol"}, MarketColumns),
     news         |-> Sql({"symbol"}, NewsColumns)]

IncomeDated == Sql({"symbol", "start_date"}, IncomeColumns)
MarketDated == Sql({"symbol", "start_date"}, MarketColumns)

-----------------------------------------------------------------------------
(* Operations. *)

Stock == "Stock"
Whole == "*"   \* a parameter that names a node and no path
Planner == "SQL Date Planner"
Node(label, node, field) == [label |-> label, node |-> node, field |-> field]

SqlOp(id, inputs, sql) ==
    [id |-> id, op |-> "DataRetrievalOp", inputs |-> inputs,
     holes |-> sql.holes, reads |-> {}, yields |-> sql.columns, literal |-> {},
     params |-> {Node("symbol", inputs[1], Whole) :
                     h \in {x \in sql.holes : x = "symbol" /\ inputs # <<>>}}
         \cup {Node("start_date", Planner, "start_date") :
                   h \in sql.holes \cap {"start_date"}}]

(* A prompt with {ref0} over an aggregate table. *)
LlmOp(id, inputs, reads, yields) ==
    [id |-> id, op |-> "LLMChatOp", inputs |-> inputs,
     holes |-> {"ref0"}, params |-> {Node("ref0", Stock, Whole)},
     reads |-> reads, yields |-> yields, literal |-> {}]

(* _table_rows, _output_rows: rows of an aggregate table. *)
Rows(node, fields) == {node} \X fields

Thesis == {"thesis", "confidence", "catalysts"}
Risks  == {"thesis", "confidence", "risks"}

Figures ==
    Rows("Fundamentals Query",
         {"avg_revenue", "avg_net_income", "avg_eps", "latest_report"})
        \cup Rows("Market Query",
                  {"recent_high", "recent_low", "recent_close_avg",
                   "total_volume", "week52_high", "week52_low", "beta",
                   "pe_ttm", "eps_growth_ttm"})
        \cup Rows("News Query", {"headlines", "synopses", "news_count"})

Researched == Rows("Bull Researcher", Thesis) \cup Rows("Bear Researcher", Risks)

Queries == <<Stock, "Fundamentals Query", "Market Query", "News Query">>

(* The date planner has plain messages: no placeholder and no table. *)
DatePlanner ==
    [LlmOp(Planner, <<Stock>>, {}, {"start_date"}) EXCEPT !.holes = {}, !.params = {}]

FundamentalsQuery == SqlOp("Fundamentals Query", <<Stock, Planner>>, IncomeDated)
MarketQuery       == SqlOp("Market Query", <<Stock, Planner>>, MarketDated)
NewsQuery         == SqlOp("News Query", <<Stock>>, TemplateOf.news)

BullResearcher == LlmOp("Bull Researcher", Queries, Figures, Thesis)
BearResearcher == LlmOp("Bear Researcher", Queries, Figures, Risks)

Researchers  == <<Stock, "Bull Researcher", "Bear Researcher">>
BullRebuttal == LlmOp("Bull Rebuttal", Researchers, Researched, Thesis)
BearRebuttal == LlmOp("Bear Rebuttal", Researchers, Researched, Risks)

RiskIdentifier ==
    LlmOp("Risk Identifier", <<Stock, "Bull Rebuttal", "Bear Rebuttal">>,
          Rows("Bull Rebuttal", {"thesis", "catalysts"})
              \cup Rows("Bear Rebuttal", {"thesis", "risks"}),
          {"risks", "severity"})

RiskSynthesis ==
    LlmOp("Risk Synthesis",
          <<Stock, "Bull Rebuttal", "Bear Rebuttal", "Risk Identifier">>,
          Rows("Bull Rebuttal", {"thesis", "confidence"})
              \cup Rows("Bear Rebuttal", {"thesis", "confidence"})
              \cup Rows("Risk Identifier", {"risks", "severity"}),
          {"balanced_view", "expected_value", "guardrails"})

FundManager ==
    LlmOp("Fund Manager Verdict", <<Stock, "Risk Synthesis">>,
          Rows("Risk Synthesis", {"balanced_view", "expected_value", "guardrails"}),
          {"verdict", "rationale"})

TradingOps ==
    <<DatePlanner, FundamentalsQuery, MarketQuery, NewsQuery,
      BullResearcher, BearResearcher, BullRebuttal, BearRebuttal,
      RiskIdentifier, RiskSynthesis, FundManager>>

-----------------------------------------------------------------------------
Dag(name, ops, output, ref) ==
    [name |-> name, ops |-> ops, outputs |-> {<<ref, output>>}]

FundamentalsQueryOf ==
    [AAPL |-> "Fundamentals Query AAPL", NVDA |-> "Fundamentals Query NVDA"]

QueryOf ==
    [profile |-> "Profile Query", news |-> "News Query",
     fundamentals |-> "Fundamentals Query", market |-> "Market Query"]

Targets(request) ==
    LET symbols == ExtractSymbols(request)
    IN  IF symbols = <<>> THEN <<"AAPL", "NVDA">> ELSE symbols

Trading == Dag("nl2workflow-trading", TradingOps,
               "final_recommendation", "Fund Manager Verdict")

(* {symbol} is replaced in the template, before _sql_op looks at it. *)
Compare(targets) ==
    LET ops == [i \in DOMAIN targets |->
                  [SqlOp(FundamentalsQueryOf[targets[i]], <<Stock>>,
                         Sql({}, IncomeColumns))
                      EXCEPT !.literal = {targets[i]}]]
    IN  Dag("nl2workflow-compare", ops, "comparison", Last(ops).id)

Single(intent) ==
    Dag("nl2workflow-" \o intent,
        <<SqlOp(QueryOf[intent], <<Stock>>, TemplateOf[intent])>>,
        intent, QueryOf[intent])

(* Whatever the intent was, the first ten instruments. *)
Universe ==
    Dag("nl2workflow-profile",
        <<SqlOp("Profile Query", <<>>, Sql({}, ProfileColumns))>>,
        "profile", "Profile Query")

GenerateWorkflow(request) ==
    LET intent == ClassifyIntent(request)
    IN  CASE intent = "trading" -> Trading
          [] intent = "compare" -> Compare(Targets(request))
          [] OTHER -> IF request.mentions = <<>> THEN Universe ELSE Single(intent)

-----------------------------------------------------------------------------
(* What it takes to run a DAG. *)

Producer(workflow, node) ==
    {i \in DOMAIN workflow.ops : workflow.ops[i].id = node}

(* Operation i reads `field` of a node it names as an input, and that node *)
(* yields it: the request's stock, or an earlier operation.                *)
Resolves(workflow, i, node, field) ==
    /\ Contains(workflow.ops[i].inputs, node)
    /\ \/ node = Stock /\ field = Whole
       \/ \E j \in Producer(workflow, node) :
            j < i /\ field \in workflow.ops[j].yields

OpWired(workflow, i) ==
    LET op == workflow.ops[i]
    IN  /\ {p.label : p \in op.params} = op.holes
        /\ \A p \in op.params : Resolves(workflow, i, p.node, p.field)
        /\ \A r \in op.reads : Resolves(workflow, i, r[1], r[2])
        /\ \A n \in ToSet(op.inputs) \ {Stock} :
            \E j \in Producer(workflow, n) : j < i

WellWired(workflow) ==
    /\ \A i, j \in DOMAIN workflow.ops :
        workflow.ops[i].id = workflow.ops[j].id => i = j
    /\ \A i \in DOMAIN workflow.ops : OpWired(workflow, i)
    /\ \A out \in workflow.outputs : Producer(workflow, out[1]) # {}

-----------------------------------------------------------------------------
(* scoring.py *)

Structure(workflow) ==
    [ops     |-> {<<workflow.ops[i].id, workflow.ops[i].op>> :
                      i \in DOMAIN workflow.ops},
     edges   |-> UNION {ToSet(workflow.ops[i].inputs) \X {workflow.ops[i].id} :
                            i \in DOMAIN workflow.ops}
                   \cup {<<out[1], "out:" \o out[2]>> : out \in workflow.outputs},
     outputs |-> workflow.outputs]

Exact(generated, truth) == Structure(generated) = Structure(truth)

(* A fraction: numerator and denominator. *)
Jaccard(a, b) ==
    IF a \cup b = {} THEN <<1, 1>>
    ELSE <<Cardinality(a \cap b), Cardinality(a \cup b)>>

(* In ten-thousandths; how a tie is rounded is left out. *)
Score(generated, truth) ==
    LET g == Structure(generated)
        t == Structure(truth)
        o == Jaccard(g.ops, t.ops)
        e == Jaccard(g.edges, t.edges)
        sum == o[1] * e[2] + e[1] * o[2]
        over == 2 * o[2] * e[2]
        kept == IF g.outputs = t.outputs THEN 10 ELSE 9
    IN  (sum * kept * 2000 + over) \div (2 * over)
=============================================================================
