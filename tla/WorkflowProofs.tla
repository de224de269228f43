--------------------------- MODULE WorkflowProofs ---------------------------
(***************************************************************************)
(* What holds of the generator and of the scoring rubric for every request *)
(* and every pair of DAGs.                                                 *)
(***************************************************************************)
EXTENDS Workflow, FiniteSetTheorems, SequenceTheorems, TLAPS

LEMMA SymbolsFinite ==
    IsFiniteSet(Symbols) /\ Cardinality(Symbols) = 2
<1>1. IsFiniteSet({"AAPL"}) /\ Cardinality({"AAPL"}) = 1
  BY FS_Singleton
<1>2. Symbols = {"AAPL"} \cup {"NVDA"} /\ "NVDA" \notin {"AAPL"}
  BY DEF Symbols
<1> QED
  BY <1>1, <1>2, FS_AddElement

(* There is an order of first appearance: nothing appears before what is    *)
(* mentioned first, and there are only two symbols.                         *)
LEMMA OrderOfAppearance ==
    ASSUME NEW m \in Seq(Symbols)
    PROVE  \E seen \in SetToSeqs(ToSet(m)) :
              \A i, j \in DOMAIN seen :
                  i < j => MentionedBefore(m, seen[i], seen[j])
<1> DEFINE M == ToSet(m)
<1>1. /\ DOMAIN m = 1 .. Len(m) /\ Len(m) \in Nat
      /\ \A i \in DOMAIN m : m[i] \in M /\ m[i] \in Symbols
      /\ M \subseteq Symbols
  BY DEF ToSet
<1>2. CASE m = <<>>
  <2>1. M = {} /\ Cardinality(M) = 0
    BY <1>2, FS_EmptySet DEF ToSet
  <2> DEFINE seen == [i \in 1 .. 0 |-> "AAPL"]
  <2>2. seen \in [1 .. 0 -> {}] /\ 1 .. 0 = {} /\ DOMAIN seen = {}
    OBVIOUS
  <2>3. seen \in SetToSeqs(M)
    BY <2>1, <2>2 DEF SetToSeqs
  <2> HIDE DEF seen
  <2> QED
    BY <2>2, <2>3
<1>3. CASE m # <<>>
  <2>1. 1 \in DOMAIN m /\ m[1] \in M
    BY <1>1, <1>3
  <2>2. CASE M = {m[1]}
    <3>1. Cardinality(M) = 1
      BY <2>2, FS_Singleton
    <3> DEFINE seen == [i \in 1 .. 1 |-> m[1]]
    <3>2. seen \in [1 .. 1 -> M] /\ DOMAIN seen = 1 .. 1 /\ 1 .. 1 = {1}
      BY <2>1
    <3> HIDE DEF seen
    <3>3. seen \in SetToSeqs(M)
      BY <3>1, <3>2 DEF SetToSeqs
    <3> QED
      BY <3>2, <3>3
  <2>3. CASE M # {m[1]}
    <3>1. PICK other \in Symbols : other \in M /\ other # m[1]
      BY <1>1, <2>1, <2>3
    <3>2. M = {m[1]} \cup {other} /\ other \notin {m[1]}
      BY <1>1, <2>1, <3>1 DEF Symbols
    <3>3. Cardinality(M) = 2
      <4>1. IsFiniteSet({m[1]}) /\ Cardinality({m[1]}) = 1
        BY FS_Singleton
      <4>2. Cardinality({m[1]} \cup {other}) = Cardinality({m[1]}) + 1
        BY <3>2, <4>1, FS_AddElement
      <4> HIDE DEF M
      <4> QED
        BY <3>2, <4>1, <4>2
    <3> DEFINE seen == [i \in 1 .. 2 |-> IF i = 1 THEN m[1] ELSE other]
    <3>4. /\ seen \in [1 .. 2 -> M] /\ DOMAIN seen = 1 .. 2
          /\ seen[1] = m[1] /\ seen[2] = other
      <4> HIDE DEF M
      <4>1. /\ DOMAIN seen = 1 .. 2 /\ 1 \in 1 .. 2 /\ 2 \in 1 .. 2
            /\ \A i \in 1 .. 2 : seen[i] \in M
        BY <2>1, <3>1
      <4> QED
        BY <4>1
    <3> HIDE DEF seen
    <3>5. \A i, j \in 1 .. 2 : i # j => seen[i] # seen[j]
      BY <3>1, <3>4
    <3>6. seen \in SetToSeqs(M)
      BY <3>3, <3>4, <3>5 DEF SetToSeqs
    <3>7. MentionedBefore(m, m[1], other)
      BY <2>1, <3>1 DEF MentionedBefore
    <3>8. \A i, j \in DOMAIN seen : i < j => i = 1 /\ j = 2
      BY <3>4
    <3> QED
      BY <3>4, <3>6, <3>7, <3>8
  <2> QED
    BY <2>2, <2>3
<1> QED
  BY <1>2, <1>3

(* What a list of targets or of bound symbols is: no symbol twice. *)
Distinct(s, n) ==
    /\ s \in [1 .. n -> Symbols]
    /\ \A i, j \in 1 .. n : i # j => s[i] # s[j]

LEMMA ExtractedDistinct ==
    ASSUME NEW r \in Request
    PROVE  /\ \E n \in 0 .. 2 : Distinct(ExtractSymbols(r), n)
           /\ \A i, j \in DOMAIN ExtractSymbols(r) :
                 i < j => MentionedBefore(r.mentions, ExtractSymbols(r)[i],
                                          ExtractSymbols(r)[j])
<1> DEFINE m == r.mentions
           seen == ExtractSymbols(r)
<1>1. m \in Seq(Symbols)
  BY DEF Request
<1>2. /\ seen \in SetToSeqs(ToSet(m))
      /\ \A i, j \in DOMAIN seen : i < j => MentionedBefore(m, seen[i], seen[j])
  BY <1>1, OrderOfAppearance DEF ExtractSymbols
<1> HIDE DEF seen
<1>3. ToSet(m) \subseteq Symbols
  BY <1>1 DEF ToSet
<1>4. Cardinality(ToSet(m)) \in 0 .. 2
  BY <1>3, SymbolsFinite, FS_Subset, FS_CardinalityType
<1>5. Distinct(seen, Cardinality(ToSet(m)))
  <2> DEFINE n == Cardinality(ToSet(m))
  <2>1. /\ seen \in [1 .. n -> ToSet(m)]
        /\ \A i, j \in 1 .. n : i # j => seen[i] # seen[j]
    BY <1>2 DEF SetToSeqs
  <2>2. \A i \in 1 .. n : seen[i] \in Symbols
    BY <1>3, <2>1
  <2> QED
    BY <2>1, <2>2 DEF Distinct
<1>6. \E n \in 0 .. 2 : Distinct(seen, n)
  BY <1>4, <1>5
<1> QED
  BY <1>2, <1>6 DEF seen

LEMMA TargetsDistinct ==
    ASSUME NEW r \in Request
    PROVE  \E n \in 1 .. 2 : Distinct(Targets(r), n)
<1>1. PICK n \in 0 .. 2 : Distinct(ExtractSymbols(r), n)
  BY ExtractedDistinct
<1>2. CASE ExtractSymbols(r) = <<>>
  <2>1. Targets(r) = <<"AAPL", "NVDA">>
    BY <1>2 DEF Targets
  <2>2. Distinct(<<"AAPL", "NVDA">>, 2)
    BY DEF Distinct, Symbols
  <2> QED
    BY <2>1, <2>2
<1>3. CASE ExtractSymbols(r) # <<>>
  <2>1. Targets(r) = ExtractSymbols(r)
    BY <1>3 DEF Targets
  <2>2. n # 0
    <3> SUFFICES ASSUME n = 0 PROVE FALSE
      OBVIOUS
    <3>1. ExtractSymbols(r) \in [{} -> Symbols]
      BY <1>1 DEF Distinct
    <3>2. ExtractSymbols(r) = <<>>
      BY <3>1
    <3> QED
      BY <1>3, <3>2
  <2> QED
    BY <1>1, <2>1, <2>2
<1> QED
  BY <1>2, <1>3

LEMMA DistinctLength ==
    ASSUME NEW n \in 0 .. 2, NEW s, Distinct(s, n)
    PROVE  /\ DOMAIN s = 1 .. n /\ Len(s) = n
           /\ Cardinality(ToSet(s)) = n
<1>1. s \in Seq(Symbols) /\ Len(s) = n /\ DOMAIN s = 1 .. n
  BY DEF Distinct
<1>2. CASE n = 0
  BY <1>1, <1>2, FS_EmptySet DEF ToSet
<1>3. CASE n = 1
  <2>1. ToSet(s) = {s[1]}
    BY <1>1, <1>3 DEF ToSet
  <2> QED
    BY <1>1, <1>3, <2>1, FS_Singleton
<1>4. CASE n = 2
  <2>1. ToSet(s) = {s[1]} \cup {s[2]} /\ s[2] \notin {s[1]}
    BY <1>1, <1>4 DEF ToSet, Distinct
  <2>2. IsFiniteSet({s[1]}) /\ Cardinality({s[1]}) = 1
    BY FS_Singleton
  <2>3. Cardinality({s[1]} \cup {s[2]}) = 2
    BY <2>1, <2>2, FS_AddElement
  <2> QED
    BY <1>1, <1>4, <2>1, <2>3
<1> QED
  BY <1>2, <1>3, <1>4

-----------------------------------------------------------------------------
(* Queries that read the request's stock and nothing else. *)
LEMMA OfStock == Contains(<<Stock>>, Stock) /\ ToSet(<<Stock>>) = {Stock}
BY DEF Contains, ToSet

LEMMA StockParams ==
    ASSUME NEW id, NEW sql, sql.holes \subseteq {"symbol"}
    PROVE  /\ {p.label : p \in SqlOp(id, <<Stock>>, sql).params} = sql.holes
           /\ \A p \in SqlOp(id, <<Stock>>, sql).params :
                 p.node = Stock /\ p.field = Whole
<1>1. SqlOp(id, <<Stock>>, sql).params
          = {Node("symbol", Stock, Whole) : h \in sql.holes}
  BY DEF SqlOp
<1>2. /\ Node("symbol", Stock, Whole).label = "symbol"
      /\ Node("symbol", Stock, Whole).node = Stock
      /\ Node("symbol", Stock, Whole).field = Whole
  BY DEF Node
<1>3. CASE sql.holes = {}
  BY <1>1, <1>3
<1>4. CASE sql.holes = {"symbol"}
  <2>1. SqlOp(id, <<Stock>>, sql).params = {Node("symbol", Stock, Whole)}
    BY <1>1, <1>4
  <2> QED
    BY <1>2, <1>4, <2>1
<1> QED
  BY <1>3, <1>4

LEMMA StockQuery ==
    ASSUME NEW W, NEW i \in DOMAIN W.ops, NEW id, NEW sql,
           sql.holes \subseteq {"symbol"},
           W.ops[i].inputs = <<Stock>>, W.ops[i].holes = sql.holes,
           W.ops[i].params = SqlOp(id, <<Stock>>, sql).params, W.ops[i].reads = {}
    PROVE  OpWired(W, i)
BY OfStock, StockParams DEF OpWired, Resolves

LEMMA OneOpWired ==
    ASSUME NEW W, NEW name, DOMAIN W.ops = {1}, OpWired(W, 1),
           W.outputs = {<<W.ops[1].id, name>>}
    PROVE  WellWired(W)
<1>1. 1 \in Producer(W, W.ops[1].id)
  BY DEF Producer
<1>2. \A out \in W.outputs : out[1] = W.ops[1].id
  OBVIOUS
<1> QED
  BY <1>1, <1>2 DEF WellWired

LEMMA SingleWired ==
    ASSUME NEW intent \in {"profile", "news", "fundamentals", "market"}
    PROVE  WellWired(Single(intent))
<1> DEFINE W == Single(intent)
           op == SqlOp(QueryOf[intent], <<Stock>>, TemplateOf[intent])
<1>1. /\ W.ops = <<op>> /\ DOMAIN W.ops = {1} /\ W.ops[1] = op
      /\ W.outputs = {<<QueryOf[intent], intent>>}
  BY DEF Single, Dag
<1>2. TemplateOf[intent].holes = {"symbol"}
  BY DEF TemplateOf, Sql
<1>3. /\ op.inputs = <<Stock>> /\ op.holes = TemplateOf[intent].holes
      /\ op.reads = {} /\ op.id = QueryOf[intent]
  BY DEF SqlOp
<1>4. OpWired(W, 1)
  <2>1. /\ 1 \in DOMAIN W.ops
        /\ W.ops[1].inputs = <<Stock>> /\ W.ops[1].holes = TemplateOf[intent].holes
        /\ W.ops[1].reads = {}
        /\ W.ops[1].params
              = SqlOp(QueryOf[intent], <<Stock>>, TemplateOf[intent]).params
    BY <1>1, <1>3
  <2> HIDE DEF W, op
  <2> QED
    BY <1>2, <2>1, StockQuery
<1>5. WellWired(W)
  <2> HIDE DEF W, op
  <2> QED
    BY <1>1, <1>3, <1>4, OneOpWired
<1> QED
  BY <1>5

LEMMA UniverseWired == WellWired(Universe)
<1> DEFINE W == Universe
           op == SqlOp("Profile Query", <<>>, Sql({}, ProfileColumns))
<1>1. /\ W.ops = <<op>> /\ DOMAIN W.ops = {1} /\ W.ops[1] = op
      /\ W.outputs = {<<"Profile Query", "profile">>}
  <2>1. W = Dag("nl2workflow-profile", <<op>>, "profile", "Profile Query")
    BY DEF Universe
  <2> HIDE DEF W, op
  <2>2. W.ops = <<op>> /\ W.outputs = {<<"Profile Query", "profile">>}
    BY <2>1 DEF Dag
  <2>3. DOMAIN <<op>> = {1} /\ <<op>>[1] = op
    OBVIOUS
  <2> QED
    BY <2>2, <2>3
<1>2. /\ op.inputs = <<>> /\ op.holes = {} /\ op.params = {}
      /\ op.reads = {} /\ op.id = "Profile Query"
  BY DEF SqlOp, Sql
<1>3. ToSet(<<>>) = {}
  BY DEF ToSet
<1>4. /\ W.ops[1].holes = {} /\ W.ops[1].params = {} /\ W.ops[1].reads = {}
      /\ W.ops[1].inputs = <<>>
  BY <1>1, <1>2
<1>5. OpWired(W, 1)
  <2> HIDE DEF W, op
  <2> QED
    BY <1>3, <1>4 DEF OpWired
<1>6. WellWired(W)
  <2> HIDE DEF W, op
  <2> QED
    BY <1>1, <1>2, <1>5, OneOpWired
<1> QED
  BY <1>6

LEMMA CompareFields ==
    ASSUME NEW n \in 1 .. 2, NEW targets, Distinct(targets, n)
    PROVE  LET W == Compare(targets)
           IN  /\ DOMAIN W.ops = 1 .. n
               /\ \A i \in 1 .. n :
                     LET sql == Sql({}, IncomeColumns)
                         op == SqlOp(FundamentalsQueryOf[targets[i]], <<Stock>>, sql)
                     IN  W.ops[i] = [op EXCEPT !.literal = {targets[i]}]
               /\ W.outputs = {<<W.ops[n].id, "comparison">>}
<1> DEFINE ops == [i \in DOMAIN targets |->
                      [SqlOp(FundamentalsQueryOf[targets[i]], <<Stock>>,
                             Sql({}, IncomeColumns))
                          EXCEPT !.literal = {targets[i]}]]
<1>1. DOMAIN targets = 1 .. n
  BY DEF Distinct
<1>2. DOMAIN ops = 1 .. n /\ Len(ops) = n
  <2> DEFINE S == {ops[i] : i \in 1 .. n}
  <2>1. ops \in [1 .. n -> S]
    BY <1>1
  <2>2. ops \in Seq(S)
    BY <2>1
  <2> HIDE DEF ops, S
  <2> QED
    BY <2>1, <2>2
<1>3. Last(ops) = ops[n]
  BY <1>2 DEF Last
<1>4. /\ Compare(targets).ops = ops
      /\ Compare(targets).outputs = {<<Last(ops).id, "comparison">>}
  BY DEF Compare, Dag
<1>5. \A i \in 1 .. n :
         ops[i] = [SqlOp(FundamentalsQueryOf[targets[i]], <<Stock>>,
                         Sql({}, IncomeColumns)) EXCEPT !.literal = {targets[i]}]
  BY <1>1
<1>6. DOMAIN Compare(targets).ops = 1 .. n
  BY <1>2, <1>4
<1>7. Compare(targets).outputs = {<<Compare(targets).ops[n].id, "comparison">>}
  BY <1>3, <1>4
<1> QED
  BY <1>4, <1>5, <1>6, <1>7

(* The SQL of a comparison has its symbols written into it. *)
Literal(W, targets) ==
    /\ DOMAIN W.ops = DOMAIN targets
    /\ \A i \in DOMAIN W.ops : W.ops[i].literal = {targets[i]}

LEMMA CompareWired ==
    ASSUME NEW n \in 1 .. 2, NEW targets, Distinct(targets, n)
    PROVE  WellWired(Compare(targets)) /\ Literal(Compare(targets), targets)
<1> DEFINE W == Compare(targets)
           sql == Sql({}, IncomeColumns)
           op(i) == SqlOp(FundamentalsQueryOf[targets[i]], <<Stock>>, sql)
<1>1. /\ DOMAIN W.ops = 1 .. n
      /\ \A i \in 1 .. n : W.ops[i] = [op(i) EXCEPT !.literal = {targets[i]}]
      /\ W.outputs = {<<W.ops[n].id, "comparison">>}
  BY CompareFields
<1>2. DOMAIN targets = 1 .. n
  BY DEF Distinct
<1>3. \A i \in 1 .. n : targets[i] \in {"AAPL", "NVDA"}
  BY DEF Distinct, Symbols
<1>4. sql.holes = {}
  BY DEF Sql
<1> HIDE DEF W, sql
<1>5. ASSUME NEW i \in 1 .. n
      PROVE  /\ W.ops[i].id = FundamentalsQueryOf[targets[i]]
             /\ W.ops[i].literal = {targets[i]}
             /\ W.ops[i].inputs = <<Stock>> /\ W.ops[i].reads = {}
             /\ W.ops[i].holes = sql.holes /\ W.ops[i].params = op(i).params
  <2>1. W.ops[i] = [op(i) EXCEPT !.literal = {targets[i]}]
    BY <1>1
  <2>2. /\ op(i).id = FundamentalsQueryOf[targets[i]]
        /\ op(i).inputs = <<Stock>> /\ op(i).reads = {} /\ op(i).holes = sql.holes
        /\ DOMAIN op(i) = {"id", "op", "inputs", "holes", "reads", "yields", "literal",
                           "params"}
    BY DEF SqlOp
  <2> HIDE DEF op
  <2> QED
    BY <2>1, <2>2
<1>6. ASSUME NEW i \in DOMAIN W.ops PROVE OpWired(W, i)
  <2>1. /\ W.ops[i].inputs = <<Stock>> /\ W.ops[i].reads = {}
        /\ W.ops[i].holes = sql.holes
        /\ W.ops[i].params
              = SqlOp(FundamentalsQueryOf[targets[i]], <<Stock>>, sql).params
    BY <1>1, <1>5
  <2> HIDE DEF op
  <2> QED
    BY <1>4, <2>1, StockQuery
<1>7. ASSUME NEW i \in DOMAIN W.ops, NEW j \in DOMAIN W.ops, W.ops[i].id = W.ops[j].id
      PROVE  i = j
  <2>1. i \in 1 .. n /\ j \in 1 .. n
    BY <1>1
  <2>2. FundamentalsQueryOf[targets[i]] = FundamentalsQueryOf[targets[j]]
    BY <1>5, <1>7, <2>1
  <2>3. FundamentalsQueryOf["AAPL"] # FundamentalsQueryOf["NVDA"]
    BY DEF FundamentalsQueryOf
  <2>4. targets[i] = targets[j]
    BY <1>3, <2>1, <2>2, <2>3
  <2> QED
    BY <2>1, <2>4 DEF Distinct
<1>8. n \in Producer(W, W.ops[n].id)
  BY <1>1 DEF Producer
<1>9. WellWired(W)
  BY <1>1, <1>6, <1>7, <1>8 DEF WellWired
<1>10. Literal(W, targets)
  BY <1>1, <1>2, <1>5 DEF Literal
<1> QED
  BY <1>9, <1>10 DEF W

-----------------------------------------------------------------------------
(* The trading DAG, operation by operation. *)
Row(j, id, yields) == TradingOps[j].id = id /\ TradingOps[j].yields = yields

LEMMA TradingOpsAre ==
    /\ DOMAIN Trading.ops = 1 .. 11
    /\ Trading.outputs = {<<"Fund Manager Verdict", "final_recommendation">>}
    /\ Trading.ops = TradingOps
<1>1. Trading.ops = TradingOps
      /\ Trading.outputs = {<<"Fund Manager Verdict", "final_recommendation">>}
  BY DEF Trading, Dag
<1>2. DOMAIN TradingOps = 1 .. 11
  BY DEF TradingOps
<1> QED
  BY <1>1, <1>2

LEMMA TradingOpAt ==
    /\ TradingOps[1] = DatePlanner /\ TradingOps[2] = FundamentalsQuery
    /\ TradingOps[3] = MarketQuery /\ TradingOps[4] = NewsQuery
    /\ TradingOps[5] = BullResearcher /\ TradingOps[6] = BearResearcher
    /\ TradingOps[7] = BullRebuttal /\ TradingOps[8] = BearRebuttal
    /\ TradingOps[9] = RiskIdentifier /\ TradingOps[10] = RiskSynthesis
    /\ TradingOps[11] = FundManager
BY DEF TradingOps

LEMMA TradingRows ==
    /\ Row(1, Planner, {"start_date"})
    /\ Row(2, "Fundamentals Query", IncomeColumns)
    /\ Row(3, "Market Query", MarketColumns)
    /\ Row(4, "News Query", NewsColumns)
    /\ Row(5, "Bull Researcher", Thesis)
    /\ Row(6, "Bear Researcher", Risks)
    /\ Row(7, "Bull Rebuttal", Thesis)
    /\ Row(8, "Bear Rebuttal", Risks)
    /\ Row(9, "Risk Identifier", {"risks", "severity"})
    /\ Row(10, "Risk Synthesis", {"balanced_view", "expected_value", "guardrails"})
    /\ Row(11, "Fund Manager Verdict", {"verdict", "rationale"})
<1>1. Row(1, Planner, {"start_date"})
  <2>1. DatePlanner.id = Planner /\ DatePlanner.yields = {"start_date"}
    BY DEF DatePlanner, LlmOp
  <2> QED
    BY <2>1, TradingOpAt DEF Row
<1>2. Row(2, "Fundamentals Query", IncomeColumns)
  <2>1. FundamentalsQuery.id = "Fundamentals Query" /\ FundamentalsQuery.yields = IncomeColumns
    BY DEF FundamentalsQuery, SqlOp, IncomeDated, Sql
  <2> QED
    BY <2>1, TradingOpAt DEF Row
<1>3. Row(3, "Market Query", MarketColumns)
  <2>1. MarketQuery.id = "Market Query" /\ MarketQuery.yields = MarketColumns
    BY DEF MarketQuery, SqlOp, MarketDated, Sql
  <2> QED
    BY <2>1, TradingOpAt DEF Row
<1>4. Row(4, "News Query", NewsColumns)
  <2>1. NewsQuery.id = "News Query" /\ NewsQuery.yields = NewsColumns
    BY DEF NewsQuery, SqlOp, TemplateOf, Sql
  <2> QED
    BY <2>1, TradingOpAt DEF Row
<1>5. Row(5, "Bull Researcher", Thesis)
  <2>1. BullResearcher.id = "Bull Researcher" /\ BullResearcher.yields = Thesis
    BY DEF BullResearcher, LlmOp
  <2> QED
    BY <2>1, TradingOpAt DEF Row
<1>6. Row(6, "Bear Researcher", Risks)
  <2>1. BearResearcher.id = "Bear Researcher" /\ BearResearcher.yields = Risks
    BY DEF BearResearcher, LlmOp
  <2> QED
    BY <2>1, TradingOpAt DEF Row
<1>7. Row(7, "Bull Rebuttal", Thesis)
  <2>1. BullRebuttal.id = "Bull Rebuttal" /\ BullRebuttal.yields = Thesis
    BY DEF BullRebuttal, LlmOp
  <2> QED
    BY <2>1, TradingOpAt DEF Row
<1>8. Row(8, "Bear Rebuttal", Risks)
  <2>1. BearRebuttal.id = "Bear Rebuttal" /\ BearRebuttal.yields = Risks
    BY DEF BearRebuttal, LlmOp
  <2> QED
    BY <2>1, TradingOpAt DEF Row
<1>9. Row(9, "Risk Identifier", {"risks", "severity"})
  <2>1. RiskIdentifier.id = "Risk Identifier" /\ RiskIdentifier.yields = {"risks", "severity"}
    BY DEF RiskIdentifier, LlmOp
  <2> QED
    BY <2>1, TradingOpAt DEF Row
<1>10. Row(10, "Risk Synthesis", {"balanced_view", "expected_value", "guardrails"})
  <2>1. /\ RiskSynthesis.id = "Risk Synthesis"
        /\ RiskSynthesis.yields = {"balanced_view", "expected_value", "guardrails"}
    BY DEF RiskSynthesis, LlmOp
  <2> QED
    BY <2>1, TradingOpAt DEF Row
<1>11. Row(11, "Fund Manager Verdict", {"verdict", "rationale"})
  <2>1. FundManager.id = "Fund Manager Verdict" /\ FundManager.yields = {"verdict", "rationale"}
    BY DEF FundManager, LlmOp
  <2> QED
    BY <2>1, TradingOpAt DEF Row
<1> QED
  BY <1>1, <1>2, <1>3, <1>4, <1>5, <1>6, <1>7, <1>8, <1>9, <1>10, <1>11

(* Operation i of the trading DAG comes after one that yields the field. *)
Gives(i, node, field) ==
    \E j \in 1 .. 11 :
        j < i /\ TradingOps[j].id = node /\ field \in TradingOps[j].yields

LEMMA TradingWires ==
    ASSUME NEW i \in 1 .. 11, NEW op, TradingOps[i] = op,
           {p.label : p \in op.params} = op.holes,
           \A p \in op.params :
               /\ Contains(op.inputs, p.node)
               /\ (p.node = Stock /\ p.field = Whole) \/ Gives(i, p.node, p.field),
           \A r \in op.reads : Contains(op.inputs, r[1]) /\ Gives(i, r[1], r[2]),
           \A n \in ToSet(op.inputs) \ {Stock} : \E f : Gives(i, n, f)
    PROVE  OpWired(Trading, i)
<1>1. Trading.ops[i] = op /\ Trading.ops = TradingOps /\ DOMAIN Trading.ops = 1 .. 11
  BY TradingOpsAre
<1>2. ASSUME NEW n, NEW f, Gives(i, n, f)
      PROVE  \E j \in Producer(Trading, n) : j < i /\ f \in Trading.ops[j].yields
  BY <1>1, <1>2 DEF Gives, Producer
<1>3. \A p \in op.params : Resolves(Trading, i, p.node, p.field)
  BY <1>1, <1>2 DEF Resolves
<1>4. \A r \in op.reads : Resolves(Trading, i, r[1], r[2])
  BY <1>1, <1>2 DEF Resolves
<1>5. \A n \in ToSet(op.inputs) \ {Stock} : \E j \in Producer(Trading, n) : j < i
  BY <1>2
<1> QED
  BY <1>1, <1>3, <1>4, <1>5 DEF OpWired

LEMMA RowGives ==
    ASSUME NEW i \in 1 .. 11, NEW j \in 1 .. 11, j < i,
           NEW id, NEW yields, Row(j, id, yields)
    PROVE  \A f \in yields : Gives(i, id, f)
BY DEF Row, Gives

LEMMA RowsGiven ==
    ASSUME NEW i, NEW id, NEW yields, \A f \in yields : Gives(i, id, f),
           NEW fields, fields \subseteq yields, NEW inputs, Contains(inputs, id)
    PROVE  \A r \in Rows(id, fields) : Contains(inputs, r[1]) /\ Gives(i, r[1], r[2])
BY DEF Rows

LEMMA FieldsYielded ==
    /\ {"avg_revenue", "avg_net_income", "avg_eps", "latest_report"}
          \subseteq IncomeColumns
    /\ {"recent_high", "recent_low", "recent_close_avg", "total_volume",
        "week52_high", "week52_low", "beta", "pe_ttm", "eps_growth_ttm"}
          \subseteq MarketColumns
    /\ {"headlines", "synopses", "news_count"} \subseteq NewsColumns
BY DEF IncomeColumns, MarketColumns, NewsColumns

(* What is in a list of two, three or four inputs. *)
LEMMA ContainedInFour ==
    ASSUME NEW a, NEW b, NEW c, NEW d
    PROVE  /\ Contains(<<a, b, c, d>>, a) /\ Contains(<<a, b, c, d>>, b)
           /\ Contains(<<a, b, c, d>>, c) /\ Contains(<<a, b, c, d>>, d)
           /\ ToSet(<<a, b, c, d>>) = {a, b, c, d}
<1> DEFINE s == <<a, b, c, d>>
<1>1. /\ Len(s) = 4 /\ s[1] = a /\ s[2] = b /\ s[3] = c /\ s[4] = d
      /\ DOMAIN s = 1 .. 4
  OBVIOUS
<1> HIDE DEF s
<1>2. Contains(s, a) /\ Contains(s, b) /\ Contains(s, c) /\ Contains(s, d)
  BY <1>1 DEF Contains
<1>3. ToSet(s) = {a, b, c, d}
  BY <1>1 DEF ToSet
<1> QED
  BY <1>2, <1>3 DEF s

LEMMA ContainedInThree ==
    ASSUME NEW a, NEW b, NEW c
    PROVE  /\ Contains(<<a, b, c>>, a) /\ Contains(<<a, b, c>>, b)
           /\ Contains(<<a, b, c>>, c)
           /\ ToSet(<<a, b, c>>) = {a, b, c}
<1> DEFINE s == <<a, b, c>>
<1>1. Len(s) = 3 /\ s[1] = a /\ s[2] = b /\ s[3] = c /\ DOMAIN s = 1 .. 3
  OBVIOUS
<1> HIDE DEF s
<1>2. Contains(s, a) /\ Contains(s, b) /\ Contains(s, c)
  BY <1>1 DEF Contains
<1>3. ToSet(s) = {a, b, c}
  BY <1>1 DEF ToSet
<1> QED
  BY <1>2, <1>3 DEF s

LEMMA ContainedInTwo ==
    ASSUME NEW a, NEW b
    PROVE  /\ Contains(<<a, b>>, a) /\ Contains(<<a, b>>, b)
           /\ ToSet(<<a, b>>) = {a, b}
BY DEF Contains, ToSet

LEMMA QueriesHold ==
    /\ Contains(Queries, Stock) /\ Contains(Queries, "Fundamentals Query")
    /\ Contains(Queries, "Market Query") /\ Contains(Queries, "News Query")
    /\ ToSet(Queries) = {Stock, "Fundamentals Query", "Market Query", "News Query"}
BY ContainedInFour DEF Queries

LEMMA FiguresGiven ==
    ASSUME NEW i \in {5, 6}
    PROVE  /\ \A r \in Figures : Contains(Queries, r[1]) /\ Gives(i, r[1], r[2])
           /\ \A n \in ToSet(Queries) \ {Stock} : \E f : Gives(i, n, f)
<1>1. i \in 1 .. 11 /\ 2 \in 1 .. 11 /\ 3 \in 1 .. 11 /\ 4 \in 1 .. 11
      /\ 2 < i /\ 3 < i /\ 4 < i
  OBVIOUS
<1>2. /\ \A f \in IncomeColumns : Gives(i, "Fundamentals Query", f)
      /\ \A f \in MarketColumns : Gives(i, "Market Query", f)
      /\ \A f \in NewsColumns : Gives(i, "News Query", f)
  BY <1>1, TradingRows, RowGives, Zenon
<1>3. \A r \in Rows("Fundamentals Query",
                     {"avg_revenue", "avg_net_income", "avg_eps", "latest_report"}) :
         Contains(Queries, r[1]) /\ Gives(i, r[1], r[2])
  BY <1>2, FieldsYielded, QueriesHold, RowsGiven, Zenon
<1>4. \A r \in Rows("Market Query",
                     {"recent_high", "recent_low", "recent_close_avg", "total_volume",
                      "week52_high", "week52_low", "beta", "pe_ttm", "eps_growth_ttm"}) :
         Contains(Queries, r[1]) /\ Gives(i, r[1], r[2])
  BY <1>2, FieldsYielded, QueriesHold, RowsGiven, Zenon
<1>5. \A r \in Rows("News Query", {"headlines", "synopses", "news_count"}) :
         Contains(Queries, r[1]) /\ Gives(i, r[1], r[2])
  BY <1>2, FieldsYielded, QueriesHold, RowsGiven, Zenon
<1>6. \A n \in ToSet(Queries) \ {Stock} : \E f : Gives(i, n, f)
  <2>1. /\ "beta" \in MarketColumns /\ "symbol" \in IncomeColumns
        /\ "symbol" \in NewsColumns
    BY DEF MarketColumns, IncomeColumns, NewsColumns
  <2> QED
    BY <1>2, <2>1, QueriesHold, Zenon
<1> QED
  BY <1>3, <1>4, <1>5, <1>6 DEF Figures

(* A prompt is wired when what it reads of its inputs is. *)
LEMMA PromptWired ==
    ASSUME NEW i \in 1 .. 11, NEW id, NEW inputs, NEW reads, NEW yields,
           TradingOps[i] = LlmOp(id, inputs, reads, yields),
           Contains(inputs, Stock),
           \A r \in reads : Contains(inputs, r[1]) /\ Gives(i, r[1], r[2]),
           \A n \in ToSet(inputs) \ {Stock} : \E f : Gives(i, n, f)
    PROVE  OpWired(Trading, i)
<1> DEFINE op == LlmOp(id, inputs, reads, yields)
<1>1. /\ op.inputs = inputs /\ op.reads = reads /\ op.holes = {"ref0"}
      /\ op.params = {Node("ref0", Stock, Whole)}
  BY DEF LlmOp
<1>2. /\ Node("ref0", Stock, Whole).label = "ref0"
      /\ Node("ref0", Stock, Whole).node = Stock
      /\ Node("ref0", Stock, Whole).field = Whole
  BY DEF Node
<1>3. TradingOps[i] = op
  OBVIOUS
<1> HIDE DEF op
<1>4. {p.label : p \in op.params} = op.holes
  BY <1>1, <1>2
<1>5. \A p \in op.params :
         Contains(op.inputs, p.node) /\ p.node = Stock /\ p.field = Whole
  BY <1>1, <1>2
<1> QED
  BY <1>1, <1>3, <1>4, <1>5, TradingWires

LEMMA PlannerWired == OpWired(Trading, 1)
<1>1. /\ DatePlanner.params = {} /\ DatePlanner.holes = {}
      /\ DatePlanner.reads = {} /\ DatePlanner.inputs = <<Stock>>
  BY DEF DatePlanner, LlmOp
<1>2. TradingOps[1] = DatePlanner /\ 1 \in 1 .. 11
  BY TradingOpAt
<1> QED
  BY <1>1, <1>2, OfStock, TradingWires

(* A query that is dated by the planner. *)
LEMMA DatedWired ==
    ASSUME NEW i \in {2, 3}, NEW id, NEW columns,
           TradingOps[i] = SqlOp(id, <<Stock, Planner>>, Sql({"symbol", "start_date"}, columns))
    PROVE  OpWired(Trading, i)
<1> DEFINE op == SqlOp(id, <<Stock, Planner>>, Sql({"symbol", "start_date"}, columns))
           stock == Node("symbol", Stock, Whole)
           start == Node("start_date", Planner, "start_date")
<1>1. /\ op.inputs = <<Stock, Planner>> /\ op.reads = {}
      /\ op.holes = {"symbol", "start_date"}
  BY DEF SqlOp, Sql
<1>2. op.params = {stock, start}
  <2> DEFINE holes == {"symbol", "start_date"}
  <2>1. op.params = {Node("symbol", <<Stock, Planner>>[1], Whole) :
                        h \in {x \in holes : x = "symbol" /\ <<Stock, Planner>> # <<>>}}
                    \cup {start : h \in holes \cap {"start_date"}}
    BY DEF SqlOp, Sql
  <2>2. /\ <<Stock, Planner>>[1] = Stock
        /\ {x \in holes : x = "symbol" /\ <<Stock, Planner>> # <<>>} = {"symbol"}
        /\ holes \cap {"start_date"} = {"start_date"}
    OBVIOUS
  <2> HIDE DEF start, holes
  <2>3. op.params = {stock : h \in {"symbol"}} \cup {start : h \in {"start_date"}}
    BY <2>1, <2>2
  <2> HIDE DEF stock, op
  <2> QED
    BY <2>3
<1>3. /\ stock.label = "symbol" /\ stock.node = Stock /\ stock.field = Whole
      /\ start.label = "start_date" /\ start.node = Planner
      /\ start.field = "start_date"
  BY DEF Node
<1>4. TradingOps[i] = op /\ i \in 1 .. 11 /\ 1 \in 1 .. 11 /\ 1 < i
  OBVIOUS
<1> HIDE DEF op, stock, start
<1>5. {p.label : p \in op.params} = op.holes
  BY <1>1, <1>2, <1>3
<1>6. Gives(i, Planner, "start_date")
  BY <1>4, TradingRows, RowGives, Zenon
<1>7. /\ Contains(<<Stock, Planner>>, Stock) /\ Contains(<<Stock, Planner>>, Planner)
      /\ ToSet(<<Stock, Planner>>) = {Stock, Planner}
  BY ContainedInTwo
<1>8. \A p \in op.params :
         /\ Contains(op.inputs, p.node)
         /\ (p.node = Stock /\ p.field = Whole) \/ Gives(i, p.node, p.field)
  BY <1>1, <1>2, <1>3, <1>6, <1>7
<1>9. \A n \in ToSet(op.inputs) \ {Stock} : \E f : Gives(i, n, f)
  BY <1>1, <1>6, <1>7
<1> QED
  BY <1>1, <1>4, <1>5, <1>8, <1>9, TradingWires

LEMMA QueriesWired == OpWired(Trading, 2) /\ OpWired(Trading, 3) /\ OpWired(Trading, 4)
<1>1. OpWired(Trading, 2)
  BY TradingOpAt, DatedWired DEF FundamentalsQuery, IncomeDated
<1>2. OpWired(Trading, 3)
  BY TradingOpAt, DatedWired DEF MarketQuery, MarketDated
<1>3. OpWired(Trading, 4)
  <2>1. TemplateOf.news.holes = {"symbol"}
    BY DEF TemplateOf, Sql
  <2>2. /\ NewsQuery.inputs = <<Stock>> /\ NewsQuery.holes = TemplateOf.news.holes
        /\ NewsQuery.reads = {}
    BY DEF NewsQuery, SqlOp
  <2>3. NewsQuery.params = SqlOp("News Query", <<Stock>>, TemplateOf.news).params
    BY DEF NewsQuery
  <2>4. Trading.ops[4] = NewsQuery
    BY TradingOpAt, TradingOpsAre, Zenon
  <2>5. 4 \in 1 .. 11 /\ DOMAIN Trading.ops = 1 .. 11
    <3>1. 4 \in 1 .. 11
      OBVIOUS
    <3> QED
      BY <3>1, TradingOpsAre, Zenon
  <2>6. /\ 4 \in DOMAIN Trading.ops /\ TemplateOf.news.holes \subseteq {"symbol"}
    BY <2>1, <2>5
  <2> QED
    BY <2>2, <2>3, <2>4, <2>6, StockQuery, Zenon
<1> QED
  BY <1>1, <1>2, <1>3

LEMMA ResearchersWired == OpWired(Trading, 5) /\ OpWired(Trading, 6)
<1>1. 5 \in 1 .. 11 /\ 6 \in 1 .. 11 /\ 5 \in {5, 6} /\ 6 \in {5, 6}
  OBVIOUS
<1>2. OpWired(Trading, 5)
  BY <1>1, TradingOpAt, FiguresGiven, QueriesHold, PromptWired, Zenon DEF BullResearcher
<1>3. OpWired(Trading, 6)
  BY <1>1, TradingOpAt, FiguresGiven, QueriesHold, PromptWired, Zenon DEF BearResearcher
<1> QED
  BY <1>2, <1>3

LEMMA RebuttalsWired == OpWired(Trading, 7) /\ OpWired(Trading, 8)
<1>1. /\ Contains(Researchers, Stock) /\ Contains(Researchers, "Bull Researcher")
      /\ Contains(Researchers, "Bear Researcher")
      /\ ToSet(Researchers) = {Stock, "Bull Researcher", "Bear Researcher"}
  BY ContainedInThree DEF Researchers
<1>2. ASSUME NEW i \in {7, 8}
      PROVE  /\ \A r \in Researched : Contains(Researchers, r[1]) /\ Gives(i, r[1], r[2])
             /\ \A n \in ToSet(Researchers) \ {Stock} : \E f : Gives(i, n, f)
  <2>1. i \in 1 .. 11 /\ 5 \in 1 .. 11 /\ 6 \in 1 .. 11 /\ 5 < i /\ 6 < i
    OBVIOUS
  <2>2. /\ \A f \in Thesis : Gives(i, "Bull Researcher", f)
        /\ \A f \in Risks : Gives(i, "Bear Researcher", f)
    BY <2>1, TradingRows, RowGives, Zenon
  <2>3. /\ \A r \in Rows("Bull Researcher", Thesis) :
              Contains(Researchers, r[1]) /\ Gives(i, r[1], r[2])
        /\ \A r \in Rows("Bear Researcher", Risks) :
              Contains(Researchers, r[1]) /\ Gives(i, r[1], r[2])
    BY <1>1, <2>2, RowsGiven, Zenon
  <2>4. "thesis" \in Thesis /\ "thesis" \in Risks
    BY DEF Thesis, Risks
  <2>5. \A n \in ToSet(Researchers) \ {Stock} : \E f : Gives(i, n, f)
    BY <1>1, <2>2, <2>4, Zenon
  <2> QED
    BY <2>3, <2>5 DEF Researched
<1>3. 7 \in 1 .. 11 /\ 8 \in 1 .. 11 /\ 7 \in {7, 8} /\ 8 \in {7, 8}
  OBVIOUS
<1>4. OpWired(Trading, 7)
  BY <1>1, <1>2, <1>3, TradingOpAt, PromptWired, Zenon DEF BullRebuttal
<1>5. OpWired(Trading, 8)
  BY <1>1, <1>2, <1>3, TradingOpAt, PromptWired, Zenon DEF BearRebuttal
<1> QED
  BY <1>4, <1>5

LEMMA RebuttalFields ==
    /\ {"thesis", "catalysts"} \subseteq Thesis /\ {"thesis", "confidence"} \subseteq Thesis
    /\ {"thesis", "risks"} \subseteq Risks /\ {"thesis", "confidence"} \subseteq Risks
    /\ "thesis" \in Thesis /\ "thesis" \in Risks
BY DEF Thesis, Risks

LEMMA RebuttalsGiven ==
    ASSUME NEW i \in {9, 10}
    PROVE  /\ \A f \in Thesis : Gives(i, "Bull Rebuttal", f)
           /\ \A f \in Risks : Gives(i, "Bear Rebuttal", f)
<1>1. i \in 1 .. 11 /\ 7 \in 1 .. 11 /\ 8 \in 1 .. 11 /\ 7 < i /\ 8 < i
  OBVIOUS
<1> QED
  BY <1>1, TradingRows, RowGives, Zenon

LEMMA IdentifierWired == OpWired(Trading, 9)
<1> DEFINE inputs == <<Stock, "Bull Rebuttal", "Bear Rebuttal">>
           bull == Rows("Bull Rebuttal", {"thesis", "catalysts"})
           bear == Rows("Bear Rebuttal", {"thesis", "risks"})
<1>1. /\ Contains(inputs, Stock) /\ Contains(inputs, "Bull Rebuttal")
      /\ Contains(inputs, "Bear Rebuttal")
      /\ ToSet(inputs) = {Stock, "Bull Rebuttal", "Bear Rebuttal"}
  BY ContainedInThree
<1>2. /\ \A f \in Thesis : Gives(9, "Bull Rebuttal", f)
      /\ \A f \in Risks : Gives(9, "Bear Rebuttal", f)
  BY RebuttalsGiven
<1>3. TradingOps[9] = LlmOp("Risk Identifier", inputs, bull \cup bear, {"risks", "severity"})
  BY TradingOpAt, Zenon DEF RiskIdentifier
<1> HIDE DEF inputs
<1>4. \A r \in bull : Contains(inputs, r[1]) /\ Gives(9, r[1], r[2])
  BY <1>1, <1>2, RebuttalFields, RowsGiven, Zenon
<1>5. \A r \in bear : Contains(inputs, r[1]) /\ Gives(9, r[1], r[2])
  BY <1>1, <1>2, RebuttalFields, RowsGiven, Zenon
<1>6. \A n \in ToSet(inputs) \ {Stock} : \E f : Gives(9, n, f)
  BY <1>1, <1>2, RebuttalFields, Zenon
<1> HIDE DEF bull, bear
<1>7. \A r \in bull \cup bear : Contains(inputs, r[1]) /\ Gives(9, r[1], r[2])
  BY <1>4, <1>5
<1>8. 9 \in 1 .. 11
  OBVIOUS
<1> QED
  BY <1>1, <1>3, <1>6, <1>7, <1>8, PromptWired, Zenon

LEMMA SynthesisWired == OpWired(Trading, 10)
<1> DEFINE inputs == <<Stock, "Bull Rebuttal", "Bear Rebuttal", "Risk Identifier">>
           bull == Rows("Bull Rebuttal", {"thesis", "confidence"})
           bear == Rows("Bear Rebuttal", {"thesis", "confidence"})
           risk == Rows("Risk Identifier", {"risks", "severity"})
           yields == {"balanced_view", "expected_value", "guardrails"}
<1>1. /\ Contains(inputs, Stock) /\ Contains(inputs, "Bull Rebuttal")
      /\ Contains(inputs, "Bear Rebuttal") /\ Contains(inputs, "Risk Identifier")
      /\ ToSet(inputs) = {Stock, "Bull Rebuttal", "Bear Rebuttal", "Risk Identifier"}
  BY ContainedInFour
<1>2. /\ \A f \in Thesis : Gives(10, "Bull Rebuttal", f)
      /\ \A f \in Risks : Gives(10, "Bear Rebuttal", f)
  BY RebuttalsGiven
<1>3. /\ 10 \in 1 .. 11 /\ 9 \in 1 .. 11 /\ 9 < 10
      /\ "risks" \in {"risks", "severity"}
      /\ {"risks", "severity"} \subseteq {"risks", "severity"}
  OBVIOUS
<1>4. \A f \in {"risks", "severity"} : Gives(10, "Risk Identifier", f)
  BY <1>3, TradingRows, RowGives, Zenon
<1>5. TradingOps[10] = LlmOp("Risk Synthesis", inputs, bull \cup bear \cup risk, yields)
  BY TradingOpAt, Zenon DEF RiskSynthesis
<1> HIDE DEF inputs, yields
<1>6. \A r \in bull : Contains(inputs, r[1]) /\ Gives(10, r[1], r[2])
  BY <1>1, <1>2, RebuttalFields, RowsGiven, Zenon
<1>7. \A r \in bear : Contains(inputs, r[1]) /\ Gives(10, r[1], r[2])
  BY <1>1, <1>2, RebuttalFields, RowsGiven, Zenon
<1>8. \A r \in risk : Contains(inputs, r[1]) /\ Gives(10, r[1], r[2])
  BY <1>1, <1>3, <1>4, RowsGiven, Zenon
<1>9. \A n \in ToSet(inputs) \ {Stock} : \E f : Gives(10, n, f)
  BY <1>1, <1>2, <1>3, <1>4, RebuttalFields, Zenon
<1> HIDE DEF bull, bear, risk
<1>10. \A r \in bull \cup bear \cup risk : Contains(inputs, r[1]) /\ Gives(10, r[1], r[2])
  BY <1>6, <1>7, <1>8
<1> QED
  BY <1>1, <1>3, <1>5, <1>9, <1>10, PromptWired, Zenon

LEMMA ManagerWired == OpWired(Trading, 11)
<1> DEFINE inputs == <<Stock, "Risk Synthesis">>
           fields == {"balanced_view", "expected_value", "guardrails"}
<1>1. /\ Contains(inputs, Stock) /\ Contains(inputs, "Risk Synthesis")
      /\ ToSet(inputs) = {Stock, "Risk Synthesis"}
  BY ContainedInTwo
<1>2. /\ 11 \in 1 .. 11 /\ 10 \in 1 .. 11 /\ 10 < 11
      /\ "guardrails" \in fields /\ fields \subseteq fields
  OBVIOUS
<1>3. \A f \in fields : Gives(11, "Risk Synthesis", f)
  BY <1>2, TradingRows, RowGives, Zenon
<1>4. TradingOps[11] = LlmOp("Fund Manager Verdict", inputs,
                             Rows("Risk Synthesis", fields), {"verdict", "rationale"})
  BY TradingOpAt, Zenon DEF FundManager
<1> HIDE DEF inputs, fields
<1>5. \A r \in Rows("Risk Synthesis", fields) :
         Contains(inputs, r[1]) /\ Gives(11, r[1], r[2])
  BY <1>1, <1>2, <1>3, RowsGiven, Zenon
<1>6. \A n \in ToSet(inputs) \ {Stock} : \E f : Gives(11, n, f)
  BY <1>1, <1>2, <1>3, Zenon
<1> QED
  BY <1>1, <1>2, <1>4, <1>5, <1>6, PromptWired, Zenon

LEMMA TradingNamesApart ==
    \A i, j \in 1 .. 11 : TradingOps[i].id = TradingOps[j].id => i = j
<1> DEFINE id(i) == TradingOps[i].id
<1>1. /\ id(1) = Planner /\ id(2) = "Fundamentals Query" /\ id(3) = "Market Query"
      /\ id(4) = "News Query" /\ id(5) = "Bull Researcher"
      /\ id(6) = "Bear Researcher" /\ id(7) = "Bull Rebuttal"
      /\ id(8) = "Bear Rebuttal" /\ id(9) = "Risk Identifier"
      /\ id(10) = "Risk Synthesis" /\ id(11) = "Fund Manager Verdict"
  BY TradingRows, Zenon DEF Row
<1> HIDE DEF id
<1>2. \A i, j \in 1 .. 11 : id(i) = id(j) => i = j
  <2> SUFFICES ASSUME NEW i \in 1 .. 11, NEW j \in 1 .. 11, id(i) = id(j) PROVE i = j
    OBVIOUS
  <2>1. \A k \in 1 .. 11 : k = 1 \/ k = 2 \/ k = 3 \/ k = 4 \/ k = 5 \/ k = 6 \/ k = 7
                            \/ k = 8 \/ k = 9 \/ k = 10 \/ k = 11
    OBVIOUS
  <2>2. CASE i \in {1, 2, 3, 4, 5, 6}
    BY <1>1, <2>1, <2>2 DEF Planner
  <2>3. CASE i \in {7, 8, 9, 10, 11}
    BY <1>1, <2>1, <2>3 DEF Planner
  <2> QED
    BY <2>1, <2>2, <2>3
<1> QED
  BY <1>2 DEF id

LEMMA TradingWired == WellWired(Trading)
<1>1. \A i \in 1 .. 11 : OpWired(Trading, i)
  BY PlannerWired, QueriesWired, ResearchersWired, RebuttalsWired, IdentifierWired,
     SynthesisWired, ManagerWired
<1>2. 11 \in Producer(Trading, "Fund Manager Verdict")
  <2>1. 11 \in 1 .. 11
    OBVIOUS
  <2> QED
    BY <2>1, TradingOpsAre, TradingRows, Zenon DEF Producer, Row
<1>3. \A out \in Trading.outputs : out[1] = "Fund Manager Verdict"
  <2>1. Trading.outputs = {<<"Fund Manager Verdict", "final_recommendation">>}
    BY TradingOpsAre, Zenon
  <2>2. <<"Fund Manager Verdict", "final_recommendation">>[1] = "Fund Manager Verdict"
    OBVIOUS
  <2> QED
    BY <2>1, <2>2, Zenon
<1>4. \A out \in Trading.outputs : Producer(Trading, out[1]) # {}
  BY <1>2, <1>3, Zenon
<1> QED
  BY <1>1, <1>4, TradingOpsAre, TradingNamesApart, Zenon DEF WellWired

(* Only a comparison has symbols written into its SQL. *)
Unwritten(W) == \A i \in DOMAIN W.ops : W.ops[i].literal = {}

LEMMA TradingUnwritten == Unwritten(Trading)
<1>1. /\ DatePlanner.literal = {} /\ BullResearcher.literal = {}
      /\ BearResearcher.literal = {} /\ BullRebuttal.literal = {}
      /\ BearRebuttal.literal = {} /\ RiskIdentifier.literal = {}
      /\ RiskSynthesis.literal = {} /\ FundManager.literal = {}
  <2>1. DatePlanner.literal = {}
    BY DEF DatePlanner, LlmOp
  <2>2. BullResearcher.literal = {} /\ BearResearcher.literal = {}
    BY DEF BullResearcher, BearResearcher, LlmOp
  <2>3. BullRebuttal.literal = {} /\ BearRebuttal.literal = {}
    BY DEF BullRebuttal, BearRebuttal, LlmOp
  <2>4. /\ RiskIdentifier.literal = {} /\ RiskSynthesis.literal = {}
        /\ FundManager.literal = {}
    BY DEF RiskIdentifier, RiskSynthesis, FundManager, LlmOp
  <2> QED
    BY <2>1, <2>2, <2>3, <2>4
<1>2. /\ FundamentalsQuery.literal = {} /\ MarketQuery.literal = {}
      /\ NewsQuery.literal = {}
  BY DEF FundamentalsQuery, MarketQuery, NewsQuery, SqlOp
<1>3. \A i \in 1 .. 11 : i = 1 \/ i = 2 \/ i = 3 \/ i = 4 \/ i = 5 \/ i = 6 \/ i = 7
                         \/ i = 8 \/ i = 9 \/ i = 10 \/ i = 11
  OBVIOUS
<1>4. \A i \in 1 .. 11 : TradingOps[i].literal = {}
  BY <1>1, <1>2, <1>3, TradingOpAt, Zenon
<1> QED
  BY <1>4, TradingOpsAre, Zenon DEF Unwritten

LEMMA OneUnwritten ==
    ASSUME NEW W, NEW id, NEW inputs, NEW sql, W.ops = <<SqlOp(id, inputs, sql)>>
    PROVE  Unwritten(W)
<1>1. SqlOp(id, inputs, sql).literal = {}
  BY DEF SqlOp
<1>2. DOMAIN W.ops = {1} /\ W.ops[1] = SqlOp(id, inputs, sql)
  OBVIOUS
<1> QED
  BY <1>1, <1>2 DEF Unwritten

LEMMA QueryUnwritten ==
    Unwritten(Universe) /\ \A intent : Unwritten(Single(intent))
<1>1. Unwritten(Universe)
  <2>1. Universe.ops = <<SqlOp("Profile Query", <<>>, Sql({}, ProfileColumns))>>
    BY DEF Universe, Dag
  <2> QED
    BY <2>1, OneUnwritten, Zenon
<1>2. ASSUME NEW intent PROVE Unwritten(Single(intent))
  <2>1. Single(intent).ops = <<SqlOp(QueryOf[intent], <<Stock>>, TemplateOf[intent])>>
    BY DEF Single, Dag
  <2> QED
    BY <2>1, OneUnwritten, Zenon
<1> QED
  BY <1>1, <1>2

-----------------------------------------------------------------------------
LEMMA IntentKnown ==
    ASSUME NEW r \in Request
    PROVE  ClassifyIntent(r) \in Intents
<1>1. CASE r.keywords = {}
  BY <1>1 DEF ClassifyIntent, Intents
<1>2. CASE r.keywords # {}
  <2> DEFINE matches == {i \in DOMAIN IntentRules : IntentRules[i] \in r.keywords}
  <2>1. /\ DOMAIN IntentRules = 1 .. 6
        /\ {IntentRules[i] : i \in 1 .. 6} = Intents
    BY DEF IntentRules, Intents
  <2>2. r.keywords \subseteq Intents
    BY DEF Request
  <2>3. matches # {} /\ matches \subseteq 1 .. 6
    BY <1>2, <2>1, <2>2
  <2>4. PICK first \in matches : \A i \in matches : first <= i
    BY <2>3
  <2>5. (CHOOSE i \in matches : \A j \in matches : i <= j) \in matches
    BY <2>4
  <2>6. ClassifyIntent(r) = IntentRules[CHOOSE i \in matches : \A j \in matches : i <= j]
    BY <1>2 DEF ClassifyIntent
  <2> HIDE DEF matches
  <2> QED
    BY <2>1, <2>3, <2>5, <2>6
<1> QED
  BY <1>1, <1>2

(* Whatever is asked, the DAG that is rendered can be run: its operations   *)
(* have names of their own and come after what they read, every placeholder *)
(* is bound, every field that is aggregated is yielded by the input it is   *)
(* taken from, and the output is an operation (baseline.py:508-577).        *)
THEOREM EveryDagRuns ==
    ASSUME NEW r \in Request
    PROVE  WellWired(GenerateWorkflow(r))
<1>1. CASE ClassifyIntent(r) = "trading"
  <2>1. GenerateWorkflow(r) = Trading
    BY <1>1 DEF GenerateWorkflow
  <2> QED
    BY <2>1, TradingWired, Zenon
<1>2. CASE ClassifyIntent(r) = "compare"
  <2>1. GenerateWorkflow(r) = Compare(Targets(r))
    BY <1>2 DEF GenerateWorkflow
  <2> QED
    BY <2>1, TargetsDistinct, CompareWired
<1>3. CASE ClassifyIntent(r) \notin {"trading", "compare"}
  <2>1. GenerateWorkflow(r) \in {Universe, Single(ClassifyIntent(r))}
    BY <1>3 DEF GenerateWorkflow
  <2>2. ClassifyIntent(r) \in {"profile", "news", "fundamentals", "market"}
    BY <1>3, IntentKnown DEF Intents
  <2> QED
    BY <2>1, <2>2, UniverseWired, SingleWired
<1> QED
  BY <1>1, <1>2, <1>3

(* Symbols are written into the SQL of a comparison only, and they are the  *)
(* targets, each once and in their order.                                   *)
LEMMA WrittenAreTargets ==
    ASSUME NEW r \in Request
    PROVE  IF ClassifyIntent(r) = "compare"
           THEN Literal(GenerateWorkflow(r), Targets(r))
           ELSE Unwritten(GenerateWorkflow(r))
<1>1. CASE ClassifyIntent(r) = "compare"
  <2>1. GenerateWorkflow(r) = Compare(Targets(r))
    BY <1>1 DEF GenerateWorkflow
  <2> QED
    BY <1>1, <2>1, TargetsDistinct, CompareWired
<1>2. CASE ClassifyIntent(r) # "compare"
  <2>1. GenerateWorkflow(r) \in {Trading, Universe, Single(ClassifyIntent(r))}
    BY <1>2 DEF GenerateWorkflow
  <2> QED
    BY <1>2, <2>1, TradingUnwritten, QueryUnwritten, Zenon
<1> QED
  BY <1>1, <1>2

-----------------------------------------------------------------------------
(* The score *)

(* One, in ten-thousandths. *)
FullScore == 10000

(* In a union this small, one element more or less still shows. *)
Small(S) == IsFiniteSet(S) /\ Cardinality(S) < FullScore

LEMMA JaccardFacts ==
    ASSUME NEW a, NEW b, Small(a \cup b)
    PROVE  \E n, d \in Nat :
               /\ Jaccard(a, b) = <<n, d>>
               /\ n <= d /\ d > 0 /\ d < FullScore
               /\ n = d <=> a = b
<1>1. CASE a \cup b = {}
  <2>1. a = b /\ Jaccard(a, b) = <<1, 1>>
    BY <1>1 DEF Jaccard
  <2> QED
    BY <2>1 DEF FullScore
<1>2. CASE a \cup b # {}
  <2> DEFINE n == Cardinality(a \cap b)
             d == Cardinality(a \cup b)
  <2>1. Jaccard(a, b) = <<n, d>>
    BY <1>2 DEF Jaccard
  <2>2. IsFiniteSet(a \cup b) /\ d \in Nat /\ d < FullScore
    BY FS_CardinalityType DEF Small
  <2>3. d # 0
    BY <1>2, <2>2, FS_EmptySet
  <2>4. a \cap b \subseteq a \cup b
    OBVIOUS
  <2>5. IsFiniteSet(a \cap b) /\ n <= d /\ (n = d => a \cap b = a \cup b)
    BY <2>2, <2>4, FS_Subset
  <2>6. n \in Nat
    BY <2>5, FS_CardinalityType
  <2>7. a \cap b = a \cup b <=> a = b
    OBVIOUS
  <2>8. n = d <=> a = b
    BY <2>5, <2>7
  <2> HIDE DEF n, d
  <2>9. d \in Nat /\ d > 0 /\ d < FullScore
    BY <2>2, <2>3
  <2> QED
    BY <2>1, <2>5, <2>6, <2>8, <2>9
<1> QED
  BY <1>1, <1>2

LEMMA Quotient ==
    ASSUME NEW a \in Nat, NEW b \in Nat, b > 0
    PROVE  a \div b \in Nat /\ b * (a \div b) <= a /\ a < b * (a \div b) + b
OBVIOUS

LEMMA QuotientAtLeast ==
    ASSUME NEW a \in Nat, NEW b \in Nat, b > 0, NEW q \in Nat
    PROVE  a \div b >= q <=> a >= b * q
<1> DEFINE d == a \div b
<1>1. d \in Nat /\ b * d <= a /\ a < b * d + b
  BY Quotient
<1> HIDE DEF d
<1>2. CASE d >= q
  <2>1. b * q <= b * d
    BY <1>1, <1>2
  <2> QED
    BY <1>1, <1>2, <2>1 DEF d
<1>3. CASE d < q
  <2>1. b * (d + 1) <= b * q
    BY <1>1, <1>3
  <2>2. b * (d + 1) = b * d + b
    BY <1>1
  <2> QED
    BY <1>1, <1>3, <2>1, <2>2 DEF d
<1> QED
  BY <1>1, <1>2, <1>3

LEMMA TimesMonotone ==
    ASSUME NEW x \in Nat, NEW y \in Nat, NEW v \in Nat
    PROVE  /\ x <= y => x * v <= y * v
           /\ x < y => x * v + v <= y * v
<1>1. x < y => (x + 1) * v <= y * v
  OBVIOUS
<1>2. (x + 1) * v = x * v + v
  OBVIOUS
<1> QED
  BY <1>1, <1>2

(* The score of a sum of two fractions over a common denominator P. *)
LEMMA RubricLinear ==
    ASSUME NEW P \in Nat, P > 0, NEW sum \in Nat, sum <= 2 * P, NEW kept \in {9, 10},
           sum = 2 * P \/ 20000 * sum + 2 * P < 40000 * P,
           NEW over, over = 2 * P, NEW a, a = sum * kept * 2000 + over
    PROVE  /\ a \div (2 * over) \in Nat /\ a \div (2 * over) <= 10000
           /\ a \div (2 * over) = 10000 <=> sum = 2 * P /\ kept = 10
<1> DEFINE full == sum = 2 * P /\ kept = 10
           b == 2 * over
           d == a \div b
<1>1. /\ a \in Nat /\ a < b * 10001 /\ b \in Nat /\ b > 0
      /\ a >= b * 10000 <=> full
  <2>1. CASE kept = 10
    <3>1. a = 20000 * sum + 2 * P
      BY <2>1
    <3> QED
      BY <2>1, <3>1
  <2>2. CASE kept = 9
    <3>1. a = 18000 * sum + 2 * P
      BY <2>2
    <3> QED
      BY <2>2, <3>1
  <2> QED
    BY <2>1, <2>2
<1> HIDE DEF full, b
<1>2. d \in Nat /\ (d >= 10000 <=> a >= b * 10000) /\ (d >= 10001 <=> a >= b * 10001)
  BY <1>1, Quotient, QuotientAtLeast
<1> HIDE DEF d
<1>3. ~(d >= 10001)
  BY <1>1, <1>2
<1>4. d \in Nat /\ d <= 10000 /\ (d = 10000 <=> d >= 10000)
  BY <1>2, <1>3
<1>5. d >= 10000 <=> full
  BY <1>1, <1>2
<1>6. d \in Nat /\ d <= 10000 /\ (d = 10000 <=> full)
  BY <1>4, <1>5
<1> QED
  BY <1>6 DEF d, b, full

(* Two fractions that are at most one. *)
LEMMA FractionsLinear ==
    ASSUME NEW P \in Nat, NEW xv \in Nat, NEW uy \in Nat,
           NEW x \in Nat, NEW y \in Nat, NEW u \in Nat, NEW v \in Nat,
           x <= y, u <= v, xv <= P, uy <= P, P <= 9999 * v, P <= 9999 * y, P > 0,
           x < y => xv + v <= P, u < v => uy + y <= P,
           x = y => xv = P, u = v => uy = P
    PROVE  /\ xv + uy \in Nat /\ xv + uy <= 2 * P
           /\ xv + uy = 2 * P <=> x = y /\ u = v
           /\ xv + uy = 2 * P \/ 20000 * (xv + uy) + 2 * P < 40000 * P
<1>1. CASE x < y
  BY <1>1
<1>2. CASE u < v
  BY <1>2
<1>3. CASE x = y /\ u = v
  BY <1>3
<1> QED
  BY <1>1, <1>2, <1>3

LEMMA CommonDenominator ==
    ASSUME NEW x \in Nat, NEW y \in Nat, NEW u \in Nat, NEW v \in Nat,
           x <= y, u <= v, y < 10000, v < 10000, y > 0, v > 0,
           NEW P, P = y * v, NEW xv, xv = x * v, NEW uy, uy = u * y
    PROVE  /\ P \in Nat /\ xv \in Nat /\ uy \in Nat /\ P > 0
           /\ xv <= P /\ uy <= P /\ P <= 9999 * v /\ P <= 9999 * y
           /\ (x < y => xv + v <= P) /\ (u < v => uy + y <= P)
           /\ (x = y => xv = P) /\ (u = v => uy = P)
<1>1. P \in Nat /\ P > 0 /\ xv \in Nat /\ uy \in Nat
  OBVIOUS
<1>2. P = v * y
  OBVIOUS
<1>3. xv <= P /\ (x < y => xv + v <= P)
  BY TimesMonotone
<1>4. uy <= v * y /\ (u < v => uy + y <= v * y)
  BY TimesMonotone
<1>5. P <= 9999 * v
  <2>1. y <= 9999
    OBVIOUS
  <2>2. y * v <= 9999 * v
    BY <2>1, TimesMonotone
  <2> QED
    BY <2>2
<1>6. v * y <= 9999 * y
  <2>1. v <= 9999
    OBVIOUS
  <2> QED
    BY <2>1, TimesMonotone
<1>7. (x = y => xv = P) /\ (u = v => uy = v * y)
  OBVIOUS
<1> QED
  BY <1>1, <1>2, <1>3, <1>4, <1>5, <1>6, <1>7

(* The score of the fractions x/y and u/v, kept whole or cut to nine tenths. *)
Marks(x, y, u, v, kept) ==
    LET over == 2 * y * v
    IN  ((x * v + u * y) * kept * 2000 + over) \div (2 * over)

Fraction(x, y) == x \in Nat /\ y \in Nat /\ x <= y /\ y > 0 /\ y < FullScore

Kept == {9, 10}

(* The full score is for two fractions that are one, kept whole. *)
OnlyFull(x, y, u, v, kept) ==
    /\ Marks(x, y, u, v, kept) \in Nat
    /\ Marks(x, y, u, v, kept) <= FullScore
    /\ Marks(x, y, u, v, kept) = FullScore <=> x = y /\ u = v /\ kept = 10

LEMMA RubricFull ==
    ASSUME NEW x, NEW y, NEW u, NEW v, NEW kept \in Kept,
           Fraction(x, y), Fraction(u, v)
    PROVE  OnlyFull(x, y, u, v, kept)
<1>. /\ x \in Nat /\ y \in Nat /\ u \in Nat /\ v \in Nat /\ kept \in {9, 10}
     /\ x <= y /\ u <= v /\ y < 10000 /\ v < 10000 /\ y > 0 /\ v > 0
  BY DEF Fraction, FullScore, Kept
<1> DEFINE P == y * v
           xv == x * v
           uy == u * y
           sum == xv + uy
           over == 2 * y * v
           a == (x * v + u * y) * kept * 2000 + over
<1>0. Marks(x, y, u, v, kept) = a \div (2 * over)
  BY DEF Marks
<1>1. over = 2 * P
  OBVIOUS
<1>2. a = sum * kept * 2000 + over
  OBVIOUS
<1>3. P = y * v /\ xv = x * v /\ uy = u * y
  OBVIOUS
<1>4. sum = xv + uy
  OBVIOUS
<1> HIDE DEF P, xv, uy, sum, over, a
<1>5. /\ P \in Nat /\ xv \in Nat /\ uy \in Nat /\ P > 0
      /\ xv <= P /\ uy <= P /\ P <= 9999 * v /\ P <= 9999 * y
      /\ (x < y => xv + v <= P) /\ (u < v => uy + y <= P)
      /\ (x = y => xv = P) /\ (u = v => uy = P)
  BY <1>3, CommonDenominator
<1>6. /\ xv + uy \in Nat /\ xv + uy <= 2 * P
      /\ xv + uy = 2 * P <=> x = y /\ u = v
      /\ xv + uy = 2 * P \/ 20000 * (xv + uy) + 2 * P < 40000 * P
  BY <1>5, FractionsLinear
<1>7. /\ sum \in Nat /\ sum <= 2 * P
      /\ sum = 2 * P <=> x = y /\ u = v
      /\ sum = 2 * P \/ 20000 * sum + 2 * P < 40000 * P
  BY <1>4, <1>6
<1>8. /\ a \div (2 * over) \in Nat /\ a \div (2 * over) <= 10000
      /\ a \div (2 * over) = 10000 <=> sum = 2 * P /\ kept = 10
  BY <1>1, <1>2, <1>5, <1>7, RubricLinear
<1> QED
  BY <1>0, <1>7, <1>8 DEF FullScore, OnlyFull

(* The rubric tells any two DAGs apart whose operations and edges number    *)
(* less than ten thousand together: the full score is reached by an exact   *)
(* match and by nothing else (scoring.py).                                  *)
THEOREM FullScoreIsExact ==
    ASSUME NEW generated, NEW truth,
           Small(Structure(generated).ops \cup Structure(truth).ops),
           Small(Structure(generated).edges \cup Structure(truth).edges)
    PROVE  /\ Score(generated, truth) \in Nat /\ Score(generated, truth) <= FullScore
           /\ Score(generated, truth) = FullScore <=> Exact(generated, truth)
<1> DEFINE g == Structure(generated)
           t == Structure(truth)
           o == Jaccard(g.ops, t.ops)
           e == Jaccard(g.edges, t.edges)
           kept == IF g.outputs = t.outputs THEN 10 ELSE 9
<1>1. kept \in {9, 10} /\ (kept = 10 <=> g.outputs = t.outputs)
  OBVIOUS
<1>2. Exact(generated, truth)
          <=> g.ops = t.ops /\ g.edges = t.edges /\ g.outputs = t.outputs
  BY DEF Exact, Structure
<1>3. Score(generated, truth) = Marks(o[1], o[2], e[1], e[2], kept)
  BY DEF Score, Marks
<1>4. \E x, y \in Nat :
          o = <<x, y>> /\ x <= y /\ y > 0 /\ y < FullScore /\ (x = y <=> g.ops = t.ops)
  BY JaccardFacts
<1>5. \E x, y \in Nat :
          e = <<x, y>> /\ x <= y /\ y > 0 /\ y < FullScore /\ (x = y <=> g.edges = t.edges)
  BY JaccardFacts
<1> HIDE DEF g, t, o, e, kept
<1>6. PICK x, y \in Nat :
        o = <<x, y>> /\ x <= y /\ y > 0 /\ y < FullScore /\ (x = y <=> g.ops = t.ops)
  BY <1>4
<1>7. PICK u, v \in Nat :
        e = <<u, v>> /\ u <= v /\ v > 0 /\ v < FullScore /\ (u = v <=> g.edges = t.edges)
  BY <1>5
<1>8. Score(generated, truth) = Marks(x, y, u, v, kept)
  BY <1>3, <1>6, <1>7
<1>9. Fraction(x, y) /\ Fraction(u, v)
  BY <1>6, <1>7 DEF Fraction
<1>10. PICK k \in Kept : k = kept
  BY <1>1 DEF Kept
<1>11. OnlyFull(x, y, u, v, k)
  BY <1>9, RubricFull, Zenon
<1>12. x = y /\ u = v /\ k = 10 <=> Exact(generated, truth)
  BY <1>1, <1>2, <1>6, <1>7, <1>10
<1> QED
  BY <1>8, <1>10, <1>11, <1>12 DEF OnlyFull
=============================================================================
