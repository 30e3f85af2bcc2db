---------------------------- MODULE QueryObjects ----------------------------
(***************************************************************************)
(* The objects a query goes through: the analyzer's expressions, the       *)
(* builder that collects what another server is to be asked                *)
(* (impl/value/queryExpression.cpp), the query itself and the merger of    *)
(* the results that come back (impl/query.cpp).  Every operation takes the  *)
(* state of an object and a value and returns the state it leaves with the *)
(* outcome of the call.  A call that fails half way keeps what it did.     *)
(***************************************************************************)
EXTENDS DeserializerDocuments, Serializer

CONSTANTS Tenths          \* the weights, in tenths

(* features: the set, the weight and the tree of each; groups: the         *)
(* conjunction of the disjunctions of a restriction; restrictions: those   *)
(* kept as they came; collected: the sums of weights.                      *)
NewObject == [stack |-> << >>, features |-> << >>, groups |-> << >>,
              restrictions |-> << >>, collected |-> << >>, results |-> << >>]

Outcome(o, c) == [object |-> o, ok |-> Ok(c)]
Refused(o)    == [object |-> o, ok |-> FALSE]
On(o, builder, value) == [Cursor(<<value>>) EXCEPT !.builder = builder, !.stack = o.stack]
Kept(o, c) == [o EXCEPT !.stack = c.stack, !.features = c.made]

---------------------------------------------------------------------------
(* Query.  The terms are pushed to the query itself: the ones of a call    *)
(* that fails stay on its stack.  The builder counts its own.              *)

PushedEver(o, c) == Depth(c)                 \* counts what failed calls left, too
Pushed(o, c)     == Depth(c) - Len(o.stack)

QueryAddFeature(o, set, value, weight) ==
  LET counted(c) == Check([c EXCEPT !.count = Pushed(o, c)], Pushed(o, c) # 0)
      read == BuildExpressionValue([On(o, "query", value) EXCEPT !.made = o.features], TRUE)
  IN  With(DefineFeatures(With(read, counted), set, weight), LAMBDA c : Outcome(Kept(o, c), c))

QueryAddRestriction(o, value) ==
  With(BuildMetaDataRestriction([On(o, "query", value) EXCEPT !.made = o.groups]),
       LAMBDA c : Outcome([o EXCEPT !.groups = c.made], c))

---------------------------------------------------------------------------
(* Query builder.                                                          *)

BuilderAddFeature(o, set, value, weight) ==
  With(BuildQueryFeaturesOf([On(o, "expression", value) EXCEPT !.made = o.features],
                            set, weight),
       LAMBDA c : Outcome(Kept(o, c), c))

(* A restriction is copied, and read when the query gets it.               *)
BuilderAddRestriction(o, value) ==
  IF value.type = "void" THEN [object |-> o, ok |-> TRUE]
  ELSE IF value.type # "serialization" THEN Refused(o)
  ELSE [object |-> [o EXCEPT !.restrictions = Append(@, value)], ok |-> TRUE]

(* The features as they are written for another server.                    *)
LengthByStruct(e) == When(e.len # "1", Member("length", Value(e.len)))  \* as structs.hpp has it
LengthOf(e)       == When(e.len # "1", Member("len", Value(e.len)))

RECURSIVE WriteNode(_)
WriteNode(e) ==
  LET variable == When(e.variable # "", Member("variable", Value(e.variable)))
      term == variable \o Member("type", Value(e.type)) \o Member("value", Value(e.value))
              \o LengthOf(e)
      join == variable \o Member("op", Value(e.op))
              \o When(e.range # "0", Member("range", Value(e.range)))
              \o When(e.cardinality # "0", Member("cardinality", Value(e.cardinality)))
              \o Member("arg", Bracket(Each(e.args, WriteNode)))
  IN  Bracket(IF e.kind = "term" THEN Member("term", Bracket(term))
              ELSE Member("expression", Bracket(join)))

GetFeatures(o) ==
  [i \in DOMAIN o.features |->
     [set |-> o.features[i].set, weight |-> o.features[i].weight,
      analyzed |-> WriteNode(o.features[i].expression)]]

(* What the query of another server makes of them: the member "analyzed"   *)
(* is passed on as the value of one call for each feature.                 *)
Contents(bracketed) == Packed(SubSeq(bracketed, 2, Len(bracketed) - 1))
PassedOn(o) ==
  LET written == GetFeatures(o)
      Passed[k \in 0..Len(written)] ==
        IF k = 0 THEN [object |-> NewObject, ok |-> TRUE]
        ELSE LET add(before, f) ==
                   [QueryAddFeature(before.object, f.set, Contents(f.analyzed), f.weight)
                      EXCEPT !.ok = @ /\ before.ok]
             IN  add(Passed[k - 1], written[k])
  IN  Passed[Len(written)]

---------------------------------------------------------------------------
(* Summaries and results.  What is left out has the value the constructor  *)
(* of the element gives it.                                                *)

Labels(got, path) ==
  {p[Len(path) + 1] : p \in {q \in DOMAIN got : /\ Len(q) > Len(path)
                                                 /\ SubSeq(q, 1, Len(path)) = path}}
ElementOf(got, path) ==
  [name |-> got[Append(path, "name")], value |-> got[Append(path, "value")],
   weight |-> FieldAt(got, Append(path, "weight"), "1.0"),
   index |-> FieldAt(got, Append(path, "index"), "-1")]
Elements(got, path, Of(_, _)) ==
  [i \in 1..Cardinality(Labels(got, path)) |-> Of(got, Append(path, ToString(i)))]
RangeOf(got, path) ==
  [start |-> FieldAt(got, Append(path, "start"), "0"), end |-> FieldAt(got, Append(path, "end"), "0")]
DocumentOf(got, path) ==
  [docno |-> got[Append(path, "docno")], weight |-> got[Append(path, "weight")],
   field |-> RangeOf(got, Append(path, "field")),
   summary |-> Elements(got, Append(path, "summary"), ElementOf)]
ResultOf(got, path) ==
  [evalpass |-> FieldAt(got, Append(path, "evalpass"), "0"),
   nofranked |-> got[Append(path, "nofranked")],
   nofvisited |-> got[Append(path, "nofvisited")],
   ranks |-> Elements(got, Append(path, "ranks"), DocumentOf),
   summary |-> Elements(got, Append(path, "summary"), ElementOf)]

(* Collected: for each name and value the sum of the weights.              *)
Collect(collected, e) ==
  LET key == <<e.name, e.value>>
  IN  (key :> Tenths[e.weight] + (IF key \in DOMAIN collected THEN collected[key] ELSE 0))
      @@ collected
AddCollectSummary(o, value) ==
  LET sum(elements) ==
        LET Sum[k \in 0..Len(elements)] ==
              IF k = 0 THEN o.collected ELSE Collect(Sum[k - 1], elements[k])
        IN  Sum[Len(elements)]
  IN  With(GetSummary(Cursor(<<value>>)), LAMBDA c :
        IF Ok(c) THEN Outcome([o EXCEPT !.collected = sum(Elements(c.got, << >>, ElementOf))], c)
        ELSE Refused(o))

(* The results of a call are all added, or none.                           *)
AddQueryResult(o, value, behind) ==
  LET label(labels, k) == IF ToString(k) \in labels THEN ToString(k) ELSE ToString(<<ToString(k)>>)
      read(got, labels) == [k \in 1..Cardinality(labels) |-> ResultOf(got, <<label(labels, k)>>)]
  IN  With(GetQueryResultList([Cursor(<<value>>) EXCEPT !.behind = behind]), LAMBDA c :
        IF Ok(c) THEN Outcome([o EXCEPT !.results = @ \o read(c.got, Labels(c.got, << >>))], c)
        ELSE Refused(o))

---------------------------------------------------------------------------
(* Query analyzer.  The expression is turned into instructions, in the     *)
(* order in which it was pushed, the variable behind what it is attached    *)
(* to; what the analyzer makes of a term is left out.                      *)
RECURSIVE Instructions(_)
Instructions(e) ==
  (IF e.kind = "term" THEN <<[is |-> "term", type |-> e.type, value |-> e.value, len |-> "1"]>>
   ELSE Each(e.args, Instructions)
        \o <<[is |-> "operator", name |-> e.op, range |-> e.range,
              cardinality |-> e.cardinality, argc |-> Len(e.args)]>>)
  \o When(e.variable # "", <<[is |-> "variable", name |-> e.variable]>>)

AnalyzeTermExpression(value, single, schema) ==
  With(BuildExpressionValue([Cursor(<<value>>) EXCEPT !.builder = "analyzer"], TRUE),
       LAMBDA c : IF Ok(c)
                  THEN WriteTermExpression(FALSE, schema, single, Each(c.stack, Instructions))
                  ELSE Refusal)

(* The comparisons of a metadata expression, each with the mark whether it *)
(* opens a group.  The counter of terms is reset behind an operator only.  *)
Comparisons(code) ==
  LET List[k \in 0..Len(code)] ==
        IF k = 0 THEN [list |-> << >>, termc |-> 0, ok |-> TRUE]
        ELSE LET s == List[k - 1]
                 i == code[k]
                 first == Len(s.list) - s.termc + 2
             IN  IF i.op = "compare"
                 THEN [s EXCEPT !.list = Append(@, [condition |-> i.condition, opens |-> TRUE]),
                                !.termc = @ + 1]
                 ELSE [list |-> [j \in DOMAIN s.list |->
                                   IF j >= first THEN [s.list[j] EXCEPT !.opens = FALSE]
                                   ELSE s.list[j]],
                       termc |-> 0,
                       ok |-> s.ok /\ s.termc <= i.argc]
  IN  List[Len(code)]

Symbols == [less |-> "<", lessequal |-> "<=", greater |-> ">", greaterequal |-> ">=",
            equal |-> "==", notequal |-> "!="]
WriteComparison(named, condition) ==
  Bracket(Struct(named, <<"op", "name", "value">>,
                 <<Value(Symbols[condition[1]]), Value(condition[2]), Value(condition[3])>>))

(* With unions and conditions named, the end of a union is looked for at a *)
(* place that does not move, and a condition is told from a union by the   *)
(* mark of the next one, the last by what lies behind the list.            *)
WriteNamedRestriction(named, list, behind) ==
  LET n       == Len(list)
      opens   == [i \in 1..n + 1 |-> IF i = n + 1 THEN behind ELSE list[i].opens]
      starts  == {i \in 1..n : opens[i] /\ (i = n \/ opens[i + 1])}
      unions  == {i \in 1..n : opens[i]} \ starts
      joined  == {i \in 1..n : ~opens[i + 1]}
      first   == CHOOSE i \in joined : \A j \in joined : i <= j
      write(from, Take(_)) ==
        Each([i \in 1..n |-> i],
             LAMBDA i : When(i >= from /\ Take(i), WriteComparison(named, list[i].condition)))
      union   == When(joined # {}, Bracket(Member("condition",
                                             Bracket(write(first, LAMBDA i : TRUE)))))
      single  == write(1, LAMBDA i : opens[i + 1])
      several(set, ser) == IF Cardinality(set) > 1 THEN Bracket(ser) ELSE ser
  IN  When(unions # {}, Member("union", several(unions, union)))
      \o When(starts # {}, Member("condition", several(starts, single)))

WriteRestriction(named, list) ==
  LET n == Len(list)
      alone(i) == list[i].opens /\ (i = n \/ list[i + 1].opens)
      end(i)   == i = n \/ list[i + 1].opens
  IN  Each([i \in 1..n |-> i],
           LAMBDA i : When(list[i].opens /\ ~alone(i), <<Open>>)
                      \o WriteComparison(named, list[i].condition)
                      \o When(end(i) /\ ~alone(i), <<Close>>))

AnalyzeMetaDataExpression(value, named, schema, behind) ==
  LET write(cnf) == IF ~cnf.ok THEN Refusal
                    ELSE IF schema THEN WriteNamedRestriction(named, cnf.list, behind)
                    ELSE WriteRestriction(named, cnf.list)
  IN  With(BuildMetaDataRestriction([Cursor(<<value>>) EXCEPT !.builder = "metadata"]),
           LAMBDA c : IF Ok(c) THEN write(Comparisons(c.made)) ELSE Refusal)

=============================================================================
