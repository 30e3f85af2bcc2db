----------------------------- MODULE Serializer -----------------------------
(***************************************************************************)
(* The writers of serializer.cpp and serializer.hpp: each one gives the    *)
(* tokens of a value.  A structure is written as its members in the order  *)
(* of their declaration, opened with the id of the structure; whoever takes *)
(* the value over may name the members by that id (papuga does, on the way *)
(* to JSON or to a scripting language).  The parameter named tells which.  *)
(***************************************************************************)
EXTENDS Serialization, SequencesExt

Bracket(ser)       == <<Open>> \o ser \o <<Close>>
Value(text)        == <<Atom(text)>>
Member(name, ser)  == <<Name(name)>> \o ser
When(p, ser)       == IF p THEN ser ELSE << >>
Each(list, Write(_)) == FlattenSeq([i \in DOMAIN list |-> Write(list[i])])

(* Members in the order of the structure id, the i-th value by the i-th    *)
(* name: a member that is left out shifts the names of those behind it.    *)
Struct(named, names, values) ==
  FlattenSeq([i \in DOMAIN values |->
                IF named THEN Member(names[i], values[i]) ELSE values[i]])

Array(list, Write(_))    == Each(list, LAMBDA x : Bracket(Write(x)))
Strings(list)            == Each(list, Value)
Dictionary(list)         == Each(list, LAMBDA x : Member(x.name, Value(x.value)))
Fixed(named, names, x)   == Struct(named, names, [i \in DOMAIN names |-> Value(x[names[i]])])

---------------------------------------------------------------------------
(* Terms and small structures.                                             *)

WriteQueryTerm(named, t, variable) ==
  Struct(named, <<"type", "value", "length", "variable">>,
         <<Value(t.type), Value(t.value)>>
         \o When(t.len # "1", <<Value(t.len)>>)
         \o When(variable # "", <<Value(variable)>>))

WriteDocumentTerm(named, t) ==
  Struct(named, <<"type", "value", "pos">>,
         <<Value(t.type), Value(t.value)>> \o When(t.pos # "0", <<Value(t.pos)>>))

WriteIndexRange(named, r)   == Fixed(named, <<"start", "end">>, r)
WriteTimeStamp(named, t)    == Fixed(named, <<"unixtime", "counter">>, t)
WriteSentenceTerm(named, t) == Fixed(named, <<"type", "value">>, t)
WriteWeightedString(named, w) == Fixed(named, <<"value", "weight">>, w)
WriteTermStatisticsChange(named, c) == Fixed(named, <<"type", "value", "increment">>, c)

WriteDocumentClass(named, d) ==
  IF d = << >> THEN <<Void>> ELSE Fixed(named, <<"mimetype", "encoding", "schema">>, d)

WriteDocumentStructure(named, s) ==
  Struct(named, <<"name", "source", "sink">>,
         <<Value(s.name), Bracket(WriteIndexRange(named, s.source)),
           Bracket(WriteIndexRange(named, s.sink))>>)

WriteDocument(named, d) ==
  Struct(named,
    <<"doctype", "attribute", "metadata", "forwardindex", "searchindex", "searchstruct",
      "access">>,
    <<Value(d.doctype), Bracket(Dictionary(d.attribute)), Bracket(Dictionary(d.metadata)),
      Bracket(Array(d.forwardindex, LAMBDA t : WriteDocumentTerm(named, t))),
      Bracket(Array(d.searchindex, LAMBDA t : WriteDocumentTerm(named, t))),
      Bracket(Array(d.searchstruct, LAMBDA s : WriteDocumentStructure(named, s)))>>
    \o When(d.access # << >>, <<Bracket(Strings(d.access))>>))

---------------------------------------------------------------------------
(* Results.                                                                *)

WriteIndexedElement(named, e) ==             \* the weight only with an index
  Struct(named, <<"name", "value", "weight", "index">>,
         <<Value(e.name), Value(e.value)>>
         \o When(e.index # "-1", <<Value(e.weight), Value(e.index)>>))

WriteSummaryElement(named, e) ==
  LET indexed == e.index # "-1"
  IN  Struct(named, <<"name", "value", "weight", "index">>,
             <<Value(e.name), Value(e.value)>>
             \o When(indexed \/ e.weight # "1.0", <<Value(e.weight)>>)
             \o When(indexed, <<Value(e.index)>>))

WriteSummary(named, elements) ==
  Array(elements, LAMBDA e : WriteSummaryElement(named, e))

WriteResultDocument(named, d) ==
  Struct(named, <<"docno", "weight", "field", "summary">>,
         <<Value(d.docno), Value(d.weight), Bracket(WriteIndexRange(named, d.field)),
           Bracket(WriteSummary(named, d.summary))>>)

WriteQueryResult(named, r) ==
  Struct(named, <<"evalpass", "nofranked", "nofvisited", "ranks", "summary">>,
         <<Value(r.evalpass), Value(r.nofranked), Value(r.nofvisited),
           Bracket(Array(r.ranks, LAMBDA d : WriteResultDocument(named, d)))>>
         \o When(r.summary # << >>, <<Bracket(WriteSummary(named, r.summary))>>))

---------------------------------------------------------------------------
(* Statistics.  A message without a time has no time stamp.                *)

Encoded(blob) == CHOOSE t \in DOMAIN Base64 : Base64[t] = blob

WriteStatisticsMessage(named, m) ==
  Struct(named, <<"timestamp", "blob">>,
         <<IF m.timestamp.unixtime # "0" THEN Bracket(WriteTimeStamp(named, m.timestamp))
           ELSE <<Void>>,
           Value(Encoded(m.blob))>>)

WriteStatistics(named, s) ==
  Struct(named, <<"dfchange", "nofdocs">>,
         <<Bracket(Array(s.dfchange, LAMBDA c : WriteTermStatisticsChange(named, c))),
           Value(s.nofdocs)>>)

---------------------------------------------------------------------------
(* The expression of a query analyzer: instructions in postfix order, run   *)
(* on a stack of serializations.  A variable is an instruction of its own, *)
(* and no operator is found for it: the expression is refused.             *)

Refusal == <<Close>>    \* no writer writes this: the value cannot be serialized

VariableBehind(code, k) ==
  IF k < Len(code) /\ code[k + 1].is = "variable" THEN code[k + 1].name ELSE ""

TermTokens(named, schema, code, k) ==
  LET term == WriteQueryTerm(named, code[k], VariableBehind(code, k))
  IN  IF schema THEN Member("term", Bracket(term)) ELSE term

OperatorTokens(schema, code, k, args) ==
  LET i        == code[k]
      variable == VariableBehind(code, k)
      ser      == Member("op", Value(i.name))
                  \o When(i.range # "0", Member("range", Value(i.range)))
                  \o When(i.cardinality # "0", Member("cardinality", Value(i.cardinality)))
                  \o Member("arg", Bracket(Array(args, LAMBDA a : a)))
                  \o When(variable # "", Member("variable", Value(variable)))
  IN  IF schema THEN Member("expression", Bracket(ser)) ELSE ser

(* The stack after all instructions; an instruction that is refused leaves *)
(* the refusal alone.                                                       *)
ExpressionStack(named, schema, code) ==
  LET Stack[k \in 0..Len(code)] ==
        IF k = 0 THEN << >>
        ELSE LET s == Stack[k - 1]
                 i == code[k]
             IN  IF s = <<Refusal>> \/ i.is = "variable" THEN <<Refusal>>
                 ELSE IF i.is = "term" THEN Append(s, TermTokens(named, schema, code, k))
                 ELSE IF i.argc > Len(s) THEN <<Refusal>>
                 ELSE Append(SubSeq(s, 1, Len(s) - i.argc),
                             OperatorTokens(schema, code, k,
                                            SubSeq(s, Len(s) - i.argc + 1, Len(s))))
  IN  Stack[Len(code)]

WriteTermExpression(named, schema, single, code) ==
  LET s == ExpressionStack(named, schema, code)
  IN  IF s = <<Refusal>> \/ (single /\ Len(s) # 1) THEN Refusal
      ELSE IF single THEN s[1] ELSE Array(s, LAMBDA x : x)

(* A guessed sentence: for each place a term, or the union of its terms.   *)
WriteSentence(named, places) ==
  LET term(t) == Member("term", Bracket(WriteSentenceTerm(named, t)))
      union(ts) == Member("expression",
                     Bracket(Member("op", Value("union"))
                             \o Member("arg", Bracket(Array(ts, term)))))
  IN  Array(places, LAMBDA ts : IF Len(ts) = 1 THEN term(ts[1]) ELSE union(ts))

=============================================================================
