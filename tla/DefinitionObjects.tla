-------------------------- MODULE DefinitionObjects --------------------------
(***************************************************************************)
(* The objects that are configured before they are used: document and      *)
(* query analyzers (impl/analyzer.cpp), the library of content statistics  *)
(* (impl/contentstats.cpp), query evaluations with their queries           *)
(* (impl/query.cpp) and maps of statistics (impl/statistics.cpp).  defined *)
(* keeps the calls of the interface behind the object, with the functions  *)
(* it was given.                                                           *)
(***************************************************************************)
EXTENDS QueryObjects, DeserializerFunctions

CONSTANTS Separator       \* what ends the prefix of a word type

(* sentences and collectors are kept by a query analyzer itself; variables *)
(* are the ones of a weighting formula.                                    *)
NewDefinition == [defined |-> << >>, sentences |-> << >>, collectors |-> << >>,
                  variables |-> << >>]

Defined(o, c, call) ==
  Outcome(IF Ok(c) THEN [o EXCEPT !.defined = Append(@, call)] ELSE o, c)
Plain(o, call, texts) == Defined(o, Cursor(<< >>), [call |-> call, texts |-> texts])

---------------------------------------------------------------------------
(* Features: a tokenizer, normalizers, a priority and options.  Metadata    *)
(* and attributes have the functions only.                                 *)

GetInt(c, field, default) ==
  Argument(c, LAMBDA d : Skip(Put(d, field, default)), LAMBDA d : GetNumber(d, field), Fail)

FeatureCall(call, texts, c) ==
  [call |-> call, texts |-> texts, functions |-> c.made,
   priority |-> Field(c, "priority", "0"), position |-> Field(c, "position", "content")]

AddFeatureWith(o, call, texts, c) == Defined(o, c, FeatureCall(call, texts, c))

AddIndexFeature(o, call, texts, values) ==
  AddFeatureWith(o, call, texts,
                 GetFeatureOptions(GetInt(FeatureFuncDef(Cursor(values)), "priority", "0")))
AddElement(o, texts, values) ==
  AddFeatureWith(o, "addElement", texts,
                 GetInt(FeatureFuncDef(Cursor(values)), "priority", "0"))
DefineField(o, call, texts, values) ==
  AddFeatureWith(o, call, texts, FeatureFuncDef(Cursor(values)))
DefineAggregatedMetaData(o, texts, value) ==
  AddFeatureWith(o, "defineAggregatedMetaData", texts, GetFunction(Cursor(<<value>>)))

(* The library reads the numbers first.                                    *)
AddLibraryElement(o, texts, values) ==
  LET numbers == GetInt(GetInt(GetInt(Cursor(values), "priority", "0"), "min", "-1"), "max", "-1")
  IN  With(FeatureFuncDef(numbers), LAMBDA c :
        Defined(o, c, FeatureCall("addLibraryElement", texts, c)
                      @@ [length |-> <<Field(c, "min", ""), Field(c, "max", "")>>]))

---------------------------------------------------------------------------
(* Structures, sub documents and classes of documents.                     *)

AddSearchIndexField(o, texts, key) ==
  With(Argument(Cursor(<<key>>), LAMBDA d : Put(d, "key", ""),
                LAMBDA d : GetString(d, "key"), Fail), LAMBDA c :
    Defined(o, c, [call |-> "addSearchIndexField", texts |-> Append(texts, Field(c, "key", ""))]))

StructureTypes == {"cover", "label", "header", "footer"}
AddSearchIndexStructure(o, texts, type) ==
  Defined(o, Check(Cursor(<<type>>), type.text \in StructureTypes),
          [call |-> "addSearchIndexStructure", texts |-> Append(texts, type.text)])

ClassOf(c) == <<Field(c, "mimetype", ""), Field(c, "encoding", ""), Field(c, "schema", "")>>
DefineSubContent(o, expression, class) ==
  With(GetDocumentClass(Cursor(<<class>>)), LAMBDA c :
    Defined(o, c, [call |-> "defineSubContent", texts |-> <<expression>> \o ClassOf(c)]))

(* A document is analyzed with the class it is given, or the detected one.  *)
Analyze(o, class, detected) ==
  IF class.type # "void"
  THEN With(GetDocumentClass(Cursor(<<class>>)), LAMBDA c :
         Defined(o, c, [call |-> "analyze", texts |-> ClassOf(c)]))
  ELSE IF detected = << >> THEN Refused(o)
  ELSE Plain(o, "analyze", detected)

(* The segmenter of an analyzer: by its name, or by the MIME type.  The      *)
(* options of the segmenter are the ones of the scheme.                    *)
SegmenterOf(c) ==
  IF Field(c, "segmenter", "") # "" THEN <<"segmenter", Field(c, "segmenter", "")>>
  ELSE <<"mimetype", Field(c, "mimetype", "")>>
CreateDocumentAnalyzer(o, class, segmenters) ==
  With(SegmenterDef(Cursor(<<class>>)), LAMBDA c :
    IF ~Ok(c) \/ SegmenterOf(c) \notin DOMAIN segmenters THEN Refused(o)
    ELSE Plain(o, "createDocumentAnalyzer",
               <<segmenters[SegmenterOf(c)], Field(c, "scheme", "")>>))

---------------------------------------------------------------------------
(* Query analyzer.  What is added last is found last.                      *)

ImplicitGroupBy == [g \in {"", "all"} |-> "all"] @@ [g \in {"position"} |-> "position"]
DefineImplicitGroupBy(o, field, groupBy) ==
  IF groupBy \in DOMAIN ImplicitGroupBy
  THEN Plain(o, "autoGroupBy", <<field, ImplicitGroupBy[groupBy]>>) ELSE Refused(o)

AddSentenceType(o, field, values) ==
  LET added(type) == [o EXCEPT !.sentences = Append(@, type)]
  IN  With(FeatureFuncDef(QueryFeatureExpansionMap(Cursor(values))), LAMBDA c :
        Outcome(IF Ok(c) THEN added([field |-> field, functions |-> c.made, expansion |-> c.got])
                ELSE o, c))

AddCollectorType(o, field, separator, normalizers) ==
  LET type(c) == [field |-> field, functions |-> c.made,
                  separator |-> IF separator = "" THEN Separator ELSE separator]
  IN  With(Check(GetNormalizers(Cursor(<<normalizers>>)), Len(separator) <= 1), LAMBDA c :
        Outcome(IF Ok(c) THEN [o EXCEPT !.collectors = Append(@, type(c))] ELSE o, c))

OfField(types, field) == {i \in DOMAIN types : types[i].field = field}
FirstOf(types, field) ==
  types[CHOOSE i \in OfField(types, field) : \A j \in OfField(types, field) : i <= j]

AnalyzeSentence(o, field) ==
  IF OfField(o.sentences, field) = {} THEN Refused(o)
  ELSE [object |-> [o EXCEPT !.defined =
                      Append(@, [call |-> "sentence"] @@ FirstOf(o.sentences, field))], ok |-> TRUE]

(* The terms are the values split at the first separator.                  *)
TermsOf(got, separator) ==
  LET terms == {p[1] : p \in DOMAIN got}
      value(i) == FieldAt(got, <<ToString(i), "value">>, "")
      at(i) == LET found == Occurrences(value(i), separator)
               IN  IF found = {} THEN -1 ELSE CHOOSE p \in found : \A q \in found : p <= q
      term(i) == [type |-> SubSeq(value(i), 1, at(i)),
                  value |-> SubSeq(value(i), at(i) + 2, Len(value(i))),
                  weight |-> FieldAt(got, <<ToString(i), "weight">>, "1.0")]
      list == [i \in 1..Cardinality(terms) |-> term(i)]
  IN  IF \E i \in DOMAIN list : at(i) < 0 THEN << >> ELSE list

GetCollectedNeighbours(o, field, fields) ==
  LET terms(c) == TermsOf(c.got, FirstOf(o.collectors, field).separator)
      found(c) == IF c.got # << >> /\ terms(c) = << >> THEN Refused(o)
                  ELSE Defined(o, c, [call |-> "similarTerms", terms |-> terms(c)])
  IN  IF OfField(o.collectors, field) = {} THEN Refused(o)
      ELSE With(GetWeightedStringList(Cursor(<<fields>>)), found)

---------------------------------------------------------------------------
(* Query evaluation, and the settings of a query.                          *)

AddEvalFunction(o, call, texts, name, values) ==
  With(BuildFunction(Cursor(values), name), LAMBDA built :
    Defined(o, built.cursor, [call |-> call, texts |-> texts] @@ built.definition))

AddSummarizer(o, id, name, values) ==
  With(Argument(Cursor(<<id>>), LAMBDA d : Put(d, "id", ""),
                LAMBDA d : GetString(d, "id"), Fail), LAMBDA c :
    IF Ok(c) THEN AddEvalFunction(o, "addSummarizer", <<Field(c, "id", "")>>, name, values)
    ELSE Refused(o))
AddWeightingFunction(o, name, values) ==
  AddEvalFunction(o, "addWeightingFunction", << >>, name, values)

DefineWeightingFormula(o, source, value) ==
  With(BuildWeightingFormula(Cursor(<<value>>), source), LAMBDA built :
    Defined(o, built.cursor, [call |-> "defineWeightingFormula"] @@ built.definition))

(* One call for each element of the list, or one with all of them.         *)
ListOf(c) == [i \in 1..Cardinality(DOMAIN c.got) |-> c.got[<<ToString(i)>>]]
ListArgument(value, Read(_, _)) ==
  Argument(Cursor(<<value>>), Skip, LAMBDA d : Read(d, "1"),
           LAMBDA d : AtEnd(AtomicTypeList(d, Read)))
AddAccess(o, users) ==
  With(ListArgument(users, GetString), LAMBDA c :
    Outcome(IF Ok(c) THEN [o EXCEPT !.defined = @ \o Each(ListOf(c),
                             LAMBDA u : <<[call |-> "addAccess", texts |-> <<u>>]>>)] ELSE o, c))
AddDocumentEvaluationSet(o, docnos) ==
  With(ListArgument(docnos, GetNumber), LAMBDA c :
    Defined(o, c, [call |-> "addDocumentEvaluationSet", texts |-> ListOf(c)]))

DefineStatistics(o, call, texts, c, field) ==
  Defined(o, c, [call |-> call, texts |-> Append(texts, Field(c, field, "-1"))])
DefineTermStatistics(o, type, term, value) ==
  DefineStatistics(o, "defineTermStatistics", <<type, term>>,
                   GetTermStatistics(Cursor(<<value>>)), "df")
DefineGlobalStatistics(o, value) ==
  DefineStatistics(o, "defineGlobalStatistics", << >>,
                   GetGlobalStatistics(Cursor(<<value>>)), "nofdocs")

(* The variables before one that is no number are set when the call fails.  *)
SetWeightingVariables(o, value) ==
  LET next(s, pair) ==
        IF ~s.ok THEN s
        ELSE IF pair[2] \notin Numbers THEN Refused(s.object)
        ELSE [s EXCEPT !.object.variables = (pair[1] :> pair[2]) @@ @]
      set(c, pairs) ==
        LET Set[k \in 0..Len(pairs)] ==
              IF k = 0 THEN Outcome(o, c) ELSE next(Set[k - 1], pairs[k])
        IN  Set[Len(pairs)]
  IN  With(KeyValueList(Cursor(<<value>>)), LAMBDA c : set(c, ParametersOf(c.got)))

---------------------------------------------------------------------------
(* A map of statistics feeds on changes and on messages of other storages.  *)
ProcessStatisticsMessage(o, value) ==
  With(GetStatisticsMessage(Cursor(<<value>>)), LAMBDA c :
    Defined(o, c, [call |-> "processStatisticsMessage", texts |-> <<Field(c, "blob", "")>>]))

=============================================================================
