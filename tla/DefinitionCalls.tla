--------------------------- MODULE DefinitionCalls ---------------------------
(***************************************************************************)
(* Calls of a program on the objects that are configured: a document       *)
(* analyzer, a query analyzer, a library of content statistics, a query    *)
(* evaluation with a query of it, and a map of statistics.  The kinds of   *)
(* BindingCalls are here as well, so that one program is modelled.         *)
(***************************************************************************)
EXTENDS BindingCalls

CONSTANTS
  FunctionValues,     \* [values, functions]: a tokenizer with normalizers
  AggregatorValues,   \* [value, functions]
  OptionValues,       \* [values, priority, position]
  ClassValues,        \* [value, class]: a class of documents, or none
  Segmenters,         \* the segmenter for each name and each MIME type
  ExpansionValues,    \* [value, fields]: an expansion and what it means
  CollectedValues,    \* [value, terms]: weighted words
  EvalValues,         \* [values, parameters, features]
  FormulaValues,      \* [value, numbers, parser]
  ListValues,         \* [value, list]: a list of texts or numbers
  CountValues,        \* [value, count]: statistics
  Fields_, Names      \* names of fields, and of functions

Definition(definitions) == [is |-> "definition", calls |-> definitions]
Made(call, texts)       == Definition(<<[call |-> call, texts |-> texts]>>)
MadeFeature(call, texts, functions, priority, position) ==
  Definition(<<[call |-> call, texts |-> texts, functions |-> functions,
                priority |-> priority, position |-> position]>>)

---------------------------------------------------------------------------
(* Document analyzer.                                                      *)

CreateAnalyzer ==
  /\ kind = "analyzer" /\ calls = 0
  /\ \E v \in ClassValues :
       LET by == IF v.segmenter # "" THEN <<"segmenter", v.segmenter>>
                 ELSE <<"mimetype", v.class[1]>>
       IN  Called(CreateDocumentAnalyzer(object, v.value, Segmenters),
                  Made("createDocumentAnalyzer", <<Segmenters[by], v.class[3]>>))

IndexFeature ==
  /\ kind = "analyzer"
  /\ \E call \in {"addSearchIndexFeature", "addForwardIndexFeature"},
        f \in FunctionValues, o \in OptionValues, field \in Fields_ :
       Called(AddIndexFeature(object, call, <<field>>, f.values \o o.values),
              MadeFeature(call, <<field>>, f.functions, o.priority, o.position))

DocumentField ==
  /\ kind = "analyzer"
  /\ \E call \in {"defineMetaData", "defineAttribute"}, f \in FunctionValues, field \in Fields_ :
       Called(DefineField(object, call, <<field>>, f.values),
              MadeFeature(call, <<field>>, f.functions, "0", "content"))

Aggregated ==
  /\ kind = "analyzer"
  /\ \E f \in AggregatorValues, field \in Fields_ :
       Called(DefineAggregatedMetaData(object, <<field>>, f.value),
              MadeFeature("defineAggregatedMetaData", <<field>>, f.functions, "0", "content"))

DocumentPart ==
  /\ kind = "analyzer"
  /\ \E field \in Fields_ :
       \/ \E key \in {Void, Atom("key")} :
            Called(AddSearchIndexField(object, <<field>>, key),
                   Made("addSearchIndexField", <<field, key.text>>))
       \/ \E type \in {Atom("label"), Atom("chapter"), Void} :
            Called(AddSearchIndexStructure(object, <<field>>, type),
                   Made("addSearchIndexStructure", <<field, type.text>>))
       \/ Called(Plain(object, "defineSubDocument", <<field>>),
                 Made("defineSubDocument", <<field>>))
       \/ \E v \in ClassValues :
            Called(DefineSubContent(object, field, v.value),
                   Made("defineSubContent", <<field>> \o v.class))

AnalyzeDocument ==
  /\ kind = "analyzer"
  /\ \E v \in ClassValues, detected \in {<< >>, <<"text/xml", "UTF-8", "">>} :
       Called(Analyze(object, v.value, detected),
              Made("analyze", IF v.value.type = "void" THEN detected ELSE v.class))

---------------------------------------------------------------------------
(* Query analyzer.  Which type a sentence is analyzed with is told from the *)
(* calls that returned.                                                    *)

QueryElement ==
  /\ kind = "queryanalyzer"
  /\ \E f \in FunctionValues, o \in OptionValues, field \in Fields_ :
       Called(AddElement(object, <<field>>, f.values \o o.values),
              MadeFeature("addElement", <<field>>, f.functions, o.priority, "content"))

GroupBy ==
  /\ kind = "queryanalyzer"
  /\ \E groupBy \in {"", "position", "every"}, field \in Fields_ :
       Called(DefineImplicitGroupBy(object, field, groupBy),
              Made("autoGroupBy", <<field, IF groupBy = "" THEN "all" ELSE groupBy>>))

SentenceType ==
  /\ kind = "queryanalyzer"
  /\ \E f \in FunctionValues, e \in ExpansionValues, field \in Fields_ :
       Called(AddSentenceType(object, field, <<e.value>> \o f.values),
              [is |-> "sentence", field |-> field, functions |-> f.functions,
               expansion |-> e.fields])

CollectorType ==
  /\ kind = "queryanalyzer"
  /\ \E f \in AggregatorValues, separator \in {"", ":", "##"}, field \in Fields_ :
       Called(AddCollectorType(object, field, separator, f.value),
              [is |-> "collector", field |-> field,
               separator |-> IF separator = "" THEN Separator ELSE separator])

FirstAsked(is, field) ==
  LET of == {i \in DOMAIN asked : asked[i].is = is /\ asked[i].field = field}
  IN  asked[CHOOSE i \in of : \A j \in of : i <= j]

Sentence ==
  /\ kind = "queryanalyzer"
  /\ \E field \in Fields_ :
       LET a == FirstAsked("sentence", field)
       IN  Called(AnalyzeSentence(object, field),
                  Definition(<<[call |-> "sentence", field |-> field, functions |-> a.functions,
                                expansion |-> a.expansion]>>))

Neighbours ==
  /\ kind = "queryanalyzer"
  /\ \E field \in Fields_, v \in CollectedValues :
       LET separator == FirstAsked("collector", field).separator
       IN  Called(GetCollectedNeighbours(object, field, v.value),
                  Definition(<<[call |-> "similarTerms", terms |-> v.terms[separator]]>>))

---------------------------------------------------------------------------
(* Library of content statistics.                                          *)
LibraryElement ==
  /\ kind = "library"
  /\ \E f \in FunctionValues, min, max \in {Void, Atom("2"), Atom("many")} :
       LET number(v) == IF v.type = "void" THEN "-1" ELSE v.text
       IN  Called(AddLibraryElement(object, <<"word">>, <<Void, min, max>> \o f.values),
                  Definition(<<[call |-> "addLibraryElement", texts |-> <<"word">>,
                                functions |-> f.functions, priority |-> "0",
                                position |-> "content",
                                length |-> <<number(min), number(max)>>]>>))

LibrarySelection ==
  /\ kind = "library"
  /\ \E call \in {"addVisibleAttribute", "addSelectorExpression"}, field \in Fields_ :
       Called(Plain(object, call, <<field>>), Made(call, <<field>>))

---------------------------------------------------------------------------
(* Query evaluation and query.                                             *)

EvalFeature ==
  /\ kind = "evaluation"
  /\ \E call \in {"addTerm", "addSelectionFeature", "addRestrictionFeature",
                  "addExclusionFeature", "usePositionInformation"}, field \in Fields_ :
       Called(Plain(object, call, <<field>>), Made(call, <<field>>))

EvalFunction ==
  /\ kind = "evaluation"
  /\ \E v \in EvalValues, name \in Names :
       LET meant(call, texts) == Definition(<<[call |-> call, texts |-> texts, function |-> name,
                                               parameters |-> v.parameters,
                                               features |-> v.features]>>)
       IN  \/ Called(AddWeightingFunction(object, name, v.values),
                     meant("addWeightingFunction", << >>))
           \/ \E id \in {Void, Atom("id")} :
                Called(AddSummarizer(object, id, name, v.values),
                       meant("addSummarizer", <<id.text>>))

EvalFormula ==
  /\ kind = "evaluation"
  /\ \E v \in FormulaValues :
       Called(DefineWeightingFormula(object, "a * b", v.value),
              Definition(<<[call |-> "defineWeightingFormula", formula |-> "a * b",
                            variables |-> v.numbers, parser |-> v.parser]>>))

QueryLists ==
  /\ kind = "evaluation"
  /\ \E v \in ListValues :
       \/ Called(AddAccess(object, v.value),
                 Definition(Each(v.list, LAMBDA u : <<[call |-> "addAccess", texts |-> <<u>>]>>)))
       \/ Called(AddDocumentEvaluationSet(object, v.value),
                 Made("addDocumentEvaluationSet", v.list))

QueryStatistics ==
  /\ kind = "evaluation"
  /\ \E v \in CountValues :
       \/ Called(DefineTermStatistics(object, "word", "hello", v.value),
                 Made("defineTermStatistics", <<"word", "hello", v.count>>))
       \/ Called(DefineGlobalStatistics(object, v.value),
                 Made("defineGlobalStatistics", <<v.count>>))

QueryVariables ==
  /\ kind = "evaluation"
  /\ \E v \in FormulaValues : Called(SetWeightingVariables(object, v.value), Definition(<< >>))

---------------------------------------------------------------------------
(* Map of statistics.                                                      *)
MapChange ==
  /\ kind = "map"
  /\ \E call \in {"addNofDocumentsInsertedChange", "addDfChange"}, increment \in {"1", "-1"} :
       Called(Plain(object, call, <<increment>>), Made(call, <<increment>>))

MapMessage ==
  /\ kind = "map"
  /\ \E blob \in DOMAIN Base64, time \in {"0", "5"}, named \in BOOLEAN :
       LET message == [timestamp |-> [unixtime |-> time, counter |-> "1"], blob |-> Base64[blob]]
       IN  \/ Called(ProcessStatisticsMessage(object,
                       Packed(WriteStatisticsMessage(named, message))),
                     Made("processStatisticsMessage", <<Base64[blob]>>))
           \/ Called(ProcessStatisticsMessage(object, Atom(blob)),
                     Made("processStatisticsMessage", <<Base64[blob]>>))

---------------------------------------------------------------------------
Define_ ==
  \/ CreateAnalyzer \/ IndexFeature \/ DocumentField \/ Aggregated \/ DocumentPart
  \/ AnalyzeDocument
  \/ QueryElement \/ GroupBy \/ SentenceType \/ CollectorType \/ Sentence \/ Neighbours
  \/ LibraryElement \/ LibrarySelection
  \/ EvalFeature \/ EvalFunction \/ EvalFormula \/ QueryLists \/ QueryStatistics
  \/ QueryVariables
  \/ MapChange \/ MapMessage

ProgramSpec == Init /\ [][Next \/ Define_]_vars

(* What is configured is what the calls that returned have asked for: each  *)
(* function with its arguments, each list whole and in its order, whatever  *)
(* the notation; a call that failed leaves nothing, and a sentence is       *)
(* analyzed with the type that was added first for its field.              *)
(* (deserializer.cpp getNormalizers, getFeatureParameters, analyzer.cpp,    *)
(* query.cpp, contentstats.cpp)                                            *)
DefinitionsAreWhatWasAsked ==
  kind \in {"analyzer", "queryanalyzer", "library", "evaluation", "map"} =>
    object.defined = Each(asked, LAMBDA a : IF a.is = "definition" THEN a.calls ELSE << >>)

=============================================================================
