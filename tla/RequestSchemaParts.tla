------------------------- MODULE RequestSchemaParts -------------------------
(***************************************************************************)
(* The parts the schemas of requests are put together from (schemas_*_decl *)
(* .hpp).  A part lists calls of methods of host objects.  A call happens  *)
(* if the content has the element it is bound to; it needs the variable    *)
(* holding the object, the object to be of the class the method belongs    *)
(* to, and the objects among its arguments; its result goes to a variable. *)
(* The paths, types and examples of the values in the content are left     *)
(* out: which values a call gets does not matter here, only which objects. *)
(***************************************************************************)
EXTENDS Sequences, SequencesExt

Always == ""    \* the element of a call bound to the root of the content
Void == ""      \* the variable of a result that is dropped

Call(element, result, self, class, args) ==
    [element |-> element, result |-> result, self |-> self, class |-> class, args |-> args]

(* A value of the content assigned to a variable.                          *)
Assign(element, result) == Call(element, result, "", "", {})

OnEach(elements, self, class) ==
    [i \in DOMAIN elements |-> Call(elements[i], Void, self, class, {})]

(* The class of the object a variable holds, where it holds one.           *)
ObjectClass ==
    [ context |-> "Context", storage |-> "StorageClient", vstorage |-> "VectorStorageClient",
      docanalyzer |-> "DocumentAnalyzer", qryanalyzer |-> "QueryAnalyzer", qryeval |-> "QueryEval",
      statserver |-> "StatisticsMap", inserter |-> "Inserter",
      contentstats |-> "ContentStatistics", query |-> "Query", qrybuilder |-> "QueryBuilder",
      merger |-> "QueryResultMerger" ]

(* The class of the transaction objects, by the type they are created from.*)
TransactionClass ==
    [ storage |-> "StorageTransaction", vstorage |-> "VectorStorageTransaction",
      inserter |-> "InserterTransaction", contentstats |-> "ContentStatisticsCollector" ]

-----------------------------------------------------------------------------
(* Analyzers                                                               *)

DefineDocumentAnalyzer ==
    << Call(Always, "docanalyzer", "context", "Context", {}) >>
        \o OnEach(<<"feature/search", "feature/forward", "feature/metadata", "feature/attribute">>,
                  "docanalyzer", "DocumentAnalyzer")
        \o OnEach(<<"feature/aggregator", "document", "content", "field", "structure">>,
                  "docanalyzer", "DocumentAnalyzer")

DefineQueryAnalyzer ==
    << Call(Always, "qryanalyzer", "context", "Context", {}),
       Call("element", Void, "qryanalyzer", "QueryAnalyzer", {}),
       Call("vstorage", "_sentanalyzer", "vstorage", "VectorStorageClient", {}),
       Call("vstorage", Void, "qryanalyzer", "QueryAnalyzer", {"_sentanalyzer"}),
       Call("group", Void, "qryanalyzer", "QueryAnalyzer", {}) >>

-----------------------------------------------------------------------------
(* Query evaluation schemes, statistics of contents                        *)

DefineQueryEval ==
    << Call(Always, "qryeval", "context", "Context", {}) >>
        \o OnEach(<<"cterm", "restriction", "selection", "exclusion",
                   "summarizer", "weighting", "formula">>, "qryeval", "QueryEval")

DefineContentStatistics ==
    << Call(Always, "contentstats", "context", "Context", {}) >>
        \o OnEach(<<"attribute", "select", "element">>, "contentstats", "ContentStatistics")

-----------------------------------------------------------------------------
(* Storages                                                                *)

DefineStorage == << Assign("path", "path") >>
DefineDeleteStorage == << Assign("path", "path") >>
DefineVectorStorage == << Assign("path", "path") >>
DefineStatisticsQuery == << Call("statistics", "_blob", "storage", "StorageClient", {}) >>

-----------------------------------------------------------------------------
(* Queries                                                                 *)

BuildQuery ==
    << Call("feature", Void, "qrybuilder", "QueryBuilder", {"_analyzed"}),
       Call("restriction", Void, "qrybuilder", "QueryBuilder", {"_analyzed"}),
       Call(Always, "_feature", "qrybuilder", "QueryBuilder", {}),
       Call(Always, "_restriction", "qrybuilder", "QueryBuilder", {}) >>

BuildQueryFromResult == << Call("summary", Void, "qrybuilder", "QueryBuilder", {}) >>
CloseQueryFromResult == << Call(Always, "_collected", "qrybuilder", "QueryBuilder", {}) >>

DefineQueryAnalyzed == << Assign("feature", "_analyzed"), Assign("restriction", "_analyzed") >>

AnalyzeQuery ==
    << Call("feature", "_analyzed", "qryanalyzer", "QueryAnalyzer", {}),
       Call("feature/sentence", "_analyzed", "qryanalyzer", "QueryAnalyzer", {}),
       Call("restriction", "_analyzed", "qryanalyzer", "QueryAnalyzer", {}) >>

DefineQuery ==
    << Call(Always, "query", "qryeval", "QueryEval", {"storage"}),
       Call("feature", Void, "query", "Query", {"_analyzed"}),
       Call("restriction", Void, "query", "Query", {"_analyzed"}) >>
        \o OnEach(<<"termstats", "globalstats", "evalset", "nofranks", "minrank", "mergeres",
                   "access", Always>>, "query", "Query")

DefineResultMerger ==
    << Call(Always, "merger", "context", "Context", {}),
       Call("nofranks", Void, "merger", "QueryResultMerger", {}),
       Call("minrank", Void, "merger", "QueryResultMerger", {}),
       Call("mergeres", Void, "query", "QueryResultMerger", {}) >>

DefineQueryBuilder ==
    << Call(Always, "qrybuilder", "context", "Context", {}),
       Call("nofranks", Void, "qrybuilder", "QueryBuilder", {}),
       Call("minrank", Void, "qrybuilder", "QueryBuilder", {}) >>

AddQueryResult == << Call("queryresult", "ranklist", "merger", "QueryResultMerger", {}) >>
MergeQueryResults == << Call(Always, "ranklist", "merger", "QueryResultMerger", {}) >>
EvaluateQuery == << Call(Always, "ranklist", "query", "Query", {}) >>

-----------------------------------------------------------------------------
(* Statistics                                                              *)

EvaluateTermStatistics == << Call("feature", "_termstats", "statserver", "StatisticsMap", {}) >>
EvaluateGlobalStatistics == << Call(Always, "_nofdocs", "statserver", "StatisticsMap", {}) >>

DeclareStatistics == << Assign("termstats", "_termstats"), Assign("globalstats", "_globalstats") >>

-----------------------------------------------------------------------------
(* The elements of a content the calls of a part are bound to.             *)
ElementsOf(part) == {part[i].element : i \in DOMAIN part} \ {Always}
=============================================================================
