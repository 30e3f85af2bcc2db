---------------------------- MODULE BindingCalls ----------------------------
(***************************************************************************)
(* Calls of a program on an object of the bindings: a query, a builder of  *)
(* queries for other servers, a merger of results, or a transaction of a   *)
(* storage; DefinitionCalls has the objects that are configured.  Every    *)
(* call is given a value the program or another server has written, in any *)
(* notation, well formed or not.  A call that fails throws, and the program *)
(* goes on with the object as the call left it.                            *)
(***************************************************************************)
EXTENDS DefinitionObjects, StorageObjects

CONSTANTS
  FeatureValues,      \* [value, trees]: an expression and what it means
  RestrictionValues,  \* [value, groups]: a restriction and what it means
  SummaryValues,      \* lists of summary elements
  ResultValues,       \* query results
  DocumentValues,     \* lists of documents, as an analyzer delivers them
  UpdateValues,       \* [content, deletes, calls]: an update and what it means
  TableValues,        \* [value, calls]: commands on the metadata table
  Sets, Weights, Docids,
  Objects,            \* which of the objects there are
  MaxCalls            \* bound: the calls on an object

VARIABLES kind,    \* what the object is
          object,  \* its state
          asked,   \* the calls that returned, each with what it meant
          calls    \* the number of calls
vars == <<kind, object, asked, calls>>

Init ==
  /\ kind \in Objects
  /\ object = CASE kind = "transaction" -> NewTransaction
               [] kind \in {"query", "builder", "merger"} -> NewObject
               [] OTHER -> NewDefinition
  /\ asked = << >>
  /\ calls = 0

Called(result, meant) ==
  /\ calls < MaxCalls
  /\ calls' = calls + 1
  /\ object' = result.object
  /\ asked' = IF result.ok THEN Append(asked, meant) ELSE asked
  /\ UNCHANGED kind

Feature(f, set, weight) == [is |-> "features", trees |-> f.trees, set |-> set, weight |-> weight]
Restriction(r) == [is |-> "restriction", groups |-> r.groups]

---------------------------------------------------------------------------
AddTo(value, set, weight) ==
  IF kind = "query" THEN QueryAddFeature(object, set, value, weight)
  ELSE BuilderAddFeature(object, set, value, weight)

AddFeature ==
  /\ kind \in {"query", "builder"}
  /\ \E f \in FeatureValues, set \in Sets, weight \in Weights :
       Called(AddTo(f.value, set, weight), Feature(f, set, weight))

(* The expression is analyzed first, and what the analyzer returns added:   *)
(* as it is, or as the server sends it, or named on the way there.         *)
AddAnalyzedFeature ==
  /\ kind \in {"query", "builder"}
  /\ \E f \in FeatureValues, set \in Sets, weight \in Weights, schema, single \in BOOLEAN :
       \E ser \in {AnalyzeTermExpression(f.value, single, schema)} \ {Refusal} :
         Called(AddTo(Packed(ser), set, weight), Feature(f, set, weight))

AddRestriction ==
  /\ kind = "query"
  /\ \E r \in RestrictionValues : Called(QueryAddRestriction(object, r.value), Restriction(r))

AddBuilderRestriction ==
  /\ kind = "builder"
  /\ \E r \in RestrictionValues : Called(BuilderAddRestriction(object, r.value), Restriction(r))

AddAnalyzedRestriction ==
  /\ kind = "query"
  /\ \E r \in RestrictionValues, named \in BOOLEAN :
       \E ser \in {AnalyzeMetaDataExpression(r.value, named, FALSE, FALSE)} \ {Refusal} :
         Called(QueryAddRestriction(object, Packed(ser)), Restriction(r))

(* The analysis a server sends when it is asked for one, which does not     *)
(* always read as the restriction that was analyzed.                       *)
AddSentRestriction ==
  /\ kind = "query"
  /\ \E r \in RestrictionValues, behind \in BOOLEAN :
       \E ser \in {AnalyzeMetaDataExpression(r.value, TRUE, TRUE, behind)} \ {Refusal} :
         Called(QueryAddRestriction(object, Packed(ser)), [is |-> "sent"])

---------------------------------------------------------------------------
AddSummary ==
  /\ kind = "builder"
  /\ \E s \in SummaryValues, named \in BOOLEAN :
       Called(AddCollectSummary(object, Packed(WriteSummary(named, s))),
              [is |-> "summary", elements |-> s])

AddResult ==
  /\ kind = "merger"
  /\ \E r \in ResultValues, named, behind \in BOOLEAN :
       Called(AddQueryResult(object, Packed(WriteQueryResult(named, r)), behind),
              [is |-> "result", results |-> <<r>>])

(* Several results at once, each one in brackets.                          *)
AddResults ==
  /\ kind = "merger"
  /\ \E r, s \in ResultValues, named, behind \in BOOLEAN :
       Called(AddQueryResult(object,
                Packed(Bracket(WriteQueryResult(named, r)) \o Bracket(WriteQueryResult(named, s))),
                behind),
              [is |-> "result", results |-> <<r, s>>])

---------------------------------------------------------------------------
Insertion(docid, d) == [docid |-> docid, document |-> d]

Insert ==
  /\ kind = "transaction" /\ object.open
  /\ \E docid \in Docids \cup {""}, ds \in DocumentValues, named \in BOOLEAN :
       Called(InsertDocument(object, docid, Packed(WriteDocument(named, ds[1]))),
              [is |-> "insertion", documents |-> <<Insertion(docid, ds[1])>>])

InsertContent ==
  /\ kind = "transaction" /\ object.open
  /\ \E docid \in Docids \cup {""}, ds \in DocumentValues :
       LET id(d) == IF docid = "" THEN DocidAttribute(d) ELSE docid
       IN  Called(InserterInsertDocument(object, docid, ds),
                  [is |-> "insertion",
                   documents |-> [i \in DOMAIN ds |-> Insertion(id(ds[i]), ds[i])]])

Update ==
  /\ kind = "transaction" /\ object.open
  /\ \E docid \in Docids, u \in UpdateValues :
       Called(UpdateDocument(object, docid, u.content, u.deletes), [is |-> "update", docid |-> docid, calls |-> u.calls])

Delete ==
  /\ kind = "transaction" /\ object.open
  /\ \E id \in Docids : \/ Called(DeleteDocument(object, id), [is |-> "delete", docid |-> id])
                        \/ Called(DeleteUserAccessRights(object, id), [is |-> "revoke", docid |-> id])

UpdateTable ==
  /\ kind = "transaction" /\ object.open
  /\ \E v \in TableValues :
       Called(IF v.define THEN DefineMetaDataTable(object, v.value)
              ELSE UpdateMetaDataTable(object, v.value),
              [is |-> "metadata", calls |-> v.calls])

End ==
  /\ kind = "transaction" /\ object.open
  /\ \/ \E success \in BOOLEAN : Called(Commit(object, success), [is |-> "commit"])
     \/ Called(Rollback(object), [is |-> "rollback"])

Next ==
  \/ AddFeature \/ AddAnalyzedFeature \/ AddRestriction \/ AddBuilderRestriction
  \/ AddAnalyzedRestriction \/ AddSentRestriction \/ AddSummary \/ AddResult \/ AddResults
  \/ Insert \/ InsertContent \/ Update \/ Delete \/ UpdateTable \/ End

Spec == Init /\ [][Next]_vars

---------------------------------------------------------------------------
(* Properties.                                                             *)

TypeOK ==
  /\ kind \in Objects
  /\ calls \in 0..MaxCalls
  /\ Len(asked) <= calls

Reversed(list) == [i \in DOMAIN list |-> list[Len(list) + 1 - i]]
FeaturesOf(a) ==
  IF a.is # "features" THEN << >>
  ELSE [i \in DOMAIN a.trees |->
          [set |-> a.set, weight |-> a.weight, expression |-> Reversed(a.trees)[i]]]

(* A query and a builder have the features of the calls that returned, each *)
(* with the expression that was asked for, whatever calls that failed left *)
(* behind on the stack the expressions are built on.  The expressions of a *)
(* list are taken from that stack, the last one first.                     *)
(* (queryExpression.cpp, expressionBuilder.cpp, QueryImpl::addFeature)     *)
FeaturesAreWhatWasAsked ==
  kind \in {"query", "builder"} => object.features = Each(asked, FeaturesOf)

(* A call that returns leaves what calls that failed have left on the stack *)
(* as it was, and no call takes anything from it.                          *)
StackLeftAlone ==
  [][(kind \in {"query", "builder"}) =>
       /\ SubSeq(object'.stack, 1, Len(object.stack)) = object.stack
       /\ (asked' # asked => object'.stack = object.stack)]_vars

RECURSIVE Known(_)
Known(e) == e.kind = "join" => /\ e.op \in Operators
                               /\ \A i \in DOMAIN e.args : Known(e.args[i])

(* The features a builder hands out for another server make the same       *)
(* features there, unless that server knows no operator of a name.         *)
(* (queryExpression.cpp serializeFeatures, deserializer.cpp buildExpression) *)
FeaturesPassOn ==
  /\ kind = "builder"
  /\ \A i \in DOMAIN object.features : Known(object.features[i].expression)
  => PassedOn(object) = [object |-> [NewObject EXCEPT !.features = object.features],
                         ok |-> TRUE]

(* A restriction is added to the ones before: a call that returns appends  *)
(* exactly the conjunction it was given, also when the restriction went    *)
(* through an analyzer, and one that fails leaves the groups of the calls  *)
(* before as they were: no condition joins them.                           *)
(* (deserializer.cpp buildMetaDataRestriction, QueryImpl::addMetaDataRestriction) *)
RestrictionsAppend ==
  [][kind = "query" =>
       /\ SubSeq(object'.groups, 1, Len(object.groups)) = object.groups
       /\ asked' # asked => LET a == asked'[Len(asked')]
                            IN  a.is = "restriction" =>
                                  object'.groups = object.groups \o a.groups]_vars

SumOf(list, Weight(_)) ==
  LET S[k \in 0..Len(list)] == IF k = 0 THEN 0 ELSE S[k - 1] + Weight(list[k])
  IN  S[Len(list)]
Summaries == Each(asked, LAMBDA a : IF a.is = "summary" THEN a.elements ELSE << >>)
Received  == Each(asked, LAMBDA a : IF a.is = "result" THEN a.results ELSE << >>)

(* What other servers have written is what is merged: the results added    *)
(* are the results sent, and for each term collected the sum of the weights *)
(* that were sent, whether the members were named on the way or not.       *)
(* (serializer.cpp QueryResult, deserializer.cpp getQueryResult, getSummary) *)
MergedIsWhatWasSent ==
  /\ kind = "merger" => object.results = Received
  /\ kind = "builder" =>
       object.collected =
         [key \in {<<Summaries[i].name, Summaries[i].value>> : i \in DOMAIN Summaries} |->
            SumOf(Summaries, LAMBDA e : IF <<e.name, e.value>> = key THEN Tenths[e.weight]
                                        ELSE 0)]

(* The calls a document stands for.                                        *)
Listed(list, names) ==
  [p \in {<<ToString(i), n>> : i \in DOMAIN list, n \in names} |->
     list[CHOOSE i \in DOMAIN list : ToString(i) = p[1]][p[2]]]
Structured(list) ==
  LET of(p) == list[CHOOSE i \in DOMAIN list : ToString(i) = p[1]]
  IN  Listed(list, {"name"})
      @@ [p \in {<<ToString(i), s, e>> : i \in DOMAIN list, s \in {"source", "sink"},
                                        e \in {"start", "end"}} |-> of(p)[p[2]][p[3]]]
SectionCall(name, fields) == [call |-> name, fields |-> fields]
CallsOf(d) ==
  <<SectionCall("attribute", Listed(d.attribute, {"name", "value"})),
    SectionCall("metadata", Listed(d.metadata, {"name", "value"})),
    SectionCall("forwardindex", Listed(d.forwardindex, {"type", "value", "pos"})),
    SectionCall("searchindex", Listed(d.searchindex, {"type", "value", "pos"})),
    SectionCall("searchstruct", Structured(d.searchstruct))>>
  \o When(d.access # << >>,
          <<SectionCall("access", [p \in {<<ToString(i)>> : i \in DOMAIN d.access} |->
              d.access[CHOOSE i \in DOMAIN d.access : <<ToString(i)>> = p]])>>)

OperationsOf(a) ==
  CASE a.is = "insertion" ->
         [i \in DOMAIN a.documents |->
            [op |-> "insert", docid |-> a.documents[i].docid,
             calls |-> CallsOf(a.documents[i].document)]]
    [] a.is = "update"    -> <<[op |-> "update", docid |-> a.docid, calls |-> a.calls]>>
    [] a.is = "metadata"  -> <<[op |-> "metadata", calls |-> a.calls]>>
    [] a.is = "delete"    -> <<[op |-> "delete", docid |-> a.docid]>>
    [] a.is = "revoke"    -> <<[op |-> "revoke", user |-> a.docid]>>
    [] OTHER              -> << >>

(* A transaction prepares what was asked for: a document that was analyzed  *)
(* is inserted with all of its attributes, terms and structures, under its *)
(* own id, an update clears and defines what it says.  A commit does all   *)
(* that the calls since the last one have prepared, in their order.        *)
(* (storage.cpp, inserter.cpp, deserializer.cpp buildStorageDocument)      *)
TransactionDoesWhatWasAsked ==
  [][kind = "transaction" /\ asked' # asked =>
       LET a == asked'[Len(asked')]
       IN  /\ a.is = "commit" => /\ object'.done = object.done \o object.operations
                                 /\ object'.operations = << >>
           /\ a.is \notin {"commit", "rollback"} =>
                /\ object'.operations = object.operations \o OperationsOf(a)
                /\ object'.done = object.done]_vars

=============================================================================
