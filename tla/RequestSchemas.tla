--------------------------- MODULE RequestSchemas ---------------------------
(***************************************************************************)
(* The tables the request handler is built from: context types, schemas    *)
(* and methods of host objects (WebRequestHandler's constructor, the       *)
(* schemas_*.hpp).  A schema is named by its context type, its method and, *)
(* for the schemas of the root context that create or delete a             *)
(* configuration, the type of the configuration.                           *)
(***************************************************************************)
EXTENDS Naturals, FiniteSetsExt, RequestSchemaParts

Root == "context"

ConfigTypes == {"contentstats", "statserver", "storage", "vstorage", "docanalyzer",
                "qryanalyzer", "qryeval", "distqryeval", "inserter"}

-----------------------------------------------------------------------------
(* Results.  A result with a receiver schema is a delegate request, sent   *)
(* to the servers its address variable lists or, with none, fed back to    *)
(* the context itself; one without a receiver is the answer.  The content  *)
(* of both has the values of some variables, where they are defined.       *)

Answer == ""
ToSelf == ""
Delegate(receiver, servers, content) ==
    [receiver |-> receiver, servers |-> servers, content |-> content]
AnswerWith(content) == Delegate(Answer, ToSelf, content)

Schema(id, inherits, calls, results) ==
    [id |-> id, exclusive |-> FALSE, inherits |-> inherits, required |-> {},
     calls |-> calls, results |-> results]
Exclusive(s) == [s EXCEPT !.exclusive = TRUE]
Sending(s, results) == [s EXCEPT !.results = results]
Requiring(s) == [s EXCEPT !.required = s.inherits]

Create(method, type, inherits, calls) == Schema(<<Root, method, type>>, inherits, calls, <<>>)
Receive(type, name, calls) == Schema(<<type, name, "">>, {}, calls, <<>>)
Client(type, class) == << Call(Always, type, "context", class, {}) >>
Data == << Call(Always, Void, "context", "Context", {}) >>

MainSchemas ==
    {Exclusive(Schema(<<"", Root, "">>, {},
        << Assign(Always, Root) >>
            \o OnEach(<<"workdir", "resources", "directory", "modules", "debug", Always>>,
                      "context", "Context"), << >>))}

StorageSchemas ==
    LET uses == {"qryeval", "qryanalyzer"}
    IN  { Create("POST", "storage", uses, DefineStorage \o Data \o Client("storage", "Context")),
          Create("PUT", "storage", uses, DefineStorage \o Client("storage", "Context")),
          Exclusive(Schema(<<"storage", "PUT", "">>, uses,
                           DefineStorage \o Client("storage", "StorageClient"), << >>)),
          Create("DELETE_POST", "storage", {}, DefineDeleteStorage \o Data),
          Schema(<<"storage", "GET", "">>, uses,
                 AnalyzeQuery \o DefineQuery \o EvaluateQuery \o DefineStatisticsQuery,
                 << AnswerWith({"ranklist"}), AnswerWith({"_blob"}) >>),
          Receive("transaction/storage", "PUT",
                  OnEach(<<"document", "metadata">>, "transaction", "StorageTransaction")) }

VectorStorageSchemas ==
    { Create("POST", "vstorage", {}, DefineVectorStorage \o Data \o Client("vstorage", "Context")),
      Create("DELETE_POST", "vstorage", {}, DefineVectorStorage \o Data),
      Create("PUT", "vstorage", {}, DefineVectorStorage \o Client("vstorage", "Context")),
      Receive("transaction/vstorage", "PUT",
              OnEach(<<"document", Always>>, "transaction", "VectorStorageTransaction")) }

AnalyzerSchemas ==
    {Create(m, "docanalyzer", {}, DefineDocumentAnalyzer) : m \in {"POST", "PUT"}}
        \cup {Create(m, "qryanalyzer", {"vstorage"}, DefineQueryAnalyzer) : m \in {"POST", "PUT"}}
        \cup {Schema(<<"qryanalyzer", "GET", "">>, {"vstorage"}, AnalyzeQuery,
                     << AnswerWith({"_analyzed"}) >>)}

QueryEvalSchemas ==
    LET uses == {"storage", "qryanalyzer"}
    IN  {Create(m, "qryeval", uses, DefineQueryEval) : m \in {"POST", "PUT"}}
            \cup {Schema(<<"qryeval", "GET", "">>, uses,
                         AnalyzeQuery \o DefineQuery \o EvaluateQuery, << AnswerWith({"ranklist"}) >>)}

StatisticsSchemas ==
    { Sending(Create(m, "statserver", {},
                     << Assign(Always, "storage") >> \o Client("statserver", "Context")),
              << Delegate("PUT~statistics", "storage", {}) >>) : m \in {"POST", "PUT"} }
    \cup
    { Receive("statserver", "PUT~statistics",
              << Call("statistics", Void, "statserver", "StatisticsMap", {}) >>),
      Schema(<<"statserver", "GET", "">>, {}, EvaluateTermStatistics \o EvaluateGlobalStatistics,
             << AnswerWith({"_termstats", "_nofdocs"}) >>) }

InserterSchemas ==
    {Requiring(Create(m, "inserter", {"docanalyzer", "storage"},
        << Call(Always, "inserter", "context", "Context", {"storage", "docanalyzer"}) >>)) :
     m \in {"POST", "PUT"}}

ContentStatisticsSchemas ==
    {Create(m, "contentstats", {}, DefineContentStatistics) : m \in {"POST", "PUT"}}

DistQueryEvalConfigSchemas ==
    {Create(m, "distqryeval", {},
        << Assign(Always, "qryanalyzer"), Assign(Always, "collector"),
           Assign(Always, "qryeval"), Assign(Always, "statserver") >>) : m \in {"POST", "PUT"}}

DistQueryEvalSchema ==
    Schema(<<"distqryeval", "GET", "">>, {"qryanalyzer", "vstorage"},
           DefineQueryBuilder \o DefineResultMerger,
        << Delegate("SET~analysis", "qryanalyzer", {}),
           Delegate("SET~querystats", "statserver", {"_feature", "_restriction"}),
           Delegate("SET~collect", "collector", {"_feature", "_termstats", "_globalstats"}),
           Delegate("CLOSE~collect", ToSelf, {}),
           Delegate("SET~analysis", "qryanalyzer", {"_collected"}),
           Delegate("SET~ranklist", "qryeval",
                    {"_feature", "_restriction", "_termstats", "_globalstats"}),
           Delegate("END~ranklist", ToSelf, {}),
           AnswerWith({"ranklist"}) >>)

DistQueryEvalReceivers ==
    { Receive("distqryeval", "SET~analysis", DefineQueryAnalyzed \o BuildQuery),
      Receive("distqryeval", "SET~querystats", DeclareStatistics),
      Receive("distqryeval", "SET~collect", BuildQueryFromResult),
      Receive("distqryeval", "CLOSE~collect", CloseQueryFromResult),
      Receive("distqryeval", "SET~ranklist", AddQueryResult),
      Receive("distqryeval", "END~ranklist", MergeQueryResults) }

Schemas ==
    MainSchemas \cup StorageSchemas \cup VectorStorageSchemas \cup AnalyzerSchemas
        \cup QueryEvalSchemas \cup StatisticsSchemas \cup InserterSchemas
        \cup ContentStatisticsSchemas \cup DistQueryEvalConfigSchemas
        \cup {DistQueryEvalSchema} \cup DistQueryEvalReceivers

SchemaOf == [id \in {s.id : s \in Schemas} |-> CHOOSE s \in Schemas : s.id = id]
HasSchema(id) == id \in DOMAIN SchemaOf

-----------------------------------------------------------------------------
(* papuga executes the calls of a schema one after the other and fails at  *)
(* the first that does not find its objects: the variables after the calls *)
(* a content with these elements asks for.                                 *)

\* The class of the object a variable holds, none if it holds a value.
ClassOf(var, type) ==
    CASE var = "transaction" -> TransactionClass[type]
      [] var \in DOMAIN ObjectClass -> ObjectClass[var]
      [] OTHER -> ""

Resolves(c, vars, type) ==
    c.self = "" \/ (c.self \in vars /\ ClassOf(c.self, type) = c.class /\ c.args \subseteq vars)

\* A call after the others, if the content asks for it.
ExecuteCall(before, c, elements, type) ==
    IF c.element # Always /\ c.element \notin elements THEN before
    ELSE IF before.ok /\ Resolves(c, before.vars, type)
    THEN [before EXCEPT !.vars = @ \cup ({c.result} \ {Void})]
    ELSE [before EXCEPT !.ok = FALSE]

ExecuteCalls(calls, elements, vars, type) ==
    LET after[n \in 0 .. Len(calls)] ==
            IF n = 0 THEN [ok |-> TRUE, vars |-> vars]
            ELSE ExecuteCall(after[n - 1], calls[n], elements, type)
    IN  after[Len(calls)]

-----------------------------------------------------------------------------
(* Contexts.  Every variable of a context holds a host object or a value.  *)

(* The address lists of servers a configuration keeps are plain values.    *)
AddressVars(t) ==
    CASE t = "statserver" -> {"storage"}
      [] t = "distqryeval" -> {"qryanalyzer", "collector", "qryeval", "statserver"}
      [] OTHER -> {}

ConfigVars(t) ==
    CASE t = Root -> {Root}
      [] t = "distqryeval" -> AddressVars(t)
      [] OTHER -> AddressVars(t) \cup {t}

-----------------------------------------------------------------------------
(* Methods of the host objects: class, method, called with content         *)

Method(class, method, content, http) ==
    [class |-> class, method |-> method, content |-> content, http |-> http]

IntrospectionMethods ==
    {Method(ObjectClass[t], "GET", FALSE, 200) : t \in (ConfigTypes \ {"distqryeval"}) \cup {Root}}
        \cup {Method("DocumentAnalyzer", "GET", TRUE, 200)}

TransactionTypes == {"storage", "vstorage", "inserter", "contentstats"}

\* The context type of the transactions of objects of a type.
TransactionContext ==
    [ storage |-> "transaction/storage", vstorage |-> "transaction/vstorage",
      inserter |-> "transaction/inserter", contentstats |-> "transaction/contentstats" ]

TransactionMethods ==
    {Method(ObjectClass[t], "POST/transaction", FALSE, 200) : t \in TransactionTypes}
        \cup {Method(TransactionClass[t], "PUT/transaction", FALSE, 204) :
                t \in TransactionTypes \ {"contentstats"}}
        \cup {Method(TransactionClass[t], "PUT", TRUE, 204) : t \in {"inserter", "contentstats"}}
        \cup {Method("ContentStatisticsCollector", "GET", FALSE, 200)}

Methods == IntrospectionMethods \cup TransactionMethods

GetMethod(class, method, content) ==
    {m \in Methods : m.class = class /\ m.method = method /\ m.content = content}

-----------------------------------------------------------------------------
(* The schema a request runs                                               *)

Configures(method, type, root) == method \in {"POST", "PUT"} /\ root = type

GetSchemaId(type, method, root) ==
    IF method = "DELETE" \/ Configures(method, type, root)
    THEN <<Root, method, type>>
    ELSE <<type, method, "">>

UpdateSchemaId(type) == <<type, "PUT", "">>
DeleteSchemaId(type, createMethod) ==
    <<Root, IF createMethod = "POST" THEN "DELETE_POST" ELSE "DELETE_PUT", type>>

(* The description of a schema is asked for by method, type and root.      *)
DescribedSchemaId(path) ==
    LET method == path[1]
        type == path[2]
        root == IF Len(path) > 2 THEN path[3] ELSE ""
    IN  IF method \in {"DELETE", "DELETE_POST", "DELETE_PUT"} \/ Configures(method, type, root)
        THEN <<Root, method, type>>
        ELSE <<type, method, "">>

-----------------------------------------------------------------------------
(* Errors and their http status                                            *)

HttpStatus(error) ==
    CASE error \in {"InvalidRequest", "IncompleteRequest", "InputFormat", "Syntax", "Encoding",
                    "NotAllowed", "UnexpectedEof"} -> 400
      [] error = "RequestResolveError" -> 404
      [] error = "ServiceNeedExclusiveAccess" -> 503
      [] OTHER -> 500
=============================================================================
