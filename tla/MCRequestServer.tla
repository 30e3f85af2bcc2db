--------------------------- MODULE MCRequestServer ---------------------------
(* Requests of clients: on a transaction, on configurations, queries.       *)
EXTENDS RequestServer, TLC

SlotSymmetry == Permutations(Slots)

Request(method, path, root, has, include) ==
    [method |-> method, path |-> path, root |-> root, has |-> has, include |-> include]
Plain(method, path) == Request(method, path, NoContent, {}, {})

MCEmbedded == {<<Root, Root>>, <<"storage", "main">>}

OnTransaction ==
    {Plain("POST", <<"storage", "main", "transaction">>)}
        \cup {Plain(m, <<"transaction", "t1">>) : m \in {"PUT", "DELETE", "HEAD"}}
        \cup {Request(m, <<"transaction", "t1">>, "storage", {"document"}, {}) : m \in {"PUT", "POST"}}

OnConfigurations ==
    {Request("PUT", <<"vstorage", "v">>, "vstorage", {}, {}), Plain("DELETE", <<"vstorage", "v">>),
     Request("PUT", <<"storage", "main">>, "storage", {}, {<<"qryeval", "e">>}),
     Request("POST", <<"inserter">>, "inserter", {}, {<<"storage", "main">>})}

MCInputs == OnTransaction \cup OnConfigurations

QueryEmbedded == {<<Root, Root>>, <<"distqryeval", "d">>, <<"qryanalyzer", "a">>, <<"storage", "s">>}

Query(has, include) == Request("GET", <<"distqryeval", "d">>, "query", has, include)

QueryInputs ==
    {Query({"feature"}, {}), Query({"feature", "restriction", "nofranks"}, {<<"qryanalyzer", "a">>}),
     Query({"feature"}, {<<"vstorage", "none">>}), Plain("GET", <<"distqryeval", "d", "collector">>),
     Plain("PUT", <<"distqryeval", "d", "collector">>),
     Request("PUT", <<"statserver", "st">>, "statserver", {}, {}), Plain("GET", <<"statserver", "st">>),
     Request("GET", <<"statserver", "st">>, "query", {"feature"}, {}),
     Request("PUT", <<"distqryeval", "d">>, "distqryeval", {}, {}),
     Plain("PATCH", <<"distqryeval", "d">>), Plain("POST", <<"distqryeval", "d">>),
     Request("DELETE", <<"distqryeval", "d">>, "distqryeval", {}, {}),
     Plain("DELETE", <<"statserver", "st">>), Plain("GET", << >>), Plain("GET", <<"storage">>),
     Plain("GET", <<"vstorage">>), Plain("DELETE", << >>), Plain("GET", <<"context">>),
     Plain("GET", <<"schema", "x", "y", "GET", "storage">>), Plain("GET", <<"schema", "x", "y", "PUT">>),
     Plain("POST", <<"schema", "x", "y", "PUT", "storage", "storage">>), Plain("GET", <<"schema", "context">>),
     Plain("PUT", <<"transaction">>), Plain("OPTIONS", <<"storage", "s">>),
     Request("GET", <<"storage", "s">>, "query", {"feature"}, {<<"qryanalyzer", "a">>}),
     Request("GET", <<"storage", "s">>, Malformed, {}, {}),
     Request("PUT", <<"storage", "s">>, "storage", {}, {}),
     Request("POST", <<"qryanalyzer">>, "qryanalyzer", {"vstorage"}, {}),
     Request("POST", <<"qryeval">>, "qryeval", {"weighting"}, {<<"storage", "s">>}),
     Plain("POST", <<"storage", "s", "transaction">>)}
        \cup {Plain(m, <<"transaction", "t1">>) : m \in {"PUT", "DELETE", "HEAD", "OPTIONS"}}
=============================================================================
