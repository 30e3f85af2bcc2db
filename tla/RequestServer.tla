---------------------------- MODULE RequestServer ----------------------------
(***************************************************************************)
(* Requests to the service (src/webrequest/webRequestContext*.cpp): what a *)
(* request context does from its creation to its answer, with the driver   *)
(* that calls it (webrequest_luasim).  A request resolves the object its   *)
(* path addresses, takes one of the branches [1.A] to [4.B] of             *)
(* executeObjectRequest, sends the delegate requests of the schema it ran, *)
(* completes and is answered.  Requests share the pool of transactions and *)
(* the contexts of the configurations, each step takes one of their locks. *)
(*                                                                         *)
(* The documents of a transaction are counted.  A context is the set of    *)
(* the variables it defines.                                               *)
(***************************************************************************)
EXTENDS RequestSchemas, Functions

CONSTANTS
    Slots,     \* requests in execution at the same time
    Inputs,    \* the requests clients send
    Tids,      \* ids of transactions, in the order they are handed out
    Embedded,  \* the configurations loaded when the service starts
    Servers,   \* how many servers an address variable lists
    MaxDocs    \* bound: documents inserted into a transaction

ASSUME ServerAssumption ==
    /\ Servers \in Nat \ {0} /\ MaxDocs \in Nat
    /\ "" \notin Tids
    /\ \A c \in Embedded : c[1] \in ConfigTypes \cup {Root}
    /\ \A i \in Inputs :
         /\ DOMAIN i = {"method", "path", "root", "has", "include"}
         /\ i.path \in Seq(STRING)
         /\ \A k \in DOMAIN i.path, t \in TransactionTypes : i.path[k] # TransactionContext[t]

VARIABLES
    q,         \* slot -> the request context in it
    tx,        \* tid -> the transaction
    contexts,  \* <<type, name>> -> variables of the context
    stored     \* <<type, name>> -> method that created the configuration

vars == <<q, tx, contexts, stored>>

NoContent == ""
Malformed == "?"
None == ""
NoContext == {}

Empty(in) == in.root = NoContent
Ok(r) == r.error = None

\* The request types the path and the method decide (WebRequestContext's constructor).
RequestType(in) ==
    IF in.method = "OPTIONS" THEN "options"
    ELSE IF in.path # << >> /\ in.path[1] = "schema" THEN "schema" ELSE "object"

NewContext(in) ==
    [ pc |-> "type", in |-> in, type |-> None, name |-> None, rest |-> in.path, ctx |-> NoContext,
      obj |-> None, tid |-> None, results |-> << >>, todo |-> << >>, accepted |-> 0, config |-> None,
      error |-> None, http |-> 200, content |-> FALSE ]

Idle == [NewContext([method |-> None, path |-> << >>, root |-> NoContent, has |-> {}, include |-> {}])
            EXCEPT !.pc = "idle"]

NoTransaction == [state |-> "unborn", type |-> None, ctx |-> NoContext, docs |-> 0, acked |-> 0,
                  published |-> 0, end |-> None]

Init ==
    /\ q = [s \in Slots |-> Idle]
    /\ tx = [t \in Tids |-> NoTransaction]
    /\ contexts = [c \in Embedded |-> ConfigVars(c[1]) \cup {Root}]
    /\ stored = <<>>

At(s, pc) == q[s].pc = pc
Becomes(s, r) == q' = [q EXCEPT ![s] = r]
Only(s, r) == Becomes(s, r) /\ UNCHANGED <<tx, contexts, stored>>

\* Mutant: the driver completes a request that failed.
FailCompletes(r, e) == [r EXCEPT !.error = e, !.pc = "complete"]

\* execute returned false with an error, the driver takes the answer and destroys the context.
Fail(r, e) == [r EXCEPT !.error = e, !.http = HttpStatus(e), !.content = FALSE, !.pc = "answered"]
\* execute returned true.
Done(r) == [r EXCEPT !.pc = "delegates"]
\* execute returned false without an error, the driver completes the request all the same.
Shrug(r) == [r EXCEPT !.pc = "complete"]

AnswerContent(r) == Done([r EXCEPT !.content = TRUE])
AnswerStatus(r, http) == Done([r EXCEPT !.http = http])

-----------------------------------------------------------------------------
(* Arrival, content type, description of a schema, options                 *)

Create_(s, in) ==
    /\ At(s, "idle")
    /\ Only(s, NewContext(in))

\* The charset, type and root element of the content, the type accepted for the answer.
ContentType(r) ==
    IF r.in.root = Malformed THEN {Fail(r, e) : e \in {"InputFormat", "NotImplemented", "InvalidRequest"}}
    ELSE {[r EXCEPT !.pc = RequestType(r.in)], Fail(r, "NotImplemented")}

InitContentType(s) ==
    /\ At(s, "type")
    /\ \E r \in ContentType(q[s]) : Only(s, r)

\* The path after "schema" names a context, then the schema.
DescribeSchema(s) ==
    LET r == q[s]
        path == Tail(r.in.path)
        schema == SubSeq(path, 3, Len(path))
    IN  /\ At(s, "schema")
        /\ Only(s, CASE path # << >> /\ (path[1] = Root \/ Len(path) = 1) -> Shrug(r)
                     [] OTHER ->
                        CASE ~Empty(r.in) -> Fail(r, "InvalidArgument")
                          [] Empty(r.in) /\ r.in.method # "GET" -> Fail(r, "RequestResolveError")
                          [] Empty(r.in) /\ r.in.method = "GET" /\ Len(schema) < 2 -> Fail(r, "RequestResolveError")
                          [] OTHER -> IF HasSchema(DescribedSchemaId(schema)) THEN AnswerContent(r)
                                      ELSE Fail(r, "RequestResolveError"))

-----------------------------------------------------------------------------
(* The object addressed                                                    *)

Addressed(r) == [r EXCEPT !.pc = IF RequestType(r.in) = "options" THEN "list" ELSE "run"]
ByPath(s) == At(s, "object") \/ At(s, "options")
OfTransaction(r) == r.in.path # << >> /\ r.in.path[1] = "transaction"

\* The transaction is taken out of the pool, owned by the request alone.
FetchTransaction(s) ==
    LET r == q[s]
        t == r.in.path[2]
    IN  /\ ByPath(s) /\ OfTransaction(r) /\ Len(r.in.path) > 1
        /\ IF t \in Tids /\ tx[t].state = "pooled"
           THEN /\ Becomes(s, Addressed([r EXCEPT !.type = TransactionContext[tx[t].type], !.name = t, !.tid = t,
                                                  !.ctx = tx[t].ctx, !.obj = "transaction",
                                                  !.rest = SubSeq(@, 3, Len(@))]))
                /\ tx' = [tx EXCEPT ![t].state = "owned"]
                /\ UNCHANGED <<contexts, stored>>
           ELSE Only(s, Fail(r, "RequestResolveError"))

FetchWithoutId(s) ==
    /\ ByPath(s) /\ OfTransaction(q[s]) /\ Len(q[s].in.path) = 1
    /\ Only(s, Fail(q[s], "IncompleteRequest"))

\* The variable of the context the rest of the path names, the main object otherwise.
AddressVariable(r) ==
    LET named == r.rest # << >> /\ r.rest[1] # r.type /\ r.rest[1] \in ConfigVars(r.type)
    IN  IF named /\ r.in.method # "GET" THEN Fail(r, "RequestResolveError")
        ELSE IF named THEN Addressed([r EXCEPT !.obj = r.rest[1], !.rest = Tail(@)])
        ELSE Addressed([r EXCEPT !.obj = IF r.type \in r.ctx THEN r.type ELSE None])

\* The request works on a clone of the context.
InheritContext(s) ==
    LET r == q[s]
        path == r.in.path
        type == IF path = << >> THEN None ELSE path[1]
        nameless == type = Root
        name == IF nameless THEN Root ELSE IF Len(path) > 1 THEN path[2] ELSE None
        rest == SubSeq(path, IF nameless THEN 2 ELSE 3, Len(path))
        addressed == [r EXCEPT !.type = type, !.name = name, !.rest = rest]
    IN  /\ ByPath(s) /\ ~OfTransaction(r)
        /\ Only(s, IF <<type, name>> \in DOMAIN contexts
                   THEN AddressVariable([addressed EXCEPT !.ctx = contexts[<<type, name>>]])
                   ELSE Addressed(addressed))

Options(s) ==
    /\ At(s, "list")
    /\ Only(s, IF Empty(q[s].in) THEN AnswerStatus(q[s], 200) ELSE Fail(q[s], "InvalidArgument"))

-----------------------------------------------------------------------------
(* The execution of a schema: the content is parsed, the contexts it names *)
(* are inherited, the calls are executed.                                  *)

Inherits(r, s) ==
    LET named == {i \in r.in.include : i[1] \in s.inherits}
    IN  named \subseteq DOMAIN contexts /\ s.required \subseteq {i[1] : i \in named}

Inherited(r, s) == UNION {contexts[i] : i \in {j \in r.in.include : j[1] \in s.inherits} \cap DOMAIN contexts}

\* Mutant: the return value of the execution is not looked at.
ExecuteAnyway(r, id, type) ==
    LET s == SchemaOf[id]
        run == ExecuteCalls(s.calls, r.in.has, r.ctx \cup Inherited(r, s), type)
    IN  {Done([r EXCEPT !.ctx = run.vars, !.results = s.results])}

Execute(r, id, type) ==
    IF ~HasSchema(id) THEN {Fail(r, "RequestResolveError")}
    ELSE LET s == SchemaOf[id]
             run == ExecuteCalls(s.calls, r.in.has, r.ctx \cup Inherited(r, s), type)
         IN  {Fail(r, e) : e \in {"InputFormat", "RuntimeError"}}
             \cup {CASE ~Inherits(r, s) -> Fail(r, "RequestResolveError")
                     [] Inherits(r, s) /\ ~run.ok -> Fail(r, "IncompleteDefinition")
                     [] OTHER -> Done([r EXCEPT !.ctx = run.vars, !.results = s.results])}

-----------------------------------------------------------------------------
(* The branches of executeObjectRequest                                    *)

Running(s, method) == At(s, "run") /\ q[s].in.method = method
Named(r) == r.rest = << >> /\ r.name # None
InTransaction(r) == r.tid # None

Insert(r, more) == [tx EXCEPT ![r.tid].docs = @ + more]
End(r, how) == [tx EXCEPT ![r.tid].state = "gone", ![r.tid].end = how]

\* [1.A] The object is called to commit; the transaction ends, whether it succeeds or not.
CommitTransaction(s) ==
    LET r == q[s]
        t == tx[r.tid]
        ended == [r EXCEPT !.tid = None, !.ctx = NoContext]
    IN  /\ Running(s, "PUT") /\ Named(r) /\ InTransaction(r) /\ Empty(r.in)
        /\ UNCHANGED <<contexts, stored>>
        /\ IF GetMethod(TransactionClass[t.type], "PUT/transaction", FALSE) = {}
           THEN Becomes(s, Fail(r, "RequestResolveError")) /\ UNCHANGED tx
           ELSE \/ /\ Becomes(s, AnswerStatus(ended, 204))
                   /\ tx' = [End(r, "commit") EXCEPT ![r.tid].published = t.docs]
                \/ /\ Becomes(s, Fail(ended, "HiddenError"))
                   /\ tx' = End(r, "failed")

\* A configuration without content.
ConfigureWithoutContent(s) ==
    LET r == q[s]
    IN  /\ Named(r) /\ Empty(r.in)
        /\ Running(s, "POST") \/ (Running(s, "PUT") /\ ~InTransaction(r))
        /\ Only(s, Fail(r, "IncompleteRequest"))

Patch(s) ==
    /\ Running(s, "PATCH") /\ Named(q[s])
    /\ Only(s, Fail(q[s], "NotImplemented"))

\* The context a configuration is built in inherits the root context only; the
\* transaction a request has fetched is dropped with its context.
RootObject(r) == [r EXCEPT !.ctx = contexts[<<Root, Root>>], !.obj = None, !.tid = None]

LoadConfiguration(r) ==
    IF r.type = Root THEN {Fail(r, "InvalidRequest")}
    ELSE Execute([RootObject(r) EXCEPT !.config = "store"], GetSchemaId(r.type, r.in.method, r.in.root), r.type)

\* [1.B.2], [1.D] PUT of a new configuration, POST of one named by the client.
PutConfiguration(s) ==
    LET r == q[s]
    IN  /\ Named(r) /\ ~Empty(r.in)
        /\ \/ Running(s, "PUT") /\ ~InTransaction(r) /\ r.obj = None
           \/ Running(s, "POST")
        /\ \E n \in LoadConfiguration(r) :
              Becomes(s, IF Ok(n) /\ r.in.method = "POST" THEN [n EXCEPT !.content = TRUE] ELSE n)
        /\ tx' = IF InTransaction(r) THEN End(r, "dropped") ELSE tx
        /\ UNCHANGED <<contexts, stored>>

TemporaryNames == {"1", "2"}

\* [1.C] POST of a configuration the service names.
PostConfiguration(s) ==
    LET r == q[s]
    IN  /\ Running(s, "POST") /\ r.rest = << >> /\ r.name = None /\ r.type # None /\ ~Empty(r.in)
        /\ \E name \in TemporaryNames :
             /\ <<r.type, name>> \notin DOMAIN contexts
             /\ \A o \in Slots : q[o].type = r.type => q[o].name # name
             /\ \E n \in LoadConfiguration([r EXCEPT !.name = name]) :
                  Only(s, IF Ok(n) THEN [n EXCEPT !.http = 201, !.content = TRUE] ELSE n)

\* [1.B.1] PUT of a configuration that exists: executed on the context where the type
\* has a schema for it, a new context is built and replaces it otherwise.
UpdateConfiguration(s) ==
    LET r == q[s]
        id == UpdateSchemaId(r.type)
        update == [r EXCEPT !.config = "store"]
    IN  /\ Running(s, "PUT") /\ Named(r) /\ ~InTransaction(r) /\ r.obj # None /\ ~Empty(r.in)
        /\ \/ r.type = Root /\ Only(s, Fail(r, "InvalidRequest"))
           \/ /\ r.type # Root /\ HasSchema(id)
              /\ IF SchemaOf[id].exclusive
                 THEN Only(s, [Fail(update, "ServiceNeedExclusiveAccess") EXCEPT !.pc = "interrupted"])
                 ELSE \E n \in Execute(update, id, r.type) : Only(s, n)
           \/ /\ r.type # Root /\ ~HasSchema(id)
              /\ \E n \in LoadConfiguration(r) : Only(s, n)

\* The driver may execute an interrupted update again, alone; it may leave it at the answer.
RetryUpdate(s) ==
    LET r == q[s]
    IN  /\ At(s, "interrupted")
        /\ \/ Only(s, [r EXCEPT !.pc = "answered"])
           \/ \E n \in Execute(r, UpdateSchemaId(r.type), r.type) : Only(s, n)

\* [1.E]
DeleteTransaction(s) ==
    LET r == q[s]
    IN  /\ Running(s, "DELETE") /\ Named(r) /\ Empty(r.in) /\ InTransaction(r)
        /\ Becomes(s, AnswerStatus([r EXCEPT !.tid = None], 204))
        /\ tx' = End(r, "deleted")
        /\ UNCHANGED <<contexts, stored>>

\* [1.F] The context is removed, then what is stored of it is deleted.
RemoveConfiguration(s) ==
    LET r == q[s]
        c == <<r.type, r.name>>
    IN  /\ Running(s, "DELETE") /\ Named(r) /\ Empty(r.in) /\ ~InTransaction(r)
        /\ UNCHANGED <<tx, stored>>
        /\ IF r.type = Root \/ c \notin DOMAIN contexts
           THEN /\ Becomes(s, Fail(r, IF r.type = Root THEN "InvalidRequest" ELSE "RequestResolveError"))
                /\ UNCHANGED contexts
           ELSE /\ Becomes(s, [r EXCEPT !.pc = "delete", !.ctx = NoContext, !.obj = None])
                /\ contexts' = Restrict(contexts, DOMAIN contexts \ {c})

DeleteStored(s) ==
    LET r == q[s]
        c == <<r.type, r.name>>
        deleted == AnswerStatus(RootObject(r), 204)
        id == DeleteSchemaId(r.type, stored[c])
    IN  /\ At(s, "delete")
        /\ UNCHANGED <<tx, contexts>>
        /\ IF c \notin DOMAIN stored
           THEN Becomes(s, Fail(r, "RequestResolveError")) /\ UNCHANGED stored
           ELSE \E n \in (IF HasSchema(id) THEN Execute(RootObject(r), id, r.type) ELSE {deleted}) :
                  /\ Becomes(s, IF Ok(n) THEN AnswerStatus(n, 204) ELSE n)
                  /\ stored' = IF Ok(n) THEN Restrict(stored, DOMAIN stored \ {c}) ELSE stored

DeleteWithContent(s) ==
    /\ Running(s, "DELETE") /\ Named(q[s]) /\ ~Empty(q[s].in)
    /\ Only(s, Fail(q[s], "InvalidRequest"))

\* [2] The names of the contexts of a type, the types without one.
ListContexts(s) ==
    LET r == q[s]
    IN  /\ At(s, "run") /\ r.rest = << >> /\ r.name = None /\ Empty(r.in)
        /\ Only(s, CASE r.in.method # "GET" -> Fail(r, "RequestResolveError")
                     [] r.in.method = "GET" /\ r.type # None /\ (\A c \in DOMAIN contexts : c[1] # r.type) ->
                            Fail(r, "RequestResolveError")
                     [] OTHER -> AnswerContent(r))

\* The branches [1] and [2] that leave the request to [3] and [4].
FallsThrough(r) ==
    \/ r.rest # << >>
    \/ r.name # None /\ r.in.method \in {"GET", "HEAD", ""}
    \/ r.name # None /\ r.in.method = "PUT" /\ InTransaction(r) /\ ~Empty(r.in)
    \/ r.name = None /\ ~Empty(r.in) /\ r.in.method # "POST"

ObjectType(r) == IF InTransaction(r) THEN tx[r.tid].type ELSE r.type
IsHostObject(r) == r.obj # None /\ r.obj \notin AddressVars(r.type)
ObjectMethods(r) == GetMethod(ClassOf(r.obj, ObjectType(r)), r.in.method, ~Empty(r.in))
PostsTransaction(r) == r.in.method = "POST" /\ r.rest = <<"transaction">>

\* [3.A] The object creates a transaction; the pool takes it with the context.
PostTransaction(s) ==
    LET r == q[s]
        methods == GetMethod(ClassOf(r.obj, ObjectType(r)), "POST/transaction", FALSE)
        free == {t \in Tids : tx[t].state = "unborn"}
    IN  /\ At(s, "run") /\ FallsThrough(r) /\ IsHostObject(r) /\ PostsTransaction(r)
        /\ UNCHANGED <<contexts, stored>>
        /\ \/ /\ Becomes(s, Fail(r, IF methods = {} THEN "RequestResolveError" ELSE "HiddenError"))
              /\ UNCHANGED tx
           \/ /\ methods # {}
              /\ \E t \in free :
                   /\ Becomes(s, [AnswerStatus(r, 201) EXCEPT !.content = TRUE])
                   /\ tx' = [tx EXCEPT ![t] = [NoTransaction EXCEPT !.state = "pooled", !.type = r.type,
                                                                   !.ctx = r.ctx \cup {"transaction"}]]

\* [3.B] A method of the object; those of a transaction insert documents.
CallMethod(s) ==
    LET r == q[s]
    IN  /\ At(s, "run") /\ FallsThrough(r) /\ IsHostObject(r) /\ ~PostsTransaction(r)
        /\ UNCHANGED <<contexts, stored>>
        /\ \E m \in ObjectMethods(r) :
             IF InTransaction(r) /\ r.in.method = "PUT"
             THEN \/ Becomes(s, AnswerStatus(r, m.http)) /\ tx' = Insert(r, 1)
                  \/ Becomes(s, Fail(r, "HiddenError")) /\ \E n \in 0..1 : tx' = Insert(r, n)
             ELSE /\ \/ Becomes(s, [AnswerStatus(r, m.http) EXCEPT !.content = TRUE])
                     \/ Becomes(s, Fail(r, "HiddenError"))
                  /\ UNCHANGED tx

\* [3.C] A variable that is a value, not an object.
MapValue(s) ==
    LET r == q[s]
    IN  /\ At(s, "run") /\ FallsThrough(r) /\ r.obj # None /\ ~IsHostObject(r) /\ r.in.method = "GET"
        /\ Only(s, AnswerContent(r))

NoMethod(r) ==
    \/ r.obj = None
    \/ IsHostObject(r) /\ ~PostsTransaction(r) /\ ObjectMethods(r) = {}
    \/ r.obj # None /\ ~IsHostObject(r) /\ r.in.method # "GET"

\* [4.A] The schema the context type has for the method; that of a transaction inserts documents.
ExecuteSchema(s) ==
    LET r == q[s]
        id == GetSchemaId(r.type, r.in.method, r.in.root)
    IN  /\ At(s, "run") /\ FallsThrough(r) /\ NoMethod(r) /\ r.ctx # NoContext /\ ~Empty(r.in)
        /\ UNCHANGED <<contexts, stored>>
        /\ \E n \in Execute(r, id, ObjectType(r)) :
             /\ Becomes(s, n)
             /\ IF ~InTransaction(r) THEN UNCHANGED tx
                ELSE IF Ok(n) THEN tx' = Insert(r, 1)
                ELSE \E more \in 0..1 : tx' = Insert(r, more)

\* [4.B], or nothing there to answer.
ListVariables(s) ==
    LET r == q[s]
    IN  /\ At(s, "run") /\ FallsThrough(r) /\ NoMethod(r) /\ (r.ctx = NoContext \/ Empty(r.in))
        /\ Only(s, IF r.ctx # NoContext /\ r.in.method = "GET" THEN AnswerContent(r)
                    ELSE Fail(r, "RequestResolveError"))

-----------------------------------------------------------------------------
(* Delegate requests                                                       *)

HasReceiver(d) == d.receiver # Answer

\* Mutant: the index of the next result is not advanced.
AdvanceNothing(r, i) == r

\* The result i was looked at.
Advance(r, i) == [r EXCEPT !.results = SubSeq(@, 1, i - 1) \o SubSeq(@, i + 1, Len(@))]

\* The requests of the next result with a receiver: one for each server its address
\* variable lists, one to the context itself without an address variable.
GetDelegateRequests(s) ==
    LET r == q[s]
        next == SelectInSeq(r.results, HasReceiver)
        d == r.results[next]
        after == Advance(r, next)
    IN  /\ At(s, "delegates") /\ r.todo = << >>
        /\ Only(s, IF next = 0 THEN [r EXCEPT !.pc = "complete"]
                    ELSE IF d.servers = ToSelf THEN [after EXCEPT !.todo = <<d>>]
                    ELSE IF d.servers \in r.ctx THEN [after EXCEPT !.todo = [i \in 1..Servers |-> d]]
                    ELSE Shrug([r EXCEPT !.error = "NotFound", !.http = HttpStatus("NotFound")]))

Receiver(r, d) == <<r.type, d.receiver, "">>

\* Mutant: an answer that is an error is skipped.
RefuseNothing(r, error) == r

\* The error of a delegate request is the context's answer, the first one stays.
Refuse(r, error) == IF Ok(r) THEN [r EXCEPT !.error = error, !.http = HttpStatus(error), !.content = FALSE] ELSE r

\* The answer of a server, with everything its receiver schema reads, an empty one or an error.
\* The receiver schema is executed in the context of the request.
PutDelegateAnswer(s) ==
    LET r == q[s]
        d == Head(r.todo)
        schema == SchemaOf[Receiver(r, d)]
        run == ExecuteCalls(schema.calls, ElementsOf(schema.calls), r.ctx, r.type)
        next == [r EXCEPT !.todo = Tail(@)]
        taken == [next EXCEPT !.accepted = @ + 1]
    IN  /\ At(s, "delegates") /\ r.todo # << >>
        /\ \/ ~Ok(r) /\ Only(s, next)
           \/ Ok(r) /\ d.servers # ToSelf /\ Only(s, Refuse(next, "DelegateRequestFailed"))
           \/ Ok(r) /\ d.servers # ToSelf /\ Only(s, taken)
           \/ /\ Ok(r)
              /\ LET refused == Refuse(next, "RuntimeError")
                 IN  Only(s, IF d.servers = ToSelf THEN [refused EXCEPT !.pc = "answered"] ELSE refused)
           \/ Ok(r) /\ run.ok /\ Only(s, [taken EXCEPT !.ctx = run.vars])

-----------------------------------------------------------------------------
(* Completion, the answer                                                  *)

Inserts(r) == r.in.method = "PUT" /\ ~Empty(r.in) /\ OfTransaction(r)

\* Mutant: the transaction is not given back.
GivesBackNothing(r) == FALSE

GivesBack(r) == InTransaction(r)

CompletesWell(r) == Ok(r)

\* The result, the transfer of the context of a configuration, the return of the transaction.
Complete(s) ==
    LET r == q[s]
        answered == [r EXCEPT !.pc = "answered", !.tid = None]
        c == <<r.type, r.name>>
        result == r.results # << >> /\ r.ctx # NoContext
        duplicate == result /\ r.content
        full == [answered EXCEPT !.content = @ \/ result]
        error == IF duplicate THEN "Syntax" ELSE "LogicError"
    IN  /\ At(s, "complete")
        /\ tx' = IF GivesBack(r) THEN [tx EXCEPT ![r.tid].state = "pooled",
                                                ![r.tid].acked = IF Inserts(r) /\ Ok(r) THEN @ + 1 ELSE @]
                 ELSE IF InTransaction(r) THEN End(r, "dropped") ELSE tx
        /\ \/ /\ ~CompletesWell(r)
              /\ Becomes(s, answered) /\ UNCHANGED <<contexts, stored>>
           \/ /\ CompletesWell(r) /\ (duplicate \/ r.config # None)
              /\ Becomes(s, Refuse(answered, error)) /\ UNCHANGED <<contexts, stored>>
           \/ /\ CompletesWell(r) /\ ~duplicate
              /\ Becomes(s, full)
              /\ IF r.config = None THEN UNCHANGED <<contexts, stored>>
                 ELSE /\ contexts' = [k \in DOMAIN contexts \cup {c} |-> IF k = c THEN r.ctx ELSE contexts[k]]
                      /\ stored' = [k \in DOMAIN stored \cup {c} |-> IF k = c THEN r.in.method ELSE stored[k]]

\* The answer is sent, the context destroyed with the transaction it holds.
Answer_(s) ==
    LET r == q[s]
    IN  /\ At(s, "answered")
        /\ Becomes(s, Idle)
        /\ tx' = IF InTransaction(r) THEN End(r, "error") ELSE tx
        /\ UNCHANGED <<contexts, stored>>

\* tick: the transactions that were idle for too long are collected.
CollectGarbage(t) ==
    /\ tx[t].state = "pooled"
    /\ tx' = [tx EXCEPT ![t].state = "gone", ![t].end = "expired"]
    /\ UNCHANGED <<q, contexts, stored>>

-----------------------------------------------------------------------------

\* Bound: no insert is sent to a transaction that has its documents, and no configuration
\* without a name to a type that has one with a name of the service's.
Sendable(in) ==
    /\ (in.method = "PUT" /\ in.root # NoContent /\ in.path[1] = "transaction" /\ in.path[2] \in Tids)
        => tx[in.path[2]].docs < MaxDocs
    /\ (in.method = "POST" /\ Len(in.path) = 1)
        => \A n \in TemporaryNames : <<in.path[1], n>> \notin DOMAIN contexts

Arrive(s) == \E in \in Inputs : Sendable(in) /\ Create_(s, in)

Step(s) ==
    \/ InitContentType(s) \/ DescribeSchema(s) \/ FetchTransaction(s) \/ FetchWithoutId(s)
    \/ InheritContext(s) \/ Options(s) \/ CommitTransaction(s) \/ ConfigureWithoutContent(s)
    \/ Patch(s) \/ PutConfiguration(s) \/ PostConfiguration(s) \/ UpdateConfiguration(s)
    \/ RetryUpdate(s) \/ DeleteTransaction(s) \/ RemoveConfiguration(s) \/ DeleteStored(s)
    \/ DeleteWithContent(s) \/ ListContexts(s) \/ PostTransaction(s) \/ CallMethod(s)
    \/ MapValue(s) \/ ExecuteSchema(s) \/ ListVariables(s) \/ GetDelegateRequests(s)
    \/ PutDelegateAnswer(s) \/ Complete(s) \/ Answer_(s)

Next ==
    \/ \E s \in Slots : Arrive(s) \/ Step(s)
    \/ \E t \in Tids : CollectGarbage(t)

\* The driver runs a request it has started to its answer.
Spec == Init /\ [][Next]_vars /\ \A s \in Slots : WF_vars(Step(s))

-----------------------------------------------------------------------------
(* Properties                                                              *)

\* Every request is in a known state and owns the transaction it holds.
TypeOK ==
    /\ \A s \in Slots :
        /\ q[s].pc \in {"idle", "type", "schema", "object", "options", "list", "run", "interrupted",
                        "delete", "delegates", "complete", "answered"}
        /\ q[s].tid # None => q[s].tid \in Tids /\ tx[q[s].tid].state = "owned"
        /\ Ok(q[s]) => q[s].http \in {200, 201, 204}
    /\ \A t \in Tids : tx[t].state \in {"unborn", "pooled", "owned", "gone"}
                          /\ tx[t].docs \in 0..(MaxDocs + Cardinality(Slots))
    /\ \A c \in DOMAIN contexts : c[1] \in ConfigTypes \cup {Root}

\* What a commit publishes are the documents of the inserts answered with success, all of
\* them and no other: a failed insert takes its transaction with it (executeCommitTransaction,
\* complete, ~WebRequestContext).
CommitPublishesAcknowledged ==
    \A t \in Tids : tx[t].end = "commit" => tx[t].published = tx[t].acked

\* A request that neither commits nor deletes takes a transaction from the pool for good only
\* if it is answered with an error (initRequestObject, complete, the branches [1.D] and [4]).
LostOnlyByError ==
    [][\A s \in Slots :
        LET t == q[s].tid
            ends == Empty(q[s].in) /\ q[s].in.method \in {"PUT", "DELETE"}
        IN  t # None /\ tx'[t].state = "gone" /\ ~ends => ~Ok(q[s]) \/ ~Ok(q'[s])]_vars

\* A context other requests can see has every variable its type promises, also when requests
\* that build contexts fail in the middle (loadConfigurationRequest, complete, transferContext).
ContextsWhole == \A c \in DOMAIN contexts : ConfigVars(c[1]) \subseteq contexts[c]

\* Every request that was started is answered: no branch leaves it without an end.
EveryRequestAnswered == \A s \in Slots : At(s, "type") ~> At(s, "idle")

DistributedQuery(r) ==
    r.type = "distqryeval" /\ r.in.method = "GET" /\ ~Empty(r.in) /\ r.rest = << >> /\ r.obj = None

\* The answers to the delegate requests of a distributed query.
AnswersToMerge ==
    LET results == DistQueryEvalSchema.results
        delegates == {i \in DOMAIN results : HasReceiver(results[i])}
        own == {i \in delegates : results[i].servers = ToSelf}
    IN  Servers * Cardinality(delegates \ own) + Cardinality(own)

\* A distributed query answered with success has the merged answers of every server it asked:
\* no analysis, statistics or ranklist of one of them is missing (getDelegateRequests,
\* putDelegateRequestAnswer, the schemas of schemas_distquery.hpp).
MergedFromAll ==
    \A s \in Slots :
        At(s, "answered") /\ Ok(q[s]) /\ DistributedQuery(q[s])
            => /\ q[s].accepted = AnswersToMerge
               /\ "ranklist" \in q[s].ctx
=============================================================================
