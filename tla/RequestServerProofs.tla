------------------------ MODULE RequestServerProofs ------------------------
(***************************************************************************)
(* What becomes of a transaction, proved for every number of requests, any *)
(* inputs and any configuration of the service: a request that has taken a *)
(* transaction from the pool owns it alone, and every way out of the       *)
(* request gives it back with its documents acknowledged, ends it as the   *)
(* client asked for, or is answered with an error.  All the server does    *)
(* with transactions are steps of TransactionRegistry.                     *)
(*                                                                         *)
(* Then what a request knows from one of its steps to the next, and what   *)
(* follows: contexts are whole, distributed queries merge every answer,    *)
(* every step leads on to the answer.  Three parts: what calls executed in *)
(* their order make, what the schemas of the tables are made of, and the   *)
(* steps of a request.  The calls of a schema are executed by a recursive  *)
(* function over their number, and of all numbers that would break a       *)
(* statement about it there is a least one (Least): that takes the place   *)
(* of an induction.                                                        *)
(***************************************************************************)
EXTENDS RequestServer, SequenceTheorems, FiniteSetTheorems, WellFoundedInduction, TLAPS

TransactionContexts == {TransactionContext[u] : u \in TransactionTypes}

\* A transaction and a request have the fields of their records.
IsTransaction(x) ==
    /\ x = [state |-> x.state, type |-> x.type, ctx |-> x.ctx, docs |-> x.docs, acked |-> x.acked,
            published |-> x.published, end |-> x.end]
    /\ x.docs \in Nat /\ x.acked \in Nat

IsRequest(r) ==
    r = [pc |-> r.pc, in |-> r.in, type |-> r.type, name |-> r.name, rest |-> r.rest, ctx |-> r.ctx,
         obj |-> r.obj, tid |-> r.tid, results |-> r.results, todo |-> r.todo, accepted |-> r.accepted,
         config |-> r.config, error |-> r.error, http |-> r.http, content |-> r.content]

\* A transaction nobody owns has the documents of the inserts acknowledged.
TransactionOK(x) ==
    /\ IsTransaction(x)
    /\ x.state # "unborn" => x.type \in TransactionTypes
    /\ x.state = "pooled" => x.docs = x.acked
    /\ x.end # None => x.state = "gone"
    /\ x.end = "commit" => x.published = x.acked

\* What a request that has no transaction, or has not looked for one, knows of objects.
RequestOK(r) ==
    /\ IsRequest(r)
    /\ r.pc \in {"idle", "type", "schema", "object", "options", "interrupted", "delete"} => r.tid = None
    /\ r.pc \in {"idle", "type", "schema", "object", "options"} =>
         Ok(r) /\ r.obj = None /\ r.results = << >> /\ r.todo = << >>
    /\ r.pc = "list" => r.in.method = "OPTIONS"
    /\ r.pc = "run" /\ r.tid = None =>
         r.type # "transaction" /\ r.obj \in {None, r.type} \cup ConfigVars(r.type)

\* What a request knows of its transaction x.  Documents it has inserted are not
\* acknowledged before it completes.
Holds(r, x) ==
    /\ x.state = "owned" /\ OfTransaction(r)
    /\ r.pc \in {"run", "list"} =>
         /\ Ok(r) /\ r.type = TransactionContext[x.type] /\ r.obj = "transaction" /\ x.docs = x.acked
         /\ r.name # None
    /\ r.pc \in {"delegates", "complete"} =>
         Ok(r) /\ x.docs = x.acked + (IF Inserts(r) THEN 1 ELSE 0)
    /\ r.pc # "answered" => r.results = << >> /\ r.todo = << >>
    /\ r.pc = "answered" => ~Ok(r)

\* The inductive invariant.
RequestInv ==
    /\ q = [s \in Slots |-> q[s]] /\ tx = [t \in Tids |-> tx[t]]
    /\ \A t \in Tids : TransactionOK(tx[t])
    /\ \A s \in Slots : RequestOK(q[s])
    /\ \A s \in Slots : q[s].tid # None => q[s].tid \in Tids /\ Holds(q[s], tx[q[s].tid])
    /\ \A s, o \in Slots : q[s].tid = q[o].tid /\ q[s].tid # None => s = o

\* The step of LostOnlyByError.
LossesOK ==
    \A s \in Slots :
        LET t == q[s].tid
            ends == Empty(q[s].in) /\ q[s].in.method \in {"PUT", "DELETE"}
        IN  t # None /\ tx'[t].state = "gone" /\ ~ends => ~Ok(q[s]) \/ ~Ok(q'[s])

\* The pool as requests see it: what a request holds is taken, and a fetch is one step.
Status(t) == IF tx[t].state = "owned" THEN "taken" ELSE tx[t].state

Registry ==
    INSTANCE TransactionRegistry WITH
        Threads <- Slots, Ids <- Tids, NoTransaction <- None,
        status <- [t \in Tids |-> Status(t)],
        holder <- [s \in Slots |-> q[s].tid],
        wanted <- [s \in Slots |-> None],
        absent <- [s \in Slots |-> FALSE]

\* What every step keeps.
StepOK == LossesOK /\ [Registry!Next]_Registry!vars

-----------------------------------------------------------------------------
(* The tables                                                              *)

\* What the id of a schema says: a transaction has a schema for PUT only, and it sends
\* nothing to other servers.
IdOK(s) ==
    /\ s.id[1] \in TransactionContexts => s.id[2] = "PUT" /\ s.results = << >>
    /\ s.id[1] = Root => s.id[3] \notin TransactionContexts

LEMMA ContextNames ==
    /\ TransactionContexts = {"transaction/storage", "transaction/vstorage", "transaction/inserter",
                              "transaction/contentstats"}
    /\ \A u \in TransactionTypes : TransactionContext[u] \in TransactionContexts
BY DEF TransactionContexts, TransactionTypes, TransactionContext

\* The ids a schema is declared with.
LEMMA SchemaOK ==
    ASSUME NEW type, NEW method, NEW third, NEW inherits, NEW calls, NEW results,
           type \notin TransactionContexts, type # Root
    PROVE  /\ IdOK(Schema(<<type, method, third>>, inherits, calls, results))
           /\ IdOK(Exclusive(Schema(<<type, method, third>>, inherits, calls, results)))
BY DEF IdOK, Schema, Exclusive

LEMMA CreateOK ==
    ASSUME NEW type, NEW method, NEW inherits, NEW calls, NEW results, type \notin TransactionContexts
    PROVE  /\ IdOK(Create(method, type, inherits, calls))
           /\ IdOK(Requiring(Create(method, type, inherits, calls)))
           /\ IdOK(Sending(Create(method, type, inherits, calls), results))
<1>1. Root \notin TransactionContexts
  BY ContextNames DEF Root
<1>2. <<Root, method, type>>[1] = Root /\ <<Root, method, type>>[3] = type
  OBVIOUS
<1> QED
  BY <1>1, <1>2 DEF IdOK, Schema, Create, Requiring, Sending

LEMMA ReceiveOK ==
    ASSUME NEW type, NEW name, NEW calls, type # Root, type \in TransactionContexts => name = "PUT"
    PROVE  IdOK(Receive(type, name, calls))
BY DEF IdOK, Schema, Receive

LEMMA SchemasOK == \A s \in Schemas : IdOK(s)
<1> USE ContextNames, SchemaOK, CreateOK, ReceiveOK DEF Root
<1>1. \A s \in MainSchemas : IdOK(s)
  BY DEF MainSchemas
<1>2. \A s \in StorageSchemas : IdOK(s)
  BY DEF StorageSchemas
<1>3. \A s \in VectorStorageSchemas : IdOK(s)
  BY DEF VectorStorageSchemas
<1>4. \A s \in AnalyzerSchemas : IdOK(s)
  BY DEF AnalyzerSchemas
<1>5. \A s \in QueryEvalSchemas : IdOK(s)
  BY DEF QueryEvalSchemas
<1>6. \A s \in StatisticsSchemas : IdOK(s)
  BY DEF StatisticsSchemas
<1>7. \A s \in InserterSchemas : IdOK(s)
  BY DEF InserterSchemas
<1>8. \A s \in ContentStatisticsSchemas : IdOK(s)
  BY DEF ContentStatisticsSchemas
<1>9. \A s \in DistQueryEvalConfigSchemas : IdOK(s)
  BY DEF DistQueryEvalConfigSchemas
<1>10. \A s \in DistQueryEvalReceivers : IdOK(s)
  BY DEF DistQueryEvalReceivers
<1>11. IdOK(DistQueryEvalSchema)
  BY DEF DistQueryEvalSchema
<1> QED
  BY <1>1, <1>2, <1>3, <1>4, <1>5, <1>6, <1>7, <1>8, <1>9, <1>10, <1>11 DEF Schemas

\* A transaction executes a schema for PUT only, and has nothing to send then.
LEMMA TransactionSchema ==
    ASSUME NEW u \in TransactionTypes, NEW method, NEW root,
           HasSchema(GetSchemaId(TransactionContext[u], method, root))
    PROVE  method = "PUT" /\ SchemaOf[GetSchemaId(TransactionContext[u], method, root)].results = << >>
<1> DEFINE type == TransactionContext[u]
           id == GetSchemaId(type, method, root)
<1>1. type \in TransactionContexts
  BY ContextNames
<1>2. PICK s \in Schemas : s.id = id
  BY DEF HasSchema, SchemaOf
<1>3. SchemaOf[id] \in Schemas /\ SchemaOf[id].id = id
  BY <1>2 DEF SchemaOf
<1>4. IdOK(SchemaOf[id])
  BY <1>3, SchemasOK
<1>5. id = <<Root, method, type>> \/ id = <<type, method, "">>
  BY DEF GetSchemaId
<1> HIDE DEF type, id
<1>6. CASE id = <<Root, method, type>>
  <2>1. id[1] = Root /\ id[3] = type
    BY <1>6
  <2> QED
    BY <1>1, <1>3, <1>4, <2>1 DEF IdOK
<1>7. CASE id = <<type, method, "">>
  <2>1. id[1] = type /\ id[2] = method
    BY <1>7
  <2> QED
    BY <1>1, <1>3, <1>4, <2>1 DEF IdOK, type, id
<1> QED
  BY <1>5, <1>6, <1>7

\* Only the objects of some types create transactions.
LEMMA CreatesTransaction ==
    ASSUME NEW type, type # "transaction", NEW other,
           NEW m \in GetMethod(ClassOf(type, other), "POST/transaction", FALSE)
    PROVE  type \in TransactionTypes
<1>1. m.class = ClassOf(type, other) /\ m.method = "POST/transaction" /\ m \in Methods
  BY DEF GetMethod
<1>2. m \notin IntrospectionMethods
  BY <1>1 DEF IntrospectionMethods, Method
<1>3. \E u \in TransactionTypes : m.class = ObjectClass[u]
  BY <1>1, <1>2 DEF Methods, TransactionMethods, Method
<1>4. \A u \in TransactionTypes : ObjectClass[u] # ""
  <2>1. \A u \in TransactionTypes :
          ObjectClass[u] \in {"StorageClient", "VectorStorageClient", "Inserter", "ContentStatistics"}
    BY DEF ObjectClass, TransactionTypes
  <2> QED
    BY <2>1
<1>5. DOMAIN ObjectClass = {"context", "storage", "vstorage", "docanalyzer", "qryanalyzer", "qryeval",
                           "statserver", "inserter", "contentstats", "query", "qrybuilder", "merger"}
  BY DEF ObjectClass
<1>6. \A u \in TransactionTypes, t \in DOMAIN ObjectClass : ObjectClass[t] = ObjectClass[u] => t = u
  BY <1>5 DEF ObjectClass, TransactionTypes
<1> QED
  BY <1>1, <1>3, <1>4, <1>6 DEF ClassOf

\* A transaction creates none.
LEMMA TransactionCreatesNone ==
    ASSUME NEW u \in TransactionTypes
    PROVE  GetMethod(ClassOf("transaction", u), "POST/transaction", FALSE) = {}
BY DEF GetMethod, Methods, IntrospectionMethods, TransactionMethods, Method, ClassOf, ObjectClass,
       TransactionClass, TransactionTypes, ConfigTypes, Root

\* The method of an object for PUT has a content.
LEMMA PutHasContent == ASSUME NEW class PROVE GetMethod(class, "PUT", FALSE) = {}
BY DEF GetMethod, Methods, IntrospectionMethods, TransactionMethods, Method
-----------------------------------------------------------------------------
(* Steps                                                                   *)

\* The records the branches of a request end with.
LEMMA Failed ==
    ASSUME NEW r, IsRequest(r), NEW e
    PROVE  LET n == Fail(r, e) IN
           /\ IsRequest(n) /\ n.tid = r.tid /\ n.in = r.in /\ n.type = r.type /\ n.todo = r.todo
           /\ n.pc = "answered" /\ n.error = e
<1> DEFINE status == HttpStatus(e)
<1>1. Fail(r, e) = [r EXCEPT !.error = e, !.http = status, !.content = FALSE, !.pc = "answered"]
  BY DEF Fail
<1> HIDE DEF status
<1> QED
  BY <1>1 DEF IsRequest

LEMMA Answered ==
    ASSUME NEW r, IsRequest(r), NEW n,
           n = AnswerContent(r) \/ \E http : n = AnswerStatus(r, http)
    PROVE  /\ IsRequest(n) /\ n.tid = r.tid /\ n.in = r.in /\ n.pc = "delegates"
           /\ n.error = r.error /\ n.results = r.results /\ n.todo = r.todo
BY DEF IsRequest, AnswerStatus, AnswerContent, Done

LEMMA Shrugged ==
    ASSUME NEW r, IsRequest(r)
    PROVE  LET n == Shrug(r) IN IsRequest(n) /\ n.tid = r.tid /\ n.pc = "complete"
BY DEF IsRequest, Shrug

\* A request is executed: it fails, or is done with the results of its schema.
LEMMA Executed ==
    ASSUME NEW r, IsRequest(r), NEW id, NEW type, NEW n \in Execute(r, id, type)
    PROVE  /\ IsRequest(n) /\ n.tid = r.tid /\ n.in = r.in /\ n.type = r.type /\ n.todo = r.todo
           /\ \/ n.pc = "answered" /\ ~Ok(n)
              \/ /\ HasSchema(id) /\ n.pc = "delegates" /\ n.error = r.error
                 /\ n.results = SchemaOf[id].results
<1>1. CASE \E e \in {"RequestResolveError", "InputFormat", "RuntimeError", "IncompleteDefinition"} : n = Fail(r, e)
  <2>1. PICK e \in {"RequestResolveError", "InputFormat", "RuntimeError", "IncompleteDefinition"} : n = Fail(r, e)
    BY <1>1
  <2>2. e # None
    BY DEF None
  <2> QED
    BY <2>1, <2>2, Failed DEF Ok
<1>2. CASE /\ HasSchema(id)
           /\ \E vars_ : n = Done([r EXCEPT !.ctx = vars_, !.results = SchemaOf[id].results])
  BY <1>2 DEF IsRequest, Done
<1> QED
  BY <1>1, <1>2 DEF Execute

\* The steps of the registry.
LEMMA Stutters ==
    ASSUME \A t \in Tids : tx'[t].state = tx[t].state, \A o \in Slots : q'[o].tid = q[o].tid
    PROVE  [Registry!Next]_Registry!vars
BY DEF Registry!vars, Status

LEMMA GivesBackStep ==
    ASSUME NEW s \in Slots, q[s].tid \in Tids, q[s].tid # None,
           \A o \in Slots : q'[o].tid = IF o = s THEN None ELSE q[o].tid,
           tx'[q[s].tid].state \in {"pooled", "gone"},
           \A t \in Tids : t # q[s].tid => tx'[t].state = tx[t].state
    PROVE  [Registry!Next]_Registry!vars
<1>1. Registry!GiveBack(s)
  BY DEF Registry!GiveBack, Status
<1> QED
  BY <1>1 DEF Registry!Next, Registry!Step, Registry!Observe

LEMMA FetchesStep ==
    ASSUME NEW s \in Slots, NEW t \in Tids, q[s].tid = None, tx[t].state = "pooled",
           \A o \in Slots : q'[o].tid = IF o = s THEN t ELSE q[o].tid,
           \A u \in Tids : tx'[u].state = IF u = t THEN "owned" ELSE tx[u].state
    PROVE  [Registry!Next]_Registry!vars
<1>1. Registry!Fetch(s, t)
  BY DEF Registry!Fetch, Status
<1> QED
  BY <1>1 DEF Registry!Next, Registry!Step, Registry!Observe

LEMMA CreatesStep ==
    ASSUME NEW t \in Tids, tx[t].state = "unborn",
           \A o \in Slots : q'[o].tid = q[o].tid,
           \A u \in Tids : tx'[u].state = IF u = t THEN "pooled" ELSE tx[u].state
    PROVE  [Registry!Next]_Registry!vars
<1>1. Registry!Create(t)
  BY DEF Registry!Create, Status
<1> QED
  BY <1>1 DEF Registry!Next, Registry!Step, Registry!Observe

LEMMA ExpiresStep ==
    ASSUME NEW t \in Tids, tx[t].state = "pooled",
           \A o \in Slots : q'[o].tid = q[o].tid,
           \A u \in Tids : tx'[u].state = IF u = t THEN "gone" ELSE tx[u].state
    PROVE  [Registry!Next]_Registry!vars
<1>1. Registry!Expire(t)
  BY DEF Registry!Expire, Status
<1> QED
  BY <1>1 DEF Registry!Next, Registry!Step, Registry!Observe

\* A step of a request that may change its own transaction.
LEMMA OwnStep ==
    ASSUME RequestInv, NEW s \in Slots, NEW r, Becomes(s, r), RequestOK(r),
           r.tid # None => r.tid = q[s].tid,
           \/ tx' = tx
           \/ /\ q[s].tid # None
              /\ \E x : TransactionOK(x) /\ tx' = [tx EXCEPT ![q[s].tid] = x],
           r.tid # None => Holds(r, tx'[r.tid]),
           q[s].tid # None /\ tx'[q[s].tid].state = "gone" =>
             \/ Empty(q[s].in) /\ q[s].in.method \in {"PUT", "DELETE"}
             \/ ~Ok(q[s]) \/ ~Ok(r),
           q[s].tid # None /\ r.tid = None => tx'[q[s].tid].state \in {"pooled", "gone"}
    PROVE  RequestInv' /\ StepOK
<1>1. q' = [o \in Slots |-> IF o = s THEN r ELSE q[o]]
  BY DEF Becomes, RequestInv
<1>2. tx' = [t \in Tids |-> tx'[t]] /\ \A t \in Tids : TransactionOK(tx'[t])
  BY DEF RequestInv
<1>3. \A o \in Slots : o # s /\ q[o].tid # None => q[o].tid # q[s].tid /\ tx'[q[o].tid] = tx[q[o].tid]
  BY DEF RequestInv
<1>4. (\A t \in Tids : TransactionOK(tx[t]))'
  BY <1>2 DEF TransactionOK, IsTransaction
<1>5. \A o \in Slots : RequestOK(q'[o])
  BY <1>1 DEF RequestInv
<1>6. \A o \in Slots : q'[o].tid # None => q'[o].tid \in Tids /\ Holds(q'[o], tx'[q'[o].tid])
  BY <1>1, <1>3 DEF RequestInv
<1>7. \A o, p \in Slots : q'[o].tid = q'[p].tid /\ q'[o].tid # None => o = p
  BY <1>1 DEF RequestInv
<1>8. RequestInv'
  BY <1>1, <1>2, <1>5, <1>6, <1>7 DEF RequestInv
<1>9. LossesOK
  <2> SUFFICES ASSUME NEW o \in Slots, q[o].tid # None, tx'[q[o].tid].state = "gone",
                      ~(Empty(q[o].in) /\ q[o].in.method \in {"PUT", "DELETE"})
               PROVE  ~Ok(q[o]) \/ ~Ok(q'[o])
    BY DEF LossesOK
  <2>1. tx[q[o].tid].state = "owned"
    BY DEF RequestInv, Holds
  <2>2. o = s
    BY <1>3, <2>1
  <2> QED
    BY <1>1, <2>2
<1>10. CASE r.tid = q[s].tid
  <2>1. \A t \in Tids : tx'[t].state = tx[t].state
    BY <1>2, <1>10 DEF RequestInv, Holds
  <2>2. \A o \in Slots : q'[o].tid = q[o].tid
    BY <1>1, <1>10
  <2> QED
    BY <1>8, <1>9, <2>1, <2>2, Stutters DEF StepOK
<1>11. CASE q[s].tid # None /\ r.tid = None
  <2>1. \A o \in Slots : q'[o].tid = IF o = s THEN None ELSE q[o].tid
    BY <1>1, <1>11
  <2>2. \A t \in Tids : t # q[s].tid => tx'[t].state = tx[t].state
    BY <1>2 DEF RequestInv
  <2>3. q[s].tid \in Tids
    BY <1>11 DEF RequestInv
  <2>4. [Registry!Next]_Registry!vars
    BY <1>11, <2>1, <2>2, <2>3, GivesBackStep
  <2> QED
    BY <1>8, <1>9, <2>4 DEF StepOK
<1> QED
  BY <1>10, <1>11

\* A request is answered with an error.
LEMMA FailStep ==
    ASSUME RequestInv, NEW s \in Slots, NEW r, Becomes(s, r), UNCHANGED tx,
           IsRequest(r), r.tid = q[s].tid, r.in = q[s].in, r.pc = "answered", ~Ok(r)
    PROVE  RequestInv' /\ StepOK
<1>1. RequestOK(r)
  BY DEF RequestOK
<1>2. q[s].tid # None => tx[q[s].tid].state = "owned" /\ Holds(q[s], tx[q[s].tid])
  BY DEF RequestInv, Holds
<1>3. r.tid # None => Holds(r, tx'[r.tid])
  BY <1>2 DEF Holds, OfTransaction
<1> QED
  BY <1>1, <1>2, <1>3, OwnStep

\* A request without a transaction goes on.
LEMMA FreeStep ==
    ASSUME RequestInv, NEW s \in Slots, NEW r, Becomes(s, r), UNCHANGED tx,
           RequestOK(r), q[s].tid = None, r.tid = None
    PROVE  RequestInv' /\ StepOK
BY OwnStep

\* A request that does not insert is done.
LEMMA DoneStep ==
    ASSUME RequestInv, NEW s \in Slots, NEW r, Becomes(s, r), UNCHANGED tx,
           q[s].pc \in {"run", "list"}, IsRequest(r), r.tid = q[s].tid, r.in = q[s].in, r.pc = "delegates",
           r.error = q[s].error, r.results = q[s].results, r.todo = q[s].todo,
           r.tid # None => ~Inserts(r)
    PROVE  RequestInv' /\ StepOK
<1>1. RequestOK(r)
  BY DEF RequestOK
<1>2. q[s].tid # None => q[s].tid \in Tids /\ tx[q[s].tid].state = "owned" /\ Holds(q[s], tx[q[s].tid])
  BY DEF RequestInv, Holds
<1>3. r.tid # None => tx[r.tid].docs \in Nat /\ tx[r.tid].acked \in Nat
  BY <1>2 DEF RequestInv, TransactionOK, IsTransaction
<1>4. r.tid # None => Holds(r, tx'[r.tid])
  BY <1>2, <1>3 DEF Holds, OfTransaction, Ok
<1> QED
  BY <1>1, <1>2, <1>4, OwnStep

LEMMA ArriveStep ==
    ASSUME RequestInv, NEW s \in Slots, Arrive(s)
    PROVE  RequestInv' /\ StepOK
<1>1. PICK in \in Inputs : At(s, "idle") /\ Becomes(s, NewContext(in)) /\ UNCHANGED tx
  BY DEF Arrive, Create_, Only
<1>2. q[s].tid = None
  BY <1>1 DEF At, RequestInv, RequestOK
<1>3. RequestOK(NewContext(in)) /\ NewContext(in).tid = None
  BY DEF NewContext, RequestOK, IsRequest, Ok, None
<1> QED
  BY <1>1, <1>2, <1>3, FreeStep

LEMMA InitContentTypeStep ==
    ASSUME RequestInv, NEW s \in Slots, InitContentType(s)
    PROVE  RequestInv' /\ StepOK
<1>1. At(s, "type") /\ RequestOK(q[s]) /\ q[s].tid = None
  BY DEF InitContentType, At, RequestInv, RequestOK
<1>2. PICK n \in ContentType(q[s]) : Becomes(s, n) /\ UNCHANGED tx
  BY DEF InitContentType, Only
<1>3. CASE \E e : n = Fail(q[s], e)
  <2>1. RequestOK(n) /\ n.tid = None
    BY <1>1, <1>3, Failed DEF RequestOK
  <2> QED
    BY <1>1, <1>2, <2>1, FreeStep
<1>4. CASE n = [q[s] EXCEPT !.pc = RequestType(q[s].in)]
  <2>1. RequestType(q[s].in) \in {"options", "schema", "object"}
    BY DEF RequestType
  <2>2. RequestOK(n) /\ n.tid = None
    BY <1>1, <1>4, <2>1 DEF RequestOK, IsRequest, At, Ok
  <2> QED
    BY <1>1, <1>2, <2>2, FreeStep
<1> QED
  BY <1>2, <1>3, <1>4 DEF ContentType

LEMMA DescribeSchemaStep ==
    ASSUME RequestInv, NEW s \in Slots, DescribeSchema(s)
    PROVE  RequestInv' /\ StepOK
<1>1. RequestOK(q[s]) /\ q[s].tid = None
  BY DEF DescribeSchema, At, RequestInv, RequestOK
<1>2. PICK n : Only(s, n) /\ (n = Shrug(q[s]) \/ n = AnswerContent(q[s]) \/ \E e : n = Fail(q[s], e))
  BY DEF DescribeSchema
<1>3. RequestOK(n) /\ n.tid = None
  BY <1>1, <1>2, Failed, Answered, Shrugged DEF RequestOK
<1> QED
  BY <1>1, <1>2, <1>3, FreeStep DEF Only
\* A request that has not found an object fails.
LEMMA FailsFree ==
    ASSUME RequestInv, NEW s \in Slots, NEW e, Only(s, Fail(q[s], e)), q[s].tid = None
    PROVE  RequestInv' /\ StepOK
<1>1. RequestOK(Fail(q[s], e)) /\ Fail(q[s], e).tid = None
  BY Failed DEF RequestInv, RequestOK
<1> QED
  BY <1>1, FreeStep DEF Only

\* A request fails.
LEMMA Fails ==
    ASSUME RequestInv, NEW s \in Slots, NEW e, e # None, Becomes(s, Fail(q[s], e)), UNCHANGED tx
    PROVE  RequestInv' /\ StepOK
<1>1. IsRequest(q[s])
  BY DEF RequestInv, RequestOK
<1>2. /\ IsRequest(Fail(q[s], e)) /\ Fail(q[s], e).tid = q[s].tid /\ Fail(q[s], e).in = q[s].in
      /\ Fail(q[s], e).pc = "answered" /\ Fail(q[s], e).error = e
  BY <1>1, Failed
<1> QED
  BY <1>2, FailStep DEF Ok

LEMMA FetchTransactionStep ==
    ASSUME RequestInv, NEW s \in Slots, FetchTransaction(s), ServerAssumption
    PROVE  RequestInv' /\ StepOK
<1> DEFINE r == q[s]
           t == r.in.path[2]
           n == Addressed([r EXCEPT !.type = TransactionContext[tx[t].type], !.name = t, !.tid = t,
                                    !.ctx = tx[t].ctx, !.obj = "transaction",
                                    !.rest = SubSeq(@, 3, Len(@))])
<1>1. /\ RequestOK(r) /\ r.tid = None /\ Ok(r) /\ r.results = << >> /\ r.todo = << >> /\ OfTransaction(r)
  BY DEF FetchTransaction, ByPath, At, RequestInv, RequestOK
<1>2. CASE t \in Tids /\ tx[t].state = "pooled"
  <2>1. /\ Becomes(s, n) /\ tx' = [tx EXCEPT ![t].state = "owned"]
    BY <1>2 DEF FetchTransaction
  <2>2. /\ IsRequest(n) /\ n.tid = t /\ n.name = t /\ n.in = r.in /\ n.error = r.error /\ n.results = r.results
        /\ n.todo = r.todo /\ n.obj = "transaction" /\ n.type = TransactionContext[tx[t].type]
        /\ n.pc = IF RequestType(r.in) = "options" THEN "list" ELSE "run"
    <3> DEFINE type == TransactionContext[tx[t].type]
               ctx == tx[t].ctx
    <3>1. n = [r EXCEPT !.type = type, !.name = t, !.tid = t, !.ctx = ctx, !.obj = "transaction",
                        !.rest = SubSeq(@, 3, Len(@)),
                        !.pc = IF RequestType(r.in) = "options" THEN "list" ELSE "run"]
      BY <1>1 DEF Addressed, RequestOK, IsRequest
    <3> HIDE DEF type, ctx, n
    <3> QED
      BY <1>1, <3>1 DEF RequestOK, IsRequest, type
  <2> HIDE DEF n
  <2>3. n.tid # None
    BY <1>2, <2>2 DEF ServerAssumption, None
  <2>4. n.pc = "list" => n.in.method = "OPTIONS"
    BY <2>2 DEF RequestType
  <2>5. RequestOK(n)
    BY <2>2, <2>3, <2>4 DEF RequestOK
  <2>6. TransactionOK(tx[t]) /\ tx[t].docs = tx[t].acked
    BY <1>2 DEF RequestInv, TransactionOK
  <2>7. /\ tx' = [u \in Tids |-> IF u = t THEN tx'[t] ELSE tx[u]]
        /\ tx'[t] = [tx[t] EXCEPT !.state = "owned"]
    BY <1>2, <2>1 DEF RequestInv
  <2>8. TransactionOK(tx'[t]) /\ tx'[t].state = "owned" /\ tx'[t].docs = tx'[t].acked /\ tx'[t].type = tx[t].type
    BY <1>2, <2>6, <2>7 DEF TransactionOK, IsTransaction
  <2>9. Holds(n, tx'[t])
    BY <1>1, <2>2, <2>3, <2>8 DEF Holds, OfTransaction, Ok
  <2>10. q' = [o \in Slots |-> IF o = s THEN n ELSE q[o]]
    BY <2>1 DEF Becomes, RequestInv
  <2>11. \A o \in Slots : q[o].tid # None => q[o].tid # t
    BY <1>2 DEF RequestInv, Holds
  <2>12. \A o \in Slots : q'[o].tid # None => q'[o].tid \in Tids /\ Holds(q'[o], tx'[q'[o].tid])
    BY <1>2, <2>2, <2>7, <2>9, <2>10, <2>11 DEF RequestInv
  <2>13. \A o, p \in Slots : q'[o].tid = q'[p].tid /\ q'[o].tid # None => o = p
    BY <2>2, <2>10, <2>11 DEF RequestInv
  <2>14. \A u \in Tids : TransactionOK(tx'[u])
    BY <2>7, <2>8 DEF RequestInv
  <2>15. \A o \in Slots : RequestOK(q'[o])
    BY <2>5, <2>10 DEF RequestInv
  <2>16. RequestInv'
    BY <2>7, <2>10, <2>12, <2>13, <2>14, <2>15 DEF RequestInv
  <2>17. \A o \in Slots : q[o].tid # None => tx'[q[o].tid].state = "owned"
    BY <2>7, <2>11 DEF RequestInv, Holds
  <2>18. [Registry!Next]_Registry!vars
    <3>1. \A o \in Slots : q'[o].tid = IF o = s THEN t ELSE q[o].tid
      BY <2>2, <2>10
    <3>2. \A u \in Tids : tx'[u].state = IF u = t THEN "owned" ELSE tx[u].state
      BY <2>7, <2>8
    <3> HIDE DEF t
    <3> QED
      BY <1>1, <1>2, <3>1, <3>2, FetchesStep
  <2> QED
    BY <2>16, <2>17, <2>18 DEF LossesOK, StepOK
<1>3. CASE ~(t \in Tids /\ tx[t].state = "pooled")
  <2>1. Only(s, Fail(r, "RequestResolveError"))
    BY <1>3 DEF FetchTransaction
  <2> QED
    BY <1>1, <2>1, FailsFree
<1> QED
  BY <1>2, <1>3

LEMMA FetchWithoutIdStep ==
    ASSUME RequestInv, NEW s \in Slots, FetchWithoutId(s)
    PROVE  RequestInv' /\ StepOK
BY Fails DEF FetchWithoutId, Only, None

LEMMA InheritContextStep ==
    ASSUME RequestInv, NEW s \in Slots, InheritContext(s)
    PROVE  RequestInv' /\ StepOK
<1> DEFINE r == q[s]
<1>1. RequestOK(r) /\ r.tid = None /\ r.obj = None /\ ~OfTransaction(r)
  BY DEF InheritContext, ByPath, At, RequestInv, RequestOK
<1>2. PICK type, name, rest, ctx, addressed :
        /\ type # "transaction"
        /\ addressed = [r EXCEPT !.type = type, !.name = name, !.rest = rest]
        /\ \/ Only(s, AddressVariable([addressed EXCEPT !.ctx = ctx]))
           \/ Only(s, Addressed(addressed))
  <2> DEFINE path == r.in.path
             type == IF path = << >> THEN None ELSE path[1]
             nameless == type = Root
             name == IF nameless THEN Root ELSE IF Len(path) > 1 THEN path[2] ELSE None
             rest == SubSeq(path, IF nameless THEN 2 ELSE 3, Len(path))
  <2>1. type # "transaction"
    BY <1>1 DEF OfTransaction, None
  <2> QED
    BY <2>1 DEF InheritContext
<1>3. ASSUME NEW y, IsRequest(y), y.tid = None, y.type = type, y.in = r.in,
             y.obj \in {None, type} \cup ConfigVars(type)
      PROVE  RequestOK(Addressed(y)) /\ Addressed(y).tid = None
  <2> DEFINE n == Addressed(y)
  <2>1. /\ IsRequest(n) /\ n.tid = None /\ n.type = type /\ n.obj = y.obj
        /\ n.in = r.in /\ n.pc = IF RequestType(r.in) = "options" THEN "list" ELSE "run"
    BY <1>3 DEF Addressed, IsRequest
  <2> HIDE DEF n
  <2>2. n.pc = "list" => n.in.method = "OPTIONS"
    BY <2>1 DEF RequestType
  <2>3. n.pc \in {"list", "run"}
    BY <2>1
  <2>4. RequestOK(n)
    BY <1>2, <1>3, <2>1, <2>2, <2>3 DEF RequestOK
  <2> QED
    BY <2>1, <2>4 DEF n
<1>4. /\ IsRequest(addressed) /\ addressed.tid = None /\ addressed.type = type /\ addressed.in = r.in
      /\ addressed.obj = None /\ addressed.rest = rest
  BY <1>1, <1>2 DEF RequestOK, IsRequest
<1>5. CASE Only(s, Addressed(addressed))
  BY <1>1, <1>3, <1>4, <1>5, FreeStep DEF Only
<1>6. CASE Only(s, AddressVariable([addressed EXCEPT !.ctx = ctx]))
  <2>1. PICK x : /\ x = [addressed EXCEPT !.ctx = ctx]
                 /\ Only(s, AddressVariable(x))
    BY <1>6
  <2>2. IsRequest(x) /\ x.tid = None /\ x.type = type /\ x.in = r.in /\ x.rest = rest
    BY <1>4, <2>1 DEF IsRequest
  <2>3. \/ \E e : AddressVariable(x) = Fail(x, e)
        \/ \E obj \in {None, type} \cup ConfigVars(type) : \E more :
             AddressVariable(x) = Addressed([x EXCEPT !.obj = obj, !.rest = more])
    <3>1. \/ /\ AddressVariable(x) = Addressed([x EXCEPT !.obj = rest[1], !.rest = Tail(rest)])
             /\ rest[1] \in ConfigVars(type)
          \/ \E e : AddressVariable(x) = Fail(x, e)
          \/ \E obj \in {None, type} : AddressVariable(x) = Addressed([x EXCEPT !.obj = obj])
      BY <2>2 DEF AddressVariable
    <3>2. ASSUME NEW obj \in {None, type}, AddressVariable(x) = Addressed([x EXCEPT !.obj = obj])
          PROVE  \E more : AddressVariable(x) = Addressed([x EXCEPT !.obj = obj, !.rest = more])
      <4> DEFINE y == [x EXCEPT !.obj = obj]
                 z == [x EXCEPT !.obj = obj, !.rest = rest]
      <4>1. y = z
        BY <2>2 DEF IsRequest
      <4>2. AddressVariable(x) = Addressed(y)
        BY <3>2
      <4> HIDE DEF y, z
      <4>3. AddressVariable(x) = Addressed(z)
        BY <4>1, <4>2
      <4> QED
        BY <4>3 DEF z
    <3>3. CASE AddressVariable(x) = Addressed([x EXCEPT !.obj = rest[1], !.rest = Tail(rest)]) /\ rest[1] \in ConfigVars(type)
      BY <3>3
    <3> QED
      BY <3>1, <3>2, <3>3
  <2>4. CASE \E e : AddressVariable(x) = Fail(x, e)
    <3>1. PICK e : AddressVariable(x) = Fail(x, e)
      BY <2>4
    <3>2. /\ IsRequest(Fail(x, e)) /\ Fail(x, e).tid = None /\ Fail(x, e).pc = "answered"
      BY <2>2, Failed
    <3>3. RequestOK(Fail(x, e))
      BY <3>2 DEF RequestOK
    <3> QED
      BY <1>1, <2>1, <3>1, <3>2, <3>3, FreeStep DEF Only
  <2>5. CASE \E obj \in {None, type} \cup ConfigVars(type) : \E more :
                AddressVariable(x) = Addressed([x EXCEPT !.obj = obj, !.rest = more])
    <3>1. PICK obj, more :
                /\ obj \in {None, type} \cup ConfigVars(type)
                /\ AddressVariable(x) = Addressed([x EXCEPT !.obj = obj, !.rest = more])
      BY <2>5
    <3>2. PICK y : y = [x EXCEPT !.obj = obj, !.rest = more]
      OBVIOUS
    <3>3. IsRequest(y) /\ y.tid = None /\ y.type = type /\ y.in = r.in /\ y.obj = obj
      BY <2>2, <3>2 DEF IsRequest
    <3> QED
      BY <1>1, <1>3, <2>1, <3>1, <3>2, <3>3, FreeStep DEF Only
  <2> QED
    BY <2>3, <2>4, <2>5
<1> QED
  BY <1>2, <1>5, <1>6

LEMMA OptionsStep ==
    ASSUME RequestInv, NEW s \in Slots, Options(s)
    PROVE  RequestInv' /\ StepOK
<1>1. RequestOK(q[s]) /\ q[s].pc = "list" /\ q[s].in.method = "OPTIONS"
  BY DEF Options, At, RequestInv, RequestOK
<1>2. CASE Only(s, Fail(q[s], "InvalidArgument"))
  BY <1>2, Fails DEF Only, None
<1>3. CASE Only(s, AnswerStatus(q[s], 200))
  <2> DEFINE n == AnswerStatus(q[s], 200)
  <2>1. /\ IsRequest(n) /\ n.tid = q[s].tid /\ n.in = q[s].in /\ n.pc = "delegates"
        /\ n.error = q[s].error /\ n.results = q[s].results /\ n.todo = q[s].todo
    BY <1>1, Answered DEF RequestOK
  <2> HIDE DEF n
  <2>2. ~Inserts(n)
    BY <1>1, <2>1 DEF Inserts
  <2>3. Becomes(s, n) /\ UNCHANGED tx
    BY <1>3 DEF Only, n
  <2> QED
    BY <1>1, <2>1, <2>2, <2>3, DoneStep
<1> QED
  BY <1>2, <1>3 DEF Options

\* A request is done that does not insert.
LEMMA AnswersDone ==
    ASSUME RequestInv, NEW s \in Slots, NEW n, Becomes(s, n), UNCHANGED tx, q[s].pc = "run",
           n = AnswerContent(q[s]) \/ \E http : n = AnswerStatus(q[s], http),
           q[s].tid # None => Empty(q[s].in) \/ q[s].in.method # "PUT"
    PROVE  RequestInv' /\ StepOK
<1>1. /\ IsRequest(n) /\ n.tid = q[s].tid /\ n.in = q[s].in /\ n.pc = "delegates"
      /\ n.error = q[s].error /\ n.results = q[s].results /\ n.todo = q[s].todo
  BY Answered DEF RequestInv, RequestOK
<1>2. n.tid # None => ~Inserts(n)
  BY <1>1 DEF Inserts
<1> QED
  BY <1>1, <1>2, DoneStep

\* What is known of a transaction a request works on.
LEMMA Running_ ==
    ASSUME RequestInv, NEW s \in Slots, q[s].pc = "run", q[s].tid # None
    PROVE  LET r == q[s]
               x == tx[r.tid]
           IN  /\ r.tid \in Tids /\ TransactionOK(x) /\ x.state = "owned" /\ x.type \in TransactionTypes
               /\ x.docs \in Nat /\ x.acked \in Nat /\ x.docs = x.acked /\ x.end = None
               /\ OfTransaction(r) /\ Ok(r) /\ r.obj = "transaction"
               /\ r.type = TransactionContext[x.type] /\ r.type \in TransactionContexts
               /\ r.type # Root /\ r.results = << >> /\ r.todo = << >>
<1>1. q[s].tid \in Tids /\ Holds(q[s], tx[q[s].tid]) /\ TransactionOK(tx[q[s].tid])
  BY DEF RequestInv
<1>2. tx[q[s].tid].type \in TransactionTypes
  BY <1>1 DEF Holds, TransactionOK
<1>3. q[s].type = TransactionContext[tx[q[s].tid].type]
  BY <1>1 DEF Holds
<1>4. q[s].type \in TransactionContexts /\ q[s].type # Root
  BY <1>2, <1>3, ContextNames DEF Root
<1> QED
  BY <1>1, <1>2, <1>3, <1>4 DEF Holds, TransactionOK, IsTransaction

\* A transaction that ends.
LEMMA Ended ==
    ASSUME NEW x, TransactionOK(x), x.state = "owned", NEW how, how # "commit"
    PROVE  TransactionOK([x EXCEPT !.state = "gone", !.end = how])
<1>1. PICK y : y = [x EXCEPT !.state = "gone", !.end = how]
  OBVIOUS
<1>2. TransactionOK(y)
  BY <1>1 DEF TransactionOK, IsTransaction
<1> QED
  BY <1>1, <1>2

LEMMA EndStep ==
    ASSUME RequestInv, NEW s \in Slots, q[s].tid # None, NEW n, Becomes(s, n), RequestOK(n), n.tid = None,
           NEW how, how # "commit", tx' = End(q[s], how),
           \/ Empty(q[s].in) /\ q[s].in.method \in {"PUT", "DELETE"}
           \/ ~Ok(n)
    PROVE  RequestInv' /\ StepOK
<1> DEFINE t == q[s].tid
           x == [tx[t] EXCEPT !.state = "gone", !.end = how]
<1>1. t \in Tids /\ TransactionOK(tx[t]) /\ tx[t].state = "owned"
  BY DEF RequestInv, Holds
<1>2. TransactionOK(x)
  BY <1>1, Ended
<1>3. tx' = [tx EXCEPT ![t] = x]
  BY DEF End
<1>4. tx'[t].state = "gone"
  <2>1. x.state = "gone"
    BY <1>1 DEF TransactionOK, IsTransaction
  <2> HIDE DEF x
  <2> QED
    BY <1>1, <1>3, <2>1 DEF RequestInv
<1> QED
  BY <1>2, <1>3, <1>4, OwnStep

LEMMA CommitTransactionStep ==
    ASSUME RequestInv, NEW s \in Slots, CommitTransaction(s)
    PROVE  RequestInv' /\ StepOK
<1> DEFINE r == q[s]
           t == r.tid
           x == tx[t]
<1>1. /\ r.pc = "run" /\ t # None /\ Empty(r.in) /\ r.in.method = "PUT" /\ RequestOK(r)
  BY DEF CommitTransaction, Running, At, InTransaction, RequestInv
<1>2. t \in Tids /\ TransactionOK(x) /\ x.state = "owned" /\ x.docs = x.acked /\ Ok(r)
  BY <1>1, Running_
<1>3. CASE Becomes(s, Fail(r, "RequestResolveError")) /\ UNCHANGED tx
  BY <1>3, Fails DEF None
<1>4. PICK ended : ended = [r EXCEPT !.tid = None, !.ctx = NoContext]
  OBVIOUS
<1>5. IsRequest(ended) /\ ended.tid = None
  BY <1>1, <1>4 DEF RequestOK, IsRequest
<1>6. CASE Becomes(s, Fail(ended, "HiddenError")) /\ tx' = End(r, "failed")
  <2>1. PICK n : n = Fail(ended, "HiddenError")
    OBVIOUS
  <2>2. IsRequest(n) /\ n.tid = None /\ n.pc = "answered"
    BY <1>5, <2>1, Failed
  <2>3. RequestOK(n)
    BY <2>2 DEF RequestOK
  <2>4. "failed" # "commit" /\ Becomes(s, n) /\ tx' = End(q[s], "failed")
    BY <1>6, <2>1
  <2> QED
    BY <1>1, <2>2, <2>3, <2>4, EndStep
<1>7. CASE /\ Becomes(s, AnswerStatus(ended, 204))
           /\ tx' = [End(r, "commit") EXCEPT ![t].published = x.docs]
  <2>1. PICK y : y = [x EXCEPT !.state = "gone", !.end = "commit", !.published = x.docs]
    OBVIOUS
  <2>2. TransactionOK(y)
    BY <1>2, <2>1 DEF TransactionOK, IsTransaction
  <2>3. tx' = [tx EXCEPT ![t] = y]
    BY <1>2, <1>7, <2>1 DEF End, RequestInv
  <2>4. PICK n : n = AnswerStatus(ended, 204)
    OBVIOUS
  <2>5. IsRequest(n) /\ n.tid = None /\ n.pc = "delegates"
    BY <1>5, <2>4, Answered
  <2>6. RequestOK(n)
    BY <2>5 DEF RequestOK
  <2>7. tx'[t].state = "gone"
    BY <1>2, <2>1, <2>3 DEF RequestInv, TransactionOK, IsTransaction
  <2> QED
    BY <2>7, <1>1, <1>7, <2>2, <2>3, <2>4, <2>5, <2>6, OwnStep
<1> QED
  BY <1>3, <1>4, <1>6, <1>7 DEF CommitTransaction

LEMMA ConfigureWithoutContentStep ==
    ASSUME RequestInv, NEW s \in Slots, ConfigureWithoutContent(s)
    PROVE  RequestInv' /\ StepOK
BY Fails DEF ConfigureWithoutContent, Only, None

LEMMA PatchStep ==
    ASSUME RequestInv, NEW s \in Slots, Patch(s)
    PROVE  RequestInv' /\ StepOK
BY Fails DEF Patch, Only, None

\* A configuration that is built: the request leaves its transaction behind, if it can have one.
LEMMA Loaded ==
    ASSUME NEW r, IsRequest(r), NEW n \in LoadConfiguration(r)
    PROVE  /\ IsRequest(n) /\ n.in = r.in
           /\ n.pc \in {"answered", "delegates"}
           /\ r.type # Root => n.tid = None
           /\ r.type = Root => n.pc = "answered" /\ ~Ok(n) /\ n.tid = r.tid
           /\ r.type # Root /\ Ok(n) => n.pc = "delegates"
           /\ n.pc = "delegates" => HasSchema(GetSchemaId(r.type, r.in.method, r.in.root))
<1>1. CASE r.type = Root
  <2>1. n = Fail(r, "InvalidRequest") /\ "InvalidRequest" # None
    BY <1>1 DEF LoadConfiguration, None
  <2> QED
    BY <1>1, <2>1, Failed DEF Ok
<1>2. CASE r.type # Root
  <2>1. PICK x : x = [RootObject(r) EXCEPT !.config = "store"]
    OBVIOUS
  <2>2. n \in Execute(x, GetSchemaId(r.type, r.in.method, r.in.root), r.type)
    BY <1>2, <2>1 DEF LoadConfiguration
  <2>3. PICK c : c = contexts[<<Root, Root>>]
    OBVIOUS
  <2>4. x = [r EXCEPT !.ctx = c, !.obj = None, !.tid = None, !.config = "store"]
    BY <2>1, <2>3 DEF RootObject, IsRequest
  <2>5. IsRequest(x) /\ x.tid = None /\ x.in = r.in
    BY <2>4 DEF IsRequest
  <2> QED
    BY <1>2, <2>2, <2>5, Executed
<1> QED
  BY <1>1, <1>2

LEMMA PutConfigurationStep ==
    ASSUME RequestInv, NEW s \in Slots, PutConfiguration(s)
    PROVE  RequestInv' /\ StepOK
<1> DEFINE r == q[s]
<1>1. IsRequest(r) /\ r.pc = "run" /\ (r.tid # None => r.in.method = "POST")
  BY DEF PutConfiguration, Running, At, InTransaction, RequestInv, RequestOK
<1>2. PICK m, n :
        /\ m \in LoadConfiguration(r)
        /\ n = IF Ok(m) /\ r.in.method = "POST" THEN [m EXCEPT !.content = TRUE] ELSE m
        /\ Becomes(s, n)
        /\ tx' = IF InTransaction(r) THEN End(r, "dropped") ELSE tx
  BY DEF PutConfiguration
<1>3. /\ IsRequest(m) /\ m.pc \in {"answered", "delegates"}
      /\ r.type # Root => m.tid = None
      /\ r.type = Root => m.tid = r.tid
      /\ m.pc = "delegates" => HasSchema(GetSchemaId(r.type, r.in.method, r.in.root))
      /\ r.type # Root => (Ok(m) => m.pc = "delegates")
  BY <1>1, <1>2, Loaded
<1>4. IsRequest(n) /\ n.pc = m.pc /\ n.tid = m.tid /\ n.error = m.error
  BY <1>2, <1>3 DEF IsRequest
<1>5. RequestOK(n)
  BY <1>3, <1>4 DEF RequestOK
<1>6. CASE r.tid = None
  BY <1>2, <1>3, <1>4, <1>5, <1>6, FreeStep DEF InTransaction
<1>7. CASE r.tid # None
  <2>1. tx[r.tid].type \in TransactionTypes /\ r.type = TransactionContext[tx[r.tid].type] /\ r.type # Root
    BY <1>1, <1>7, Running_
  <2>2. ~HasSchema(GetSchemaId(r.type, r.in.method, r.in.root))
    BY <1>1, <1>7, <2>1, TransactionSchema
  <2>3. n.tid = None /\ ~Ok(n)
    BY <1>3, <1>4, <2>1, <2>2 DEF Ok
  <2>4. tx' = End(q[s], "dropped") /\ "dropped" # "commit"
    BY <1>2, <1>7 DEF InTransaction
  <2> QED
    BY <1>2, <1>5, <1>7, <2>3, <2>4, EndStep
<1> QED
  BY <1>6, <1>7

LEMMA PostConfigurationStep ==
    ASSUME RequestInv, NEW s \in Slots, PostConfiguration(s)
    PROVE  RequestInv' /\ StepOK
<1> DEFINE r == q[s]
<1>1. IsRequest(r) /\ r.pc = "run" /\ r.tid = None
  BY DEF PostConfiguration, Running, At, RequestInv, RequestOK, Holds
<1>2. PICK name, x : /\ x = [r EXCEPT !.name = name]
                     /\ \E m \in LoadConfiguration(x) :
                          Only(s, IF Ok(m) THEN [m EXCEPT !.http = 201, !.content = TRUE] ELSE m)
  BY DEF PostConfiguration
<1>3. IsRequest(x) /\ x.tid = r.tid /\ x.in = r.in /\ x.type = r.type
  BY <1>1, <1>2 DEF IsRequest
<1>4. PICK m, n :
        /\ m \in LoadConfiguration(x)
        /\ n = IF Ok(m) THEN [m EXCEPT !.http = 201, !.content = TRUE] ELSE m
        /\ Becomes(s, n) /\ UNCHANGED tx
  BY <1>2 DEF Only
<1>5. /\ IsRequest(m) /\ m.pc \in {"answered", "delegates"} /\ m.in = r.in
      /\ x.type # Root => m.tid = None
      /\ x.type = Root => m.tid = r.tid /\ m.pc = "answered" /\ ~Ok(m)
  BY <1>3, <1>4, Loaded
<1>6. IsRequest(n) /\ n.pc = m.pc /\ n.tid = m.tid /\ n.error = m.error /\ n.in = m.in
  BY <1>4, <1>5 DEF IsRequest
<1>7. CASE x.type = Root
  BY <1>4, <1>5, <1>6, <1>7, FailStep DEF Ok
<1>8. CASE x.type # Root
  <2>1. RequestOK(n) /\ n.tid = None
    BY <1>5, <1>6, <1>8 DEF RequestOK
  <2> QED
    BY <1>1, <1>4, <2>1, FreeStep
<1> QED
  BY <1>7, <1>8

LEMMA UpdateConfigurationStep ==
    ASSUME RequestInv, NEW s \in Slots, UpdateConfiguration(s)
    PROVE  RequestInv' /\ StepOK
<1> DEFINE r == q[s]
<1>1. IsRequest(r) /\ r.tid = None
  BY DEF UpdateConfiguration, InTransaction, RequestInv, RequestOK
<1>2. PICK x : x = [r EXCEPT !.config = "store"]
  OBVIOUS
<1>3. IsRequest(x) /\ x.tid = None
  BY <1>1, <1>2 DEF IsRequest
<1>4. CASE Only(s, Fail(r, "InvalidRequest"))
  BY <1>1, <1>4, FailsFree
<1>5. CASE Only(s, [Fail(x, "ServiceNeedExclusiveAccess") EXCEPT !.pc = "interrupted"])
  <2>1. PICK m : m = Fail(x, "ServiceNeedExclusiveAccess")
    OBVIOUS
  <2>2. IsRequest(m) /\ m.tid = None
    BY <1>3, <2>1, Failed
  <2>3. PICK n : n = [m EXCEPT !.pc = "interrupted"]
    OBVIOUS
  <2>4. IsRequest(n) /\ n.tid = None /\ n.pc = "interrupted"
    BY <2>2, <2>3 DEF IsRequest
  <2>5. RequestOK(n)
    BY <2>4 DEF RequestOK
  <2> QED
    BY <1>1, <1>5, <2>1, <2>3, <2>4, <2>5, FreeStep DEF Only
<1>6. ASSUME NEW id, NEW n \in Execute(x, id, r.type), Only(s, n)
      PROVE  RequestInv' /\ StepOK
  <2>1. IsRequest(n) /\ n.tid = None /\ n.pc \in {"answered", "delegates"}
    BY <1>3, <1>6, Executed
  <2>2. RequestOK(n)
    BY <2>1 DEF RequestOK
  <2> QED
    BY <1>1, <1>6, <2>1, <2>2, FreeStep DEF Only
<1>7. ASSUME NEW n \in LoadConfiguration(r), Only(s, n)
      PROVE  RequestInv' /\ StepOK
  <2>1. IsRequest(n) /\ n.tid = None /\ n.pc \in {"answered", "delegates"}
    BY <1>1, <1>7, Loaded
  <2>2. RequestOK(n)
    BY <2>1 DEF RequestOK
  <2> QED
    BY <1>1, <1>7, <2>1, <2>2, FreeStep DEF Only
<1> QED
  BY <1>2, <1>4, <1>5, <1>6, <1>7 DEF UpdateConfiguration

LEMMA RetryUpdateStep ==
    ASSUME RequestInv, NEW s \in Slots, RetryUpdate(s)
    PROVE  RequestInv' /\ StepOK
<1> DEFINE r == q[s]
<1>1. IsRequest(r) /\ r.tid = None
  BY DEF RetryUpdate, At, RequestInv, RequestOK
<1>2. PICK n : /\ n = [r EXCEPT !.pc = "answered"] \/ n \in Execute(r, UpdateSchemaId(r.type), r.type)
               /\ Only(s, n)
  BY DEF RetryUpdate
<1>3. IsRequest(n) /\ n.tid = None /\ n.pc \in {"answered", "delegates"}
  <2>1. CASE n = [r EXCEPT !.pc = "answered"]
    BY <1>1, <2>1 DEF IsRequest
  <2>2. CASE n \in Execute(r, UpdateSchemaId(r.type), r.type)
    BY <1>1, <2>2, Executed
  <2> QED
    BY <1>2, <2>1, <2>2
<1>4. RequestOK(n)
  BY <1>3 DEF RequestOK
<1> QED
  BY <1>1, <1>2, <1>3, <1>4, FreeStep DEF Only

LEMMA DeleteTransactionStep ==
    ASSUME RequestInv, NEW s \in Slots, DeleteTransaction(s)
    PROVE  RequestInv' /\ StepOK
<1> DEFINE r == q[s]
<1>1. /\ IsRequest(r) /\ r.tid # None /\ Empty(r.in) /\ r.in.method = "DELETE"
      /\ tx' = End(r, "deleted") /\ "deleted" # "commit"
  BY DEF DeleteTransaction, Running, InTransaction, RequestInv, RequestOK
<1>2. PICK x : x = [r EXCEPT !.tid = None]
  OBVIOUS
<1>3. IsRequest(x) /\ x.tid = None
  BY <1>1, <1>2 DEF IsRequest
<1>4. PICK n : n = AnswerStatus(x, 204)
  OBVIOUS
<1>5. IsRequest(n) /\ n.tid = None /\ n.pc = "delegates"
  BY <1>3, <1>4, Answered
<1>6. RequestOK(n) /\ Becomes(s, n)
  BY <1>2, <1>4, <1>5 DEF RequestOK, DeleteTransaction
<1> QED
  BY <1>1, <1>5, <1>6, EndStep

LEMMA RemoveConfigurationStep ==
    ASSUME RequestInv, NEW s \in Slots, RemoveConfiguration(s)
    PROVE  RequestInv' /\ StepOK
<1> DEFINE r == q[s]
<1>1. IsRequest(r) /\ r.tid = None /\ UNCHANGED tx
  BY DEF RemoveConfiguration, InTransaction, RequestInv, RequestOK
<1>2. PICK n : /\ Becomes(s, n)
               /\ n = [r EXCEPT !.pc = "delete", !.ctx = NoContext, !.obj = None] \/ \E e : n = Fail(r, e)
  BY DEF RemoveConfiguration
<1>3. IsRequest(n) /\ n.tid = None /\ n.pc \in {"answered", "delete"}
  <2>1. CASE n = [r EXCEPT !.pc = "delete", !.ctx = NoContext, !.obj = None]
    BY <1>1, <2>1 DEF IsRequest
  <2>2. CASE \E e : n = Fail(r, e)
    BY <1>1, <2>2, Failed
  <2> QED
    BY <1>2, <2>1, <2>2
<1>4. RequestOK(n)
  BY <1>3 DEF RequestOK
<1> QED
  BY <1>1, <1>2, <1>3, <1>4, FreeStep

LEMMA DeleteStoredStep ==
    ASSUME RequestInv, NEW s \in Slots, DeleteStored(s)
    PROVE  RequestInv' /\ StepOK
<1> DEFINE r == q[s]
<1>1. IsRequest(r) /\ r.tid = None /\ UNCHANGED tx
  BY DEF DeleteStored, At, RequestInv, RequestOK
<1>2. PICK x : x = RootObject(r)
  OBVIOUS
<1>3. IsRequest(x) /\ x.tid = None
  <2>1. PICK c : c = contexts[<<Root, Root>>]
    OBVIOUS
  <2>2. x = [r EXCEPT !.ctx = c, !.obj = None, !.tid = None]
    BY <1>2, <2>1 DEF RootObject
  <2> QED
    BY <1>1, <2>2 DEF IsRequest
<1>4. PICK n : /\ Becomes(s, n)
               /\ \/ n = Fail(r, "RequestResolveError")
                  \/ \E id : \E m \in Execute(x, id, r.type) : n = IF Ok(m) THEN AnswerStatus(m, 204) ELSE m
                  \/ LET m == AnswerStatus(x, 204) IN n = IF Ok(m) THEN AnswerStatus(m, 204) ELSE m
  BY <1>2 DEF DeleteStored
<1>5. \A m : IsRequest(m) /\ m.tid = None /\ n = (IF Ok(m) THEN AnswerStatus(m, 204) ELSE m) =>
        IsRequest(n) /\ n.tid = None /\ n.pc \in {"delegates", m.pc}
  BY Answered
<1>6. IsRequest(n) /\ n.tid = None /\ n.pc \in {"answered", "delegates"}
  <2>1. CASE n = Fail(r, "RequestResolveError")
    BY <1>1, <2>1, Failed
  <2>2. CASE \E id : \E m \in Execute(x, id, r.type) : n = IF Ok(m) THEN AnswerStatus(m, 204) ELSE m
    <3>1. PICK id, m : m \in Execute(x, id, r.type) /\ n = IF Ok(m) THEN AnswerStatus(m, 204) ELSE m
      BY <2>2
    <3>2. IsRequest(m) /\ m.tid = None /\ m.pc \in {"answered", "delegates"}
      BY <1>3, <3>1, Executed
    <3> QED
      BY <1>5, <3>1, <3>2
  <2>3. CASE LET m == AnswerStatus(x, 204) IN n = IF Ok(m) THEN AnswerStatus(m, 204) ELSE m
    <3>1. PICK m : m = AnswerStatus(x, 204) /\ n = IF Ok(m) THEN AnswerStatus(m, 204) ELSE m
      BY <2>3
    <3>2. IsRequest(m) /\ m.tid = None /\ m.pc = "delegates"
      BY <1>3, <3>1, Answered
    <3> QED
      BY <1>5, <3>1, <3>2
  <2> QED
    BY <1>4, <2>1, <2>2, <2>3
<1>7. RequestOK(n)
  BY <1>6 DEF RequestOK
<1> QED
  BY <1>1, <1>4, <1>6, <1>7, FreeStep

LEMMA DeleteWithContentStep ==
    ASSUME RequestInv, NEW s \in Slots, DeleteWithContent(s)
    PROVE  RequestInv' /\ StepOK
BY Fails DEF DeleteWithContent, Only, None

LEMMA ListContextsStep ==
    ASSUME RequestInv, NEW s \in Slots, ListContexts(s)
    PROVE  RequestInv' /\ StepOK
<1>1. q[s].pc = "run" /\ Empty(q[s].in)
  BY DEF ListContexts, At
<1>2. PICK n : Only(s, n) /\ (n = AnswerContent(q[s]) \/ n = Fail(q[s], "RequestResolveError"))
  BY DEF ListContexts
<1> QED
  BY <1>1, <1>2, Fails, AnswersDone DEF Only, None

LEMMA MapValueStep ==
    ASSUME RequestInv, NEW s \in Slots, MapValue(s)
    PROVE  RequestInv' /\ StepOK
BY AnswersDone DEF MapValue, At, Only

LEMMA ListVariablesStep ==
    ASSUME RequestInv, NEW s \in Slots, ListVariables(s)
    PROVE  RequestInv' /\ StepOK
<1>1. PICK n : /\ Only(s, n) /\ q[s].pc = "run"
               /\ \/ n = AnswerContent(q[s]) /\ q[s].in.method = "GET"
                  \/ n = Fail(q[s], "RequestResolveError")
  BY DEF ListVariables, At
<1> QED
  BY <1>1, Fails, AnswersDone DEF Only, None

LEMMA PostTransactionStep ==
    ASSUME RequestInv, NEW s \in Slots, PostTransaction(s)
    PROVE  RequestInv' /\ StepOK
<1> DEFINE r == q[s]
           methods == GetMethod(ClassOf(r.obj, ObjectType(r)), "POST/transaction", FALSE)
<1>1. RequestOK(r) /\ r.pc = "run" /\ IsHostObject(r) /\ r.in.method = "POST"
  BY DEF PostTransaction, At, PostsTransaction, RequestInv
<1>2. CASE \E e : e # None /\ Becomes(s, Fail(r, e)) /\ UNCHANGED tx
  BY <1>2, Fails
<1>3. CASE /\ methods # {}
           /\ \E t \in {u \in Tids : tx[u].state = "unborn"} :
                   /\ Becomes(s, [AnswerStatus(r, 201) EXCEPT !.content = TRUE])
                   /\ tx' = [tx EXCEPT ![t] = [NoTransaction EXCEPT !.state = "pooled", !.type = r.type,
                                                                   !.ctx = r.ctx \cup {"transaction"}]]
  <2>1. r.tid = None
    <3> SUFFICES ASSUME r.tid # None
                 PROVE  FALSE
      OBVIOUS
    <3>1. r.obj = "transaction" /\ tx[r.tid].type \in TransactionTypes
      BY <1>1, Running_
    <3> QED
      BY <1>3, <3>1, TransactionCreatesNone DEF ObjectType, InTransaction
  <2>2. r.type \in TransactionTypes
    <3>1. r.obj = r.type /\ r.type # "transaction"
      BY <1>1, <2>1 DEF RequestOK, IsHostObject, ConfigVars, AddressVars, Root
    <3> QED
      BY <1>3, <3>1, CreatesTransaction
  <2>3. PICK t, c : /\ t \in Tids /\ tx[t].state = "unborn"
                             /\ Becomes(s, [AnswerStatus(r, 201) EXCEPT !.content = TRUE])
                             /\ tx' = [tx EXCEPT ![t] = [NoTransaction EXCEPT !.state = "pooled", !.type = r.type, !.ctx = c]]
    BY <1>3
  <2>4. PICK m : m = AnswerStatus(r, 201)
    OBVIOUS
  <2>5. IsRequest(m) /\ m.tid = None /\ m.pc = "delegates"
    BY <1>1, <2>1, <2>4, Answered DEF RequestOK
  <2>6. PICK n : n = [m EXCEPT !.content = TRUE]
    OBVIOUS
  <2>7. IsRequest(n) /\ n.tid = None /\ n.pc = "delegates"
    BY <2>5, <2>6 DEF IsRequest
  <2>8. RequestOK(n) /\ Becomes(s, n)
    BY <2>3, <2>4, <2>6, <2>7 DEF RequestOK
  <2>9. PICK x : x = [NoTransaction EXCEPT !.state = "pooled", !.type = r.type, !.ctx = c]
    OBVIOUS
  <2>10. TransactionOK(x) /\ x.state = "pooled"
    BY <2>2, <2>9 DEF TransactionOK, IsTransaction, NoTransaction, None
  <2>11. tx' = [u \in Tids |-> IF u = t THEN x ELSE tx[u]]
    BY <2>3, <2>9 DEF RequestInv
  <2>12. q' = [o \in Slots |-> IF o = s THEN n ELSE q[o]]
    BY <2>8 DEF Becomes, RequestInv
  <2>13. \A o \in Slots : q[o].tid # None => tx[q[o].tid].state = "owned" /\ q[o].tid # t
    BY <2>3 DEF RequestInv, Holds
  <2>14. RequestInv'
    <3>1. \A u \in Tids : TransactionOK(tx'[u])
      BY <2>10, <2>11 DEF RequestInv
    <3>2. \A o \in Slots : RequestOK(q'[o])
      BY <2>8, <2>12 DEF RequestInv
    <3>3. \A o \in Slots : q'[o].tid # None => q'[o].tid \in Tids /\ Holds(q'[o], tx'[q'[o].tid])
      BY <2>7, <2>11, <2>12, <2>13 DEF RequestInv
    <3>4. \A o, p \in Slots : q'[o].tid = q'[p].tid /\ q'[o].tid # None => o = p
      BY <2>7, <2>12 DEF RequestInv
    <3> QED
      BY <2>11, <2>12, <3>1, <3>2, <3>3, <3>4 DEF RequestInv
  <2>15. \A o \in Slots : q[o].tid # None => tx'[q[o].tid].state = "owned"
    BY <2>11, <2>13 DEF RequestInv
  <2>16. [Registry!Next]_Registry!vars
    BY <2>1, <2>3, <2>7, <2>10, <2>11, <2>12, CreatesStep
  <2> QED
    BY <2>14, <2>15, <2>16 DEF LossesOK, StepOK
<1> QED
  BY <1>2, <1>3 DEF PostTransaction, None

\* A request inserts documents into its transaction, and is done or fails.
LEMMA InsertStep ==
    ASSUME RequestInv, NEW s \in Slots, q[s].pc = "run", q[s].tid # None, NEW more \in 0 .. 1, tx' = Insert(q[s], more),
           NEW n, Becomes(s, n), IsRequest(n), n.tid = q[s].tid, n.in = q[s].in,
           \/ n.pc = "answered" /\ ~Ok(n)
           \/ /\ n.pc = "delegates" /\ Ok(n) /\ more = 1 /\ Inserts(n)
              /\ n.results = << >> /\ n.todo = << >>
    PROVE  RequestInv' /\ StepOK
<1> DEFINE t == q[s].tid
<1>1. /\ t \in Tids /\ TransactionOK(tx[t]) /\ tx[t].state = "owned" /\ tx[t].docs = tx[t].acked
      /\ tx[t].docs \in Nat /\ OfTransaction(q[s])
  BY Running_
<1>2. PICK x : x = [tx[t] EXCEPT !.docs = tx[t].docs + more]
  OBVIOUS
<1>3. TransactionOK(x) /\ x.state = "owned" /\ x.docs = x.acked + more
  BY <1>1, <1>2 DEF TransactionOK, IsTransaction
<1>4. tx' = [tx EXCEPT ![t] = x] /\ tx'[t] = x
  BY <1>1, <1>2 DEF Insert, RequestInv
<1>5. RequestOK(n)
  BY DEF RequestOK
<1>6. Holds(n, x)
  BY <1>1, <1>3 DEF Holds, OfTransaction
<1> QED
  BY <1>3, <1>4, <1>5, <1>6, OwnStep

LEMMA CallMethodStep ==
    ASSUME RequestInv, NEW s \in Slots, CallMethod(s)
    PROVE  RequestInv' /\ StepOK
<1> DEFINE r == q[s]
<1>1. IsRequest(r) /\ r.pc = "run"
  BY DEF CallMethod, At, RequestInv, RequestOK
<1>2. PICK m \in ObjectMethods(r) :
        IF InTransaction(r) /\ r.in.method = "PUT"
        THEN \/ Becomes(s, AnswerStatus(r, m.http)) /\ tx' = Insert(r, 1)
             \/ Becomes(s, Fail(r, "HiddenError")) /\ \E n \in 0..1 : tx' = Insert(r, n)
        ELSE /\ \/ Becomes(s, [AnswerStatus(r, m.http) EXCEPT !.content = TRUE])
                \/ Becomes(s, Fail(r, "HiddenError"))
             /\ UNCHANGED tx
  BY DEF CallMethod
<1>3. "HiddenError" # None
  BY DEF None
<1>4. CASE Becomes(s, Fail(r, "HiddenError")) /\ UNCHANGED tx
  BY <1>3, <1>4, Fails
<1>5. CASE Becomes(s, [AnswerStatus(r, m.http) EXCEPT !.content = TRUE]) /\ UNCHANGED tx
           /\ ~(InTransaction(r) /\ r.in.method = "PUT")
  <2>1. PICK k : k = AnswerStatus(r, m.http)
    OBVIOUS
  <2>2. /\ IsRequest(k) /\ k.tid = r.tid /\ k.in = r.in /\ k.pc = "delegates"
        /\ k.error = r.error /\ k.results = r.results /\ k.todo = r.todo
    BY <1>1, <2>1, Answered
  <2>3. PICK n : n = [k EXCEPT !.content = TRUE]
    OBVIOUS
  <2>4. /\ IsRequest(n) /\ n.tid = r.tid /\ n.in = r.in /\ n.pc = "delegates"
        /\ n.error = r.error /\ n.results = r.results /\ n.todo = r.todo
    BY <2>2, <2>3 DEF IsRequest
  <2>5. n.tid # None => ~Inserts(n)
    BY <1>5, <2>4 DEF Inserts, InTransaction
  <2>6. Becomes(s, n) /\ UNCHANGED tx
    BY <1>5, <2>1, <2>3
  <2> QED
    BY <1>1, <2>4, <2>5, <2>6, DoneStep
<1>6. CASE r.tid # None /\ r.in.method = "PUT"
  <2>1. /\ Ok(r) /\ r.results = << >> /\ r.todo = << >> /\ OfTransaction(r)
    BY <1>1, <1>6, Running_
  <2>2. ~Empty(r.in)
    BY <1>2, <1>6, PutHasContent DEF ObjectMethods
  <2>3. CASE Becomes(s, AnswerStatus(r, m.http)) /\ tx' = Insert(r, 1)
    <3>1. PICK n : n = AnswerStatus(r, m.http)
      OBVIOUS
    <3>2. /\ IsRequest(n) /\ n.tid = r.tid /\ n.in = r.in /\ n.pc = "delegates"
          /\ n.error = r.error /\ n.results = r.results /\ n.todo = r.todo
      BY <1>1, <3>1, Answered
    <3>3. Inserts(n) /\ Ok(n)
      BY <1>6, <2>1, <2>2, <3>2 DEF Inserts, Ok, OfTransaction
    <3> QED
      BY <1>1, <1>6, <2>1, <2>3, <3>1, <3>2, <3>3, InsertStep
  <2>4. CASE Becomes(s, Fail(r, "HiddenError")) /\ \E n \in 0..1 : tx' = Insert(r, n)
    <3>1. PICK n : n = Fail(r, "HiddenError")
      OBVIOUS
    <3>2. IsRequest(n) /\ n.tid = r.tid /\ n.in = r.in /\ n.pc = "answered" /\ ~Ok(n)
      BY <1>1, <1>3, <3>1, Failed DEF Ok
    <3> QED
      BY <1>1, <1>6, <2>4, <3>1, <3>2, InsertStep
  <2> QED
    BY <1>2, <1>6, <2>3, <2>4 DEF InTransaction
<1> QED
  BY <1>2, <1>4, <1>5, <1>6 DEF InTransaction

LEMMA ExecuteSchemaStep ==
    ASSUME RequestInv, NEW s \in Slots, ExecuteSchema(s)
    PROVE  RequestInv' /\ StepOK
<1> DEFINE r == q[s]
           id == GetSchemaId(r.type, r.in.method, r.in.root)
<1>1. IsRequest(r) /\ r.pc = "run" /\ ~Empty(r.in)
  BY DEF ExecuteSchema, At, RequestInv, RequestOK
<1>2. PICK n \in Execute(r, id, ObjectType(r)) :
             /\ Becomes(s, n)
             /\ IF ~InTransaction(r) THEN UNCHANGED tx
                ELSE IF Ok(n) THEN tx' = Insert(r, 1)
                ELSE \E more \in 0..1 : tx' = Insert(r, more)
  BY DEF ExecuteSchema
<1>3. /\ IsRequest(n) /\ n.tid = r.tid /\ n.in = r.in /\ n.type = r.type /\ n.todo = r.todo
      /\ \/ n.pc = "answered" /\ ~Ok(n)
         \/ /\ HasSchema(id) /\ n.pc = "delegates" /\ n.error = r.error
            /\ n.results = SchemaOf[id].results
  BY <1>1, <1>2, Executed
<1>4. CASE r.tid = None
  <2>1. RequestOK(n)
    BY <1>3 DEF RequestOK
  <2> QED
    BY <1>2, <1>3, <1>4, <2>1, FreeStep DEF InTransaction
<1>5. CASE r.tid # None
  <2>1. /\ Ok(r) /\ r.results = << >> /\ r.todo = << >> /\ OfTransaction(r)
        /\ tx[r.tid].type \in TransactionTypes /\ r.type = TransactionContext[tx[r.tid].type]
    BY <1>1, <1>5, Running_
  <2>2. CASE n.pc = "answered" /\ ~Ok(n)
    BY <1>1, <1>2, <1>3, <1>5, <2>2, InsertStep DEF InTransaction
  <2>3. CASE /\ HasSchema(id) /\ n.pc = "delegates" /\ n.error = r.error
             /\ n.results = SchemaOf[id].results
    <3>1. r.in.method = "PUT" /\ SchemaOf[id].results = << >>
      <4>1. PICK u \in TransactionTypes : r.type = TransactionContext[u]
        BY <2>1
      <4>2. id = GetSchemaId(TransactionContext[u], r.in.method, r.in.root)
        BY <4>1
      <4>3. HasSchema(GetSchemaId(TransactionContext[u], r.in.method, r.in.root))
        BY <2>3, <4>1
      <4> HIDE DEF id
      <4> QED
        BY <4>2, <4>3, TransactionSchema
    <3>2. Ok(n) /\ Inserts(n) /\ n.results = << >> /\ n.todo = << >>
      BY <1>1, <1>3, <2>1, <2>3, <3>1 DEF Ok, Inserts, OfTransaction
    <3>3. tx' = Insert(r, 1)
      BY <1>2, <1>5, <3>2 DEF InTransaction
    <3> QED
      BY <1>1, <1>2, <1>3, <1>5, <2>3, <3>2, <3>3, InsertStep
  <2> QED
    BY <1>3, <2>2, <2>3
<1> QED
  BY <1>4, <1>5

LEMMA NothingToSend == SelectInSeq(<< >>, HasReceiver) = 0
BY DEF SelectInSeq

LEMMA GetDelegateRequestsStep ==
    ASSUME RequestInv, NEW s \in Slots, GetDelegateRequests(s)
    PROVE  RequestInv' /\ StepOK
<1> DEFINE r == q[s]
           next == SelectInSeq(r.results, HasReceiver)
<1>1. IsRequest(r) /\ r.pc = "delegates" /\ UNCHANGED tx
  BY DEF GetDelegateRequests, At, Only, RequestInv, RequestOK
<1>2. CASE next = 0
  <2>1. PICK n : n = [r EXCEPT !.pc = "complete"]
    OBVIOUS
  <2>2. Becomes(s, n)
    BY <1>2, <2>1 DEF GetDelegateRequests, Only
  <2>3. /\ IsRequest(n) /\ n.tid = r.tid /\ n.in = r.in /\ n.error = r.error /\ n.pc = "complete"
        /\ n.results = r.results /\ n.todo = r.todo
    BY <1>1, <2>1 DEF IsRequest
  <2>4. RequestOK(n)
    BY <2>3 DEF RequestOK
  <2>5. r.tid # None => tx[r.tid].state = "owned" /\ Holds(n, tx[r.tid])
    BY <1>1, <2>3 DEF RequestInv, Holds, OfTransaction, Ok, Inserts
  <2> QED
    BY <1>1, <2>2, <2>3, <2>4, <2>5, OwnStep
<1>3. CASE next # 0
  <2>1. r.tid = None
    <3> SUFFICES ASSUME r.tid # None
                 PROVE  FALSE
      OBVIOUS
    <3>1. r.results = << >>
      BY <1>1 DEF RequestInv, Holds
    <3> QED
      BY <1>3, <3>1, NothingToSend
  <2>2. PICK d, after : /\ d = r.results[next] /\ after = Advance(r, next)
    OBVIOUS
  <2>3. \E results : after = [r EXCEPT !.results = results]
    BY <2>2 DEF Advance
  <2>4. PICK x : x = Shrug([r EXCEPT !.error = "NotFound", !.http = HttpStatus("NotFound")])
    OBVIOUS
  <2>5. PICK n : /\ Becomes(s, n)
                 /\ \/ \E todo : n = [after EXCEPT !.todo = todo]
                    \/ n = x
    BY <1>3, <2>2, <2>4 DEF GetDelegateRequests, Only
  <2>6. IsRequest(n) /\ n.tid = None /\ n.pc \in {"delegates", "complete"}
    <3>1. CASE n = x
      <4>1. PICK http : http = HttpStatus("NotFound")
        OBVIOUS
      <4>2. n = Shrug([r EXCEPT !.error = "NotFound", !.http = http])
        BY <2>4, <3>1, <4>1
      <4> QED
        BY <1>1, <2>1, <4>2 DEF IsRequest, Shrug
    <3>2. CASE \E todo : n = [after EXCEPT !.todo = todo]
      BY <1>1, <2>1, <2>3, <3>2 DEF IsRequest
    <3> QED
      BY <2>5, <3>1, <3>2
  <2>7. RequestOK(n)
    BY <2>6 DEF RequestOK
  <2> QED
    BY <1>1, <2>1, <2>5, <2>6, <2>7, FreeStep
<1> QED
  BY <1>2, <1>3

LEMMA Refused ==
    ASSUME NEW r, IsRequest(r), NEW e
    PROVE  IsRequest(Refuse(r, e)) /\ Refuse(r, e).tid = r.tid /\ Refuse(r, e).pc = r.pc
<1>1. PICK http : http = HttpStatus(e)
  OBVIOUS
<1>2. Refuse(r, e) = IF Ok(r) THEN [r EXCEPT !.error = e, !.http = http, !.content = FALSE] ELSE r
  BY <1>1 DEF Refuse
<1> QED
  BY <1>2 DEF IsRequest

LEMMA PutDelegateAnswerStep ==
    ASSUME RequestInv, NEW s \in Slots, PutDelegateAnswer(s)
    PROVE  RequestInv' /\ StepOK
<1> DEFINE r == q[s]
<1>1. IsRequest(r) /\ r.pc = "delegates" /\ UNCHANGED tx
  BY DEF PutDelegateAnswer, At, Only, RequestInv, RequestOK
<1>2. r.tid = None
  BY <1>1 DEF PutDelegateAnswer, RequestInv, Holds
<1>3. PICK next : next = [r EXCEPT !.todo = Tail(@)]
  OBVIOUS
<1>4. PICK taken : taken = [next EXCEPT !.accepted = @ + 1]
  OBVIOUS
<1>5. PICK n : /\ Becomes(s, n)
               /\ \/ n = next \/ n = taken
                  \/ \E e : n = Refuse(next, e)
                  \/ \E e : n = [Refuse(next, e) EXCEPT !.pc = "answered"]
                  \/ \E vars_ : n = [taken EXCEPT !.ctx = vars_]
  BY <1>3, <1>4 DEF PutDelegateAnswer, Only
<1>6. IsRequest(next) /\ next.tid = None /\ next.pc = "delegates"
  BY <1>1, <1>2, <1>3 DEF IsRequest
<1>7. IsRequest(taken) /\ taken.tid = None /\ taken.pc = "delegates"
  BY <1>4, <1>6 DEF IsRequest
<1>8. IsRequest(n) /\ n.tid = None /\ n.pc \in {"delegates", "answered"}
  <2>1. CASE \E e : n = Refuse(next, e)
    BY <1>6, <2>1, Refused
  <2>2. CASE \E e : n = [Refuse(next, e) EXCEPT !.pc = "answered"]
    <3>1. PICK e : n = [Refuse(next, e) EXCEPT !.pc = "answered"]
      BY <2>2
    <3>2. PICK m : m = Refuse(next, e)
      OBVIOUS
    <3>3. IsRequest(m) /\ m.tid = None
      BY <1>6, <3>2, Refused
    <3> QED
      BY <3>1, <3>2, <3>3 DEF IsRequest
  <2>3. CASE \E vars_ : n = [taken EXCEPT !.ctx = vars_]
    BY <1>7, <2>3 DEF IsRequest
  <2> QED
    BY <1>5, <1>6, <1>7, <2>1, <2>2, <2>3
<1>9. RequestOK(n)
  BY <1>8 DEF RequestOK
<1> QED
  BY <1>1, <1>2, <1>5, <1>8, <1>9, FreeStep

LEMMA CompleteStep ==
    ASSUME RequestInv, NEW s \in Slots, Complete(s)
    PROVE  RequestInv' /\ StepOK
<1> DEFINE r == q[s]
           t == r.tid
<1>1. IsRequest(r) /\ r.pc = "complete"
  BY DEF Complete, At, RequestInv, RequestOK
<1>2. PICK answered : answered = [r EXCEPT !.pc = "answered", !.tid = None]
  OBVIOUS
<1>3. IsRequest(answered) /\ answered.tid = None /\ answered.pc = "answered"
  BY <1>1, <1>2 DEF IsRequest
<1>4. PICK n : /\ Becomes(s, n)
               /\ \/ n = answered
                  \/ \E e : n = Refuse(answered, e)
                  \/ \E result : n = [answered EXCEPT !.content = @ \/ result]
  BY <1>2 DEF Complete
<1>5. IsRequest(n) /\ n.tid = None /\ n.pc = "answered"
  <2>1. CASE \E e : n = Refuse(answered, e)
    BY <1>3, <2>1, Refused
  <2>2. CASE \E result : n = [answered EXCEPT !.content = @ \/ result]
    BY <1>3, <2>2 DEF IsRequest
  <2> QED
    BY <1>3, <1>4, <2>1, <2>2
<1>6. RequestOK(n)
  BY <1>5 DEF RequestOK
<1>7. CASE t = None
  <2>1. UNCHANGED tx
    BY <1>7 DEF Complete, GivesBack, InTransaction
  <2> QED
    BY <1>4, <1>5, <1>6, <1>7, <2>1, FreeStep
<1>8. CASE t # None
  <2>1. t \in Tids /\ TransactionOK(tx[t]) /\ Holds(r, tx[t])
    BY <1>8 DEF RequestInv
  <2>2. /\ tx[t].state = "owned" /\ Ok(r) /\ tx[t].docs \in Nat /\ tx[t].acked \in Nat
        /\ tx[t].docs = tx[t].acked + (IF Inserts(r) THEN 1 ELSE 0)
    BY <1>1, <2>1 DEF Holds, TransactionOK, IsTransaction
  <2>3. PICK acked : acked = IF Inserts(r) THEN tx[t].acked + 1 ELSE tx[t].acked
    OBVIOUS
  <2>4. PICK x : x = [tx[t] EXCEPT !.state = "pooled", !.acked = acked]
    OBVIOUS
  <2>5. TransactionOK(x) /\ x.state = "pooled"
    <3>1. IsTransaction(tx[t]) /\ tx[t].end = None
      BY <2>1, <2>2 DEF TransactionOK
    <3>2. acked \in Nat /\ acked = tx[t].docs
      BY <2>2, <2>3
    <3>3. IsTransaction(x) /\ x.state = "pooled" /\ x.docs = x.acked /\ x.end = None /\ x.type = tx[t].type
      BY <2>4, <3>1, <3>2 DEF IsTransaction
    <3> QED
      BY <2>1, <2>2, <3>3 DEF TransactionOK, None
  <2>6. tx' = [tx EXCEPT ![t].state = "pooled",
                         ![t].acked = IF Inserts(r) /\ Ok(r) THEN @ + 1 ELSE @]
    BY <1>8 DEF Complete, GivesBack, InTransaction
  <2>7. tx' = [tx EXCEPT ![t] = x] /\ tx'[t] = x
    BY <2>1, <2>2, <2>3, <2>4, <2>6 DEF RequestInv, TransactionOK, IsTransaction
  <2> QED
    BY <1>4, <1>5, <1>6, <1>8, <2>5, <2>7, OwnStep
<1> QED
  BY <1>7, <1>8

LEMMA AnswerStep ==
    ASSUME RequestInv, NEW s \in Slots, Answer_(s)
    PROVE  RequestInv' /\ StepOK
<1> DEFINE r == q[s]
<1>1. r.pc = "answered" /\ Becomes(s, Idle)
  BY DEF Answer_, At
<1>2. PICK in, rest : Idle = [NewContext(in) EXCEPT !.pc = "idle"]
  BY DEF Idle
<1>3. RequestOK(Idle) /\ Idle.tid = None
  BY <1>2 DEF NewContext, RequestOK, IsRequest, Ok, None
<1>4. CASE r.tid = None
  BY <1>1, <1>3, <1>4, FreeStep DEF Answer_, InTransaction
<1>5. CASE r.tid # None
  <2>1. r.tid \in Tids /\ TransactionOK(tx[r.tid]) /\ tx[r.tid].state = "owned" /\ ~Ok(r)
    BY <1>1, <1>5 DEF RequestInv, Holds
  <2>2. PICK x : x = [tx[r.tid] EXCEPT !.state = "gone", !.end = "error"]
    OBVIOUS
  <2>3. TransactionOK(x)
    BY <2>1, <2>2, Ended
  <2>4. tx' = [tx EXCEPT ![r.tid] = x]
    BY <1>5, <2>1, <2>2 DEF Answer_, InTransaction, End, RequestInv
  <2>5. tx'[r.tid].state = "gone"
    BY <2>1, <2>2, <2>4 DEF RequestInv, TransactionOK, IsTransaction
  <2> QED
    BY <1>1, <1>3, <1>5, <2>1, <2>3, <2>4, <2>5, OwnStep
<1> QED
  BY <1>4, <1>5

\* The pool collects a transaction nobody owns.
LEMMA CollectGarbageStep ==
    ASSUME RequestInv, NEW t \in Tids, CollectGarbage(t)
    PROVE  RequestInv' /\ StepOK
<1>1. UNCHANGED q
  BY DEF CollectGarbage
<1>2. PICK x : x = [tx[t] EXCEPT !.state = "gone", !.end = "expired"]
  OBVIOUS
<1>3. TransactionOK(x)
  <2>1. TransactionOK(tx[t]) /\ tx[t].state = "pooled"
    BY DEF CollectGarbage, RequestInv
  <2>2. IsTransaction(x) /\ x.state = "gone" /\ x.end = "expired" /\ x.type = tx[t].type
    BY <1>2, <2>1 DEF TransactionOK, IsTransaction
  <2> QED
    BY <2>1, <2>2 DEF TransactionOK
<1>4. tx' = [u \in Tids |-> IF u = t THEN x ELSE tx[u]]
  BY <1>2 DEF CollectGarbage, RequestInv
<1>5. \A o \in Slots : q[o].tid # None => q[o].tid \in Tids /\ q[o].tid # t /\ tx[q[o].tid].state = "owned"
  BY DEF CollectGarbage, RequestInv, Holds
<1>6. \A o \in Slots : q[o].tid # None => tx'[q[o].tid] = tx[q[o].tid]
  BY <1>4, <1>5
<1>7. \A u \in Tids : TransactionOK(tx'[u])
  BY <1>3, <1>4 DEF RequestInv
<1>8. RequestInv'
  BY <1>1, <1>4, <1>5, <1>6, <1>7 DEF RequestInv
<1>9. [Registry!Next]_Registry!vars
  <2>1. tx[t].state = "pooled" /\ x.state = "gone"
    BY <1>2 DEF CollectGarbage, RequestInv, TransactionOK, IsTransaction
  <2> QED
    BY <1>1, <1>4, <2>1, ExpiresStep
<1> QED
  BY <1>5, <1>6, <1>8, <1>9 DEF LossesOK, StepOK

-----------------------------------------------------------------------------

LEMMA InitStep == Init => RequestInv
<1> SUFFICES ASSUME Init
             PROVE  RequestInv
  OBVIOUS
<1>1. PICK in : Idle = [NewContext(in) EXCEPT !.pc = "idle"]
  BY DEF Idle
<1>2. RequestOK(Idle) /\ Idle.tid = None
  BY <1>1 DEF NewContext, RequestOK, IsRequest, Ok, None
<1>3. TransactionOK(NoTransaction)
  BY DEF NoTransaction, TransactionOK, IsTransaction, None
<1> QED
  BY <1>2, <1>3 DEF Init, RequestInv

LEMMA NextStep ==
    ASSUME RequestInv, Next
    PROVE  RequestInv' /\ StepOK
<1>1. CASE \E s \in Slots : Arrive(s)
  BY <1>1, ArriveStep
<1>2. ASSUME NEW s \in Slots, Step(s)
      PROVE  RequestInv' /\ StepOK
  BY <1>2, ServerAssumption, InitContentTypeStep, DescribeSchemaStep, FetchTransactionStep, FetchWithoutIdStep,
     InheritContextStep, OptionsStep, CommitTransactionStep, ConfigureWithoutContentStep, PatchStep,
     PutConfigurationStep, PostConfigurationStep, UpdateConfigurationStep, RetryUpdateStep,
     DeleteTransactionStep, RemoveConfigurationStep, DeleteStoredStep, DeleteWithContentStep,
     ListContextsStep, PostTransactionStep, CallMethodStep, MapValueStep, ExecuteSchemaStep,
     ListVariablesStep, GetDelegateRequestsStep, PutDelegateAnswerStep, CompleteStep, AnswerStep
     DEF Step
<1>3. CASE \E t \in Tids : CollectGarbage(t)
  BY <1>3, CollectGarbageStep
<1> QED
  BY <1>1, <1>2, <1>3 DEF Next

\* The inductive invariant: a transaction in use has one owner, that of the pool has the
\* documents acknowledged, one more is in the hands of a request between its insert and its
\* completion (initRequestObject, executeObjectRequest, complete, ~WebRequestContext).
THEOREM RequestInvariant == Spec => []RequestInv
<1>1. Init => RequestInv
  BY InitStep
<1>2. RequestInv /\ [Next]_vars => RequestInv'
  <2>1. ASSUME RequestInv, UNCHANGED vars
        PROVE  RequestInv'
    BY <2>1 DEF vars, RequestInv
  <2> QED
    BY <2>1, NextStep
<1> QED
  BY <1>1, <1>2, PTL DEF Spec

\* What a commit publishes are the documents acknowledged, for any number of requests on any
\* transactions (executeCommitTransaction).
THEOREM CommitsPublishAcknowledged == Spec => []CommitPublishesAcknowledged
<1>1. RequestInv => CommitPublishesAcknowledged
  BY DEF RequestInv, TransactionOK, CommitPublishesAcknowledged
<1> QED
  BY <1>1, RequestInvariant, PTL

\* A transaction is lost by no request that is answered with success, except by the commit and
\* the delete its client asked for (complete, ~WebRequestContext).
THEOREM LossesAreErrors == Spec => LostOnlyByError
<1>1. RequestInv /\ [Next]_vars => [LossesOK]_vars
  BY NextStep DEF StepOK
<1>2. [][LossesOK]_vars => LostOnlyByError
  BY DEF LossesOK, LostOnlyByError
<1> QED
  BY <1>1, <1>2, RequestInvariant, PTL DEF Spec

\* To its requests the service is the registry of transactions that the pool implements: a
\* request is one of its threads, it fetches a transaction and gives it back, once, pooled or
\* gone, on every way from its arrival to its answer (initRequestObject, complete,
\* ~WebRequestContext).
THEOREM ServerImplementsRegistry == Spec => Registry!Spec
<1>1. Init => Registry!Init
  <2> SUFFICES ASSUME Init
               PROVE  Registry!Init
    OBVIOUS
  <2>1. Idle.tid = None
    BY DEF Idle, NewContext, None
  <2>2. NoTransaction.state = "unborn"
    BY DEF NoTransaction
  <2> QED
    BY <2>1, <2>2 DEF Init, Registry!Init, Status
<1>2. RequestInv /\ [Next]_vars => [Registry!Next]_Registry!vars
  <2>1. ASSUME UNCHANGED vars
        PROVE  UNCHANGED Registry!vars
    BY <2>1 DEF vars, Registry!vars, Status
  <2> QED
    BY <2>1, NextStep DEF StepOK
<1> QED
  BY <1>1, <1>2, RequestInvariant, PTL DEF Spec, Registry!Spec

-----------------------------------------------------------------------------
(* The execution of calls                                                  *)

IsSeq(x) == \E S : x \in Seq(S)

\* A call bound to the root of the content gives the variable its value.
Makes(calls, v) == v # Void /\ \E i \in 1 .. Len(calls) : calls[i].element = Always /\ calls[i].result = v

\* The calls of a part.
Part(calls, made) == IsSeq(calls) /\ \A v \in made : Makes(calls, v)

LEMMA Least ==
    ASSUME NEW S \in SUBSET Nat, S # {}
    PROVE  \E n \in S : \A m \in S : n <= m
<1> DEFINE R == {ss \in Nat \X Nat : ss[1] < ss[2]}
<1>1. IsWellFoundedOn(R, Nat)
  BY NatLessThanWellFounded, Zenon DEF OpToRel
<1>2. \A m, n \in Nat : <<m, n>> \in R <=> m < n
  OBVIOUS
<1> HIDE DEF R
<1>3. PICK n \in S : \A m \in S : ~ (<<m, n>> \in R)
  BY <1>1, WFMin
<1>4. \A m \in S : ~(m < n)
  BY <1>2, <1>3
<1> QED
  BY <1>4

LEMMA Induction ==
    ASSUME NEW S, 0 \in S, \A n \in Nat : n \in S => n + 1 \in S
    PROVE  Nat \subseteq S
<1> SUFFICES ASSUME Nat \ S # {}
             PROVE  FALSE
  OBVIOUS
<1>1. PICK n \in Nat \ S : \A m \in Nat \ S : n <= m
  BY Least
<1>2. n - 1 \in Nat /\ n - 1 \in S
  BY <1>1
<1> QED
  BY <1>1, <1>2

\* The states after the first calls.
Follows(f, calls, elements, before, type) ==
    f = [n \in 0 .. Len(calls) |->
            IF n = 0 THEN [ok |-> TRUE, vars |-> before]
            ELSE ExecuteCall(f[n - 1], calls[n], elements, type)]

LEMMA CallsFollow ==
    ASSUME NEW calls, Len(calls) \in Nat, NEW elements, NEW before, NEW type
    PROVE  \E f : /\ Follows(f, calls, elements, before, type)
                  /\ ExecuteCalls(calls, elements, before, type) = f[Len(calls)]
<1> DEFINE Prefix(f, n) ==
             f = [i \in 0 .. n |-> IF i = 0 THEN [ok |-> TRUE, vars |-> before]
                                   ELSE ExecuteCall(f[i - 1], calls[i], elements, type)]
           S == {n \in Nat : \E f : Prefix(f, n)}
<1>1. 0 \in S
  <2>1. PICK f : f = [i \in 0 .. 0 |-> [ok |-> TRUE, vars |-> before]]
    OBVIOUS
  <2>2. Prefix(f, 0)
    BY <2>1
  <2> QED
    BY <2>2
<1>2. ASSUME NEW n \in Nat, n \in S
      PROVE  n + 1 \in S
  <2>1. PICK f : Prefix(f, n)
    BY <1>2
  <2>2. PICK v : v = ExecuteCall(f[n], calls[n + 1], elements, type)
    OBVIOUS
  <2>3. PICK g : g = [i \in 0 .. n + 1 |-> IF i = n + 1 THEN v ELSE f[i]]
    OBVIOUS
  <2>4. \A i \in 0 .. n + 1 :
          g[i] = IF i = 0 THEN [ok |-> TRUE, vars |-> before]
                 ELSE ExecuteCall(g[i - 1], calls[i], elements, type)
    <3> TAKE i \in 0 .. n + 1
    <3>1. CASE i = n + 1
      <4>1. g[i] = v /\ g[i - 1] = f[n] /\ i # 0
        BY <2>3, <3>1
      <4> QED
        BY <2>2, <3>1, <4>1
    <3>2. CASE i = 0
      BY <2>1, <2>3, <3>2
    <3>3. CASE i \in 1 .. n
      <4>1. g[i] = f[i] /\ g[i - 1] = f[i - 1] /\ i # 0 /\ i \in 0 .. n
        BY <2>3, <3>3
      <4>2. f[i] = ExecuteCall(f[i - 1], calls[i], elements, type)
        BY <2>1, <4>1
      <4> QED
        BY <4>1, <4>2
    <3> QED
      BY <3>1, <3>2, <3>3
  <2>5. Prefix(g, n + 1)
    BY <2>3, <2>4
  <2> QED
    BY <2>5
<1> HIDE DEF S
<1>3. Len(calls) \in S
  BY <1>1, <1>2, Induction
<1>4. \E f : Follows(f, calls, elements, before, type)
  BY <1>3 DEF S, Follows
<1> DEFINE after == CHOOSE f : Follows(f, calls, elements, before, type)
<1>5. Follows(after, calls, elements, before, type)
  BY <1>4
<1>6. ExecuteCalls(calls, elements, before, type) = after[Len(calls)]
  BY Zenon DEF ExecuteCalls, Follows
<1> QED
  BY <1>5, <1>6

\* Calls executed keep the variables there are; those bound to the root of the content
\* make theirs.
LEMMA CallsExecuted ==
    ASSUME NEW calls, IsSeq(calls), NEW elements, NEW before, NEW type
    PROVE  LET run == ExecuteCalls(calls, elements, before, type) IN
           /\ before \subseteq run.vars
           /\ run.ok => \A v : Makes(calls, v) => v \in run.vars
<1>1. Len(calls) \in Nat
  BY DEF IsSeq
<1>2. PICK f : /\ Follows(f, calls, elements, before, type)
               /\ ExecuteCalls(calls, elements, before, type) = f[Len(calls)]
  BY <1>1, CallsFollow
<1> DEFINE Reached(n) ==
             /\ f[n] = [ok |-> f[n].ok, vars |-> f[n].vars]
             /\ before \subseteq f[n].vars
             /\ f[n].ok => \A i \in 1 .. n : calls[i].element = Always /\ calls[i].result # Void
                                               => calls[i].result \in f[n].vars
           S == {n \in Nat : n <= Len(calls) => Reached(n)}
<1>3. 0 \in S
  <2>1. f[0] = [ok |-> TRUE, vars |-> before]
    <3>1. 0 \in 0 .. Len(calls)
      BY <1>1
    <3> QED
      BY <1>2, <3>1 DEF Follows
  <2>2. f[0].vars = before
    BY <2>1
  <2>3. 1 .. 0 = {}
    OBVIOUS
  <2>4. Reached(0)
    BY <2>1, <2>2, <2>3
  <2> QED
    BY <2>4
<1>4. ASSUME NEW n \in Nat, n \in S
      PROVE  n + 1 \in S
  <2> SUFFICES ASSUME n + 1 <= Len(calls)
               PROVE  Reached(n + 1)
    OBVIOUS
  <2>1. Reached(n)
    BY <1>1, <1>4
  <2>2. f[n + 1] = ExecuteCall(f[n], calls[n + 1], elements, type)
    <3>1. n + 1 \in 0 .. Len(calls) /\ n + 1 # 0 /\ (n + 1) - 1 = n
      BY <1>1
    <3>2. f[n + 1] = ExecuteCall(f[(n + 1) - 1], calls[n + 1], elements, type)
      BY <1>2, <3>1 DEF Follows
    <3> QED
      BY <3>1, <3>2
  <2> DEFINE c == calls[n + 1]
  <2>3. CASE c.element # Always /\ c.element \notin elements
    <3>1. f[n + 1] = f[n]
      BY <2>2, <2>3 DEF ExecuteCall
    <3>2. \A i \in 1 .. n + 1 : i \in 1 .. n \/ i = n + 1
      OBVIOUS
    <3> QED
      BY <2>1, <2>3, <3>1, <3>2
  <2>4. CASE ~(c.element # Always /\ c.element \notin elements)
             /\ f[n].ok /\ Resolves(c, f[n].vars, type)
    <3>1. f[n + 1] = [f[n] EXCEPT !.vars = @ \cup ({c.result} \ {Void})]
      BY <2>2, <2>4 DEF ExecuteCall
    <3>2. f[n + 1] = [ok |-> f[n].ok, vars |-> f[n].vars \cup ({c.result} \ {Void})]
      BY <2>1, <3>1
    <3>3. f[n + 1].vars = f[n].vars \cup ({c.result} \ {Void}) /\ f[n + 1].ok = f[n].ok
      BY <3>2
    <3>4. \A i \in 1 .. n + 1 : i \in 1 .. n \/ i = n + 1
      OBVIOUS
    <3>5. ASSUME NEW i \in 1 .. n + 1, calls[i].element = Always, calls[i].result # Void
          PROVE  calls[i].result \in f[n + 1].vars
      BY <2>1, <2>4, <3>3, <3>4, <3>5
    <3> QED
      BY <2>1, <3>2, <3>3, <3>5
  <2>5. CASE ~(c.element # Always /\ c.element \notin elements)
             /\ ~(f[n].ok /\ Resolves(c, f[n].vars, type))
    <3>1. f[n + 1] = [f[n] EXCEPT !.ok = FALSE]
      BY <2>2, <2>5 DEF ExecuteCall
    <3>2. f[n + 1] = [ok |-> FALSE, vars |-> f[n].vars]
      BY <2>1, <3>1
    <3> QED
      BY <2>1, <3>2
  <2> QED
    BY <2>3, <2>4, <2>5
<1> HIDE DEF S
<1>5. Len(calls) \in S
  BY <1>1, <1>3, <1>4, Induction
<1>6. Reached(Len(calls))
  BY <1>1, <1>5 DEF S
<1> QED
  BY <1>2, <1>6 DEF Makes

-----------------------------------------------------------------------------
(* The tables                                                              *)

LEMMA CallFields ==
    ASSUME NEW element, NEW result, NEW self, NEW class, NEW args
    PROVE  /\ Call(element, result, self, class, args).element = element
           /\ Call(element, result, self, class, args).result = result
BY DEF Call

LEMMA OnEachIsSeq ==
    ASSUME NEW elements, IsSeq(elements), NEW self, NEW class
    PROVE  Part(OnEach(elements, self, class), {})
<1>1. PICK S : elements \in Seq(S)
  BY DEF IsSeq
<1> DEFINE f == [i \in 1 .. Len(elements) |-> Call(elements[i], Void, self, class, {})]
           T == {Call(elements[i], Void, self, class, {}) : i \in 1 .. Len(elements)}
<1>2. DOMAIN elements = 1 .. Len(elements) /\ Len(elements) \in Nat
  BY <1>1
<1>3. f \in [1 .. Len(elements) -> T]
  OBVIOUS
<1>4. f \in Seq(T)
  <2> HIDE DEF f, T
  <2> QED
    BY <1>2, <1>3
<1> QED
  BY <1>2, <1>4 DEF OnEach, IsSeq, Part

LEMMA OneCall ==
    ASSUME NEW a
    PROVE  /\ Part(<<a>>, {})
           /\ a.element = Always /\ a.result # Void => Part(<<a>>, {a.result})
<1>1. <<a>> \in Seq({a})
  OBVIOUS
<1>2. a.element = Always /\ a.result # Void => Makes(<<a>>, a.result)
  <2>1. 1 \in 1 .. Len(<<a>>) /\ <<a>>[1] = a
    OBVIOUS
  <2> QED
    BY <2>1 DEF Makes
<1> QED
  BY <1>1, <1>2 DEF IsSeq, Part

LEMMA ShortSequences ==
    ASSUME NEW a, NEW b, NEW c, NEW d, NEW e, NEW f, NEW g, NEW h
    PROVE  /\ IsSeq(<<a>>) /\ IsSeq(<<a, b>>) /\ IsSeq(<<a, b, c>>)
           /\ IsSeq(<<a, b, c, d>>) /\ IsSeq(<<a, b, c, d, e>>) /\ IsSeq(<< >>)
           /\ IsSeq(<<a, b, c, d, e, f, g>>) /\ IsSeq(<<a, b, c, d, e, f, g, h>>)
<1>1. <<a>> \in Seq({a})
  OBVIOUS
<1>2. <<a, b>> \in Seq({a, b})
  OBVIOUS
<1>3. <<a, b, c>> \in Seq({a, b, c})
  OBVIOUS
<1>4. <<a, b, c, d>> \in Seq({a, b, c, d})
  OBVIOUS
<1>5. <<a, b, c, d, e>> \in Seq({a, b, c, d, e})
  OBVIOUS
<1>6. << >> \in Seq({})
  OBVIOUS
<1>8. <<a, b, c, d, e, f, g>> \in Seq({a, b, c, d, e, f, g})
  OBVIOUS
<1>7. <<a, b, c, d, e, f, g, h>> \in Seq({a, b, c, d, e, f, g, h})
  OBVIOUS
<1> QED
  BY <1>1, <1>2, <1>3, <1>4, <1>5, <1>6, <1>7, <1>8 DEF IsSeq

\* Parts are put together.
LEMMA Joined ==
    ASSUME NEW c, NEW d, NEW vs, NEW us, Part(c, vs), Part(d, us)
    PROVE  Part(c \o d, vs \cup us)
<1>1. PICK S : c \in Seq(S)
  BY DEF IsSeq, Part
<1>2. PICK U : d \in Seq(U)
  BY DEF IsSeq, Part
<1>3. c \in Seq(S \cup U) /\ d \in Seq(S \cup U)
  BY <1>1, <1>2
<1> DEFINE e == c \o d
<1>4. e \in Seq(S \cup U) /\ Len(e) = Len(c) + Len(d)
  BY <1>3
<1>5. \A i \in 1 .. Len(c) : e[i] = c[i]
  BY <1>3
<1>6. \A i \in 1 .. Len(d) : e[Len(c) + i] = d[i]
  BY <1>3
<1>7. Len(c) \in Nat /\ Len(d) \in Nat
  BY <1>3
<1> HIDE DEF e
<1>8. ASSUME NEW v \in vs
      PROVE  Makes(e, v)
  <2>1. v # Void /\ \E i \in 1 .. Len(c) : c[i].element = Always /\ c[i].result = v
    BY <1>8 DEF Makes, Part
  <2>3. PICK i \in 1 .. Len(c) : c[i].element = Always /\ c[i].result = v
    BY <2>1
  <2>2. i \in 1 .. Len(e) /\ e[i] = c[i]
    BY <1>4, <1>5, <1>7
  <2> QED
    BY <2>1, <2>2, <2>3 DEF Makes
<1>9. ASSUME NEW v \in us
      PROVE  Makes(e, v)
  <2>1. v # Void /\ \E i \in 1 .. Len(d) : d[i].element = Always /\ d[i].result = v
    BY <1>9 DEF Makes, Part
  <2>3. PICK i \in 1 .. Len(d) : d[i].element = Always /\ d[i].result = v
    BY <2>1
  <2>2. Len(c) + i \in 1 .. Len(e) /\ e[Len(c) + i] = d[i]
    BY <1>4, <1>6, <1>7
  <2> QED
    BY <2>1, <2>2, <2>3 DEF Makes
<1> QED
  BY <1>4, <1>8, <1>9 DEF e, Part, IsSeq

\* A list of calls of which the first is bound to the root of the content.
LEMMA FirstCall ==
    ASSUME NEW calls, IsSeq(calls), Len(calls) \in Nat \ {0}, NEW result, NEW self, NEW class, NEW args,
           calls[1] = Call(Always, result, self, class, args), result # Void
    PROVE  Part(calls, {result})
<1>1. 1 \in 1 .. Len(calls) /\ calls[1].element = Always /\ calls[1].result = result
  BY CallFields
<1>2. Makes(calls, result)
  BY <1>1 DEF Makes
<1> QED
  BY <1>2 DEF Part

LEMMA OneResult ==
    ASSUME NEW v, v # Void, NEW self, NEW class, NEW args
    PROVE  Part(<< Call(Always, v, self, class, args) >>, {v})
<1> DEFINE calls == << Call(Always, v, self, class, args) >>
<1>1. IsSeq(calls)
  BY OneCall DEF Part
<1>2. Len(calls) \in Nat \ {0} /\ calls[1] = Call(Always, v, self, class, args)
  OBVIOUS
<1> QED
  BY <1>1, <1>2, FirstCall

\* The variables of configurations have names.
LEMMA Variables ==
    \A v \in {"docanalyzer", "qryanalyzer", "qryeval", "contentstats", "storage", "vstorage", "inserter",
              "statserver", "collector", "ranklist"} : v # Void
BY DEF Void

\* The parts of the schemas that make a variable.
LEMMA MakingParts ==
    /\ Part(DefineDocumentAnalyzer, {"docanalyzer"})
    /\ Part(DefineQueryAnalyzer, {"qryanalyzer"})
    /\ Part(DefineQueryEval, {"qryeval"})
    /\ Part(DefineContentStatistics, {"contentstats"})
    /\ Part(MergeQueryResults, {"ranklist"})
<1> DEFINE Lists(v, b) == Part(<< Call(Always, v, "context", "Context", {}) >> \o b, {v})
<1>1. ASSUME NEW v, v # Void, NEW b, Part(b, {})
      PROVE  Lists(v, b)
  <2>1. Part(<< Call(Always, v, "context", "Context", {}) >>, {v})
    BY <1>1, OneResult
  <2> DEFINE a == << Call(Always, v, "context", "Context", {}) >>
  <2>2. Part(a \o b, {v} \cup {})
    BY <1>1, <2>1, Joined
  <2> QED
    BY <2>2
<1>2. Part(DefineQueryAnalyzer, {"qryanalyzer"})
  <2>1. IsSeq(DefineQueryAnalyzer) /\ Len(DefineQueryAnalyzer) = 5
    BY ShortSequences DEF DefineQueryAnalyzer
  <2>2. DefineQueryAnalyzer[1] = Call(Always, "qryanalyzer", "context", "Context", {})
    BY DEF DefineQueryAnalyzer
  <2>3. Len(DefineQueryAnalyzer) \in Nat \ {0} /\ "qryanalyzer" # Void
    BY <2>1, Variables
  <2> QED
    BY <2>1, <2>2, <2>3, FirstCall
<1>3. Part(DefineDocumentAnalyzer, {"docanalyzer"})
  <2> DEFINE a == << Call(Always, "docanalyzer", "context", "Context", {}) >>
             b == OnEach(<<"feature/search", "feature/forward", "feature/metadata", "feature/attribute">>,
                         "docanalyzer", "DocumentAnalyzer")
             c == OnEach(<<"feature/aggregator", "document", "content", "field", "structure">>,
                         "docanalyzer", "DocumentAnalyzer")
  <2>1. Part(a, {"docanalyzer"})
    BY OneResult, Variables
  <2>2. Part(b, {}) /\ Part(c, {})
    BY OnEachIsSeq, ShortSequences
  <2> HIDE DEF a, b, c
  <2>3. Part(a \o b, {"docanalyzer"} \cup {})
    BY <2>1, <2>2, Joined
  <2>4. Part(a \o b \o c, {"docanalyzer"} \cup {} \cup {})
    BY <2>2, <2>3, Joined
  <2> QED
    BY <2>4 DEF DefineDocumentAnalyzer, a, b, c
<1>4. Part(DefineQueryEval, {"qryeval"})
  <2> DEFINE b == OnEach(<<"cterm", "restriction", "selection", "exclusion",
                           "summarizer", "weighting", "formula">>, "qryeval", "QueryEval")
  <2>1. Part(b, {})
    BY OnEachIsSeq, ShortSequences
  <2>2. Lists("qryeval", b)
    BY <1>1, <2>1, Variables
  <2> QED
    BY <2>2 DEF DefineQueryEval
<1>5. Part(DefineContentStatistics, {"contentstats"})
  <2> DEFINE b == OnEach(<<"attribute", "select", "element">>, "contentstats", "ContentStatistics")
  <2>1. Part(b, {})
    BY OnEachIsSeq, ShortSequences
  <2>2. Lists("contentstats", b)
    BY <1>1, <2>1, Variables
  <2> QED
    BY <2>2 DEF DefineContentStatistics
<1>6. Part(MergeQueryResults, {"ranklist"})
  BY OneResult, Variables DEF MergeQueryResults
<1> QED
  BY <1>2, <1>3, <1>4, <1>5, <1>6

LEMMA ClientMakes ==
    ASSUME NEW type, type # Void, NEW class
    PROVE  Part(Client(type, class), {type})
BY OneResult DEF Client

\* A part is a list of calls, put together from others or not.
LEMMA PartWhole == ASSUME NEW calls, IsSeq(calls) PROVE Part(calls, {})
BY DEF Part

\* The other parts.
LEMMA OtherParts ==
    /\ Part(DefineStorage, {}) /\ Part(DefineDeleteStorage, {}) /\ Part(DefineVectorStorage, {})
    /\ Part(DefineStatisticsQuery, {}) /\ Part(Data, {})
    /\ Part(AnalyzeQuery, {}) /\ Part(DefineQuery, {}) /\ Part(EvaluateQuery, {})
    /\ Part(EvaluateTermStatistics, {}) /\ Part(EvaluateGlobalStatistics, {})
    /\ Part(BuildQuery, {}) /\ Part(BuildQueryFromResult, {}) /\ Part(CloseQueryFromResult, {})
    /\ Part(DefineQueryAnalyzed, {}) /\ Part(DefineQueryBuilder, {}) /\ Part(DefineResultMerger, {})
    /\ Part(AddQueryResult, {}) /\ Part(DeclareStatistics, {})
<1>1. Part(DefineStorage, {}) /\ Part(DefineDeleteStorage, {}) /\ Part(DefineVectorStorage, {})
  BY ShortSequences, PartWhole DEF DefineStorage, DefineDeleteStorage, DefineVectorStorage
<1>2. Part(DefineStatisticsQuery, {}) /\ Part(Data, {}) /\ Part(EvaluateQuery, {})
  BY ShortSequences, PartWhole DEF DefineStatisticsQuery, Data, EvaluateQuery
<1>3. Part(EvaluateTermStatistics, {}) /\ Part(EvaluateGlobalStatistics, {})
  BY ShortSequences, PartWhole DEF EvaluateTermStatistics, EvaluateGlobalStatistics
<1>4. Part(BuildQuery, {}) /\ Part(BuildQueryFromResult, {}) /\ Part(CloseQueryFromResult, {})
  BY ShortSequences, PartWhole DEF BuildQuery, BuildQueryFromResult, CloseQueryFromResult
<1>5. Part(DefineQueryAnalyzed, {}) /\ Part(DefineQueryBuilder, {}) /\ Part(DefineResultMerger, {})
  BY ShortSequences, PartWhole DEF DefineQueryAnalyzed, DefineQueryBuilder, DefineResultMerger
<1>6. Part(AddQueryResult, {}) /\ Part(DeclareStatistics, {}) /\ Part(AnalyzeQuery, {})
  BY ShortSequences, PartWhole DEF AddQueryResult, DeclareStatistics, AnalyzeQuery
<1>7. Part(DefineQuery, {})
  <2> DEFINE a == << Call(Always, "query", "qryeval", "QueryEval", {"storage"}),
                     Call("feature", Void, "query", "Query", {"_analyzed"}),
                     Call("restriction", Void, "query", "Query", {"_analyzed"}) >>
             b == OnEach(<<"termstats", "globalstats", "evalset", "nofranks", "minrank", "mergeres",
                           "access", Always>>, "query", "Query")
  <2>1. Part(a, {}) /\ Part(b, {})
    BY ShortSequences, PartWhole, OnEachIsSeq
  <2> HIDE DEF a, b
  <2>2. Part(a \o b, {} \cup {})
    BY <2>1, Joined
  <2> QED
    BY <2>2 DEF DefineQuery, a, b
<1> QED
  BY <1>1, <1>2, <1>3, <1>4, <1>5, <1>6, <1>7

\* The type of the configuration a schema builds.
Builds(s) == IF s.id[1] = Root THEN s.id[3] ELSE s.id[1]

\* What a schema is made of: lists of calls and results.  One that can build a
\* configuration makes each of its variables, in calls the content has no say in, and
\* sends what it sends to schemas of the configuration's type.
SchemaFacts(s) ==
    /\ IsSeq(s.calls) /\ IsSeq(s.results)
    /\ s.id[2] \in {"PUT", "POST"} /\ Builds(s) \notin TransactionContexts =>
         /\ Part(s.calls, ConfigVars(Builds(s)))
         /\ \A i \in 1 .. Len(s.results) :
              HasReceiver(s.results[i]) => HasSchema(<<Builds(s), s.results[i].receiver, "">>)

\* A schema that builds no configuration.
LEMMA AnswersFacts ==
    ASSUME NEW type, NEW method, NEW third, NEW inherits, NEW calls, NEW results,
           Part(calls, {}), IsSeq(results), type # Root,
           method \notin {"PUT", "POST"} \/ type \in TransactionContexts
    PROVE  /\ SchemaFacts(Schema(<<type, method, third>>, inherits, calls, results))
           /\ SchemaFacts(Exclusive(Schema(<<type, method, third>>, inherits, calls, results)))
BY DEF SchemaFacts, Schema, Exclusive, Builds, Part

LEMMA ReceivesFacts ==
    ASSUME NEW type, NEW name, NEW calls, Part(calls, {}), type # Root,
           name \notin {"PUT", "POST"} \/ type \in TransactionContexts
    PROVE  SchemaFacts(Receive(type, name, calls))
BY AnswersFacts, ShortSequences DEF Receive

LEMMA DeletesFacts ==
    ASSUME NEW type, NEW method, NEW inherits, NEW calls, Part(calls, {}), method \notin {"PUT", "POST"}
    PROVE  SchemaFacts(Create(method, type, inherits, calls))
<1>1. <<Root, method, type>>[2] = method
  OBVIOUS
<1> QED
  BY <1>1, ShortSequences DEF SchemaFacts, Schema, Create, Part

LEMMA IdParts ==
    ASSUME NEW a, NEW b, NEW c
    PROVE  <<a, b, c>>[1] = a /\ <<a, b, c>>[2] = b /\ <<a, b, c>>[3] = c
OBVIOUS

LEMMA Nothing == 1 .. Len(<< >>) = {}
<1>1. Len(<< >>) = 0
  OBVIOUS
<1>2. 1 .. 0 = {}
  OBVIOUS
<1> QED
  BY <1>1, <1>2

LEMMA CreatesFacts ==
    ASSUME NEW type, NEW method, NEW inherits, NEW calls, Part(calls, ConfigVars(type)), NEW results,
           IsSeq(results),
           \A i \in 1 .. Len(results) :
              HasReceiver(results[i]) => HasSchema(<<type, results[i].receiver, "">>)
    PROVE  /\ SchemaFacts(Create(method, type, inherits, calls))
           /\ SchemaFacts(Requiring(Create(method, type, inherits, calls)))
           /\ SchemaFacts(Sending(Create(method, type, inherits, calls), results))
<1> DEFINE id == <<Root, method, type>>
<1>1. id[1] = Root /\ id[3] = type
  OBVIOUS
<1>2. Len(<< >>) = 0 /\ IsSeq(<< >>) /\ IsSeq(calls)
  BY ShortSequences DEF Part
<1> HIDE DEF id
<1>3. ASSUME NEW s, s.id = id, s.calls = calls, s.results = << >> \/ s.results = results
      PROVE  SchemaFacts(s)
  <2>1. Builds(s) = type
    BY <1>1, <1>3 DEF Builds
  <2>2. CASE s.results = << >>
    <3>1. 1 .. Len(s.results) = {}
      BY <2>2, Nothing
    <3> QED
      BY <1>2, <1>3, <2>1, <2>2, <3>1 DEF SchemaFacts
  <2>3. CASE s.results = results
    BY <1>2, <1>3, <2>1, <2>3 DEF SchemaFacts
  <2> QED
    BY <1>3, <2>2, <2>3
<1>4. PICK s : s = Schema(id, inherits, calls, << >>)
  OBVIOUS
<1>5. s.id = id /\ s.calls = calls /\ s.results = << >>
  BY <1>4 DEF Schema
<1>6. SchemaFacts(s)
  BY <1>3, <1>5
<1>7. Requiring(s).id = id /\ Requiring(s).calls = calls /\ Requiring(s).results = << >>
  BY <1>4 DEF Schema, Requiring
<1>8. Sending(s, results).id = id /\ Sending(s, results).calls = calls
      /\ Sending(s, results).results = results
  BY <1>4 DEF Schema, Sending
<1> QED
  BY <1>3, <1>4, <1>6, <1>7, <1>8 DEF Create, id

\* The variables of the configurations.
LEMMA ConfigVariables ==
    /\ \A t \in {"contentstats", "storage", "vstorage", "docanalyzer", "qryanalyzer", "qryeval", "inserter"} :
         ConfigVars(t) = {t}
    /\ ConfigVars("statserver") = {"storage", "statserver"}
    /\ ConfigVars("distqryeval") = {"qryanalyzer", "collector", "qryeval", "statserver"}
BY DEF ConfigVars, AddressVars, Root

\* A schema that builds a configuration and sends nothing.
LEMMA BuildsFacts ==
    ASSUME NEW type, NEW method, NEW inherits, NEW calls, Part(calls, ConfigVars(type))
    PROVE  /\ SchemaFacts(Create(method, type, inherits, calls))
           /\ SchemaFacts(Requiring(Create(method, type, inherits, calls)))
<1>1. 1 .. Len(<< >>) = {} /\ IsSeq(<< >>)
  BY ShortSequences, Nothing
<1> QED
  BY <1>1, CreatesFacts

LEMMA EverySchema == \A s \in Schemas : SchemaFacts(s)
<1> DEFINE Builder(type, calls) == Part(calls, ConfigVars(type))
<1>1. ASSUME NEW s \in MainSchemas
      PROVE  SchemaFacts(s)
  <2> DEFINE b == OnEach(<<"workdir", "resources", "directory", "modules", "debug", Always>>,
                         "context", "Context")
             a == << Assign(Always, Root) >>
  <2>1. <<"workdir", "resources", "directory", "modules", "debug", Always>>
          \in Seq({"workdir", "resources", "directory", "modules", "debug", Always})
    OBVIOUS
  <2>2. Part(b, {}) /\ Part(a, {})
    BY <2>1, OnEachIsSeq, OneCall DEF IsSeq
  <2> HIDE DEF a, b
  <2>3. Part(a \o b, {} \cup {})
    BY <2>2, Joined
  <2>4. Part(a \o b, {}) /\ "" # Root /\ Root \notin {"PUT", "POST"} /\ IsSeq(<< >>)
    BY <2>3, ShortSequences DEF Root
  <2> QED
    BY <2>4, AnswersFacts DEF MainSchemas, a, b
<1>2. ASSUME NEW s \in StorageSchemas
      PROVE  SchemaFacts(s)
  <2>1. Builder("storage", DefineStorage \o Data \o Client("storage", "Context"))
    <3>1. Part(DefineStorage \o Data, {} \cup {})
      BY Joined, OtherParts
    <3>2. Part(DefineStorage \o Data \o Client("storage", "Context"), {} \cup {} \cup {"storage"})
      BY <3>1, Joined, ClientMakes, Variables
    <3> QED
      BY <3>2, ConfigVariables
  <2>2. ASSUME NEW class
        PROVE  Builder("storage", DefineStorage \o Client("storage", class))
    <3>1. Part(DefineStorage \o Client("storage", class), {} \cup {"storage"})
      BY Joined, ClientMakes, Variables, OtherParts
    <3> QED
      BY <3>1, ConfigVariables
  <2>3. Part(AnalyzeQuery \o DefineQuery \o EvaluateQuery \o DefineStatisticsQuery, {})
    <3>1. Part(AnalyzeQuery \o DefineQuery, {} \cup {})
      BY Joined, OtherParts
    <3>2. Part(AnalyzeQuery \o DefineQuery \o EvaluateQuery, {} \cup {} \cup {})
      BY <3>1, Joined, OtherParts
    <3>3. Part(AnalyzeQuery \o DefineQuery \o EvaluateQuery \o DefineStatisticsQuery,
               {} \cup {} \cup {} \cup {})
      BY <3>2, Joined, OtherParts
    <3> QED
      BY <3>3
  <2>4. Part(DefineDeleteStorage \o Data, {})
    <3>1. Part(DefineDeleteStorage \o Data, {} \cup {})
      BY Joined, OtherParts
    <3> QED
      BY <3>1
  <2>5. ASSUME NEW class, NEW class2
        PROVE  Part(OnEach(<<"document", "metadata">>, class, class2), {})
    BY OnEachIsSeq, ShortSequences
  <2>6. "transaction/storage" \in TransactionContexts /\ "transaction/storage" # Root
    BY ContextNames DEF Root
  <2>7. ASSUME NEW m, NEW inherits
        PROVE  SchemaFacts(Create(m, "storage", inherits, DefineStorage \o Data \o Client("storage", "Context")))
    BY <2>1, BuildsFacts
  <2>8. ASSUME NEW m, NEW inherits, NEW class
        PROVE  SchemaFacts(Create(m, "storage", inherits, DefineStorage \o Client("storage", class)))
    BY <2>2, BuildsFacts
  <2>9. ASSUME NEW inherits, NEW class
        PROVE  SchemaFacts(Exclusive(Schema(<<"storage", "PUT", "">>, inherits,
                                            DefineStorage \o Client("storage", class), << >>)))
    <3> DEFINE x == Exclusive(Schema(<<"storage", "PUT", "">>, inherits,
                                     DefineStorage \o Client("storage", class), << >>))
    <3>1. /\ x.id = <<"storage", "PUT", "">> /\ x.calls = DefineStorage \o Client("storage", class)
          /\ x.results = << >>
      BY DEF Exclusive, Schema
    <3>2. Builds(x) = "storage"
      <4> HIDE DEF x
      <4>1. <<"storage", "PUT", "">>[1] = "storage" /\ "storage" # Root
        BY IdParts DEF Root
      <4> QED
        BY <3>1, <4>1 DEF Builds
    <3>3. 1 .. Len(<< >>) = {} /\ IsSeq(<< >>)
      BY ShortSequences, Nothing
    <3> HIDE DEF x
    <3>4. SchemaFacts(x)
      BY <2>2, <3>1, <3>2, <3>3 DEF SchemaFacts, Part
    <3> QED
      BY <3>4 DEF x
  <2>10. ASSUME NEW inherits
         PROVE  SchemaFacts(Create("DELETE_POST", "storage", inherits, DefineDeleteStorage \o Data))
    BY <2>4, DeletesFacts
  <2>11. ASSUME NEW inherits, NEW results, IsSeq(results)
         PROVE  SchemaFacts(Schema(<<"storage", "GET", "">>, inherits,
                    AnalyzeQuery \o DefineQuery \o EvaluateQuery \o DefineStatisticsQuery, results))
    BY <2>3, <2>11, AnswersFacts DEF Root
  <2>12. SchemaFacts(Receive("transaction/storage", "PUT",
                         OnEach(<<"document", "metadata">>, "transaction", "StorageTransaction")))
    BY <2>5, <2>6, ReceivesFacts
  <2> QED
    BY <2>7, <2>8, <2>9, <2>10, <2>11, <2>12, ShortSequences DEF StorageSchemas
<1>3. ASSUME NEW s \in VectorStorageSchemas
      PROVE  SchemaFacts(s)
  <2>1. Part(DefineVectorStorage \o Data, {} \cup {})
    BY Joined, OtherParts
  <2>2. Part(DefineVectorStorage \o Data \o Client("vstorage", "Context"), {} \cup {} \cup {"vstorage"})
    BY <2>1, Joined, ClientMakes, Variables
  <2>3. Part(DefineVectorStorage \o Client("vstorage", "Context"), {} \cup {"vstorage"})
    BY Joined, OtherParts, ClientMakes, Variables
  <2>4. ConfigVars("vstorage") = {} \cup {"vstorage"} /\ ConfigVars("vstorage") = {} \cup {} \cup {"vstorage"}
    BY ConfigVariables
  <2>5. Builder("vstorage", DefineVectorStorage \o Data \o Client("vstorage", "Context"))
    BY <2>2, <2>4
  <2>6. Builder("vstorage", DefineVectorStorage \o Client("vstorage", "Context"))
    BY <2>3, <2>4
  <2>7. Part(DefineVectorStorage \o Data, {})
    BY <2>1
  <2>8. SchemaFacts(Create("POST", "vstorage", {}, DefineVectorStorage \o Data \o Client("vstorage", "Context")))
    BY <2>5, BuildsFacts
  <2>9. SchemaFacts(Create("DELETE_POST", "vstorage", {}, DefineVectorStorage \o Data))
    BY <2>7, DeletesFacts
  <2>10. SchemaFacts(Create("PUT", "vstorage", {}, DefineVectorStorage \o Client("vstorage", "Context")))
    BY <2>6, BuildsFacts
  <2>11. Part(OnEach(<<"document", Always>>, "transaction", "VectorStorageTransaction"), {})
    BY OnEachIsSeq, ShortSequences
  <2>12. "transaction/vstorage" \in TransactionContexts /\ "transaction/vstorage" # Root
    BY ContextNames DEF Root
  <2>13. SchemaFacts(Receive("transaction/vstorage", "PUT",
                         OnEach(<<"document", Always>>, "transaction", "VectorStorageTransaction")))
    BY <2>11, <2>12, ReceivesFacts
  <2> QED
    BY <2>8, <2>9, <2>10, <2>13 DEF VectorStorageSchemas
<1>4. ASSUME NEW s \in AnalyzerSchemas
      PROVE  SchemaFacts(s)
  <2>1. \A m : SchemaFacts(Create(m, "docanalyzer", {}, DefineDocumentAnalyzer))
    BY BuildsFacts, MakingParts, ConfigVariables
  <2>2. \A m : SchemaFacts(Create(m, "qryanalyzer", {"vstorage"}, DefineQueryAnalyzer))
    BY BuildsFacts, MakingParts, ConfigVariables
  <2>3. SchemaFacts(Schema(<<"qryanalyzer", "GET", "">>, {"vstorage"}, AnalyzeQuery,
                           << AnswerWith({"_analyzed"}) >>))
    BY AnswersFacts, OtherParts, ShortSequences DEF Root
  <2> QED
    BY <2>1, <2>2, <2>3 DEF AnalyzerSchemas
<1>5. ASSUME NEW s \in QueryEvalSchemas
      PROVE  SchemaFacts(s)
  <2>1. \A m, i : SchemaFacts(Create(m, "qryeval", i, DefineQueryEval))
    BY BuildsFacts, MakingParts, ConfigVariables
  <2>2. Part(AnalyzeQuery \o DefineQuery, {} \cup {})
    BY Joined, OtherParts
  <2>3. Part(AnalyzeQuery \o DefineQuery \o EvaluateQuery, {} \cup {} \cup {})
    BY <2>2, Joined, OtherParts
  <2>4. Part(AnalyzeQuery \o DefineQuery \o EvaluateQuery, {})
    BY <2>3
  <2>5. \A i : SchemaFacts(Schema(<<"qryeval", "GET", "">>, i, AnalyzeQuery \o DefineQuery \o EvaluateQuery,
                                  << AnswerWith({"ranklist"}) >>))
    BY <2>4, AnswersFacts, ShortSequences DEF Root
  <2> QED
    BY <2>1, <2>5 DEF QueryEvalSchemas
<1>6. ASSUME NEW s \in StatisticsSchemas
      PROVE  SchemaFacts(s)
  <2> DEFINE calls == << Assign(Always, "storage") >> \o Client("statserver", "Context")
             results == << Delegate("PUT~statistics", "storage", {}) >>
  <2>1. Part(<< Assign(Always, "storage") >>, {"storage"})
    BY OneResult, Variables DEF Assign
  <2>2. Part(calls, {"storage"} \cup {"statserver"})
    BY <2>1, ClientMakes, Joined, Variables
  <2>3. Part(calls, ConfigVars("statserver"))
    <3>1. {"storage"} \cup {"statserver"} = {"storage", "statserver"}
      OBVIOUS
    <3> HIDE DEF calls
    <3> QED
      BY <2>2, <3>1, ConfigVariables
  <2>4. HasSchema(<<"statserver", "PUT~statistics", "">>)
    <3>1. PICK c : Receive("statserver", "PUT~statistics", c) \in Schemas
      BY DEF Schemas, StatisticsSchemas
    <3>2. Receive("statserver", "PUT~statistics", c).id = <<"statserver", "PUT~statistics", "">>
      BY DEF Receive, Schema
    <3> QED
      BY <3>1, <3>2 DEF HasSchema, SchemaOf
  <2>5. IsSeq(results) /\ \A i \in 1 .. Len(results) : results[i].receiver = "PUT~statistics"
    <3>1. IsSeq(results)
      BY ShortSequences
    <3>2. Len(results) = 1 /\ results[1].receiver = "PUT~statistics"
      BY DEF Delegate
    <3>3. \A i \in 1 .. 1 : i = 1
      OBVIOUS
    <3> HIDE DEF results
    <3> QED
      BY <3>1, <3>2, <3>3
  <2> HIDE DEF calls, results
  <2>6. \A m : SchemaFacts(Sending(Create(m, "statserver", {}, calls), results))
    BY <2>3, <2>4, <2>5, CreatesFacts
  <2>7. SchemaFacts(Receive("statserver", "PUT~statistics",
                        << Call("statistics", Void, "statserver", "StatisticsMap", {}) >>))
    BY ReceivesFacts, OneCall DEF Root
  <2>8. Part(EvaluateTermStatistics \o EvaluateGlobalStatistics, {} \cup {})
    BY Joined, OtherParts
  <2>9. SchemaFacts(Schema(<<"statserver", "GET", "">>, {}, EvaluateTermStatistics \o EvaluateGlobalStatistics,
                           << AnswerWith({"_termstats", "_nofdocs"}) >>))
    BY <2>8, AnswersFacts, ShortSequences DEF Root
  <2> QED
    BY <2>6, <2>7, <2>9 DEF StatisticsSchemas, calls, results
<1>7. ASSUME NEW s \in InserterSchemas
      PROVE  SchemaFacts(s)
  <2>1. Part(<< Call(Always, "inserter", "context", "Context", {"storage", "docanalyzer"}) >>,
             ConfigVars("inserter"))
    BY OneResult, Variables, ConfigVariables
  <2> QED
    BY <2>1, BuildsFacts DEF InserterSchemas
<1>8. ASSUME NEW s \in ContentStatisticsSchemas
      PROVE  SchemaFacts(s)
  BY BuildsFacts, MakingParts, ConfigVariables DEF ContentStatisticsSchemas
<1>9. ASSUME NEW s \in DistQueryEvalConfigSchemas
      PROVE  SchemaFacts(s)
  <2> DEFINE a == Assign(Always, "qryanalyzer")
             b == Assign(Always, "collector")
             c == Assign(Always, "qryeval")
             d == Assign(Always, "statserver")
             calls == <<a, b, c, d>>
  <2>1. \A v : Assign(Always, v).element = Always /\ Assign(Always, v).result = v
    BY DEF Assign, Call
  <2>3. /\ a.element = Always /\ a.result = "qryanalyzer" /\ b.element = Always /\ b.result = "collector"
        /\ c.element = Always /\ c.result = "qryeval" /\ d.element = Always /\ d.result = "statserver"
    BY <2>1
  <2>4. /\ 1 \in 1 .. Len(calls) /\ 2 \in 1 .. Len(calls) /\ 3 \in 1 .. Len(calls) /\ 4 \in 1 .. Len(calls)
        /\ calls[1] = a /\ calls[2] = b /\ calls[3] = c /\ calls[4] = d /\ IsSeq(calls)
    <3> HIDE DEF a, b, c, d
    <3>1. Len(calls) = 4
      OBVIOUS
    <3>2. calls[1] = a /\ calls[2] = b /\ calls[3] = c /\ calls[4] = d
      OBVIOUS
    <3>3. IsSeq(calls)
      BY ShortSequences
    <3> HIDE DEF calls
    <3> QED
      BY <3>1, <3>2, <3>3
  <2> HIDE DEF a, b, c, d, calls
  <2>5. /\ Makes(calls, "qryanalyzer") /\ Makes(calls, "collector")
        /\ Makes(calls, "qryeval") /\ Makes(calls, "statserver")
    BY <2>3, <2>4, Variables DEF Makes
  <2>6. Part(calls, ConfigVars("distqryeval"))
    BY <2>4, <2>5, ConfigVariables DEF Part
  <2>7. \A m : SchemaFacts(Create(m, "distqryeval", {}, calls))
    BY <2>6, BuildsFacts
  <2> QED
    BY <2>7 DEF DistQueryEvalConfigSchemas, calls, a, b, c, d
<1>10. ASSUME NEW s \in DistQueryEvalReceivers
       PROVE  SchemaFacts(s)
  <2>1. Part(DefineQueryAnalyzed \o BuildQuery, {} \cup {})
    BY Joined, OtherParts
  <2>2. Part(DefineQueryAnalyzed \o BuildQuery, {}) /\ Part(MergeQueryResults, {})
    BY <2>1, MakingParts DEF Part
  <2>3. "distqryeval" # Root
    BY DEF Root
  <2> QED
    BY <2>2, <2>3, OtherParts, ReceivesFacts DEF DistQueryEvalReceivers
<1>11. SchemaFacts(DistQueryEvalSchema)
  <2>1. Part(DefineQueryBuilder \o DefineResultMerger, {} \cup {})
    BY Joined, OtherParts
  <2>2. Part(DefineQueryBuilder \o DefineResultMerger, {}) /\ "distqryeval" # Root
    BY <2>1 DEF Root
  <2> QED
    BY <2>2, AnswersFacts, ShortSequences DEF DistQueryEvalSchema
<1> QED
  BY <1>1, <1>2, <1>3, <1>4, <1>5, <1>6, <1>7, <1>8, <1>9, <1>10, <1>11 DEF Schemas

\* The schemas of a distributed query.
QueryFacts(s) ==
    /\ s.id = <<"distqryeval", "GET", "">> => s = DistQueryEvalSchema
    /\ s.id = <<"distqryeval", "END~ranklist", "">> => s.calls = MergeQueryResults

LEMMA OtherTypes ==
    ASSUME NEW type, NEW method, NEW third, NEW inherits, NEW calls, NEW results, type # "distqryeval"
    PROVE  /\ QueryFacts(Schema(<<type, method, third>>, inherits, calls, results))
           /\ QueryFacts(Exclusive(Schema(<<type, method, third>>, inherits, calls, results)))
BY DEF QueryFacts, Schema, Exclusive

LEMMA OtherReceivers ==
    ASSUME NEW type, NEW name, NEW calls, type # "distqryeval"
    PROVE  QueryFacts(Receive(type, name, calls))
BY OtherTypes DEF Receive

LEMMA Created ==
    ASSUME NEW type, NEW method, NEW inherits, NEW calls, NEW results
    PROVE  /\ QueryFacts(Create(method, type, inherits, calls))
           /\ QueryFacts(Requiring(Create(method, type, inherits, calls)))
           /\ QueryFacts(Sending(Create(method, type, inherits, calls), results))
<1>1. Root # "distqryeval"
  BY DEF Root
<1> QED
  BY <1>1 DEF QueryFacts, Schema, Create, Requiring, Sending

LEMMA Receivers ==
    ASSUME NEW name, NEW calls, name # "GET", name = "END~ranklist" => calls = MergeQueryResults
    PROVE  QueryFacts(Receive("distqryeval", name, calls))
BY DEF QueryFacts, Schema, Receive

LEMMA QuerySchemas == \A s \in Schemas : QueryFacts(s)
<1> USE OtherTypes, OtherReceivers, Created DEF Root
<1>1. \A s \in MainSchemas : QueryFacts(s)
  BY DEF MainSchemas
<1>2. \A s \in StorageSchemas : QueryFacts(s)
  BY DEF StorageSchemas
<1>3. \A s \in VectorStorageSchemas : QueryFacts(s)
  BY DEF VectorStorageSchemas
<1>4. \A s \in AnalyzerSchemas : QueryFacts(s)
  BY DEF AnalyzerSchemas
<1>5. \A s \in QueryEvalSchemas : QueryFacts(s)
  BY DEF QueryEvalSchemas
<1>6. \A s \in StatisticsSchemas : QueryFacts(s)
  BY DEF StatisticsSchemas
<1>7. \A s \in InserterSchemas : QueryFacts(s)
  BY DEF InserterSchemas
<1>8. \A s \in ContentStatisticsSchemas : QueryFacts(s)
  BY DEF ContentStatisticsSchemas
<1>9. \A s \in DistQueryEvalConfigSchemas : QueryFacts(s)
  BY DEF DistQueryEvalConfigSchemas
<1>10. \A s \in DistQueryEvalReceivers : QueryFacts(s)
  BY Receivers DEF DistQueryEvalReceivers
<1>11. QueryFacts(DistQueryEvalSchema)
  BY DEF QueryFacts, DistQueryEvalSchema, Schema
<1> QED
  BY <1>1, <1>2, <1>3, <1>4, <1>5, <1>6, <1>7, <1>8, <1>9, <1>10, <1>11 DEF Schemas

\* A schema looked up has the facts of schemas, and its id.
LEMMA Found ==
    ASSUME NEW id, HasSchema(id)
    PROVE  /\ SchemaOf[id] \in Schemas /\ SchemaOf[id].id = id
           /\ SchemaFacts(SchemaOf[id]) /\ QueryFacts(SchemaOf[id])
<1>1. PICK s \in Schemas : s.id = id
  BY DEF HasSchema, SchemaOf
<1>2. SchemaOf[id] \in Schemas /\ SchemaOf[id].id = id
  BY <1>1 DEF SchemaOf
<1> QED
  BY <1>2, EverySchema, QuerySchemas
-----------------------------------------------------------------------------
(* The life of a request                                                   *)

\* Before a request has results to send or to answer.
Early == {"type", "schema", "object", "options", "list", "run", "interrupted", "delete"}

\* A configuration that may be stored has its variables; what is still to be sent for it
\* finds its receiver.
Whole(r) ==
    /\ ConfigVars(r.type) \subseteq r.ctx
    /\ \A i \in 1 .. Len(r.results) : HasReceiver(r.results[i]) => HasSchema(Receiver(r, r.results[i]))
    /\ \A i \in 1 .. Len(r.todo) : HasSchema(Receiver(r, r.todo[i]))

\* The answers due when the first k results of a distributed query were looked at.
Due(k) == << 0, Servers, 2 * Servers, 3 * Servers, 3 * Servers + 1, 4 * Servers + 1, 5 * Servers + 1,
             5 * Servers + 2 >>[k + 1]

\* A distributed query has looked at k results: the requests of the last one are on their
\* way or answered, those of the others are answered.
Asked(r, k) ==
    /\ r.results = [i \in 1 .. (8 - k) |-> DistQueryEvalSchema.results[k + i]]
    /\ \A i \in 1 .. Len(r.todo) : r.todo[i] = DistQueryEvalSchema.results[k]
    /\ r.accepted \in Nat /\ r.accepted + Len(r.todo) = Due(k)
    /\ k = 7 /\ r.todo = << >> => "ranklist" \in r.ctx

Merging(r) ==
    DistributedQuery(r) /\ Ok(r) =>
        /\ r.pc = "delegates" => \E k \in 0 .. 7 : Asked(r, k)
        /\ r.pc \in {"complete", "answered"} => r.accepted = AnswersToMerge /\ "ranklist" \in r.ctx

\* What a request knows of the branches it has taken.
LifeOK(r) ==
    /\ r.pc \in {"type", "schema", "object", "options"} => r.in \in Inputs /\ r.type = None
    /\ r.pc \in Early => r.todo = << >> /\ r.results = << >> /\ r.accepted = 0
    /\ r.pc \in Early \ {"interrupted"} => r.config = None
    /\ r.pc = "interrupted" => ~Ok(r) /\ r.in.method = "PUT"
    /\ r.pc = "delete" => r.in.method = "DELETE"
    /\ r.pc = "run" /\ r.tid = None => r.type \notin TransactionContexts
    /\ r.pc = "delegates" => IsSeq(r.results) /\ IsSeq(r.todo)
    /\ r.pc \in {"delegates", "complete"} /\ r.config # None /\ Ok(r) => Whole(r)
    /\ Merging(r)

\* The ways on from an early step: the request is answered with an error,
Refuses(r, n) == n.pc = "answered" /\ ~Ok(n)

Keeps(r, n) ==
    /\ n.in = r.in /\ n.results = r.results /\ n.todo = r.todo /\ n.accepted = r.accepted
    /\ n.config = r.config /\ n.error = r.error

\* is read and looks up its object,
Looks(r, n) ==
    /\ Keeps(r, n)
    /\ \/ r.pc = "type" /\ n.pc \in {"schema", "object", "options"} /\ n.type = r.type
       \/ /\ r.pc \in {"object", "options"} /\ n.pc \in {"list", "run"}
          /\ n.tid = None => n.type \notin TransactionContexts
       \/ r.pc = "run" /\ n.pc = "delete" /\ r.in.method = "DELETE"

\* waits for being alone,
Waits(r, n) ==
    /\ r.pc = "run" /\ n.pc = "interrupted" /\ r.in.method = "PUT" /\ ~Ok(n)
    /\ n.in = r.in /\ n.results = r.results /\ n.todo = r.todo /\ n.accepted = r.accepted

\* is answered without a schema, which a distributed query is not,
Answers(r, n) ==
    /\ Keeps(r, n)
    /\ r.pc \in {"schema", "list", "run", "delete"} /\ n.pc \in {"delegates", "complete"}
    /\ ~DistributedQuery(n)

\* or has executed a schema, a distributed query its own.
Runs(r, n) ==
    /\ r.pc \in {"run", "interrupted", "delete"} /\ n.pc = "delegates"
    /\ n.todo = r.todo /\ n.accepted = r.accepted
    /\ \E s \in Schemas : n.results = s.results
    /\ n.config # None /\ Ok(n) => Whole(n)
    /\ DistributedQuery(n) => n.results = DistQueryEvalSchema.results

Moves(r, n) ==
    /\ r.pc \in Early
    /\ Refuses(r, n) \/ Looks(r, n) \/ Waits(r, n) \/ Answers(r, n) \/ Runs(r, n)

LifeInv == \A s \in Slots : LifeOK(q[s])

\* How far a request is from its answer: its stage and, while it sends delegate requests,
\* what it has left to send and to be answered.
Stage(pc) ==
    CASE pc = "type" -> 7
      [] pc \in {"schema", "object", "options"} -> 6
      [] pc \in {"list", "run"} -> 5
      [] pc \in {"interrupted", "delete"} -> 4
      [] pc = "delegates" -> 3
      [] pc = "complete" -> 2
      [] pc = "answered" -> 1
      [] OTHER -> 0

ToSend(r) == Len(r.results) * (Servers + 1) + Len(r.todo)

Closer(r, n) ==
    \/ Stage(n.pc) < Stage(r.pc)
    \/ /\ r.pc = "delegates" /\ n.pc = "delegates"
       /\ ToSend(n) \in Nat /\ ToSend(r) \in Nat /\ ToSend(n) < ToSend(r)

\* No context is added or changed.
ContextsKept == \A c \in DOMAIN contexts' : c \in DOMAIN contexts /\ contexts'[c] = contexts[c]

\* A step of an early request.
Goes(s) == (\E n : Becomes(s, n) /\ Moves(q[s], n)) /\ ContextsKept

-----------------------------------------------------------------------------
(* The records the branches end with                                       *)

LEMMA FailMoves ==
    ASSUME NEW r, r.pc \in Early, NEW m, IsRequest(m), NEW e, e # None
    PROVE  Moves(r, Fail(m, e)) /\ ~Ok(Fail(m, e))
BY Failed DEF Moves, Refuses, Ok

\* A request that is answered without a schema.
LEMMA AnswerMoves ==
    ASSUME NEW r, r.pc \in {"schema", "list", "run", "delete"}, NEW m, IsRequest(m), Keeps(r, m),
           ~DistributedQuery(m), NEW n, n = AnswerContent(m) \/ \E http : n = AnswerStatus(m, http)
    PROVE  Moves(r, n)
<1>1. n.pc = "delegates" /\ Keeps(m, n)
  BY DEF IsRequest, AnswerContent, AnswerStatus, Done, Keeps
<1>2. n.type = m.type /\ n.in = m.in /\ n.rest = m.rest /\ n.obj = m.obj
  BY DEF IsRequest, AnswerContent, AnswerStatus, Done
<1>3. ~DistributedQuery(n)
  BY <1>2 DEF DistributedQuery
<1>4. Keeps(r, n)
  BY <1>1 DEF Keeps
<1> QED
  BY <1>1, <1>3, <1>4 DEF Moves, Answers, Early

\* The calls of a schema are executed for a request.
Ran(m, s, type, run, n) ==
    /\ run = ExecuteCalls(s.calls, m.in.has, m.ctx \cup Inherited(m, s), type)
    /\ run.ok
    /\ n = [m EXCEPT !.ctx = run.vars, !.results = s.results, !.pc = "delegates"]

\* A schema is executed, or the request fails.
LEMMA Executes ==
    ASSUME NEW m, IsRequest(m), NEW id, NEW type, NEW n \in Execute(m, id, type)
    PROVE  \/ \E e : e # None /\ n = Fail(m, e)
           \/ HasSchema(id) /\ \E run : Ran(m, SchemaOf[id], type, run, n)
<1> DEFINE s == SchemaOf[id]
           run == ExecuteCalls(s.calls, m.in.has, m.ctx \cup Inherited(m, s), type)
<1>1. CASE \E e \in {"RequestResolveError", "InputFormat", "RuntimeError", "IncompleteDefinition"} : n = Fail(m, e)
  <2>1. PICK e \in {"RequestResolveError", "InputFormat", "RuntimeError", "IncompleteDefinition"} : n = Fail(m, e)
    BY <1>1
  <2>2. e # None
    BY DEF None
  <2> QED
    BY <2>1, <2>2
<1>2. CASE HasSchema(id) /\ run.ok /\ n = Done([m EXCEPT !.ctx = run.vars, !.results = s.results])
  <2>1. n = [m EXCEPT !.ctx = run.vars, !.results = s.results, !.pc = "delegates"]
    <3> HIDE DEF run, s
    <3> QED
      BY <1>2 DEF Done, IsRequest
  <2>2. Ran(m, s, type, run, n)
    BY <1>2, <2>1 DEF Ran
  <2> QED
    BY <1>2, <2>2
<1> QED
  BY <1>1, <1>2 DEF Execute

\* What a request that executes a schema has to know.  The configuration it builds is the
\* one the schema builds, a distributed query executes its own schema.
Fits(m, id) ==
    /\ m.config # None /\ Ok(m) /\ HasSchema(id) =>
         /\ SchemaOf[id].id[2] \in {"PUT", "POST"} /\ Builds(SchemaOf[id]) = m.type
         /\ m.type \notin TransactionContexts
    /\ DistributedQuery(m) => id = <<"distqryeval", "GET", "">>

LEMMA ExecuteMoves ==
    ASSUME NEW r, r.pc \in {"run", "interrupted", "delete"}, r.todo = << >>,
           NEW m, IsRequest(m), m.in = r.in, m.todo = << >>, m.accepted = r.accepted,
           NEW id, NEW type, NEW n \in Execute(m, id, type), Fits(m, id)
    PROVE  Moves(r, n) /\ (Ok(n) => n.pc = "delegates")
<1>1. CASE \E e : e # None /\ n = Fail(m, e)
  <2>1. PICK e : e # None /\ n = Fail(m, e)
    BY <1>1
  <2>2. Moves(r, n) /\ ~Ok(n)
    BY <2>1, FailMoves DEF Early
  <2> QED
    BY <2>2
<1> DEFINE s == SchemaOf[id]
<1>2. CASE HasSchema(id) /\ \E run : Ran(m, s, type, run, n)
  <2>1. PICK run : Ran(m, s, type, run, n)
    BY <1>2
  <2>2. s \in Schemas /\ SchemaFacts(s) /\ QueryFacts(s) /\ s.id = id
    BY <1>2, Found
  <2>5. IsSeq(s.calls)
    BY <2>2 DEF SchemaFacts
  <2> HIDE DEF s
  <2>3. /\ n.pc = "delegates" /\ n.ctx = run.vars /\ n.results = s.results /\ n.in = r.in
        /\ n.todo = r.todo /\ n.accepted = r.accepted /\ n.config = m.config /\ n.error = m.error
        /\ n.type = m.type /\ n.rest = m.rest /\ n.obj = m.obj
    BY <2>1 DEF IsRequest, Ran
  <2>4. \A v : Makes(s.calls, v) => v \in n.ctx
    <3>1. \A v : Makes(s.calls, v) => v \in run.vars
      BY <2>1, <2>5, CallsExecuted DEF Ran
    <3> QED
      BY <2>3, <3>1
  <2>6. ASSUME n.config # None, Ok(n)
        PROVE  Whole(n)
    <3>1. s.id[2] \in {"PUT", "POST"} /\ Builds(s) = n.type /\ n.type \notin TransactionContexts
      BY <1>2, <2>3, <2>6 DEF Ok, s, Fits
    <3>2. ConfigVars(n.type) \subseteq n.ctx
      BY <2>2, <2>4, <3>1 DEF SchemaFacts, Part
    <3>3. \A i \in 1 .. Len(n.results) : HasReceiver(n.results[i]) => HasSchema(Receiver(n, n.results[i]))
      BY <2>2, <2>3, <3>1 DEF SchemaFacts, Receiver
    <3>4. 1 .. Len(n.todo) = {}
      BY <2>3, Nothing
    <3> QED
      BY <3>2, <3>3, <3>4 DEF Whole
  <2>7. DistributedQuery(n) => n.results = DistQueryEvalSchema.results
    BY <2>2, <2>3 DEF DistributedQuery, QueryFacts, Fits
  <2> QED
    BY <2>2, <2>3, <2>6, <2>7 DEF Moves, Runs, Early
<1>3. (\E e : e # None /\ n = Fail(m, e)) \/ (HasSchema(id) /\ \E run : Ran(m, s, type, run, n))
  BY Executes
<1> QED
  BY <1>1, <1>2, <1>3

-----------------------------------------------------------------------------
(* Early steps                                                             *)

LEMMA Unchanged == ASSUME UNCHANGED contexts PROVE ContextsKept
BY DEF ContextsKept

LEMMA FailGoes ==
    ASSUME RequestInv, NEW s \in Slots, q[s].pc \in Early, NEW e, e # None,
           Becomes(s, Fail(q[s], e)), UNCHANGED contexts
    PROVE  Goes(s)
<1>1. IsRequest(q[s])
  BY DEF RequestInv, RequestOK
<1> QED
  BY <1>1, FailMoves, Unchanged DEF Goes

LEMMA KeepsItself == ASSUME NEW r PROVE Keeps(r, r)
BY DEF Keeps

LEMMA InitContentTypeGoes ==
    ASSUME RequestInv, NEW s \in Slots, LifeOK(q[s]), InitContentType(s)
    PROVE  Goes(s)
<1>1. q[s].pc = "type" /\ IsRequest(q[s])
  BY DEF InitContentType, At, RequestInv, RequestOK
<1>2. PICK n \in ContentType(q[s]) : Becomes(s, n) /\ UNCHANGED contexts
  BY DEF InitContentType, Only
<1>3. CASE \E e \in {"InputFormat", "NotImplemented", "InvalidRequest"} : n = Fail(q[s], e)
  <2>1. PICK e \in {"InputFormat", "NotImplemented", "InvalidRequest"} : n = Fail(q[s], e)
    BY <1>3
  <2>2. e # None /\ q[s].pc \in Early
    BY <1>1 DEF None, Early
  <2> QED
    BY <1>2, <2>1, <2>2, FailGoes
<1>4. CASE n = [q[s] EXCEPT !.pc = RequestType(q[s].in)]
  <2>1. RequestType(q[s].in) \in {"options", "schema", "object"}
    BY DEF RequestType
  <2>2. Looks(q[s], n)
    BY <1>1, <1>4, <2>1 DEF Looks, Keeps, IsRequest
  <2> QED
    BY <1>1, <1>2, <2>2, Unchanged DEF Goes, Moves, Early
<1> QED
  BY <1>2, <1>3, <1>4 DEF ContentType

LEMMA DescribeSchemaGoes ==
    ASSUME RequestInv, NEW s \in Slots, LifeOK(q[s]), DescribeSchema(s)
    PROVE  Goes(s)
<1>1. q[s].pc = "schema" /\ IsRequest(q[s]) /\ q[s].type = None
  BY DEF DescribeSchema, At, RequestInv, RequestOK, LifeOK
<1>2. PICK n : /\ Becomes(s, n) /\ UNCHANGED contexts
               /\ \/ n = Shrug(q[s]) \/ n = AnswerContent(q[s])
                  \/ \E e \in {"InvalidArgument", "RequestResolveError"} : n = Fail(q[s], e)
  BY DEF DescribeSchema, Only
<1>3. ~DistributedQuery(q[s])
  BY <1>1 DEF DistributedQuery, None
<1>4. CASE \E e \in {"InvalidArgument", "RequestResolveError"} : n = Fail(q[s], e)
  <2>1. PICK e \in {"InvalidArgument", "RequestResolveError"} : n = Fail(q[s], e)
    BY <1>4
  <2>2. e # None /\ q[s].pc \in Early
    BY <1>1 DEF None, Early
  <2> QED
    BY <1>2, <2>1, <2>2, FailGoes
<1>5. CASE n = AnswerContent(q[s])
  <2>1. Moves(q[s], n)
    BY <1>1, <1>3, <1>5, AnswerMoves, KeepsItself
  <2> QED
    BY <1>2, <2>1, Unchanged DEF Goes
<1>6. CASE n = Shrug(q[s])
  <2>1. n = [q[s] EXCEPT !.pc = "complete"]
    BY <1>6 DEF Shrug
  <2>2. Keeps(q[s], n) /\ n.pc = "complete" /\ n.type = None
    BY <1>1, <2>1 DEF Keeps, IsRequest
  <2>3. ~DistributedQuery(n)
    BY <2>2 DEF DistributedQuery, None
  <2>4. Moves(q[s], n)
    BY <1>1, <2>2, <2>3 DEF Moves, Answers, Early
  <2> QED
    BY <1>2, <2>4, Unchanged DEF Goes
<1> QED
  BY <1>2, <1>4, <1>5, <1>6

LEMMA FetchTransactionGoes ==
    ASSUME RequestInv, NEW s \in Slots, LifeOK(q[s]), FetchTransaction(s), ServerAssumption
    PROVE  Goes(s)
<1> DEFINE r == q[s]
           t == r.in.path[2]
           type == TransactionContext[tx[t].type]
           rest == SubSeq(r.rest, 3, Len(r.rest))
           m == [r EXCEPT !.type = type, !.name = t, !.tid = t, !.ctx = tx[t].ctx, !.obj = "transaction",
                          !.rest = rest]
<1>1. IsRequest(r) /\ r.pc \in {"object", "options"} /\ UNCHANGED contexts
  BY DEF FetchTransaction, ByPath, At, RequestInv, RequestOK, Only
<1>2. CASE t \in Tids /\ tx[t].state = "pooled"
  <2>1. Becomes(s, Addressed([r EXCEPT !.type = type, !.name = t, !.tid = t,
                                       !.ctx = tx[t].ctx, !.obj = "transaction",
                                       !.rest = SubSeq(@, 3, Len(@))]))
    BY <1>2 DEF FetchTransaction
  <2>2. [r EXCEPT !.type = type, !.name = t, !.tid = t, !.ctx = tx[t].ctx, !.obj = "transaction",
                  !.rest = SubSeq(@, 3, Len(@))] = m
    BY <1>1 DEF IsRequest
  <2>3. IsRequest(m) /\ Keeps(r, m) /\ m.tid = t
    <3>1. PICK ctx, a, b, c : ctx = tx[t].ctx /\ a = type /\ b = t /\ c = rest
      OBVIOUS
    <3>2. m = [r EXCEPT !.type = a, !.name = b, !.tid = b, !.ctx = ctx, !.obj = "transaction", !.rest = c]
      BY <3>1
    <3> HIDE DEF type, rest, t, m
    <3>3. IsRequest(m) /\ Keeps(r, m) /\ m.tid = b
      BY <1>1, <3>2 DEF IsRequest, Keeps
    <3> QED
      BY <3>1, <3>3
  <2>4. PICK n : n = Addressed(m) /\ Becomes(s, n)
    BY <2>1, <2>2
  <2> HIDE DEF m, type, rest
  <2>5. Keeps(m, n) /\ n.pc \in {"list", "run"} /\ n.tid = t
    BY <2>3, <2>4 DEF Addressed, IsRequest, Keeps
  <2>6. Keeps(r, n) /\ n.tid # None
    BY <1>2, <2>3, <2>5 DEF Keeps, ServerAssumption, None
  <2> QED
    BY <1>1, <2>4, <2>5, <2>6, Unchanged DEF Goes, Moves, Looks, Early
<1>3. CASE ~(t \in Tids /\ tx[t].state = "pooled")
  <2>1. Becomes(s, Fail(r, "RequestResolveError"))
    BY <1>3 DEF FetchTransaction, Only
  <2> QED
    BY <1>1, <2>1, FailGoes DEF Early, None
<1> QED
  BY <1>2, <1>3

LEMMA FetchWithoutIdGoes ==
    ASSUME RequestInv, NEW s \in Slots, LifeOK(q[s]), FetchWithoutId(s)
    PROVE  Goes(s)
BY FailGoes DEF FetchWithoutId, ByPath, At, Only, Early, None

LEMMA HasFirst == ASSUME NEW S, NEW p \in Seq(S), p # << >> PROVE 1 \in DOMAIN p
OBVIOUS

LEMMA InheritContextGoes ==
    ASSUME RequestInv, NEW s \in Slots, LifeOK(q[s]), InheritContext(s), ServerAssumption
    PROVE  Goes(s)
<1> DEFINE r == q[s]
<1>1. IsRequest(r) /\ r.pc \in {"object", "options"} /\ r.in \in Inputs /\ UNCHANGED contexts
  BY DEF InheritContext, ByPath, At, RequestInv, RequestOK, LifeOK, Only
<1>2. PICK type, name, rest, ctx, addressed :
        /\ type \notin TransactionContexts
        /\ addressed = [r EXCEPT !.type = type, !.name = name, !.rest = rest]
        /\ \/ Becomes(s, AddressVariable([addressed EXCEPT !.ctx = ctx]))
           \/ Becomes(s, Addressed(addressed))
  <2> DEFINE path == r.in.path
             type == IF path = << >> THEN None ELSE path[1]
             nameless == type = Root
             name == IF nameless THEN Root ELSE IF Len(path) > 1 THEN path[2] ELSE None
             rest == SubSeq(path, IF nameless THEN 2 ELSE 3, Len(path))
  <2>1. type \notin TransactionContexts
    <3>1. None \notin TransactionContexts
      BY ContextNames DEF None
    <3>2. /\ path \in Seq(STRING)
          /\ \A k \in DOMAIN path : \A t \in TransactionTypes : path[k] # TransactionContext[t]
      BY <1>1 DEF ServerAssumption
    <3> HIDE DEF path
    <3>3. path # << >> => 1 \in DOMAIN path
      BY <3>2, HasFirst
    <3>4. path # << >> => path[1] \notin TransactionContexts
      BY <3>2, <3>3 DEF TransactionContexts
    <3> QED
      BY <3>1, <3>4
  <2> QED
    BY <2>1 DEF InheritContext, Only
<1>3. ASSUME NEW m, IsRequest(m), Keeps(r, m), m.type = type
      PROVE  Moves(r, Addressed(m))
  <2>1. PICK v : v = Addressed(m)
    OBVIOUS
  <2>2. Keeps(m, v) /\ v.pc \in {"list", "run"} /\ v.type = type
    BY <1>3, <2>1 DEF Addressed, IsRequest, Keeps
  <2>3. Keeps(r, v)
    BY <1>3, <2>2 DEF Keeps
  <2> QED
    BY <1>1, <1>2, <2>1, <2>2, <2>3 DEF Moves, Looks, Early
<1>4. IsRequest(addressed) /\ Keeps(r, addressed) /\ addressed.type = type
  BY <1>1, <1>2 DEF IsRequest, Keeps
<1>5. CASE Becomes(s, Addressed(addressed))
  BY <1>1, <1>3, <1>4, <1>5, Unchanged DEF Goes
<1>6. CASE Becomes(s, AddressVariable([addressed EXCEPT !.ctx = ctx]))
  <2>1. PICK x : /\ x = [addressed EXCEPT !.ctx = ctx]
                 /\ Becomes(s, AddressVariable(x))
    BY <1>6
  <2>2. IsRequest(x) /\ Keeps(r, x) /\ x.type = type
    BY <1>4, <2>1 DEF IsRequest, Keeps
  <2>3. \/ AddressVariable(x) = Fail(x, "RequestResolveError")
        \/ \E obj, more : AddressVariable(x) = Addressed([x EXCEPT !.obj = obj, !.rest = more])
    <3>1. \/ \E obj, more : AddressVariable(x) = Addressed([x EXCEPT !.obj = obj, !.rest = more])
          \/ AddressVariable(x) = Fail(x, "RequestResolveError")
          \/ \E obj : AddressVariable(x) = Addressed([x EXCEPT !.obj = obj])
      <4>1. [x EXCEPT !.obj = x.rest[1], !.rest = Tail(@)] = [x EXCEPT !.obj = x.rest[1], !.rest = Tail(x.rest)]
        BY <2>2 DEF IsRequest
      <4> QED
        BY <4>1 DEF AddressVariable
    <3>2. ASSUME NEW obj
          PROVE  [x EXCEPT !.obj = obj] = [x EXCEPT !.obj = obj, !.rest = x.rest]
      BY <2>2 DEF IsRequest
    <3>3. ASSUME NEW obj, AddressVariable(x) = Addressed([x EXCEPT !.obj = obj])
          PROVE  AddressVariable(x) = Addressed([x EXCEPT !.obj = obj, !.rest = x.rest])
      <4>1. PICK y : y = [x EXCEPT !.obj = obj] /\ AddressVariable(x) = Addressed(y)
        BY <3>3
      <4>2. y = [x EXCEPT !.obj = obj, !.rest = x.rest]
        BY <3>2, <4>1
      <4> QED
        BY <4>1, <4>2
    <3> QED
      BY <3>1, <3>3
  <2>4. CASE AddressVariable(x) = Fail(x, "RequestResolveError")
    <3>1. r.pc \in Early /\ "RequestResolveError" # None
      BY <1>1 DEF Early, None
    <3>2. Moves(r, Fail(x, "RequestResolveError"))
      BY <2>2, <3>1, FailMoves
    <3> QED
      BY <1>1, <2>1, <2>4, <3>2, Unchanged DEF Goes
  <2>5. CASE \E obj, more : AddressVariable(x) = Addressed([x EXCEPT !.obj = obj, !.rest = more])
    <3>1. PICK obj, more : AddressVariable(x) = Addressed([x EXCEPT !.obj = obj, !.rest = more])
      BY <2>5
    <3>2. PICK y : y = [x EXCEPT !.obj = obj, !.rest = more]
      OBVIOUS
    <3>3. IsRequest(y) /\ Keeps(r, y) /\ y.type = type
      BY <2>2, <3>2 DEF IsRequest, Keeps
    <3> QED
      BY <1>1, <1>3, <2>1, <3>1, <3>2, <3>3, Unchanged DEF Goes
  <2> QED
    BY <2>3, <2>4, <2>5
<1> QED
  BY <1>2, <1>5, <1>6

\* A request answered without a schema goes on.
LEMMA AnswerGoes ==
    ASSUME RequestInv, NEW s \in Slots, q[s].pc \in {"list", "run"}, ~DistributedQuery(q[s]), NEW n,
           n = AnswerContent(q[s]) \/ \E http : n = AnswerStatus(q[s], http),
           Becomes(s, n), UNCHANGED contexts
    PROVE  Goes(s)
<1>1. IsRequest(q[s])
  BY DEF RequestInv, RequestOK
<1> QED
  BY <1>1, AnswerMoves, KeepsItself, Unchanged DEF Goes

LEMMA OptionsGoes ==
    ASSUME RequestInv, NEW s \in Slots, LifeOK(q[s]), Options(s)
    PROVE  Goes(s)
<1>1. q[s].pc = "list" /\ q[s].in.method = "OPTIONS" /\ UNCHANGED contexts
  BY DEF Options, At, Only, RequestInv, RequestOK
<1>2. ~DistributedQuery(q[s]) /\ "InvalidArgument" # None /\ q[s].pc \in Early
  BY <1>1 DEF DistributedQuery, None, Early
<1>3. Becomes(s, AnswerStatus(q[s], 200)) \/ Becomes(s, Fail(q[s], "InvalidArgument"))
  BY DEF Options, Only
<1> QED
  BY <1>1, <1>2, <1>3, AnswerGoes, FailGoes

LEMMA CommitTransactionGoes ==
    ASSUME RequestInv, NEW s \in Slots, LifeOK(q[s]), CommitTransaction(s)
    PROVE  Goes(s)
<1> DEFINE r == q[s]
<1>1. IsRequest(r) /\ r.pc = "run" /\ r.in.method = "PUT" /\ UNCHANGED contexts
  BY DEF CommitTransaction, Running, At, RequestInv, RequestOK
<1>2. PICK m : m = [r EXCEPT !.tid = None, !.ctx = NoContext]
  OBVIOUS
<1>3. \/ Becomes(s, Fail(r, "RequestResolveError")) \/ Becomes(s, Fail(m, "HiddenError"))
      \/ Becomes(s, AnswerStatus(m, 204))
  BY <1>2 DEF CommitTransaction
<1>4. IsRequest(m) /\ Keeps(r, m) /\ m.in = r.in
  BY <1>1, <1>2 DEF IsRequest, Keeps
<1>5. ~DistributedQuery(m) /\ r.pc \in Early /\ "HiddenError" # None /\ "RequestResolveError" # None
  BY <1>1, <1>4 DEF DistributedQuery, Early, None
<1>6. Moves(r, AnswerStatus(m, 204))
  BY <1>1, <1>4, <1>5, AnswerMoves
<1>7. Moves(r, Fail(m, "HiddenError")) /\ Moves(r, Fail(r, "RequestResolveError"))
  BY <1>1, <1>4, <1>5, FailMoves
<1> QED
  BY <1>1, <1>3, <1>6, <1>7, Unchanged DEF Goes

LEMMA ConfigureWithoutContentGoes ==
    ASSUME RequestInv, NEW s \in Slots, LifeOK(q[s]), ConfigureWithoutContent(s)
    PROVE  Goes(s)
BY FailGoes DEF ConfigureWithoutContent, Running, At, Only, Early, None

LEMMA PatchGoes ==
    ASSUME RequestInv, NEW s \in Slots, LifeOK(q[s]), Patch(s)
    PROVE  Goes(s)
BY FailGoes DEF Patch, Running, At, Only, Early, None

\* Records that differ in what the answer looks like.
Alike(n, x) ==
    /\ x.pc = n.pc /\ x.in = n.in /\ x.type = n.type /\ x.rest = n.rest /\ x.obj = n.obj /\ x.ctx = n.ctx
    /\ x.results = n.results /\ x.todo = n.todo /\ x.accepted = n.accepted /\ x.config = n.config
    /\ x.error = n.error /\ x.tid = n.tid

LEMMA AlikeMoves == ASSUME NEW r, NEW n, NEW x, Moves(r, n), Alike(n, x) PROVE Moves(r, x)
<1>1. DistributedQuery(x) <=> DistributedQuery(n)
  BY DEF DistributedQuery, Alike
<1>2. Whole(n) => Whole(x)
  BY DEF Whole, Receiver, Alike
<1>3. Ok(x) <=> Ok(n)
  BY DEF Ok, Alike
<1>4. CASE Refuses(r, n)
  BY <1>3, <1>4 DEF Refuses, Moves, Alike
<1>5. CASE Looks(r, n)
  BY <1>5 DEF Looks, Keeps, Moves, Alike
<1>6. CASE Waits(r, n)
  BY <1>3, <1>6 DEF Waits, Moves, Alike
<1>7. CASE Answers(r, n)
  BY <1>1, <1>7 DEF Answers, Keeps, Moves, Alike
<1>8. CASE Runs(r, n)
  BY <1>1, <1>2, <1>3, <1>8 DEF Runs, Moves, Alike
<1> QED
  BY <1>4, <1>5, <1>6, <1>7, <1>8 DEF Moves

\* The schema a configuration is loaded with builds it; a transaction has none.
LEMMA LoadsItsType ==
    ASSUME NEW type, type # Root, NEW method \in {"PUT", "POST"}, NEW root,
           method = "PUT" => type \notin TransactionContexts,
           HasSchema(GetSchemaId(type, method, root))
    PROVE  LET s == SchemaOf[GetSchemaId(type, method, root)] IN
           s.id[2] \in {"PUT", "POST"} /\ Builds(s) = type /\ type \notin TransactionContexts
<1> DEFINE id == GetSchemaId(type, method, root)
<1>1. PICK s : s = SchemaOf[id]
  OBVIOUS
<1>2. s \in Schemas /\ s.id = id
  BY <1>1, Found
<1>3. IdOK(s)
  BY <1>2, SchemasOK
<1>4. id = <<Root, method, type>> \/ id = <<type, method, "">>
  BY DEF GetSchemaId
<1> HIDE DEF id
<1>5. CASE id = <<Root, method, type>>
  <2>1. s.id[1] = Root /\ s.id[2] = method /\ s.id[3] = type
    BY <1>2, <1>5, IdParts
  <2> QED
    BY <1>1, <1>3, <2>1 DEF IdOK, Builds, id
<1>6. CASE id = <<type, method, "">>
  <2>1. s.id[1] = type /\ s.id[2] = method
    <3>1. <<type, method, "">>[1] = type /\ <<type, method, "">>[2] = method
      BY IdParts
    <3> QED
      BY <1>2, <1>6, <3>1
  <2> QED
    BY <1>1, <1>3, <2>1 DEF IdOK, Builds, id
<1> QED
  BY <1>4, <1>5, <1>6

LEMMA LoadMoves ==
    ASSUME NEW r, r.pc = "run", r.todo = << >>, r.in.method \in {"PUT", "POST"},
           r.in.method = "PUT" => r.type \notin TransactionContexts,
           NEW m, IsRequest(m), m.in = r.in, m.type = r.type, m.todo = << >>, m.accepted = r.accepted,
           NEW n \in LoadConfiguration(m)
    PROVE  Moves(r, n) /\ IsRequest(n)
<1>1. CASE m.type = Root
  <2>1. n = Fail(m, "InvalidRequest") /\ "InvalidRequest" # None
    BY <1>1 DEF LoadConfiguration, None
  <2> QED
    BY <2>1, FailMoves, Failed DEF Early
<1>2. CASE m.type # Root
  <2>1. PICK ctx : ctx = contexts[<<Root, Root>>]
    OBVIOUS
  <2>2. PICK z : z = [m EXCEPT !.ctx = ctx, !.obj = None, !.tid = None, !.config = "store"]
    OBVIOUS
  <2>3. [RootObject(m) EXCEPT !.config = "store"] = z
    BY <2>1, <2>2 DEF RootObject, IsRequest
  <2>4. n \in Execute(z, GetSchemaId(r.type, r.in.method, r.in.root), r.type)
    BY <1>2, <2>3 DEF LoadConfiguration
  <2>5. IsRequest(z) /\ z.in = r.in /\ z.type = r.type /\ z.todo = << >> /\ z.accepted = r.accepted
    BY <2>2 DEF IsRequest
  <2>6. Fits(z, GetSchemaId(r.type, r.in.method, r.in.root))
    <3> DEFINE id == GetSchemaId(r.type, r.in.method, r.in.root)
    <3>1. ASSUME HasSchema(id)
          PROVE  SchemaOf[id].id[2] \in {"PUT", "POST"} /\ Builds(SchemaOf[id]) = z.type
                 /\ z.type \notin TransactionContexts
      <4>1. SchemaOf[id].id[2] \in {"PUT", "POST"} /\ Builds(SchemaOf[id]) = r.type
            /\ r.type \notin TransactionContexts
        BY <1>2, <2>5, <3>1, LoadsItsType
      <4> QED
        BY <2>5, <4>1
    <3>2. ~DistributedQuery(z)
      BY <2>5 DEF DistributedQuery
    <3> HIDE DEF id
    <3>3. Fits(z, id)
      BY <3>1, <3>2, Zenon DEF Fits
    <3> QED
      BY <3>3 DEF id
  <2>7. Moves(r, n)
    BY <2>4, <2>5, <2>6, ExecuteMoves
  <2> QED
    BY <2>4, <2>5, <2>7, Executed
<1> QED
  BY <1>1, <1>2

LEMMA PutConfigurationGoes ==
    ASSUME RequestInv, NEW s \in Slots, LifeOK(q[s]), PutConfiguration(s)
    PROVE  Goes(s)
<1> DEFINE r == q[s]
<1>1. /\ IsRequest(r) /\ r.pc = "run" /\ r.in.method \in {"PUT", "POST"} /\ UNCHANGED contexts
      /\ r.in.method = "PUT" => r.tid = None
  BY DEF PutConfiguration, Running, At, RequestInv, RequestOK, InTransaction
<1>2. r.todo = << >> /\ (r.in.method = "PUT" => r.type \notin TransactionContexts)
  BY <1>1 DEF LifeOK, Early
<1>3. PICK n \in LoadConfiguration(r) :
        Becomes(s, IF Ok(n) /\ r.in.method = "POST" THEN [n EXCEPT !.content = TRUE] ELSE n)
  BY DEF PutConfiguration
<1>4. Moves(r, n) /\ IsRequest(n)
  BY <1>1, <1>2, <1>3, LoadMoves
<1>5. Alike(n, [n EXCEPT !.content = TRUE])
  BY <1>4 DEF Alike, IsRequest
<1>6. Moves(r, [n EXCEPT !.content = TRUE])
  BY <1>4, <1>5, AlikeMoves
<1> QED
  BY <1>1, <1>3, <1>4, <1>6, Unchanged DEF Goes

LEMMA PostConfigurationGoes ==
    ASSUME RequestInv, NEW s \in Slots, LifeOK(q[s]), PostConfiguration(s)
    PROVE  Goes(s)
<1> DEFINE r == q[s]
<1>1. IsRequest(r) /\ r.pc = "run" /\ r.in.method = "POST" /\ UNCHANGED contexts
  BY DEF PostConfiguration, Running, At, RequestInv, RequestOK, Only
<1>2. r.todo = << >>
  BY <1>1 DEF LifeOK, Early
<1>3. PICK name : \E n \in LoadConfiguration([r EXCEPT !.name = name]) :
        Becomes(s, IF Ok(n) THEN [n EXCEPT !.http = 201, !.content = TRUE] ELSE n)
  BY DEF PostConfiguration, Only
<1>4. PICK m : m = [r EXCEPT !.name = name]
  OBVIOUS
<1>5. PICK n \in LoadConfiguration(m) :
        Becomes(s, IF Ok(n) THEN [n EXCEPT !.http = 201, !.content = TRUE] ELSE n)
  BY <1>3, <1>4
<1>6. IsRequest(m) /\ m.in = r.in /\ m.type = r.type /\ m.todo = << >> /\ m.accepted = r.accepted
  BY <1>1, <1>2, <1>4 DEF IsRequest
<1>7. Moves(r, n) /\ IsRequest(n)
  BY <1>1, <1>2, <1>5, <1>6, LoadMoves
<1>8. Alike(n, [n EXCEPT !.http = 201, !.content = TRUE])
  BY <1>7 DEF Alike, IsRequest
<1>9. Moves(r, [n EXCEPT !.http = 201, !.content = TRUE])
  BY <1>7, <1>8, AlikeMoves
<1> QED
  BY <1>1, <1>5, <1>7, <1>9, Unchanged DEF Goes

\* The schema a configuration is updated with builds its type.
LEMMA UpdatesItsType ==
    ASSUME NEW type, type # Root, HasSchema(UpdateSchemaId(type))
    PROVE  LET s == SchemaOf[UpdateSchemaId(type)] IN s.id[2] \in {"PUT", "POST"} /\ Builds(s) = type
<1>1. PICK s : s = SchemaOf[UpdateSchemaId(type)]
  OBVIOUS
<1>2. s.id = <<type, "PUT", "">>
  BY <1>1, Found DEF UpdateSchemaId
<1>3. <<type, "PUT", "">>[1] = type /\ <<type, "PUT", "">>[2] = "PUT"
  BY IdParts
<1>4. s.id[1] = type /\ s.id[2] = "PUT"
  BY <1>2, <1>3
<1> QED
  BY <1>1, <1>4 DEF Builds

LEMMA UpdateConfigurationGoes ==
    ASSUME RequestInv, NEW s \in Slots, LifeOK(q[s]), UpdateConfiguration(s)
    PROVE  Goes(s)
<1> DEFINE r == q[s]
           id == UpdateSchemaId(r.type)
<1>1. /\ IsRequest(r) /\ r.pc = "run" /\ r.in.method = "PUT" /\ UNCHANGED contexts /\ r.tid = None
  BY DEF UpdateConfiguration, Running, At, RequestInv, RequestOK, InTransaction, Only
<1>2. /\ r.todo = << >> /\ r.type \notin TransactionContexts /\ r.pc \in Early
  BY <1>1 DEF LifeOK, Early
<1>3. PICK m : m = [r EXCEPT !.config = "store"]
  OBVIOUS
<1>4. /\ IsRequest(m) /\ m.in = r.in /\ m.type = r.type /\ m.todo = << >> /\ m.accepted = r.accepted
      /\ m.results = r.results
  BY <1>1, <1>2, <1>3 DEF IsRequest
<1>5. \/ Becomes(s, Fail(r, "InvalidRequest"))
      \/ /\ r.type # Root /\ HasSchema(id)
         /\ \/ Becomes(s, [Fail(m, "ServiceNeedExclusiveAccess") EXCEPT !.pc = "interrupted"])
            \/ \E n \in Execute(m, id, r.type) : Becomes(s, n)
      \/ \E n \in LoadConfiguration(r) : Becomes(s, n)
  BY <1>3 DEF UpdateConfiguration, Only
<1>6. CASE Becomes(s, Fail(r, "InvalidRequest"))
  BY <1>1, <1>2, <1>6, FailGoes DEF None
<1>7. CASE Becomes(s, [Fail(m, "ServiceNeedExclusiveAccess") EXCEPT !.pc = "interrupted"])
  <2>1. PICK status : status = HttpStatus("ServiceNeedExclusiveAccess")
    OBVIOUS
  <2>2. PICK n : n = [m EXCEPT !.error = "ServiceNeedExclusiveAccess", !.http = status, !.content = FALSE,
                               !.pc = "interrupted"]
    OBVIOUS
  <2>3. [Fail(m, "ServiceNeedExclusiveAccess") EXCEPT !.pc = "interrupted"] = n
    BY <1>4, <2>1, <2>2 DEF Fail, IsRequest
  <2>4. /\ n.in = r.in /\ n.results = r.results /\ n.todo = r.todo /\ n.accepted = r.accepted
        /\ n.pc = "interrupted" /\ n.error = "ServiceNeedExclusiveAccess"
    BY <1>2, <1>4, <2>2 DEF IsRequest
  <2>5. Moves(r, n)
    BY <1>1, <1>2, <2>4 DEF Moves, Waits, Ok, None
  <2> QED
    BY <1>1, <1>7, <2>3, <2>5, Unchanged DEF Goes
<1>8. CASE r.type # Root /\ HasSchema(id) /\ \E n \in Execute(m, id, r.type) : Becomes(s, n)
  <2>1. PICK n \in Execute(m, id, r.type) : Becomes(s, n)
    BY <1>8
  <2>2. SchemaOf[id].id[2] \in {"PUT", "POST"} /\ Builds(SchemaOf[id]) = m.type
        /\ m.type \notin TransactionContexts
    BY <1>2, <1>4, <1>8, UpdatesItsType
  <2>3. ~DistributedQuery(m)
    BY <1>1, <1>4 DEF DistributedQuery
  <2> HIDE DEF id
  <2>4. Fits(m, id)
    BY <2>2, <2>3, Zenon DEF Fits
  <2>5. Moves(r, n)
    BY <1>1, <1>2, <1>4, <2>1, <2>4, ExecuteMoves
  <2> QED
    BY <1>1, <2>1, <2>5, Unchanged DEF Goes
<1>9. CASE \E n \in LoadConfiguration(r) : Becomes(s, n)
  <2>1. PICK n \in LoadConfiguration(r) : Becomes(s, n)
    BY <1>9
  <2>2. Moves(r, n)
    BY <1>1, <1>2, <2>1, LoadMoves
  <2> QED
    BY <1>1, <2>1, <2>2, Unchanged DEF Goes
<1> QED
  BY <1>5, <1>6, <1>7, <1>8, <1>9

LEMMA RetryUpdateGoes ==
    ASSUME RequestInv, NEW s \in Slots, LifeOK(q[s]), RetryUpdate(s)
    PROVE  Goes(s)
<1> DEFINE r == q[s]
           id == UpdateSchemaId(r.type)
<1>1. IsRequest(r) /\ r.pc = "interrupted" /\ UNCHANGED contexts
  BY DEF RetryUpdate, At, RequestInv, RequestOK, Only
<1>2. r.todo = << >> /\ ~Ok(r) /\ r.in.method = "PUT" /\ r.pc \in Early
  BY <1>1 DEF LifeOK, Early
<1>3. Becomes(s, [r EXCEPT !.pc = "answered"]) \/ \E n \in Execute(r, id, r.type) : Becomes(s, n)
  BY DEF RetryUpdate, Only
<1>4. CASE Becomes(s, [r EXCEPT !.pc = "answered"])
  <2>1. PICK n : n = [r EXCEPT !.pc = "answered"]
    OBVIOUS
  <2>2. n.pc = "answered" /\ n.error = r.error
    BY <1>1, <2>1 DEF IsRequest
  <2>3. Moves(r, n)
    BY <1>2, <2>2 DEF Moves, Refuses, Ok
  <2> QED
    BY <1>1, <1>4, <2>1, <2>3, Unchanged DEF Goes
<1>5. CASE \E n \in Execute(r, id, r.type) : Becomes(s, n)
  <2>1. PICK n \in Execute(r, id, r.type) : Becomes(s, n)
    BY <1>5
  <2>2. ~DistributedQuery(r)
    BY <1>2 DEF DistributedQuery
  <2> HIDE DEF id
  <2>3. Fits(r, id)
    BY <1>2, <2>2, Zenon DEF Fits
  <2>4. Moves(r, n)
    BY <1>1, <1>2, <2>1, <2>3, ExecuteMoves
  <2> QED
    BY <1>1, <2>1, <2>4, Unchanged DEF Goes
<1> QED
  BY <1>3, <1>4, <1>5

LEMMA DeleteTransactionGoes ==
    ASSUME RequestInv, NEW s \in Slots, LifeOK(q[s]), DeleteTransaction(s)
    PROVE  Goes(s)
<1> DEFINE r == q[s]
<1>1. IsRequest(r) /\ r.pc = "run" /\ r.in.method = "DELETE" /\ UNCHANGED contexts
  BY DEF DeleteTransaction, Running, At, RequestInv, RequestOK
<1>2. PICK m : m = [r EXCEPT !.tid = None]
  OBVIOUS
<1>3. Becomes(s, AnswerStatus(m, 204))
  BY <1>2 DEF DeleteTransaction
<1>4. IsRequest(m) /\ Keeps(r, m) /\ m.in = r.in
  BY <1>1, <1>2 DEF IsRequest, Keeps
<1>5. ~DistributedQuery(m)
  BY <1>1, <1>4 DEF DistributedQuery
<1>6. Moves(r, AnswerStatus(m, 204))
  BY <1>1, <1>4, <1>5, AnswerMoves
<1> QED
  BY <1>1, <1>3, <1>6, Unchanged DEF Goes

LEMMA RemoveConfigurationGoes ==
    ASSUME RequestInv, NEW s \in Slots, LifeOK(q[s]), RemoveConfiguration(s)
    PROVE  Goes(s)
<1> DEFINE r == q[s]
           c == <<r.type, r.name>>
<1>1. IsRequest(r) /\ r.pc = "run" /\ r.in.method = "DELETE" /\ r.pc \in Early
  BY DEF RemoveConfiguration, Running, At, RequestInv, RequestOK, Early
<1>2. CASE r.type = Root \/ c \notin DOMAIN contexts
  <2>1. UNCHANGED contexts
    BY <1>2 DEF RemoveConfiguration
  <2>2. PICK e \in {"InvalidRequest", "RequestResolveError"} : Becomes(s, Fail(r, e))
    BY <1>2 DEF RemoveConfiguration
  <2> QED
    BY <1>1, <2>1, <2>2, FailGoes DEF None
<1>3. CASE ~(r.type = Root \/ c \notin DOMAIN contexts)
  <2>1. PICK n : n = [r EXCEPT !.pc = "delete", !.ctx = NoContext, !.obj = None]
    OBVIOUS
  <2>2. Becomes(s, n) /\ contexts' = Restrict(contexts, DOMAIN contexts \ {c})
    BY <1>3, <2>1 DEF RemoveConfiguration
  <2>3. Keeps(r, n) /\ n.pc = "delete"
    BY <1>1, <2>1 DEF IsRequest, Keeps
  <2>4. ContextsKept
    BY <2>2 DEF Restrict, ContextsKept
  <2>5. Moves(r, n)
    BY <1>1, <2>3 DEF Moves, Looks
  <2> QED
    BY <2>2, <2>4, <2>5 DEF Goes
<1> QED
  BY <1>2, <1>3

LEMMA DeleteStoredGoes ==
    ASSUME RequestInv, NEW s \in Slots, LifeOK(q[s]), DeleteStored(s)
    PROVE  Goes(s)
<1> DEFINE r == q[s]
           c == <<r.type, r.name>>
           id == DeleteSchemaId(r.type, stored[c])
<1>1. IsRequest(r) /\ r.pc = "delete" /\ r.pc \in Early /\ UNCHANGED contexts
  BY DEF DeleteStored, At, RequestInv, RequestOK, Early
<1>2. r.todo = << >> /\ r.in.method = "DELETE" /\ r.config = None
  BY <1>1 DEF LifeOK, Early
<1>3. PICK ctx : ctx = contexts[<<Root, Root>>]
  OBVIOUS
<1>4. PICK m : m = [r EXCEPT !.ctx = ctx, !.obj = None, !.tid = None]
  OBVIOUS
<1>5. RootObject(r) = m
  BY <1>3, <1>4 DEF RootObject
<1>6. IsRequest(m) /\ Keeps(r, m) /\ m.in = r.in /\ m.todo = << >> /\ m.accepted = r.accepted /\ m.config = None
  BY <1>1, <1>2, <1>4 DEF IsRequest, Keeps
<1>7. ~DistributedQuery(m)
  BY <1>2, <1>6 DEF DistributedQuery
<1>8. CASE c \notin DOMAIN stored
  <2>1. Becomes(s, Fail(r, "RequestResolveError"))
    BY <1>8 DEF DeleteStored
  <2> QED
    BY <1>1, <2>1, FailGoes DEF None
<1>9. CASE c \in DOMAIN stored
  <2>1. PICK n \in (IF HasSchema(id) THEN Execute(m, id, r.type) ELSE {AnswerStatus(m, 204)}) :
          Becomes(s, IF Ok(n) THEN AnswerStatus(n, 204) ELSE n)
    BY <1>5, <1>9 DEF DeleteStored
  <2> HIDE DEF id
  <2>2. Moves(r, n) /\ IsRequest(n) /\ (Ok(n) => n.pc = "delegates")
    <3>1. CASE n \in Execute(m, id, r.type)
      <4>1. Fits(m, id)
        BY <1>6, <1>7, Zenon DEF Fits
      <4>2. Moves(r, n) /\ (Ok(n) => n.pc = "delegates")
        BY <1>1, <1>2, <1>6, <3>1, <4>1, ExecuteMoves
      <4>3. IsRequest(n)
        BY <1>6, <3>1, Executed
      <4> QED
        BY <4>2, <4>3
    <3>2. CASE n = AnswerStatus(m, 204)
      <4>1. Moves(r, n)
        BY <1>1, <1>6, <1>7, <3>2, AnswerMoves
      <4>2. IsRequest(n) /\ n.pc = "delegates"
        BY <1>6, <3>2, Answered
      <4> QED
        BY <4>1, <4>2
    <3> QED
      BY <2>1, <3>1, <3>2
  <2>3. ASSUME Ok(n)
        PROVE  Moves(r, AnswerStatus(n, 204))
    <3>1. Alike(n, AnswerStatus(n, 204))
      BY <2>2, <2>3 DEF Alike, AnswerStatus, Done, IsRequest
    <3> QED
      BY <2>2, <3>1, AlikeMoves
  <2> QED
    BY <1>1, <2>1, <2>2, <2>3, Unchanged DEF Goes
<1> QED
  BY <1>8, <1>9

LEMMA DeleteWithContentGoes ==
    ASSUME RequestInv, NEW s \in Slots, LifeOK(q[s]), DeleteWithContent(s)
    PROVE  Goes(s)
BY FailGoes DEF DeleteWithContent, Running, At, Only, Early, None

LEMMA ListContextsGoes ==
    ASSUME RequestInv, NEW s \in Slots, LifeOK(q[s]), ListContexts(s)
    PROVE  Goes(s)
<1>1. q[s].pc = "run" /\ Empty(q[s].in) /\ UNCHANGED contexts
  BY DEF ListContexts, At, Only
<1>2. ~DistributedQuery(q[s]) /\ "RequestResolveError" # None /\ q[s].pc \in Early
  BY <1>1 DEF DistributedQuery, None, Early
<1>3. Becomes(s, AnswerContent(q[s])) \/ Becomes(s, Fail(q[s], "RequestResolveError"))
  BY DEF ListContexts, Only
<1> QED
  BY <1>1, <1>2, <1>3, AnswerGoes, FailGoes

LEMMA PostTransactionGoes ==
    ASSUME RequestInv, NEW s \in Slots, LifeOK(q[s]), PostTransaction(s)
    PROVE  Goes(s)
<1> DEFINE r == q[s]
<1>1. IsRequest(r) /\ r.pc = "run" /\ r.pc \in Early /\ r.obj # None /\ UNCHANGED contexts
  BY DEF PostTransaction, At, RequestInv, RequestOK, Early, IsHostObject
<1>2. \/ \E e \in {"RequestResolveError", "HiddenError"} : Becomes(s, Fail(r, e))
      \/ Becomes(s, [AnswerStatus(r, 201) EXCEPT !.content = TRUE])
  BY DEF PostTransaction
<1>3. CASE \E e \in {"RequestResolveError", "HiddenError"} : Becomes(s, Fail(r, e))
  BY <1>1, <1>3, FailGoes DEF None
<1>4. CASE Becomes(s, [AnswerStatus(r, 201) EXCEPT !.content = TRUE])
  <2>1. ~DistributedQuery(r)
    BY <1>1 DEF DistributedQuery
  <2>2. Moves(r, AnswerStatus(r, 201))
    BY <1>1, <2>1, AnswerMoves, KeepsItself
  <2>3. IsRequest(AnswerStatus(r, 201))
    BY <1>1, Answered
  <2>4. Alike(AnswerStatus(r, 201), [AnswerStatus(r, 201) EXCEPT !.content = TRUE])
    BY <2>3 DEF Alike, IsRequest
  <2>5. Moves(r, [AnswerStatus(r, 201) EXCEPT !.content = TRUE])
    BY <2>2, <2>4, AlikeMoves
  <2> QED
    BY <1>1, <1>4, <2>5, Unchanged DEF Goes
<1> QED
  BY <1>2, <1>3, <1>4

LEMMA CallMethodGoes ==
    ASSUME RequestInv, NEW s \in Slots, LifeOK(q[s]), CallMethod(s)
    PROVE  Goes(s)
<1> DEFINE r == q[s]
<1>1. IsRequest(r) /\ r.pc = "run" /\ r.pc \in Early /\ r.obj # None /\ UNCHANGED contexts
  BY DEF CallMethod, At, RequestInv, RequestOK, Early, IsHostObject
<1>2. PICK http : \/ Becomes(s, Fail(r, "HiddenError"))
                  \/ Becomes(s, AnswerStatus(r, http))
                  \/ Becomes(s, [AnswerStatus(r, http) EXCEPT !.content = TRUE])
  BY DEF CallMethod
<1>3. CASE Becomes(s, Fail(r, "HiddenError"))
  BY <1>1, <1>3, FailGoes DEF None
<1>4. ~DistributedQuery(r)
  BY <1>1 DEF DistributedQuery
<1>5. Moves(r, AnswerStatus(r, http)) /\ IsRequest(AnswerStatus(r, http))
  BY <1>1, <1>4, AnswerMoves, KeepsItself, Answered
<1>6. Alike(AnswerStatus(r, http), [AnswerStatus(r, http) EXCEPT !.content = TRUE])
  BY <1>5 DEF Alike, IsRequest
<1>7. Moves(r, [AnswerStatus(r, http) EXCEPT !.content = TRUE])
  BY <1>5, <1>6, AlikeMoves
<1> QED
  BY <1>1, <1>2, <1>3, <1>5, <1>7, Unchanged DEF Goes

LEMMA MapValueGoes ==
    ASSUME RequestInv, NEW s \in Slots, LifeOK(q[s]), MapValue(s)
    PROVE  Goes(s)
<1>1. q[s].pc = "run" /\ q[s].obj # None /\ UNCHANGED contexts /\ Becomes(s, AnswerContent(q[s]))
  BY DEF MapValue, At, Only
<1>2. ~DistributedQuery(q[s])
  BY <1>1 DEF DistributedQuery
<1> QED
  BY <1>1, <1>2, AnswerGoes

LEMMA ExecuteSchemaGoes ==
    ASSUME RequestInv, NEW s \in Slots, LifeOK(q[s]), ExecuteSchema(s)
    PROVE  Goes(s)
<1> DEFINE r == q[s]
           id == GetSchemaId(r.type, r.in.method, r.in.root)
<1>1. IsRequest(r) /\ r.pc = "run" /\ UNCHANGED contexts
  BY DEF ExecuteSchema, At, RequestInv, RequestOK
<1>2. r.todo = << >> /\ r.config = None
  BY <1>1 DEF LifeOK, Early
<1>3. PICK n \in Execute(r, id, ObjectType(r)) : Becomes(s, n)
  BY DEF ExecuteSchema
<1>4. DistributedQuery(r) => id = <<"distqryeval", "GET", "">>
  BY DEF DistributedQuery, GetSchemaId, Configures
<1> HIDE DEF id
<1>5. Fits(r, id)
  BY <1>2, <1>4, Zenon DEF Fits
<1>6. Moves(r, n)
  BY <1>1, <1>2, <1>3, <1>5, ExecuteMoves
<1> QED
  BY <1>1, <1>3, <1>6, Unchanged DEF Goes

LEMMA ListVariablesGoes ==
    ASSUME RequestInv, NEW s \in Slots, LifeOK(q[s]), ListVariables(s)
    PROVE  Goes(s)
<1> DEFINE r == q[s]
<1>1. r.pc = "run" /\ UNCHANGED contexts /\ r.pc \in Early
  BY DEF ListVariables, At, Only, Early
<1>2. \/ Becomes(s, AnswerContent(r)) /\ Empty(r.in)
      \/ Becomes(s, Fail(r, "RequestResolveError"))
  BY DEF ListVariables, Only
<1>3. Empty(r.in) => ~DistributedQuery(r)
  BY DEF DistributedQuery
<1> QED
  BY <1>1, <1>2, <1>3, AnswerGoes, FailGoes DEF None

-----------------------------------------------------------------------------
(* Delegate requests                                                       *)

\* The results of a distributed query: the first seven are delegate requests, the fourth
\* and the last of them are answered by the context itself.
LEMMA QueryResults ==
    LET D == DistQueryEvalSchema.results IN
    /\ D = [i \in 1 .. 8 |-> D[i]] /\ Len(D) = 8
    /\ \A i \in 1 .. 7 : HasReceiver(D[i]) /\ (D[i].servers = ToSelf <=> i \in {4, 7})
    /\ ~HasReceiver(D[8])
    /\ D[7].receiver = "END~ranklist"
<1> DEFINE D == DistQueryEvalSchema.results
<1>1. PICK a, b, c, d :
        /\ a = Delegate("SET~analysis", "qryanalyzer", {})
        /\ b = Delegate("SET~querystats", "statserver", {"_feature", "_restriction"})
        /\ c = Delegate("SET~collect", "collector", {"_feature", "_termstats", "_globalstats"})
        /\ d = Delegate("CLOSE~collect", ToSelf, {})
  OBVIOUS
<1>2. PICK e, f, g, h :
        /\ e = Delegate("SET~analysis", "qryanalyzer", {"_collected"})
        /\ f = Delegate("SET~ranklist", "qryeval", {"_feature", "_restriction", "_termstats", "_globalstats"})
        /\ g = Delegate("END~ranklist", ToSelf, {})
        /\ h = AnswerWith({"ranklist"})
  OBVIOUS
<1>3. D = <<a, b, c, d, e, f, g, h>>
  BY <1>1, <1>2 DEF DistQueryEvalSchema, Schema
<1>4. /\ HasReceiver(a) /\ HasReceiver(b) /\ HasReceiver(c) /\ HasReceiver(d)
      /\ a.servers # ToSelf /\ b.servers # ToSelf /\ c.servers # ToSelf /\ d.servers = ToSelf
  BY <1>1 DEF Delegate, HasReceiver, Answer, ToSelf
<1>5. /\ HasReceiver(e) /\ HasReceiver(f) /\ HasReceiver(g) /\ ~HasReceiver(h)
      /\ e.servers # ToSelf /\ f.servers # ToSelf /\ g.servers = ToSelf /\ g.receiver = "END~ranklist"
  BY <1>2 DEF Delegate, AnswerWith, HasReceiver, Answer, ToSelf
<1> DEFINE x == <<a, b, c, d, e, f, g, h>>
<1>6. Len(x) = 8 /\ x = [i \in 1 .. 8 |-> x[i]]
  OBVIOUS
<1>7. /\ x[1] = a /\ x[2] = b /\ x[3] = c /\ x[4] = d /\ x[5] = e /\ x[6] = f /\ x[7] = g /\ x[8] = h
  OBVIOUS
<1> HIDE DEF x, D
<1>8. ASSUME NEW i \in 1 .. 7
      PROVE  HasReceiver(x[i]) /\ (x[i].servers = ToSelf <=> i \in {4, 7})
  <2>1. i = 1 \/ i = 2 \/ i = 3 \/ i = 4 \/ i = 5 \/ i = 6 \/ i = 7
    OBVIOUS
  <2> QED
    BY <1>4, <1>5, <1>7, <2>1
<1>9. D = x
  BY <1>3 DEF x
<1> QED
  BY <1>5, <1>6, <1>7, <1>8, <1>9 DEF D

LEMMA SumsUp == AnswersToMerge = Due(7)
<1> DEFINE D == DistQueryEvalSchema.results
           delegates == {i \in DOMAIN D : HasReceiver(D[i])}
           own == {i \in delegates : D[i].servers = ToSelf}
<1>1. DOMAIN D = 1 .. 8
  BY QueryResults
<1>2. delegates = 1 .. 7
  BY <1>1, QueryResults
<1>3. own = {4, 7}
  BY <1>2, QueryResults
<1>4. delegates \ own = {1, 2, 3, 5, 6}
  BY <1>2, <1>3
<1> HIDE DEF delegates, own
<1>5. Cardinality({4, 7}) = 2
  <2>1. Cardinality({4}) = 1 /\ IsFiniteSet({4})
    BY FS_Singleton
  <2>2. {4, 7} = {4} \cup {7}
    OBVIOUS
  <2> QED
    BY <2>1, <2>2, FS_AddElement
<1>6. Cardinality({1, 2, 3, 5, 6}) = 5
  <2>1. Cardinality({1}) = 1 /\ IsFiniteSet({1})
    BY FS_Singleton
  <2>2. Cardinality({1} \cup {2}) = 2 /\ IsFiniteSet({1} \cup {2})
    BY <2>1, FS_AddElement
  <2>3. Cardinality({1, 2} \cup {3}) = 3 /\ IsFiniteSet({1, 2} \cup {3})
    <3>1. {1} \cup {2} = {1, 2}
      OBVIOUS
    <3> QED
      BY <2>2, <3>1, FS_AddElement
  <2>4. Cardinality({1, 2, 3} \cup {5}) = 4 /\ IsFiniteSet({1, 2, 3} \cup {5})
    <3>1. {1, 2} \cup {3} = {1, 2, 3}
      OBVIOUS
    <3> QED
      BY <2>3, <3>1, FS_AddElement
  <2>5. Cardinality({1, 2, 3, 5} \cup {6}) = 5
    <3>1. {1, 2, 3} \cup {5} = {1, 2, 3, 5}
      OBVIOUS
    <3> QED
      BY <2>4, <3>1, FS_AddElement
  <2>6. {1, 2, 3, 5} \cup {6} = {1, 2, 3, 5, 6}
    OBVIOUS
  <2> QED
    BY <2>5, <2>6
<1>7. AnswersToMerge = Servers * 5 + 2
  BY <1>3, <1>4, <1>5, <1>6 DEF AnswersToMerge, delegates, own
<1>8. Due(7) = 5 * Servers + 2
  BY DEF Due
<1>9. Servers \in Nat
  BY ServerAssumption DEF ServerAssumption
<1> QED
  BY <1>7, <1>8, <1>9

-----------------------------------------------------------------------------
(* What the steps keep                                                     *)

LEMMA EmptyIsSeq == IsSeq(<< >>) /\ Len(<< >>) = 0
BY ShortSequences

LEMMA StartsAsking ==
    ASSUME NEW n, n.results = DistQueryEvalSchema.results, n.todo = << >>, n.accepted = 0
    PROVE  Asked(n, 0)
<1> DEFINE D == DistQueryEvalSchema.results
<1>1. n.results = [i \in 1 .. (8 - 0) |-> D[0 + i]]
  <2>1. D = [i \in 1 .. 8 |-> D[i]]
    BY QueryResults
  <2> HIDE DEF D
  <2>2. [i \in 1 .. 8 |-> D[i]] = [i \in 1 .. (8 - 0) |-> D[0 + i]]
    OBVIOUS
  <2> QED
    BY <2>1, <2>2 DEF D
<1>2. Due(0) = 0
  <2>1. 0 + 1 = 1
    OBVIOUS
  <2> QED
    BY <2>1 DEF Due
<1>3. 1 .. Len(n.todo) = {} /\ Len(n.todo) = 0
  BY Nothing
<1> HIDE DEF D
<1> QED
  BY <1>1, <1>2, <1>3 DEF Asked, D

\* An early step ends with what the next ones rely on, and it leads on.
LEMMA MovesLives ==
    ASSUME NEW r, LifeOK(r), NEW n, Moves(r, n)
    PROVE  LifeOK(n) /\ Closer(r, n)
<1>1. /\ r.pc \in Early /\ r.todo = << >> /\ r.results = << >> /\ r.accepted = 0
      /\ r.pc # "interrupted" => r.config = None
  BY DEF Moves, LifeOK
<1>2. CASE Refuses(r, n)
  <2>1. LifeOK(n)
    BY <1>2 DEF Refuses, LifeOK, Merging, Early
  <2>2. Closer(r, n)
    BY <1>1, <1>2 DEF Refuses, Closer, Stage, Early
  <2> QED
    BY <2>1, <2>2
<1>3. CASE Looks(r, n)
  <2>1. LifeOK(n)
    BY <1>1, <1>3 DEF Looks, Keeps, LifeOK, Merging, Early
  <2>2. Closer(r, n)
    BY <1>1, <1>3 DEF Looks, Closer, Stage, Early
  <2> QED
    BY <2>1, <2>2
<1>4. CASE Waits(r, n)
  <2>1. LifeOK(n)
    BY <1>1, <1>4 DEF Waits, LifeOK, Merging, Early, Ok
  <2>2. Closer(r, n)
    BY <1>1, <1>4 DEF Waits, Closer, Stage, Early
  <2> QED
    BY <2>1, <2>2
<1>5. CASE Answers(r, n)
  <2>1. LifeOK(n)
    BY <1>1, <1>5, EmptyIsSeq DEF Answers, Keeps, LifeOK, Merging, Early
  <2>2. Closer(r, n)
    BY <1>1, <1>5 DEF Answers, Closer, Stage, Early
  <2> QED
    BY <2>1, <2>2
<1>6. CASE Runs(r, n)
  <2>1. n.pc = "delegates" /\ n.todo = << >> /\ n.accepted = 0 /\ (n.config # None /\ Ok(n) => Whole(n))
    BY <1>1, <1>6 DEF Runs
  <2>2. IsSeq(n.results)
    BY <1>6, EverySchema DEF Runs, SchemaFacts
  <2>3. DistributedQuery(n) => Asked(n, 0)
    BY <1>6, <2>1, StartsAsking DEF Runs
  <2>4. Merging(n)
    <3>1. 0 \in 0 .. 7
      OBVIOUS
    <3> QED
      BY <2>1, <2>3, <3>1 DEF Merging
  <2>5. LifeOK(n)
    BY <2>1, <2>2, <2>4, EmptyIsSeq DEF LifeOK, Early
  <2>6. Closer(r, n)
    BY <1>1, <1>6 DEF Runs, Closer, Stage, Early
  <2> QED
    BY <2>5, <2>6
<1> QED
  BY <1>2, <1>3, <1>4, <1>5, <1>6 DEF Moves

\* The first result with a receiver.
LEMMA NextResult ==
    ASSUME NEW results, Len(results) \in Nat
    PROVE  LET next == SelectInSeq(results, HasReceiver) IN
           /\ next = 0 => \A i \in 1 .. Len(results) : ~HasReceiver(results[i])
           /\ next # 0 => /\ next \in 1 .. Len(results) /\ HasReceiver(results[next])
                          /\ \A i \in 1 .. Len(results) : HasReceiver(results[i]) => next <= i
<1> DEFINE I == {i \in 1 .. Len(results) : HasReceiver(results[i])}
<1>1. CASE I = {}
  <2>1. SelectInSeq(results, HasReceiver) = 0
    BY <1>1 DEF SelectInSeq
  <2> QED
    BY <1>1, <2>1
<1>2. CASE I # {}
  <2>1. SelectInSeq(results, HasReceiver) = Min(I)
    BY <1>2 DEF SelectInSeq
  <2>2. I \in SUBSET Nat
    OBVIOUS
  <2>3. \E n \in I : \A m \in I : n <= m
    BY <1>2, <2>2, Least
  <2> HIDE DEF I
  <2>4. Min(I) \in I /\ \A m \in I : Min(I) <= m
    BY <2>3 DEF Min
  <2> QED
    BY <2>1, <2>4 DEF I
<1> QED
  BY <1>1, <1>2

\* A result that was looked at is gone, the others are there.
LEMMA Advanced ==
    ASSUME NEW results, IsSeq(results), NEW k \in 1 .. Len(results), NEW x,
           x = SubSeq(results, 1, k - 1) \o SubSeq(results, k + 1, Len(results))
    PROVE  /\ IsSeq(x) /\ Len(x) = Len(results) - 1
           /\ \A i \in 1 .. Len(x) : x[i] = IF i < k THEN results[i] ELSE results[i + 1]
<1>1. PICK S : results \in Seq(S)
  BY DEF IsSeq
<1>2. PICK a, b : a = SubSeq(results, 1, k - 1) /\ b = SubSeq(results, k + 1, Len(results))
  OBVIOUS
<1>3. /\ a \in Seq(S) /\ Len(a) = k - 1
      /\ \A i \in 1 .. k - 1 : a[i] = results[i]
  BY <1>1, <1>2
<1>4. /\ b \in Seq(S) /\ Len(b) = Len(results) - k
      /\ \A i \in 1 .. Len(results) - k : b[i] = results[i + k]
  BY <1>1, <1>2
<1>5. x = a \o b
  BY <1>2
<1>6. /\ x \in Seq(S) /\ Len(x) = Len(results) - 1
      /\ \A i \in 1 .. Len(x) : x[i] = IF i < k THEN a[i] ELSE b[i - (k - 1)]
  <2>1. Len(a) + Len(b) = Len(results) - 1
    BY <1>1, <1>3, <1>4
  <2>2. \A i \in 1 .. Len(results) - 1 : i <= Len(a) <=> i < k
    BY <1>1, <1>3
  <2>3. /\ a \o b \in Seq(S) /\ Len(a \o b) = Len(a) + Len(b)
        /\ \A i \in 1 .. Len(a) + Len(b) :
             (a \o b)[i] = IF i <= Len(a) THEN a[i] ELSE b[i - Len(a)]
    BY <1>3, <1>4, ConcatProperties
  <2> QED
    BY <1>3, <1>5, <2>1, <2>2, <2>3
<1>7. \A i \in 1 .. Len(x) : x[i] = IF i < k THEN results[i] ELSE results[i + 1]
  <2> TAKE i \in 1 .. Len(x)
  <2>1. CASE i < k
    <3>1. i \in 1 .. k - 1
      BY <1>1, <1>6, <2>1
    <3> QED
      BY <1>3, <1>6, <2>1, <3>1
  <2>2. CASE ~(i < k)
    <3>1. i - (k - 1) \in 1 .. Len(results) - k
      BY <1>1, <1>6, <2>2
    <3>2. b[i - (k - 1)] = results[(i - (k - 1)) + k] /\ (i - (k - 1)) + k = i + 1
      BY <1>4, <3>1
    <3> QED
      BY <1>6, <2>2, <3>2
  <2> QED
    BY <2>1, <2>2
<1> QED
  BY <1>6, <1>7 DEF IsSeq

\* What a request is asked for.
SameQuery(r, n) ==
    n.in = r.in /\ n.type = r.type /\ n.rest = r.rest /\ n.obj = r.obj /\ n.config = r.config

LEMMA SameQueries ==
    ASSUME NEW r, NEW n, SameQuery(r, n)
    PROVE  DistributedQuery(n) <=> DistributedQuery(r)
BY DEF SameQuery, DistributedQuery

\* Nothing is left to send.
LEMMA Completes ==
    ASSUME NEW r, LifeOK(r), r.pc = "delegates", r.todo = << >>,
           \A i \in 1 .. Len(r.results) : ~HasReceiver(r.results[i]),
           NEW n, SameQuery(r, n), n.pc = "complete", n.results = r.results, n.todo = r.todo,
           n.accepted = r.accepted, n.ctx = r.ctx, n.error = r.error
    PROVE  LifeOK(n)
<1>1. n.config # None /\ Ok(n) => Whole(n)
  BY DEF LifeOK, Whole, Receiver, SameQuery, Ok
<1>2. ASSUME DistributedQuery(n), Ok(n)
      PROVE  n.accepted = AnswersToMerge /\ "ranklist" \in n.ctx
  <2>1. PICK k \in 0 .. 7 : Asked(r, k)
    BY <1>2, SameQueries DEF LifeOK, Merging, Ok
  <2>2. k = 7
    <3> SUFFICES ASSUME k \in 0 .. 6
                 PROVE  FALSE
      OBVIOUS
    <3>1. r.results = [i \in 1 .. (8 - k) |-> DistQueryEvalSchema.results[k + i]]
      BY <2>1 DEF Asked
    <3>2. 1 \in 1 .. (8 - k) /\ k + 1 \in 1 .. 7
      OBVIOUS
    <3>3. 1 \in 1 .. Len(r.results) /\ r.results[1] = DistQueryEvalSchema.results[k + 1]
      BY <3>1, <3>2
    <3> QED
      BY <3>2, <3>3, QueryResults
  <2>3. r.accepted + 0 = Due(7) /\ "ranklist" \in r.ctx /\ r.accepted \in Nat
    BY <2>1, <2>2, EmptyIsSeq DEF Asked
  <2> QED
    BY <2>3, SumsUp
<1> QED
  BY <1>1, <1>2 DEF LifeOK, Merging, Early

LEMMA DueNext ==
    ASSUME NEW k \in 0 .. 6
    PROVE  /\ Due(k) \in Nat
           /\ Due(k + 1) = Due(k) + (IF k + 1 \in {4, 7} THEN 1 ELSE Servers)
<1>1. Servers \in Nat
  BY ServerAssumption DEF ServerAssumption
<1> DEFINE d == << 0, Servers, 2 * Servers, 3 * Servers, 3 * Servers + 1, 4 * Servers + 1,
                   5 * Servers + 1, 5 * Servers + 2 >>
<1>2. /\ d[1] = 0 /\ d[2] = Servers /\ d[3] = 2 * Servers /\ d[4] = 3 * Servers
      /\ d[5] = 3 * Servers + 1 /\ d[6] = 4 * Servers + 1 /\ d[7] = 5 * Servers + 1
      /\ d[8] = 5 * Servers + 2
  OBVIOUS
<1>3. Due(k) = d[k + 1] /\ Due(k + 1) = d[(k + 1) + 1]
  BY DEF Due
<1>4. k = 0 \/ k = 1 \/ k = 2 \/ k = 3 \/ k = 4 \/ k = 5 \/ k = 6
  OBVIOUS
<1> HIDE DEF d
<1> QED
  BY <1>1, <1>2, <1>3, <1>4

\* The requests of the next result are sent.
LEMMA Sends ==
    ASSUME NEW r, LifeOK(r), r.pc = "delegates", r.todo = << >>,
           NEW next \in 1 .. Len(r.results), HasReceiver(r.results[next]),
           \A i \in 1 .. Len(r.results) : HasReceiver(r.results[i]) => next <= i,
           NEW x, IsSeq(x), Len(x) = Len(r.results) - 1,
           \A i \in 1 .. Len(x) : x[i] = IF i < next THEN r.results[i] ELSE r.results[i + 1],
           NEW t, IsSeq(t), Len(t) = IF r.results[next].servers = ToSelf THEN 1 ELSE Servers,
           \A i \in 1 .. Len(t) : t[i] = r.results[next],
           NEW n, SameQuery(r, n), n.pc = "delegates", n.results = x, n.todo = t,
           n.accepted = r.accepted, n.ctx = r.ctx, n.error = r.error
    PROVE  LifeOK(n) /\ Closer(r, n)
<1>1. Len(r.results) \in Nat /\ Len(x) \in Nat /\ Len(t) \in Nat
  BY DEF LifeOK, IsSeq
<1>2. Servers \in Nat \ {0}
  BY ServerAssumption DEF ServerAssumption
<1>3. \A i \in 1 .. Len(x) : \E j \in 1 .. Len(r.results) : x[i] = r.results[j]
  <2> TAKE i \in 1 .. Len(x)
  <2>1. i \in 1 .. Len(r.results) /\ i + 1 \in 1 .. Len(r.results)
    BY <1>1
  <2> QED
    BY <2>1
<1>4. ASSUME n.config # None, Ok(n)
      PROVE  Whole(n)
  <2>1. Whole(r)
    BY <1>4 DEF LifeOK, SameQuery, Ok
  <2>2. \A i \in 1 .. Len(x) : HasReceiver(x[i]) => HasSchema(Receiver(r, x[i]))
    BY <1>3, <2>1 DEF Whole
  <2>3. \A i \in 1 .. Len(t) : HasSchema(Receiver(r, t[i]))
    BY <2>1 DEF Whole
  <2> QED
    BY <2>1, <2>2, <2>3 DEF Whole, Receiver, SameQuery
<1>5. ASSUME DistributedQuery(n), Ok(n)
      PROVE  \E k \in 0 .. 7 : Asked(n, k)
  <2> DEFINE D == DistQueryEvalSchema.results
  <2>1. PICK k \in 0 .. 7 : Asked(r, k)
    BY <1>5, SameQueries DEF LifeOK, Merging, Ok
  <2>2. r.results = [i \in 1 .. (8 - k) |-> D[k + i]] /\ r.accepted \in Nat /\ r.accepted = Due(k)
    <3>1. r.accepted \in Nat /\ r.accepted + 0 = Due(k)
      BY <2>1, EmptyIsSeq DEF Asked
    <3> QED
      BY <2>1, <3>1 DEF Asked
  <2> HIDE DEF D
  <2>3. Len(r.results) = 8 - k /\ \A i \in 1 .. (8 - k) : r.results[i] = D[k + i]
    BY <2>2
  <2>4. k # 7
    <3> SUFFICES ASSUME k = 7
                 PROVE  FALSE
      OBVIOUS
    <3>1. next = 1 /\ r.results[next] = D[8]
      BY <2>3
    <3> QED
      BY <3>1, QueryResults DEF D
  <2>5. next = 1 /\ r.results[1] = D[k + 1] /\ k \in 0 .. 6
    <3>1. 1 \in 1 .. Len(r.results) /\ r.results[1] = D[k + 1] /\ k + 1 \in 1 .. 7
      BY <2>3, <2>4
    <3>2. HasReceiver(r.results[1])
      BY <3>1, QueryResults DEF D
    <3> QED
      BY <2>4, <3>1, <3>2
  <2>6. n.results = [i \in 1 .. (8 - (k + 1)) |-> D[(k + 1) + i]]
    <3>1. x = [i \in 1 .. Len(x) |-> x[i]]
      BY DEF IsSeq
    <3>2. Len(x) = 8 - (k + 1)
      BY <2>3
    <3>3. \A i \in 1 .. Len(x) : x[i] = D[(k + 1) + i]
      <4> TAKE i \in 1 .. Len(x)
      <4>1. i + 1 \in 1 .. (8 - k) /\ k + (i + 1) = (k + 1) + i /\ ~(i < next)
        BY <2>5, <3>2
      <4> QED
        BY <2>3, <4>1
    <3> QED
      BY <3>1, <3>2, <3>3
  <2>7. \A i \in 1 .. Len(t) : t[i] = D[k + 1]
    BY <2>5
  <2>8. n.accepted + Len(t) = Due(k + 1)
    <3>1. D[k + 1].servers = ToSelf <=> k + 1 \in {4, 7}
      BY <2>5, QueryResults DEF D
    <3>2. Len(t) = IF k + 1 \in {4, 7} THEN 1 ELSE Servers
      BY <2>5, <3>1
    <3>3. Due(k + 1) = Due(k) + (IF k + 1 \in {4, 7} THEN 1 ELSE Servers) /\ Due(k) \in Nat
      BY <2>5, DueNext
    <3>4. n.accepted = Due(k)
      BY <2>2
    <3> QED
      BY <3>2, <3>3, <3>4
  <2>9. t # << >>
    BY <1>2, EmptyIsSeq
  <2>10. Asked(n, k + 1)
    BY <2>2, <2>6, <2>7, <2>8, <2>9 DEF Asked, D
  <2> QED
    BY <2>5, <2>10
<1>6. LifeOK(n)
  BY <1>4, <1>5 DEF LifeOK, Merging, Early
<1>7. Closer(r, n)
  <2>1. PICK l \in Nat : l = Len(x)
    BY <1>1
  <2>2. Len(r.results) = l + 1 /\ Len(t) < Servers + 1
    BY <1>1, <1>2, <2>1
  <2>3. (l + 1) * (Servers + 1) = l * (Servers + 1) + (Servers + 1)
    BY <1>2
  <2>4. l * (Servers + 1) \in Nat
    BY <1>2
  <2>5. ToSend(r) = l * (Servers + 1) + (Servers + 1)
    <3>1. ToSend(r) = (l + 1) * (Servers + 1) + 0
      BY <2>2, EmptyIsSeq DEF ToSend
    <3> HIDE DEF ToSend
    <3> QED
      BY <1>2, <2>3, <2>4, <3>1
  <2>6. ToSend(n) = l * (Servers + 1) + Len(t)
    BY <2>1 DEF ToSend
  <2>7. ToSend(r) \in Nat /\ ToSend(n) \in Nat /\ ToSend(n) < ToSend(r)
    <3>1. PICK a \in Nat : a = l * (Servers + 1)
      BY <2>4
    <3>2. Servers \in Nat /\ Len(t) \in Nat /\ Len(t) < Servers + 1
      BY <1>1, <1>2, <2>2
    <3>3. ToSend(r) = a + (Servers + 1) /\ ToSend(n) = a + Len(t)
      BY <2>5, <2>6, <3>1
    <3> QED
      BY <3>2, <3>3
  <2> QED
    BY <2>7 DEF Closer
<1> QED
  BY <1>6, <1>7

\* A step of a request leaves it closer to its answer, with what its next steps rely on.
Passes(s) ==
    /\ \E n : Becomes(s, n) /\ LifeOK(n) /\ Closer(q[s], n)
    /\ ContextsWhole => ContextsWhole'

LEMMA KeptWhole == ASSUME ContextsKept, ContextsWhole PROVE ContextsWhole'
BY DEF ContextsKept, ContextsWhole

LEMMA GoesPasses ==
    ASSUME NEW s \in Slots, LifeOK(q[s]), Goes(s)
    PROVE  Passes(s)
<1>1. PICK n : Becomes(s, n) /\ Moves(q[s], n)
  BY DEF Goes
<1>2. LifeOK(n) /\ Closer(q[s], n)
  BY <1>1, MovesLives
<1>3. ContextsWhole => ContextsWhole'
  BY KeptWhole DEF Goes
<1> QED
  BY <1>1, <1>2, <1>3 DEF Passes

LEMMA GetDelegateRequestsPasses ==
    ASSUME RequestInv, NEW s \in Slots, LifeOK(q[s]), GetDelegateRequests(s)
    PROVE  Passes(s)
<1> DEFINE r == q[s]
           next == SelectInSeq(r.results, HasReceiver)
           d == r.results[next]
           x == SubSeq(r.results, 1, next - 1) \o SubSeq(r.results, next + 1, Len(r.results))
<1>1. /\ IsRequest(r) /\ r.pc = "delegates" /\ r.todo = << >> /\ UNCHANGED contexts
      /\ Becomes(s, IF next = 0 THEN [r EXCEPT !.pc = "complete"]
                    ELSE IF d.servers = ToSelf THEN [Advance(r, next) EXCEPT !.todo = <<d>>]
                    ELSE IF d.servers \in r.ctx THEN [Advance(r, next) EXCEPT !.todo = [i \in 1..Servers |-> d]]
                    ELSE Shrug([r EXCEPT !.error = "NotFound", !.http = HttpStatus("NotFound")]))
  BY DEF GetDelegateRequests, At, Only, RequestInv, RequestOK
<1>2. ContextsWhole => ContextsWhole'
  BY <1>1 DEF ContextsWhole
<1>3. IsSeq(r.results) /\ Len(r.results) \in Nat
  BY <1>1 DEF LifeOK, IsSeq
<1>4. CASE next = 0
  <2>1. PICK n : n = [r EXCEPT !.pc = "complete"]
    OBVIOUS
  <2>2. /\ SameQuery(r, n) /\ n.pc = "complete" /\ n.results = r.results /\ n.todo = r.todo
        /\ n.accepted = r.accepted /\ n.ctx = r.ctx /\ n.error = r.error
    BY <1>1, <2>1 DEF SameQuery, IsRequest
  <2>3. \A i \in 1 .. Len(r.results) : ~HasReceiver(r.results[i])
    BY <1>3, <1>4, NextResult
  <2>4. LifeOK(n)
    BY <1>1, <2>2, <2>3, Completes
  <2>5. Closer(r, n)
    BY <1>1, <2>2 DEF Closer, Stage
  <2>6. Becomes(s, n)
    BY <1>1, <1>4, <2>1
  <2> QED
    BY <1>2, <2>4, <2>5, <2>6 DEF Passes
<1>5. CASE next # 0
  <2> HIDE DEF next
  <2>1. /\ next \in 1 .. Len(r.results) /\ HasReceiver(r.results[next])
        /\ \A i \in 1 .. Len(r.results) : HasReceiver(r.results[i]) => next <= i
    BY <1>3, <1>5, NextResult DEF next
  <2>2. /\ IsSeq(x) /\ Len(x) = Len(r.results) - 1
        /\ \A i \in 1 .. Len(x) : x[i] = IF i < next THEN r.results[i] ELSE r.results[i + 1]
    BY <1>3, <2>1, Advanced
  <2> HIDE DEF x
  <2>3. Advance(r, next) = [r EXCEPT !.results = x]
    BY DEF Advance, x
  <2>4. ASSUME NEW t, IsSeq(t), Len(t) = IF d.servers = ToSelf THEN 1 ELSE Servers,
               \A i \in 1 .. Len(t) : t[i] = d, Becomes(s, [Advance(r, next) EXCEPT !.todo = t])
        PROVE  Passes(s)
    <3>1. PICK n : n = [[r EXCEPT !.results = x] EXCEPT !.todo = t]
      OBVIOUS
    <3>2. /\ SameQuery(r, n) /\ n.pc = "delegates" /\ n.results = x /\ n.todo = t
          /\ n.accepted = r.accepted /\ n.ctx = r.ctx /\ n.error = r.error
      BY <1>1, <3>1 DEF SameQuery, IsRequest
    <3>3. LifeOK(n) /\ Closer(r, n)
      BY <1>1, <2>1, <2>2, <2>4, <3>2, Sends
    <3>4. Becomes(s, n)
      BY <2>3, <2>4, <3>1
    <3> QED
      BY <1>2, <3>3, <3>4 DEF Passes
  <2>5. CASE d.servers = ToSelf
    <3>1. IsSeq(<<d>>)
      BY ShortSequences
    <3>2. Len(<<d>>) = 1 /\ \A i \in 1 .. Len(<<d>>) : <<d>>[i] = d
      OBVIOUS
    <3>3. Becomes(s, [Advance(r, next) EXCEPT !.todo = <<d>>])
      BY <1>1, <1>5, <2>5
    <3> QED
      BY <2>4, <2>5, <3>1, <3>2, <3>3
  <2>6. CASE d.servers # ToSelf /\ d.servers \in r.ctx
    <3> DEFINE t == [i \in 1 .. Servers |-> d]
    <3>3. Servers \in Nat
      BY ServerAssumption DEF ServerAssumption
    <3>4. t \in [1 .. Servers -> {d}]
      OBVIOUS
    <3>5. \A i \in 1 .. Servers : t[i] = d
      OBVIOUS
    <3>1. t \in Seq({d}) /\ Len(t) = Servers /\ \A i \in 1 .. Len(t) : t[i] = d
      <4> HIDE DEF t, d
      <4> QED
        BY <3>3, <3>4, <3>5
    <3>2. Becomes(s, [Advance(r, next) EXCEPT !.todo = t])
      BY <1>1, <1>5, <2>6
    <3> QED
      BY <2>4, <2>6, <3>1, <3>2 DEF IsSeq
  <2>7. CASE d.servers # ToSelf /\ d.servers \notin r.ctx
    <3>1. PICK http : http = HttpStatus("NotFound")
      OBVIOUS
    <3>2. PICK n : n = Shrug([r EXCEPT !.error = "NotFound", !.http = http])
      OBVIOUS
    <3>3. n.pc = "complete" /\ ~Ok(n)
      BY <1>1, <3>2 DEF Shrug, IsRequest, Ok, None
    <3>4. LifeOK(n)
      BY <3>3 DEF LifeOK, Merging, Early
    <3>5. Closer(r, n)
      BY <1>1, <3>3 DEF Closer, Stage
    <3>6. Becomes(s, n)
      BY <1>1, <1>5, <2>7, <3>1, <3>2
    <3> QED
      BY <1>2, <3>4, <3>5, <3>6 DEF Passes
  <2> QED
    BY <2>5, <2>6, <2>7
<1> QED
  BY <1>4, <1>5

-----------------------------------------------------------------------------

LEMMA Tails ==
    ASSUME NEW todo, IsSeq(todo), todo # << >>
    PROVE  /\ IsSeq(Tail(todo)) /\ Len(todo) \in Nat \ {0} /\ Len(Tail(todo)) = Len(todo) - 1
           /\ \A i \in 1 .. Len(Tail(todo)) : Tail(todo)[i] = todo[i + 1]
           /\ 1 \in 1 .. Len(todo) /\ Head(todo) = todo[1]
<1>1. PICK S : todo \in Seq(S)
  BY DEF IsSeq
<1>2. /\ Tail(todo) \in Seq(S) /\ Len(todo) \in Nat \ {0} /\ Len(Tail(todo)) = Len(todo) - 1
      /\ \A i \in 1 .. Len(Tail(todo)) : Tail(todo)[i] = todo[i + 1]
      /\ Head(todo) = todo[1]
  BY <1>1
<1> QED
  BY <1>2 DEF IsSeq

\* The answer of a delegate request is taken, or the request fails.
Taken(r, n) ==
    /\ SameQuery(r, n) /\ n.results = r.results /\ n.todo = Tail(r.todo)
    /\ n.pc \in {"delegates", "answered"} /\ (n.pc = "answered" => ~Ok(n))
    /\ Ok(n) => /\ Ok(r) /\ n.accepted = r.accepted + 1
                /\ r.config # None => r.ctx \subseteq n.ctx
                /\ DistributedQuery(r) /\ Head(r.todo) = DistQueryEvalSchema.results[7] =>
                     "ranklist" \in n.ctx

LEMMA Takes ==
    ASSUME NEW r, LifeOK(r), r.pc = "delegates", r.todo # << >>,
           NEW n, Taken(r, n)
    PROVE  LifeOK(n) /\ Closer(r, n)
<1> USE DEF Taken
<1>1. IsSeq(r.todo) /\ IsSeq(r.results)
  BY DEF LifeOK
<1>2. /\ IsSeq(n.todo) /\ Len(r.todo) \in Nat \ {0} /\ Len(n.todo) = Len(r.todo) - 1
      /\ \A i \in 1 .. Len(n.todo) : n.todo[i] = r.todo[i + 1]
      /\ 1 \in 1 .. Len(r.todo) /\ Head(r.todo) = r.todo[1]
  BY <1>1, Tails
<1>3. \A i \in 1 .. Len(n.todo) : i + 1 \in 1 .. Len(r.todo)
  BY <1>2
<1>4. ASSUME n.config # None, Ok(n)
      PROVE  Whole(n)
  <2>1. Whole(r) /\ r.ctx \subseteq n.ctx
    BY <1>4 DEF LifeOK, SameQuery
  <2> QED
    BY <1>2, <1>3, <2>1 DEF Whole, Receiver, SameQuery
<1>5. ASSUME DistributedQuery(n), Ok(n)
      PROVE  \E k \in 0 .. 7 : Asked(n, k)
  <2>1. PICK k \in 0 .. 7 : Asked(r, k)
    BY <1>5, SameQueries DEF LifeOK, Merging, Ok
  <2>2. \A i \in 1 .. Len(n.todo) : n.todo[i] = DistQueryEvalSchema.results[k]
    BY <1>2, <1>3, <2>1 DEF Asked
  <2>3. n.accepted \in Nat /\ n.accepted + Len(n.todo) = Due(k)
    <3>1. r.accepted \in Nat /\ r.accepted + Len(r.todo) = Due(k) /\ n.accepted = r.accepted + 1
      BY <1>5, <2>1 DEF Asked
    <3> QED
      BY <1>2, <3>1
  <2>4. k = 7 => "ranklist" \in n.ctx
    BY <1>2, <1>5, <2>1, SameQueries DEF Asked
  <2>5. Asked(n, k)
    BY <2>1, <2>2, <2>3, <2>4 DEF Asked
  <2> QED
    BY <2>5
<1>6. LifeOK(n)
  BY <1>1, <1>2, <1>4, <1>5 DEF LifeOK, Merging, Early
<1>7. Closer(r, n)
  <2>1. CASE n.pc = "answered"
    BY <2>1 DEF Closer, Stage
  <2>2. CASE n.pc = "delegates"
    <3>1. Servers \in Nat
      BY ServerAssumption DEF ServerAssumption
    <3>5. PICK l \in Nat : l = Len(r.results)
      BY <1>1 DEF IsSeq
    <3>6. l * (Servers + 1) \in Nat
      BY <3>1
    <3>2. PICK a \in Nat : a = Len(r.results) * (Servers + 1)
      BY <3>5, <3>6
    <3>3. ToSend(r) = a + Len(r.todo) /\ ToSend(n) = a + Len(n.todo)
      BY <3>2 DEF ToSend
    <3>4. ToSend(r) \in Nat /\ ToSend(n) \in Nat /\ ToSend(n) < ToSend(r)
      BY <1>2, <3>3
    <3> QED
      BY <2>2, <3>4 DEF Closer
  <2> QED
    BY <2>1, <2>2
<1> QED
  BY <1>6, <1>7

\* The receiver that merges the ranklists makes one.
LEMMA MergesRanklists ==
    LET id == <<"distqryeval", "END~ranklist", "">> IN
    HasSchema(id) /\ Makes(SchemaOf[id].calls, "ranklist")
<1> DEFINE id == <<"distqryeval", "END~ranklist", "">>
           m == Receive("distqryeval", "END~ranklist", MergeQueryResults)
<1>1. m \in Schemas /\ m.id = id
  BY DEF Receive, Schema, Schemas, DistQueryEvalReceivers
<1> HIDE DEF m
<1>2. HasSchema(id)
  BY <1>1 DEF HasSchema, SchemaOf
<1>3. SchemaOf[id].calls = MergeQueryResults
  BY <1>2, Found DEF QueryFacts
<1>4. Makes(MergeQueryResults, "ranklist")
  <2>1. "ranklist" # Void
    BY DEF Void
  <2> QED
    BY <2>1, OneResult DEF MergeQueryResults, Part
<1> QED
  BY <1>2, <1>3, <1>4

LEMMA RefusedNot ==
    ASSUME NEW r, IsRequest(r), NEW e, e # None
    PROVE  /\ ~Ok(Refuse(r, e)) /\ SameQuery(r, Refuse(r, e)) /\ Refuse(r, e).results = r.results
           /\ Refuse(r, e).todo = r.todo /\ Refuse(r, e).pc = r.pc /\ IsRequest(Refuse(r, e))
<1>1. PICK http : http = HttpStatus(e)
  OBVIOUS
<1>2. Refuse(r, e) = IF Ok(r) THEN [r EXCEPT !.error = e, !.http = http, !.content = FALSE] ELSE r
  BY <1>1 DEF Refuse
<1> QED
  BY <1>2 DEF IsRequest, Ok, SameQuery

LEMMA PutDelegateAnswerPasses ==
    ASSUME RequestInv, NEW s \in Slots, LifeOK(q[s]), PutDelegateAnswer(s)
    PROVE  Passes(s)
<1> DEFINE r == q[s]
           d == Head(r.todo)
           schema == SchemaOf[Receiver(r, d)]
           run == ExecuteCalls(schema.calls, ElementsOf(schema.calls), r.ctx, r.type)
<1>1. IsRequest(r) /\ r.pc = "delegates" /\ r.todo # << >> /\ UNCHANGED contexts
  BY DEF PutDelegateAnswer, At, Only, RequestInv, RequestOK
<1>2. PICK next : next = [r EXCEPT !.todo = Tail(@)]
  OBVIOUS
<1>3. PICK taken : taken = [next EXCEPT !.accepted = @ + 1]
  OBVIOUS
<1>4. /\ IsRequest(next) /\ SameQuery(r, next) /\ next.results = r.results /\ next.todo = Tail(r.todo)
      /\ next.pc = "delegates" /\ next.accepted = r.accepted /\ next.ctx = r.ctx /\ next.error = r.error
  BY <1>1, <1>2 DEF IsRequest, SameQuery
<1>5. /\ IsRequest(taken) /\ SameQuery(r, taken) /\ taken.results = r.results /\ taken.todo = Tail(r.todo)
      /\ taken.pc = "delegates" /\ taken.accepted = r.accepted + 1 /\ taken.ctx = r.ctx
      /\ taken.error = r.error
  BY <1>3, <1>4 DEF IsRequest, SameQuery
<1>6. ASSUME NEW n, Becomes(s, n), Taken(r, n)
      PROVE  Passes(s)
  <2>1. LifeOK(n) /\ Closer(r, n)
    BY <1>1, <1>6, Takes
  <2>2. ContextsWhole => ContextsWhole'
    BY <1>1 DEF ContextsWhole
  <2> QED
    BY <1>6, <2>1, <2>2 DEF Passes
<1>7. CASE ~Ok(r) /\ Becomes(s, next)
  <2>1. Taken(r, next)
    BY <1>4, <1>7 DEF Taken, Ok
  <2> QED
    BY <1>6, <1>7, <2>1
<1>8. ASSUME NEW e, e # None, NEW n, n = Refuse(next, e) \/ n = [Refuse(next, e) EXCEPT !.pc = "answered"],
             Becomes(s, n)
      PROVE  Passes(s)
  <2>1. PICK m : m = Refuse(next, e)
    OBVIOUS
  <2>2. /\ ~Ok(m) /\ SameQuery(next, m) /\ m.results = r.results /\ m.todo = Tail(r.todo)
        /\ m.pc = "delegates" /\ IsRequest(m)
    BY <1>4, <1>8, <2>1, RefusedNot
  <2>3. /\ ~Ok(n) /\ SameQuery(m, n) /\ n.results = r.results /\ n.todo = Tail(r.todo)
        /\ n.pc \in {"delegates", "answered"}
    <3>1. n = m \/ n = [m EXCEPT !.pc = "answered"]
      BY <1>8, <2>1
    <3> QED
      BY <2>2, <3>1 DEF IsRequest, SameQuery, Ok
  <2>4. SameQuery(r, n)
    BY <1>4, <2>2, <2>3 DEF SameQuery
  <2>5. Taken(r, n)
    BY <2>3, <2>4 DEF Taken
  <2> QED
    BY <1>6, <1>8, <2>5
<1>9. CASE Ok(r) /\ d.servers # ToSelf /\ Becomes(s, taken)
  <2>1. d # DistQueryEvalSchema.results[7]
    <3>1. DistQueryEvalSchema.results[7].servers = ToSelf
      BY QueryResults
    <3> QED
      BY <1>9, <3>1
  <2>2. Taken(r, taken)
    BY <1>5, <1>9, <2>1 DEF Taken
  <2> QED
    BY <1>6, <1>9, <2>2
<1>10. CASE Ok(r) /\ run.ok /\ Becomes(s, [taken EXCEPT !.ctx = run.vars])
  <2>1. HasSchema(Receiver(r, d)) => /\ r.ctx \subseteq run.vars
                                     /\ \A v : Makes(schema.calls, v) => v \in run.vars
    <3> SUFFICES ASSUME HasSchema(Receiver(r, d))
                 PROVE  /\ r.ctx \subseteq run.vars
                        /\ \A v : Makes(schema.calls, v) => v \in run.vars
      OBVIOUS
    <3>1. IsSeq(schema.calls)
      BY Found DEF SchemaFacts
    <3> QED
      BY <1>10, <3>1, CallsExecuted
  <2>2. r.config # None => r.ctx \subseteq run.vars
    <3> SUFFICES ASSUME r.config # None
                 PROVE  HasSchema(Receiver(r, d))
      BY <2>1
    <3>1. Whole(r)
      BY <1>1, <1>10 DEF LifeOK
    <3>2. 1 \in 1 .. Len(r.todo) /\ d = r.todo[1]
      BY <1>1, Tails DEF LifeOK
    <3> QED
      BY <3>1, <3>2 DEF Whole
  <2>3. DistributedQuery(r) /\ d = DistQueryEvalSchema.results[7] => "ranklist" \in run.vars
    <3> SUFFICES ASSUME DistributedQuery(r), d = DistQueryEvalSchema.results[7]
                 PROVE  "ranklist" \in run.vars
      OBVIOUS
    <3>1. Receiver(r, d) = <<"distqryeval", "END~ranklist", "">>
      BY QueryResults DEF Receiver, DistributedQuery
    <3> QED
      BY <2>1, <3>1, MergesRanklists
  <2> HIDE DEF run
  <2>4. PICK n : n = [taken EXCEPT !.ctx = run.vars]
    OBVIOUS
  <2>5. /\ SameQuery(taken, n) /\ n.results = r.results /\ n.todo = Tail(r.todo) /\ n.pc = "delegates"
        /\ n.accepted = r.accepted + 1 /\ n.ctx = run.vars
    BY <1>5, <2>4 DEF IsRequest, SameQuery
  <2>6. SameQuery(r, n)
    BY <1>5, <2>5 DEF SameQuery
  <2>7. Taken(r, n)
    BY <1>10, <2>2, <2>3, <2>5, <2>6 DEF Taken
  <2>8. Becomes(s, n)
    BY <1>10, <2>4
  <2> QED
    BY <1>6, <2>7, <2>8
<1> QED
  <2>1. \/ ~Ok(r) /\ Becomes(s, next)
        \/ Becomes(s, Refuse(next, "DelegateRequestFailed"))
        \/ Ok(r) /\ d.servers # ToSelf /\ Becomes(s, taken)
        \/ Becomes(s, [Refuse(next, "RuntimeError") EXCEPT !.pc = "answered"])
        \/ Becomes(s, Refuse(next, "RuntimeError"))
        \/ Ok(r) /\ run.ok /\ Becomes(s, [taken EXCEPT !.ctx = run.vars])
    <3> HIDE DEF run
    <3> QED
      BY <1>2, <1>3 DEF PutDelegateAnswer, Only, run
  <2>2. "DelegateRequestFailed" # None /\ "RuntimeError" # None
    BY DEF None
  <2> QED
    BY <1>7, <1>8, <1>9, <1>10, <2>1, <2>2

-----------------------------------------------------------------------------
(* Completion and answer                                                   *)

LEMMA CompletePasses ==
    ASSUME RequestInv, NEW s \in Slots, LifeOK(q[s]), Complete(s)
    PROVE  Passes(s)
<1> DEFINE r == q[s]
           c == <<r.type, r.name>>
<1>1. IsRequest(r) /\ r.pc = "complete"
  BY DEF Complete, At, RequestInv, RequestOK
<1>2. PICK answered : answered = [r EXCEPT !.pc = "answered", !.tid = None]
  OBVIOUS
<1>3. /\ IsRequest(answered) /\ SameQuery(r, answered) /\ answered.pc = "answered"
      /\ answered.accepted = r.accepted /\ answered.ctx = r.ctx /\ answered.error = r.error
  BY <1>1, <1>2 DEF IsRequest, SameQuery
<1>4. \/ ~Ok(r) /\ Becomes(s, answered) /\ UNCHANGED contexts
      \/ \E e : e # None /\ Becomes(s, Refuse(answered, e)) /\ UNCHANGED contexts
      \/ /\ Ok(r) /\ \E result : Becomes(s, [answered EXCEPT !.content = @ \/ result])
         /\ \/ UNCHANGED contexts
            \/ /\ r.config # None
               /\ contexts' = [k \in DOMAIN contexts \cup {c} |-> IF k = c THEN r.ctx ELSE contexts[k]]
  <2>1. "Syntax" # None /\ "LogicError" # None
    BY DEF None
  <2>2. "Syntax" # None /\ "LogicError" # None => \A b \in BOOLEAN : (IF b THEN "Syntax" ELSE "LogicError") # None
    OBVIOUS
  <2>3. PICK result : result = (r.results # << >> /\ r.ctx # NoContext)
    OBVIOUS
  <2>4. PICK error : error = IF result /\ r.content THEN "Syntax" ELSE "LogicError"
    OBVIOUS
  <2>5. error # None
    BY <2>1, <2>4
  <2>6. \/ ~Ok(r) /\ Becomes(s, answered) /\ UNCHANGED contexts
        \/ Becomes(s, Refuse(answered, error)) /\ UNCHANGED contexts
        \/ /\ Ok(r) /\ Becomes(s, [answered EXCEPT !.content = @ \/ result])
           /\ IF r.config = None THEN UNCHANGED contexts
              ELSE contexts' = [k \in DOMAIN contexts \cup {c} |-> IF k = c THEN r.ctx ELSE contexts[k]]
    BY <1>2, <2>3, <2>4 DEF Complete, CompletesWell
  <2> QED
    BY <2>5, <2>6
<1>5. ASSUME NEW n, n.pc = "answered",
             DistributedQuery(n) /\ Ok(n) => n.accepted = AnswersToMerge /\ "ranklist" \in n.ctx
      PROVE  LifeOK(n) /\ Closer(r, n)
  <2>1. LifeOK(n)
    BY <1>5 DEF LifeOK, Merging, Early
  <2>2. Closer(r, n)
    BY <1>1, <1>5 DEF Closer, Stage
  <2> QED
    BY <2>1, <2>2
<1>6. UNCHANGED contexts => (ContextsWhole => ContextsWhole')
  BY DEF ContextsWhole
<1>7. CASE ~Ok(r) /\ Becomes(s, answered) /\ UNCHANGED contexts
  <2>1. ~Ok(answered)
    BY <1>3, <1>7 DEF Ok
  <2>2. LifeOK(answered) /\ Closer(r, answered)
    BY <1>3, <1>5, <2>1
  <2> QED
    BY <1>6, <1>7, <2>2 DEF Passes
<1>8. CASE \E e : e # None /\ Becomes(s, Refuse(answered, e)) /\ UNCHANGED contexts
  <2>1. PICK e : e # None /\ Becomes(s, Refuse(answered, e)) /\ UNCHANGED contexts
    BY <1>8
  <2>2. PICK n : n = Refuse(answered, e)
    OBVIOUS
  <2>3. ~Ok(n) /\ n.pc = "answered"
    BY <1>3, <2>1, <2>2, RefusedNot
  <2>4. LifeOK(n) /\ Closer(r, n)
    BY <1>5, <2>3
  <2> QED
    BY <1>6, <2>1, <2>2, <2>4 DEF Passes
<1>9. CASE /\ Ok(r) /\ \E result : Becomes(s, [answered EXCEPT !.content = @ \/ result])
           /\ \/ UNCHANGED contexts
              \/ /\ r.config # None
                 /\ contexts' = [k \in DOMAIN contexts \cup {c} |-> IF k = c THEN r.ctx ELSE contexts[k]]
  <2>1. PICK result : Becomes(s, [answered EXCEPT !.content = @ \/ result])
    BY <1>9
  <2>2. PICK n : n = [answered EXCEPT !.content = @ \/ result]
    OBVIOUS
  <2>3. SameQuery(answered, n) /\ n.pc = "answered" /\ n.accepted = r.accepted /\ n.ctx = r.ctx
        /\ n.error = r.error
    BY <1>3, <2>2 DEF IsRequest, SameQuery
  <2>4. SameQuery(r, n)
    BY <1>3, <2>3 DEF SameQuery
  <2>5. DistributedQuery(n) /\ Ok(n) => n.accepted = AnswersToMerge /\ "ranklist" \in n.ctx
    BY <1>1, <1>9, <2>3, <2>4, SameQueries DEF LifeOK, Merging, Ok
  <2>6. LifeOK(n) /\ Closer(r, n)
    BY <1>5, <2>3, <2>5
  <2>7. ContextsWhole => ContextsWhole'
    <3>1. CASE UNCHANGED contexts
      BY <1>6, <3>1
    <3>2. CASE /\ r.config # None
               /\ contexts' = [k \in DOMAIN contexts \cup {c} |-> IF k = c THEN r.ctx ELSE contexts[k]]
      <4>1. ConfigVars(r.type) \subseteq r.ctx /\ c[1] = r.type
        BY <1>1, <1>9, <3>2 DEF LifeOK, Whole
      <4> QED
        BY <3>2, <4>1 DEF ContextsWhole
    <3> QED
      BY <1>9, <3>1, <3>2
  <2> QED
    BY <2>1, <2>2, <2>6, <2>7 DEF Passes
<1> QED
  BY <1>4, <1>7, <1>8, <1>9

LEMMA AnswerPasses ==
    ASSUME NEW s \in Slots, Answer_(s)
    PROVE  Passes(s)
<1>1. Idle.pc = "idle"
  BY DEF Idle, NewContext
<1>2. LifeOK(Idle)
  BY <1>1 DEF LifeOK, Merging, Early
<1>3. Closer(q[s], Idle)
  BY <1>1 DEF Answer_, At, Closer, Stage
<1>4. Becomes(s, Idle) /\ (ContextsWhole => ContextsWhole')
  BY DEF Answer_, ContextsWhole
<1> QED
  BY <1>2, <1>3, <1>4 DEF Passes

LEMMA StepPasses ==
    ASSUME RequestInv, NEW s \in Slots, LifeOK(q[s]), Step(s)
    PROVE  Passes(s)
<1>1. CASE GetDelegateRequests(s) \/ PutDelegateAnswer(s) \/ Complete(s) \/ Answer_(s)
  BY <1>1, GetDelegateRequestsPasses, PutDelegateAnswerPasses, CompletePasses, AnswerPasses
<1>2. CASE InitContentType(s) \/ DescribeSchema(s) \/ FetchTransaction(s) \/ FetchWithoutId(s) \/
        InheritContext(s) \/ Options(s) \/ CommitTransaction(s) \/ ConfigureWithoutContent(s) \/
        Patch(s) \/ PutConfiguration(s) \/ PostConfiguration(s) \/ UpdateConfiguration(s) \/
        RetryUpdate(s) \/ DeleteTransaction(s) \/ RemoveConfiguration(s) \/ DeleteStored(s) \/
        DeleteWithContent(s) \/ ListContexts(s) \/ PostTransaction(s) \/ CallMethod(s) \/
        MapValue(s) \/ ExecuteSchema(s) \/ ListVariables(s)
  <2>1. Goes(s)
    BY <1>2, ServerAssumption,
     InitContentTypeGoes, DescribeSchemaGoes, FetchTransactionGoes, FetchWithoutIdGoes,
     InheritContextGoes, OptionsGoes, CommitTransactionGoes, ConfigureWithoutContentGoes,
     PatchGoes, PutConfigurationGoes, PostConfigurationGoes, UpdateConfigurationGoes,
     RetryUpdateGoes, DeleteTransactionGoes, RemoveConfigurationGoes, DeleteStoredGoes,
     DeleteWithContentGoes, ListContextsGoes, PostTransactionGoes, CallMethodGoes,
     MapValueGoes, ExecuteSchemaGoes, ListVariablesGoes
  <2> QED
    BY <2>1, GoesPasses
<1> QED
  BY <1>1, <1>2 DEF Step

LEMMA ArriveLives ==
    ASSUME RequestInv, NEW s \in Slots, Arrive(s)
    PROVE  At(s, "idle") /\ UNCHANGED contexts /\ \E n : Becomes(s, n) /\ LifeOK(n)
<1>1. PICK in \in Inputs : At(s, "idle") /\ Only(s, NewContext(in))
  BY DEF Arrive, Create_
<1>2. PICK n : n = NewContext(in)
  OBVIOUS
<1>3. /\ n.pc = "type" /\ n.in = in /\ n.type = None /\ n.todo = << >> /\ n.results = << >>
      /\ n.accepted = 0 /\ n.config = None
  BY <1>2 DEF NewContext
<1>4. LifeOK(n)
  BY <1>3 DEF LifeOK, Merging, Early
<1> QED
  BY <1>1, <1>2, <1>4 DEF Only

\* Every step of a request leads on to its answer.
StepsCloser == \A s \in Slots : ~At(s, "idle") /\ q'[s] # q[s] => Closer(q[s], q'[s])

LEMMA LifeInit == Init => LifeInv /\ ContextsWhole
<1>1. Idle.pc = "idle"
  BY DEF Idle, NewContext
<1>2. LifeOK(Idle)
  BY <1>1 DEF LifeOK, Merging, Early
<1> QED
  BY <1>2 DEF Init, LifeInv, ContextsWhole

LEMMA LifeNext ==
    ASSUME RequestInv, LifeInv, Next
    PROVE  LifeInv' /\ (ContextsWhole => ContextsWhole') /\ StepsCloser
<1>1. ASSUME NEW s \in Slots, NEW n, Becomes(s, n), LifeOK(n), At(s, "idle") \/ Closer(q[s], n)
      PROVE  LifeInv' /\ StepsCloser
  <2>1. q' = [o \in Slots |-> IF o = s THEN n ELSE q[o]]
    BY <1>1 DEF Becomes, RequestInv
  <2> QED
    BY <1>1, <2>1 DEF LifeInv, StepsCloser, At
<1>2. CASE \E s \in Slots : Arrive(s)
  <2>1. PICK s \in Slots : Arrive(s)
    BY <1>2
  <2>2. At(s, "idle") /\ UNCHANGED contexts /\ \E n : Becomes(s, n) /\ LifeOK(n)
    BY <2>1, ArriveLives
  <2>3. ContextsWhole => ContextsWhole'
    BY <2>2 DEF ContextsWhole
  <2> QED
    BY <1>1, <2>2, <2>3
<1>3. CASE \E s \in Slots : Step(s)
  <2>1. PICK s \in Slots : Step(s)
    BY <1>3
  <2>2. Passes(s)
    BY <2>1, StepPasses DEF LifeInv
  <2> QED
    BY <1>1, <2>2 DEF Passes
<1>4. CASE \E t \in Tids : CollectGarbage(t)
  BY <1>4 DEF CollectGarbage, LifeInv, ContextsWhole, StepsCloser
<1> QED
  BY <1>2, <1>3, <1>4 DEF Next

-----------------------------------------------------------------------------
(* Theorems                                                                *)

\* What a request relies on from one of its steps to the next: it has nothing to send before
\* it has executed a schema, a configuration it builds has its variables as soon as it may be
\* stored, and the delegate requests of a distributed query are those of its schema, in their
\* order (executeObjectRequest, getDelegateRequests, putDelegateRequestAnswer, complete).
THEOREM LifeInvariant == Spec => []LifeInv
<1>1. Init => LifeInv
  BY LifeInit
<1>2. RequestInv /\ LifeInv /\ [Next]_vars => LifeInv'
  <2>1. ASSUME RequestInv, LifeInv, UNCHANGED vars
        PROVE  LifeInv'
    BY <2>1 DEF vars, LifeInv
  <2> QED
    BY <2>1, LifeNext
<1> QED
  BY <1>1, <1>2, RequestInvariant, PTL DEF Spec

\* A context other requests can see has the variables its type promises, whatever requests
\* build configurations at the same time and wherever they fail (complete, transferContext).
THEOREM ContextsAreWhole == Spec => []ContextsWhole
<1>1. Init => ContextsWhole
  BY LifeInit
<1>2. RequestInv /\ LifeInv /\ ContextsWhole /\ [Next]_vars => ContextsWhole'
  <2>1. ASSUME ContextsWhole, UNCHANGED vars
        PROVE  ContextsWhole'
    BY <2>1 DEF vars, ContextsWhole
  <2> QED
    BY <2>1, LifeNext
<1> QED
  BY <1>1, <1>2, RequestInvariant, LifeInvariant, PTL DEF Spec

\* A distributed query answered with success has merged every answer of every server, for any
\* number of servers (getDelegateRequests, putDelegateRequestAnswer, complete).
THEOREM QueriesMergeAll == Spec => []MergedFromAll
<1>1. LifeInv => MergedFromAll
  BY DEF LifeInv, LifeOK, Merging, MergedFromAll, At
<1> QED
  BY <1>1, LifeInvariant, PTL

\* The safety half of EveryRequestAnswered: no step of a request leads it back or leaves it
\* where it was, so that it has to take an end of its branches (the driver's loop over
\* execute, getDelegateRequests, putDelegateRequestAnswer, complete).
THEOREM RequestsComeCloser == Spec => [][StepsCloser]_vars
<1>1. RequestInv /\ LifeInv /\ [Next]_vars => [StepsCloser]_vars
  BY LifeNext
<1> QED
  BY <1>1, RequestInvariant, LifeInvariant, PTL DEF Spec
=============================================================================
