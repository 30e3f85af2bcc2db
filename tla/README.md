# Verification of strusBindings

TLA+ models of the strus web request service and of the bindings below it, the
TLC configurations that check them, and TLAPS proofs about the core of them. The
source is the tree under `src/`; `PROJECT.json` maps every definition that models
code to the lines it stands for.

## 1. The system

strusBindings puts the strus search engine behind a web service. A web server
calls a `WebRequestHandler` from several threads, one request per thread; a
request creates a `WebRequestContext`, executes its content, runs the delegate
requests it gives rise to, and completes it. Below the request layer lie the
bindings (`src/bindings`), the objects a request calls through the external
papuga library.

| Component | State | Operations | Interacts with |
|---|---|---|---|
| Transaction pool (`transaction.*`) | ring `m_ar` of slots by expiry, map `m_refar` from id to slot, striped mutexes, tick | create, fetch, return, collect | request threads; the event loop's ticker calls `collectGarbage` |
| Event loop (`curlEventLoop.*`, `curlMessage.*`) | waiting list, map of active handles, pipe, tick counter, thread flags | send, start, stop; activate, perform, read, listen, terminate | libcurl; `putAnswer` of receivers; tickers |
| Configuration handler (`configurationHandler.*`) | files in the store directory, counter, map of context names | store, replace, commit, delete, clear, list, allocate and release a name | request contexts, request handler, file system |
| Request handler (`webRequestHandler.*`) | contexts in papuga's handler, transfer mutex | init, load, loopback, transfer and remove contexts, delegate | all of the above |
| Configuration update request | counter and context of a load in progress | putAnswer | loading thread and event loop thread |
| Request context (`webRequestContext*.cpp`) | request type, context, object, transaction, configuration transaction, answer | execute, delegate requests, complete | pool, configuration handler, request handler |
| Request schemas (`schemas_*`) | none | tables for papuga's automaton | request context |
| Request simulator (`webrequest_luasim`) | event queue of one thread | Lua test driver | request handler |
| Bindings, objects (`bindings/impl`) | storage, vector, inserter, query objects, object references | methods called by papuga | external strus libraries |
| Bindings, values (`deserializer`, `serializer`, `expressionBuilder`, `structDefs`) | stack of the expression builder, cursor of the deserializer | build and map values | bindings objects |
| Bindings, iterators and introspection | position of an iterator | next, introspect | storage |
| Interface generator (`parser`, `gen`) and language modules (`lang`) | none at run time | build time text processing, glue code | - |

What is hard in it, component by component, and what must hold:

- **Transaction pool.** Request threads and the ticker work on the same slots
  under striped mutexes, and an entry is read before the slot it names is
  locked. A transaction must have one owner, survive as long as it is owned,
  never lose or share its entry, and expire neither early nor never. Index
  arithmetic mixes `% m_arsize` and `% (m_arsize-1)`.
- **Event loop.** Senders, the loop and its owner interleave around a list, a
  pipe and unsynchronised flags. Every request must be answered exactly once,
  to a receiver that exists, and a busy loop must still tick.
- **Configuration store.** A change is a file written, a context transferred
  and a file renamed, with a crash possible in between; deletions remove
  several files; files are ordered by time stamps and a counter. An answered
  change must survive, and contexts and files must agree.
- **Configuration load.** A counter on the stack of one thread is counted down
  by another; sending may fail half way. The load must end, must not go on too
  early, and must succeed only if everything it asked for did.
- **Request context.** A transaction taken out of the pool has to come back on
  every path through execute and complete; an update may be interrupted and
  retried; a context is built call by call and then shown to all requests; a
  distributed query may lose one of its servers half way.
- **Bindings.** A value comes in several notations and may be wrong anywhere; a
  call that fails half way leaves the object, and the stack its expressions are
  built on, as they are, and the program goes on. What was asked for must be
  what the object holds, and what one server writes another must read back.
- **Introspection.** A page is opened step by step while other clients insert
  and delete documents; directories are skipped by searching behind them.
- **Distributed ranking.** The page merged from the results of the servers must
  not depend on how the documents are distributed.

`PROJECT.json` lists the hazards one by one with their lines, and the
properties that would catch each going wrong.

## 2. Plan

Done, in this order:

1. `TransactionRing`, `TransactionPool`, its abstract specification
   `TransactionRegistry`, and `TransactionWindow` for the expiry times; the
   proofs of safety, of the refinement and of the expiry times.
2. `CurlEventLoop` and its abstract specification `DelegateQueue`; the proofs of
   safety and of the safety part of the refinement.
3. `ConfigurationStore`: files, contexts, crashes; its proofs.
4. `ConfigurationLoad`, which uses the event loop through the promise of
   `DelegateQueue`; its proofs.
5. `RequestSchemaParts`, `RequestSchemas` and `RequestServer`: the tables of the
   schemas, and the life of a request from its arrival to its answer; the proofs
   of what becomes of a transaction, that the server uses its pool as
   `TransactionRegistry` says, that contexts are whole and that distributed
   queries merge every answer.
6. The values of the bindings: `Serialization`, `StructDefs`, the four
   `Deserializer*` modules and `Serializer`; on them the objects a program calls:
   `QueryObjects`, `StorageObjects`, `DefinitionObjects`, composed by
   `BindingCalls` and `DefinitionCalls`.
7. `Introspection`, `StorageIntrospection`, `ContextIntrospection`, composed by
   `IntrospectionCalls`; the proofs of all its properties (`IntrospectionProofs`).
8. `DistributedRanking` and its proofs.

Left, in the order of what it would add:

9. The transactions of the vector storage and the object references of
   `bindings/impl`.
10. The registration of schemas and the address and path algorithms of the
    request handler, and the text form of transaction ids.
11. The select and posting iterators of the bindings.
12. The simulator's event loop as a second implementation of `DelegateQueue`.
13. Run `query` with several requests at a time on smaller sets of inputs.
14. An abstract register that says what clients see of a configuration, with
    `ConfigurationStore` proved to implement it.

## 3. The modules

### Transaction pool

`TransactionPool` has one step per atomic section of the code: a turn of a
probing loop under its striped mutex, the unlocked read of `m_refar` in
`fetchTransaction`, the copy of a slot's shared pointer (two steps when
`CopyAtomic` is FALSE), the two writes of `returnTransaction`, one slot of the
sweep, which takes no mutex. `m_ar`, `m_refar` and `mutex` are the code's
arrays; `life` tells which `Transaction` objects exist, since the destructor
frees the entry; `pc`, `tid`, `ref`, `cnt`, `eidx` are the locals of a request
thread. `absent` is a history variable the refinement needs: a fetch may come
back empty only if the transaction was out of the pool at some moment since the
call. `TransactionRing` has the index arithmetic, shared with
`TransactionWindow`, which follows one transaction among others through ticks
and touches. `TransactionRegistry` is what `transaction.hpp` promises; it lets a
fetch be one step or a call that is answered later. The pool implements it with
the latter, `RequestServer`, where the pool is one lock, with the former.

Two constants name the conditions under which the pool is correct:

- `RefsExhaustible = FALSE`: one of the first `m_allocNofTries` random ids finds
  a free entry. Otherwise the loop ends with `cnt == -1`, the check for `cnt ==
  0` does not fire, and two transactions share an entry: with the constant set to
  TRUE in `MCTransactionPool.cfg` TLC finds `EntryMapsId` violated.
- `CopyAtomic = TRUE`: nobody resets a slot in the middle of its copy. The sweep
  does not take the slot's mutex, so the code does not guarantee it: with FALSE
  `OwnedIsAlive` is violated; what the machine makes of the race is undefined.

With both admitted `ExclusiveOwner` is violated too: an entry of -1 selects the
element before the first mutex of `m_mutex_ar`.

### Event loop

`CurlEventLoop` has the senders' steps (check the thread, push, notify, or
throw and refuse), the owner's start and stop, the loop thread (test,
activate, perform, read, listen, tick, terminate) and libcurl as an
environment that ends transfers in any order. The pipe holds `PipeSize` bytes.
A receiver is identified with its job; `answers` and `deleted` record what
happens to it. `DelegateQueue` is what the interface of the loop promises: a
request is queued, served once by a running loop, and answered.

Fairness: the loop, a start or stop begun, and a send begun go on (the threads
are scheduled by the system and hold locks only briefly), and a transfer ends
(libcurl has a timeout or a peer that answers). Nobody has to send, start or
stop. Under these, `ImplementsQueue` shows that a queued request is served by a
loop that goes on running, and `KeepsTicking` that a busy loop ticks, which
needs `m_numberOfRequestsBeforeTick`. `Restarts = 0`: the loop is started once.
With `Restarts = 1` the liveness part of `ImplementsQueue` fails, because
`start` creates the thread before it resets `m_terminate`, and a loop started
again may end at once; its safety part is proved for any number of restarts.

### Configuration store

`ConfigurationStore` models the configurations of one context type. A request
arrives, writes its `.failed` file, executes, transfers its context and renames
the file, the last two under the transfer mutex (a context removed takes it
too); every step may fail where the code handles a failure. A deletion removes
the context, reads the youngest file, executes its schema, lists the files and
removes them one by one. `Crash` may happen between any two steps;
`ClearUnfinished`, `RemoveObsolete` and `Load` are `WebRequestHandler::init`.
The content of a configuration is the request that put it. The key of a file is
the second of the start and the counter: within one run of the service names
sort by age, since the counter is never reset (the comparison that should reset
it is inverted) and time does not go back; across runs they do if a restart
takes at least a second, which is assumed (`Crash` moves the clock) - the
mutant `NewKeySameSecond` shows why.

`possible` is a history variable that makes the store a *regular register*: the
contents a client may expect to find are what the last answered change left, or
a change that ran at the same time, failed half way, or is under way. Two
weaknesses of the code are part of it: a crash in the middle of a deletion may
bring back an obsolete content, and deleting an embedded configuration lasts
until the next start. `RestartKeepsAnswered` and `LiveIsPossible` are stated in
every state, so for a crash at any moment. `disturbed` names the contexts for
which less is promised: deleted while another request changes them, or with a
failed rename, for which the code says that it is inconsistent.

Two loads of one name at the same time may leave the context of one and the
youngest file of the other: contexts are replaced in the order of the
transfers, files are ordered by when they were written. Both are possible
contents, so the properties hold; a restart may still change what is served.

### Configuration load

`ConfigurationLoad` is `runConfigurationLoad` with its nested loopback loads as
single steps, and the receivers of remote requests. The event loop is taken at
the word of `DelegateQueue`, which `CurlEventLoop` implements: a queued request
is answered once, by one thread. An answer is put to the context, counted down
and logged in three steps; using the counter after its scope is left changes
nothing the module knows. `CountExact`, `AnsweredInTime` and
`SuccessMeansAccepted` speak of loads during which sending did not fail;
otherwise the code leaves the loop with requests in flight. Fairness: the
loading thread is scheduled (`Loader`), and the event loop goes on answering
(`EventLoop`); `LoadEnds` needs both.

### Request server

`RequestSchemaParts` and `RequestSchemas` are the tables of `schemas_*.hpp`: a
schema is a sequence of calls, each with the element of the content it is bound
to, the variable its result goes to, the object it is called on and the objects
among its arguments; results say which are answers and which are delegate
requests, to which servers, and where the answer is put. Which value a call gets
does not matter for the properties, only which objects exist: paths and value
types are left out.

`RequestServer` runs requests over these tables. A slot of `q` is a
`WebRequestContext` with its locals; a step is what happens under one of the
locks of the pool (`tx`) and of the context handler (`contexts`, `stored`). The
actions between resolving the object and completing the request are the branches
[1.A] to [4.B] of `executeObjectRequest`. Every call may throw, every delegate
request may fail, and the driver does what the code's only complete driver does
(`webrequest_luasim`): it leaves a request that failed without completing it,
and completes one that returned false without an error. A context is the set of
variables it defines, a transaction has the number of documents inserted into
it, of inserts acknowledged and of documents published. The calls of a schema
are executed by a recursive function over their number, of which `ExecuteCall`
is one turn.

What the module leaves to others: ids and expiry (`TransactionPool`; here a
transaction is in the pool, owned or gone), files and crashes
(`ConfigurationStore`), loads by the handler itself (`ConfigurationLoad`).

Fairness: a request that was started is executed to its answer by its thread
(`WF_vars(Step(s))`); no client has to send anything.

### Values of the bindings

`Serialization` has the tokens a value is written with (open, close, name,
value). `StructDefs` models the iterator of the deserializer over a sequence of
them, and the shapes its readers are built from: members by name in any order,
fields by position, lists, structures nested or packed. A reader maps a cursor
to a cursor; an exception makes its status "error", after which nothing is read,
so that readers compose as the C++ code does with exceptions. The module
includes `StructureNameMap`, which takes a suffix of a member's name for the
name (`structNameMap.cpp:34`), and the readers of `structDefs.cpp`; the others
are in `DeserializerResults`, `DeserializerExpressions` (with the builder's
stack), `DeserializerDocuments` and `DeserializerFunctions`
(`deserializer.cpp`), the writers in `Serializer`. What a reader has read is a
function from paths of field names to texts.

These modules have no variables, and the readers and builders among them are
recursive operators. They are used by the objects: `QueryObjects` (query, builder of queries for other servers,
merger of results), `StorageObjects` (storage transaction, inserter) and
`DefinitionObjects` (analyzers, library of contents statistics, query
evaluation, map of statistics). An operation maps the state of an object and a
value to the state it leaves and whether it returned.

`BindingCalls` and `DefinitionCalls` are the program: it picks an object and
calls it with values, well formed in one of several notations or malformed, and
goes on after a call that failed. `asked` remembers what the calls that returned
were meant to do, written down independently of the readers in
`MCBindingCalls`; the properties compare it with what the objects hold.

### Introspection

A page is a record of its kind and what its constructor got; `Introspection` has
what is common to all (`introspectionBase.cpp`, the templates), with the walk
over keys in their order and the skipping of directories, `StorageIntrospection`
the pages of a storage and a vector storage, `ContextIntrospection` those of a
context. `IntrospectionCalls` opens a path step by step, as `getPathContent`
does, while clients insert, replace and delete documents between any two steps.
The storage is external: documents with attributes, metadata, search and forward
index, and numbers that are given once.

A text is a sequence of `Bytes`. In a sorted list of keys the i-th is the one with
i - 1 before it in the order of the bytes (`SortedBy`); walks, lists and paths are
recursive functions, so that the theorems can speak of them. The assumptions say
what the external parts provide: ids, values and the names a client asks for are
texts (`TextAssumption`, `ContentAssumption`), a document has finitely
many terms, and of a forward type one at a position, counted from 1
(`ContentAssumption`), and the tables are finite (`BoundAssumption`).

### Distributed ranking

`DistributedRanking` has the part of `query.cpp` that decides which ranks a
server evaluates and which page the merger makes of them: a query whose result
is to be merged evaluates from the first rank on. Results arrive in any order,
documents are inserted while the query is under way, and the pages asked of the
query and of the merger are set and set again. A document is its place in the
ranking, so there are no ties.

## 4. What the runs check

| Run | Expect | Properties |
|---|---|---|
| `pool` | pass | types; one owner; entries and slots agree; no entry leaks; what is owned is alive; the pool implements the registry |
| `window` | pass | nothing overdue is left; idle time granted within a turn of the ring |
| `loop` | pass | types; requests accounted for; stop answers what is active; keeps ticking; the loop implements the queue |
| `config` | pass | a restart keeps what was answered; the context is one that may be expected; it keeps its file; names known |
| `load` | pass | types; counter exact; answered in time; success means accepted; the load ends |
| `load_http` | violation | success means that every server asked has served |
| `request` | pass | a commit publishes what was acknowledged; contexts are whole; transactions are lost only by errors |
| `query` | pass | a distributed query answered with success has the answers of all servers; every request is answered |
| `calls` | pass | features, restrictions, merged results, definitions and transactions are what was asked for; the stack is left alone; features pass on to another server |
| `introspection` | pass | links open; a page is of the document asked; document and term agree; values listed once; windows of a dump fit |
| `introspection_listed` | violation | a directory is listed once |
| `ranking` | pass | the merged page is the page of the whole collection |

The instances, and why they are large enough:

- `pool`: two symmetric threads, the ticker, four slots, two stripes, three ids
  of which two collide, two tries. The ring wraps, all slots fill, and each
  stripe is shared by two slots, so that probing, sweeping and returning overlap
  in every way. `ImplementsRegistry` is a safety refinement, which symmetry does
  not disturb.
- `window`: eight slots, two per tick, gaps of up to three ticks, the largest
  window the ring admits; all residues of the two moduli occur.
- `loop`: two requests which are renewed for ever, a tick every two requests, a
  pipe of two bytes - small enough that the pipe fills and the count of requests
  reaches its limit while both are active (34,374 states).
- `config`: three requests, two names of which one is embedded, two starts: two
  concurrent changes and one before or after them, or two files of a name and a
  third request that deletes or updates it, with a crash anywhere (620,445
  states).
- `load`, `load_http`: two results of up to three delegate requests of every
  mixture of kinds.
- `request`: two symmetric requests at a time on a transaction, its storage and
  configurations that include others, one document per transaction (169,408
  states). Two inserts or an insert and a commit compete for the transaction, two
  requests build the same context.
- `query`: one request at a time, since a request owns its context and its
  distributed queries meet others only in the objects `request` covers; two
  servers, so that the first, the last or both may fail; every kind of request on
  every kind of object, so that every branch is taken (168,580 states).
- `calls`: two calls on each of nine kinds of objects, with expressions up to
  depth three, in every notation (7,763 states, which take more than a minute
  since every state evaluates the readers). Two calls are what it takes for
  something left behind by one that failed to be seen by the next.
- `introspection`: three documents inserted in sequence, of four contents with a
  directory and a document of the name of one in it, lists of at most two, paths
  of up to seven names, which is the longest there is apart from dumps, whose
  windows may be continued for ever (1,084,666 states). Besides what the pages
  list a client asks for an empty name, names that look like a document's number
  or like a prefix, and names that are no page's. `introspection_listed` has
  lists of three, so that one name can occur more than twice.
- `ranking`: two servers, three documents, pages of up to two ranks, the limits
  set to 1 or left at the default (232,448 states).

Definitions marked *Mutant* in the modules are faulty variants of the definition
that follows them, one for each property: with it in place the property fails.
Deadlock is not checked where a model ends by its bounds or by design: a stopped
loop, all requests done, a finished load, a program that has made its calls, a
query whose results are merged. Symmetry is used for the threads of `pool` and
the slots of `request`, which check no liveness.

## 5. What is proved

All theorems hold for every value of the constants that satisfies the named
assumptions of the modules.

**Pool.** `TypeCorrect`: `Spec => []TypeOK`, in any regime. `PoolInvariant`:
`Spec => []PoolInv` under `Regime` (`~RefsExhaustible /\ CopyAtomic`), and from
it the four safety properties of run `pool`. They are not inductive. That a
fetched transaction has one owner depends on where it may lie:
`ClaimsExclusive` says that while a thread claims a transaction it lies in no
slot, or in the one whose mutex the thread holds (`SectionsLocked`,
`CopiedInSlot`), so no other thread can copy it. That an entry names its slot
depends on the entry being owned (`EntriesOwned`), also by a creation that has
only reserved it. A fetch that read -1 or INT_MAX locks the wrong mutex, which is
harmless only because the transaction it looks for is dead (`NoSlotReadIsDead`).
`EntriesUsed` carries the absence of leaks, with the count of tries that the
regime keeps above zero.

`PoolImplementsRegistry`: the pool implements the registry. An operation of the
registry happens where the pool's does take effect: a creation when the slot is
taken (`Place`), a fetch with the copy out of the slot (`FetchCount`) or, when
it comes back empty, with its end (`FetchMiss`, which needs the history of
`absent`), a return when the slot is written; a failed return or creation and a
disposal give back, the sweep expires. Every other step stutters. The invariant
adds `HistoryInv` and `CheckedSlots` to `PoolInv`.

With either defect of the code, `LocksAreHeld`: whoever waits for a mutex waits
for a thread inside its section, where it takes no other, so the threads cannot
wait for each other; and `CallsComeCloser`: a call goes on through its points in
one order or takes one of the tries of its loop, and no other thread sends it
back.

**Expiry times.** `TransactionWindowProofs` has the distance of a transaction's
slot from the position the sweep has reached: with each tick it shrinks by the
slots per tick, so that the age and the distance together never exceed the
positions the transaction was placed ahead, nor, while these are less than a
turn, fall below its idle time. `OverdueIsCollected` and `IdleTimeIsGranted`
follow. Slots are counted modulo the size of the ring and positions modulo one
less; the case of the last slot, which no position reaches directly, is the
third part of the invariant.

**Event loop.** `LoopInvariant` says where a request is at each point of its
sending, activation, transfer and answer; `LoopTypeCorrect`,
`RequestsAccounted` and `StopAnswersTakenUp` are the properties of run `loop`,
`LoopImplementsQueueSafety` says that each step of the loop is a step of the
queue. They hold for any number of requests, bytes of the pipe, and restarts.
`RoundsComeToTicks` is the safety half of `KeepsTicking`: a step of the loop goes
on within its round, where each message read takes a request from the map, or
begins the next round, with a tick or one event more of fewer than
`m_numberOfRequestsBeforeTick`. `FirstStartRuns`: a loop started once runs until
it is stopped, which a second start does not guarantee.

**Configuration load.** `LoadInvariant`: requests in flight belong to the result
that is worked on, and the counter is the number of those whose answer is not
yet counted. From it the four safety properties of run `load`, and the safety
half of `LoadEnds`: a load that waits has an answer on its way that will be
counted (`NoWaitInVain`, also after requests that could not be sent), and every
step goes on through the results, the stages of one and its requests, or takes
an answer further (`LoadComesCloser`).

**Configuration store.** `StoreInvariant` and from it the properties of run
`config` and its types, for any set of requests and names and any number of
starts. The history variable `possible` is not enough: one must know for each
request under way what it may still make obsolete. The conjuncts say that what
came while a request runs is not `settled` for it (`ConcurrentUnsettled`,
`YoungerUnsettled`), that a deletion that removes files has the contents a crash
could bring back among the possible ones (`DeletionListed`), that only one
request is between transfer and rename (`OneTransfer`), and that a deletion
nobody disturbs is alone with its name and finds the files it has listed
(`Undisturbed`). That every set of files of a name has a youngest
(`KeysOrdered`) is carried as a conjunct of the invariant: a new file's key is
younger than all others (`KeysPast`), so no argument by the size of the set is
needed.

**Requests.** `RequestInvariant`: a transaction a request holds is held by that
request alone, whose path named it. While the request has not called anything
the transaction has exactly the documents acknowledged; from its insert to its
completion one more; and when it is answered without having given the
transaction back, it is answered with an error. The rest is about the tables: a
schema of a transaction is one for PUT and has no results (`SchemasOK`), so a
request on a transaction sends nothing to other servers, only PUT inserts, and
the objects of transactions create none (`TransactionCreatesNone`). From it
`CommitsPublishAcknowledged` and `LossesAreErrors`, for any number of requests
and any inputs, on any configuration (`ServerAssumption`).

`ServerImplementsRegistry`: what `RequestServer` does with transactions are steps
of `TransactionRegistry`, so the server asks of a pool no more than
`TransactionPool` gives it. The mapping makes a request the holder of the
transaction it has taken. A configuration posted without a name becomes the new
object of its request, which would drop a transaction in use; `Holds` says that
a request with a transaction that has executed nothing yet has a name.

`RequestServerProofs` carries `LifeInv` besides: a request has nothing to send
before a schema has run, a context about to be stored is whole (`Whole`), and the
delegate requests of a distributed query are those its schema asks for, in their
order: after `k` of its results `Due(k)` have been made, and all but those of the
last one are answered and merged (`Asked`).
The proof has three parts. What calls executed in their order make is a statement
about a recursive function over the number of calls; in place of an induction,
which the prover cannot instantiate, it takes the least number at which the
statement would fail (`Least`, from the order of the natural numbers) and shows
that there is none. What the schemas are made of is read from the tables: every
schema of the service, with its calls. The third part is one lemma per action.
`ContextsAreWhole` and `QueriesMergeAll` follow, the latter for any number of
servers, and `RequestsComeCloser`, the safety half of `EveryRequestAnswered`:
each step leads to a later stage or leaves less to send and to be answered.

**Distributed ranking.** `MergedPageIsGlobal`: for any number of servers and any
finite set of documents the merged page is the page of the collection. A
document that belongs to the page and is missing in the results has at its own
server more documents before it than the page ends at, all of which are before
it in the whole collection too.

**Introspection.** The five properties of run `introspection`, for every set of
contents, every path and every order of insertions, replacements and deletions
between its steps.

`StorageInvariant`: numbers lie below the last one given, so that the number of a
deleted document is never given again. `RequestInvariant` adds what a page knows
of the path to it (`PageFits`): a page that still collects the names of an id has
just the names of the path so far; the number a page carries is written in the
path, or is the number of a document whose id is written in it, or of no document
any more. Without the last case the invariant is not inductive: a document may be
deleted and inserted again, with another number, while the request goes on.
`PagesAreOfDocumentsAsked` follows. It holds for paths behind `doc` and behind
`postings`, where a name may stand after other names of the path.

`WindowsAlwaysFit` and `ValuesAreListedOnce` are about what the recursive functions
compute: a window of a dump holds the terms from its first position on, up to its
size; the values collected from a sequence of terms are its distinct values, in
the order they come in. `LinksAlwaysOpen` goes through the kinds of pages. The
case that takes work is a directory of documents: a name the walk lists is the
next name behind the directory of some id (`WalksFollow`), and searching for the
directory extended by it finds that id again.

`SidesAlwaysAgree` compares the pages two paths lead to. No two documents have the
same id (`IdsDiffer`), and an id is the names between its slashes (`Segments`), put
together again; so the path with the names of an id has the id after the last of
them, and before it the page is one that waits for more names (`PagesOnTheWay`).
Behind it both sides ask the storage for the same positions.

`LinksAlwaysOpen` has the first, `SidesAlwaysAgree` all three of these hypotheses
about the ids and terms of the documents. The code does not enforce them, and
without them it does what the theorem denies:

- `PlainIds`: an id that begins with `_` is read as a number, and of one that is
  empty or has an empty part between its slashes the pages list names that cannot
  be followed.
- `StarlessIds`: a name that ends with `*` asks for the ids with a prefix, also
  where it is the name of a directory or of a document.
- `NamedTerms`: a page of a term takes a type or value that is empty for one that
  is still to come, so that the next name of the path fills its place.

`MCHypotheses` has TLC evaluate them on the contents of the instance, so that the
theorems cover the run; `PlainIds` leaves the other names a client may ask for
free.

The functions above are defined by recursion, over the length of a path, the
steps of a walk or the number of terms. That they exist and equal their equations,
and what holds of all their values, rests on the order of the natural numbers: a
statement that fails somewhere fails at a least number (`Least`), and there the
equation refutes it. Sorted sequences exist because the elements of a finite set
can be numbered by how many come before them (`Sorted`).

Only model-checked:

- Liveness, for which the prover has no rule: `KeepsTicking`, `LoadEnds`,
  `EveryRequestAnswered`, and in `ImplementsQueue` that queued requests are
  served. What is proved of the first three are the measures they descend on
  (`RoundsComeToTicks`; `NoWaitInVain` and `LoadComesCloser`;
  `RequestsComeCloser`); that the steps are taken is left to fairness and TLC.
- The properties of run `calls` (`FeaturesAreWhatWasAsked`, `FeaturesPassOn`,
  `StackLeftAlone`, `RestrictionsAppend`, `MergedIsWhatWasSent`,
  `DefinitionsAreWhatWasAsked`, `TransactionDoesWhatWasAsked`). Readers, builders
  and writers are recursive operators there (`Loop` of `StructDefs`,
  `BuildExpression`, `WriteNode`, `Instructions`, `Known`), which switch off the
  prover's arithmetic backend in every module that reaches them; and what a
  reader makes of every value is an induction over the value, whose depth no
  constant bounds.

## 6. Findings

`PROJECT.json` quotes the line each contradicts.

1. `load_http`: `WebRequestAnswer::ok` is documented as "Test if request
   succeeded" and ignores the http status, so that a delegate request answered
   with an error status counts as a success.
2. `introspection_listed`: `fetchValues` says that it takes a directory as one
   element and skips its elements; the key it searches for lies before them, so
   one directory is listed until the list is full.

Observed while modelling and not the subject of a run. The models follow the
code in all of it.

Pool: the check after the reservation loop of `newTransaction` tests for 0 where
the loop leaves -1; `collectGarbage` resets slots without their mutex; in a
crowded ring, where probing passes the sweep, a transaction may be swept before
its idle time.

Event loop: `send` answers and deletes a receiver that building the job has
already deleted (`curlEventLoop.cpp:246`); a loop started a second time may end
at once; an allocation failure in `activateIdleJobs` leaves the list as it is.

Configurations: restored configurations are not listed
(`configurationHandler.cpp:482`); a failed rename is neither logged nor answered
(`webRequestHandler.cpp:889`); `releaseTemporaryContextName` uses the result of
find unchecked (`configurationHandler.cpp:440`); `.failed` files are written to
the working directory and never cleared; a load that fails to send leaves
receivers with pointers to a counter and a context that are gone; an empty list
of addresses ends the delegate requests of a configuration early; the error of a
failed loopback request is overwritten (`webRequestHandler.cpp:711`); the loading
thread and the event loop put answers to a papuga context without a lock of
their own (`webRequestHandler.cpp:673`); a deletion whose schema fails leaves the
stored file while the context is gone.

Requests: content posted to `/transaction/<tid>` drops the transaction
(`webRequestContext.cpp:280`); a failed insert takes its transaction with it,
since the driver returns without completing; an interrupted update that is
retried never completes, as the error answer stays; the variable "query" that
the merge of results is bound to is never defined
(`schemas_query_decl.hpp:214`); the delegate requests of a distributed query do
not pass the number of ranks on (`schemas_distquery.hpp:60`), so that pages that
end behind the default limit are not global.

Values: `QueryTerm` is written with the variable where a reader expects the
length; a restriction that an analyzer has returned cannot be read by another
server (`analyzer.hpp:391`); results packed in a list are refused for a missing
`else` in `getQueryResultList`; a list of options that makes no progress is read
for ever; a query takes a positional term that starts with a variable and a
builder refuses it; features of a list are defined in reverse; a failed
restriction leaves its first conditions to the query; a commit that fails resets
the transaction and later calls use a null pointer; `normalize_field`
concatenates results without a separator; a member is found by the suffix of its
name.

Introspection: a document whose id continues the id of another cannot be
reached by its id; the pages of prefixes list names whose links do not open, and
are left out of `LinksOpen`; the page "access" of a document lists all users of
the storage; attribute names of other documents show with an empty value;
`IntrospectionObjectList::open` accepts an index equal to the size; a postings
page of one document lists all later ones too.

## 7. What is not modelled

- papuga, libcurl, the file system and the strus libraries are external: each is
  modelled by what the code does with its results.
- The transactions of the vector storage, object references and the creation of
  objects from a context; the select and posting iterators; the registration of
  schemas, addresses, paths and the text form of ids; the simulator's own event
  loop: planned (section 2).
- The text of a schema's paths and of answers and errors, formats of numbers,
  encodings and content types. The parsers of sub configurations and of
  statistics messages are abstracted.
- Operations nobody in the tree calls: some readers and writers
  (`getCharListUnicode`, statistics of a builder, pattern builders) are
  translated where others need them, and otherwise left out.
- The interface generator and the language modules: build time text processing,
  and glue without state of its own.
- Running out of memory, except where the code's handling of it changes state
  (sending a delegate request). Data races inside papuga contexts: the answers
  put to a context by two threads are taken one after the other. Reads of the
  contents of a context outside its mutex (`context.cpp:197`).
