------------------------- MODULE ConfigurationStore -------------------------
(***************************************************************************)
(* The configurations a service keeps (src/webrequest/configurationHandler *)
(* .cpp) and the requests that change them (webRequestContext_config.cpp,  *)
(* webRequestHandler.cpp).  A request writes its configuration to a file   *)
(* <name>.failed, executes it, transfers the context built to the request  *)
(* handler and renames the file, the last two under one mutex.  A deletion *)
(* removes the context first and its files one by one.  The service may    *)
(* crash between any two steps; when it starts it restores the contexts    *)
(* from the youngest file of each.                                         *)
(*                                                                         *)
(* One context type; the content of a configuration is the request that    *)
(* put it, or Builtin when it is embedded in the main configuration.       *)
(***************************************************************************)
EXTENDS Integers, FiniteSets, FiniteSetsExt, Functions

CONSTANTS
    Requests,         \* 1..n: the requests that change configurations, in order of arrival
    Names,            \* 1..n: context names, the service allocates them by number
    Embedded,         \* names of the configurations embedded in the main configuration
    WorkDirIsStore,   \* the process runs in its configuration store directory
    MaxBoots,         \* bound: how often the service starts
    None, Builtin     \* no context, the content of an embedded configuration

ASSUME StoreAssumption ==
    /\ Requests \subseteq Nat \ {0} /\ IsFiniteSet(Requests)
    /\ Names \subseteq Nat \ {0} /\ IsFiniteSet(Names)
    /\ Embedded \subseteq Names
    /\ WorkDirIsStore \in BOOLEAN
    /\ MaxBoots \in Nat \ {0}
    /\ None # Builtin /\ {None, Builtin} \cap Requests = {}

VARIABLES
    phase,             \* the service: down, cleaning up or up
    boot,              \* seconds of the clock that tell the starts apart
    m_configCounter,
    stored,            \* name -> (key of a file -> content)
    unfinished,        \* requests whose .failed file exists
    live,              \* name -> content of the context in the request handler
    m_contextNameMap,  \* name -> absent, unstored (false) or stored (true)
    job,               \* request -> where it stands
    possible,          \* history: name -> contents a client may expect to find
    settled,           \* history: request -> contents of its name settled when it began
    disturbed          \* history: names deleted while another request changes them, or
                       \* with a failed commit, since the service started

files == <<stored, unfinished>>
history == <<possible, settled, disturbed>>
clock == <<boot, m_configCounter>>
vars == <<phase, clock, files, live, m_contextNameMap, job, history>>

-----------------------------------------------------------------------------
(* File names: a time stamp and a counter, in the order of their names     *)

NoKey == <<>>
Younger(k, l) == k[1] > l[1] \/ (k[1] = l[1] /\ k[2] > l[2])
Youngest(keys) == CHOOSE k \in keys : \A l \in keys \ {k} : Younger(k, l)
Keys(n) == DOMAIN stored[n]

\* Mutant: the service starts again within a second.
NewKeySameSecond == <<1, m_configCounter>>

\* newConfigStorageFilename.  The time stamps of one run of the service never
\* decrease and the counter is never reset: strcmp is tested for equality.
NewKey == <<boot, m_configCounter>>

\* getStoredConfigurationFile
StoredFile(n) == IF Keys(n) = {} THEN NoKey ELSE Youngest(Keys(n))

\* What loadConfiguration restores for a name: stored after embedded.
Default(n) == IF n \in Embedded THEN Builtin ELSE None
Restorable(n) == IF Keys(n) # {} THEN stored[n][StoredFile(n)] ELSE Default(n)

\* Mutant: the embedded configurations are loaded after the stored ones.
LoadedEmbeddedLast(n) == IF n \in Embedded THEN Builtin ELSE Restorable(n)
Loaded(n) == Restorable(n)

\* Mutant: stored configurations are not declared.
DeclaredIfEmbedded(n) == n \in Embedded

\* declareSubConfiguration is called for everything that is loaded.
Declared(n) == Restorable(n) # None

-----------------------------------------------------------------------------
InFlight == {"begun", "stored", "executed", "renaming", "removed", "schema", "deleting"}
Ended == {"done", "failed", "inconsistent", "crashed"}

Active(n) == {r \in Requests : job[r].pc \in InFlight /\ job[r].name = n}
At(r, kinds, pc) == job[r].kind \in kinds /\ job[r].pc = pc /\ phase = "up"
Goto(r, pc) == job' = [job EXCEPT ![r].pc = pc]

\* Mutant: contexts and files are replaced without a mutex.
TransferUnlocked == TRUE

\* m_mutex_context_transfer is held from the transfer of a context to its commit.
TransferLockFree == \A r \in Requests : job[r].pc # "renaming"

Init ==
    /\ phase = "down" /\ boot = 1 /\ m_configCounter = 0
    /\ stored = [n \in Names |-> << >>]
    /\ unfinished = {}
    /\ live = [n \in Names |-> None]
    /\ m_contextNameMap = [n \in Names |-> "absent"]
    /\ job = [r \in Requests |-> [pc |-> "new", kind |-> None, name |-> None,
                                  key |-> NoKey, keys |-> {}]]
    /\ possible = [n \in Names |-> {Restorable(n)}]
    /\ settled = [r \in Requests |-> {}]
    /\ disturbed = {}

-----------------------------------------------------------------------------
(* Requests that store a configuration                                     *)

Deleting(n) == \E r \in Active(n) : job[r].kind = "delete"

\* The contents of a name that no request under way may still take back.
Settled(n) == IF Deleting(n) THEN {} ELSE possible[n] \ Active(n)

Arrives(r, kind, n) ==
    /\ phase = "up" /\ job[r].pc = "new"
    /\ \A q \in Requests : q < r => job[q].pc # "new"
    /\ job' = [job EXCEPT ![r].pc = "begun", ![r].kind = kind, ![r].name = n]
    /\ settled' = [settled EXCEPT ![r] = Settled(n)]
    /\ disturbed' = IF Deleting(n) \/ (kind = "delete" /\ Active(n) # {})
                    THEN disturbed \cup {n} ELSE disturbed
    /\ UNCHANGED <<phase, clock, files, live, possible>>

\* POST of a named configuration, PUT of a new one ("load"), PUT of a
\* configuration whose context exists ("update"), DELETE.
Begin(r) ==
    \E n \in Names, kind \in {"load", "update", "delete"} :
        /\ kind = "update" => live[n] # None
        /\ Arrives(r, kind, n)
        /\ UNCHANGED m_contextNameMap

\* POST without a name: allocTemporaryContextName takes the first free number.
BeginTemporary(r) ==
    \E n \in Names :
        /\ m_contextNameMap[n] = "absent"
        /\ \A m \in Names : m < n => m_contextNameMap[m] # "absent"
        /\ Arrives(r, "temporary", n)
        /\ m_contextNameMap' = [m_contextNameMap EXCEPT ![n] = "unstored"]

\* storeConfiguration and storeConfigurationReplace: an update keeps the name
\* of the youngest file; when there is none its file name is the directory.
StoreConfiguration(r) ==
    /\ At(r, {"load", "temporary", "update"}, "begun")
    /\ job' = [job EXCEPT ![r].pc = "stored",
                          ![r].key = IF job[r].kind = "update" THEN StoredFile(job[r].name)
                                     ELSE NewKey]
    /\ m_configCounter' = m_configCounter + 1
    /\ unfinished' = unfinished \cup {r}
    /\ UNCHANGED <<phase, boot, stored, live, m_contextNameMap, history>>

\* The schema of the request has been executed; what follows is complete().
Execute(r) ==
    /\ At(r, {"load", "temporary", "update"}, "stored")
    /\ Goto(r, "executed")
    /\ UNCHANGED <<phase, clock, files, live, m_contextNameMap, history>>

\* Storing or the schema fails; a name allocated is released unless another
\* request has stored a configuration under it.  When the name has been deleted
\* meanwhile the iterator dereferenced is end(): erasing changes nothing then.
ExecuteFails(r) ==
    /\ At(r, {"load", "temporary", "update"}, "stored")
    /\ Goto(r, "failed")
    /\ m_contextNameMap' =
         IF job[r].kind = "temporary" /\ m_contextNameMap[job[r].name] = "unstored"
         THEN [m_contextNameMap EXCEPT ![job[r].name] = "absent"] ELSE m_contextNameMap
    /\ UNCHANGED <<phase, clock, files, live, history>>

\* transferConfigurationContext, first half: the context replaces the old one.
Transfer(r) ==
    /\ At(r, {"load", "temporary", "update"}, "executed")
    /\ TransferLockFree
    /\ live' = [live EXCEPT ![job[r].name] = r]
    /\ possible' = [possible EXCEPT ![job[r].name] = @ \cup {r}]
    /\ Goto(r, "renaming")
    /\ UNCHANGED <<phase, clock, files, m_contextNameMap, settled, disturbed>>

\* The context is refused, the temporary name is not released.
TransferFails(r) ==
    /\ At(r, {"load", "temporary", "update"}, "executed")
    /\ TransferLockFree
    /\ Goto(r, "failed")
    /\ UNCHANGED <<phase, clock, files, live, m_contextNameMap, history>>

\* An answered request leaves its contents and what was written while it ran.
Answered(r, contents) ==
    LET n == job[r].name
        old == IF \E q \in Active(n) \ {r} : job[q].kind = "delete" THEN {} ELSE settled[r]
    IN possible' = [possible EXCEPT ![n] = (@ \ old) \cup contents]

\* The file name was chosen when the configuration was stored.
FileName(r) == job[r].key

\* commitStoreConfiguration: the file gets its name.
Commit(r) ==
    LET n == job[r].name IN
    /\ job[r].pc = "renaming" /\ job[r].key # NoKey
    /\ stored' = [stored EXCEPT ![n] = [k \in Keys(n) \cup {FileName(r)} |->
                                          IF k = FileName(r) THEN r ELSE stored[n][k]]]
    /\ unfinished' = unfinished \ {r}
    /\ m_contextNameMap' = [m_contextNameMap EXCEPT ![n] = "stored"]
    /\ Answered(r, {r})
    /\ Goto(r, "done")
    /\ UNCHANGED <<phase, clock, live, settled, disturbed>>

\* The rename fails, always when there was no file to replace: the name is
\* forgotten, the new context stays.
CommitFails(r) ==
    LET n == job[r].name IN
    /\ job[r].pc = "renaming"
    /\ m_contextNameMap' = [m_contextNameMap EXCEPT ![n] = "absent"]
    /\ disturbed' = disturbed \cup {n}
    /\ Goto(r, "inconsistent")
    /\ UNCHANGED <<phase, clock, files, live, possible, settled>>

-----------------------------------------------------------------------------
(* deleteConfigurationRequest                                              *)

RemoveContext(r) ==
    LET n == job[r].name IN
    /\ At(r, {"delete"}, "begun")
    /\ TransferLockFree
    /\ Goto(r, IF live[n] = None THEN "failed" ELSE "removed")
    /\ live' = [live EXCEPT ![n] = None]
    /\ possible' = IF live[n] = None THEN possible
                   ELSE [possible EXCEPT ![n] = @ \cup {None}]
    /\ UNCHANGED <<phase, clock, files, m_contextNameMap, settled, disturbed>>

\* The youngest file tells which schema to execute; without one the request fails.
DeleteSchema(r) ==
    /\ At(r, {"delete"}, "removed")
    /\ Keys(job[r].name) # {}
    /\ Goto(r, "schema")
    /\ UNCHANGED <<phase, clock, files, live, m_contextNameMap, history>>

DeleteSchemaFails(r) ==
    /\ At(r, {"delete"}, "removed")
    /\ Goto(r, "failed")
    /\ UNCHANGED <<phase, clock, files, live, m_contextNameMap, history>>

\* deleteStoredConfiguration lists the files: from here on any of them may be
\* the one that survives a crash.
ListFiles(r) ==
    LET n == job[r].name IN
    /\ At(r, {"delete"}, "schema")
    /\ job' = [job EXCEPT ![r].pc = "deleting", ![r].keys = Keys(n)]
    /\ possible' = [possible EXCEPT ![n] = @ \cup Range(stored[n]) \cup {Default(n)}]
    /\ UNCHANGED <<phase, clock, files, live, m_contextNameMap, settled, disturbed>>

DeleteFile(r) ==
    LET n == job[r].name IN
    /\ At(r, {"delete"}, "deleting")
    /\ \E k \in job[r].keys :
         /\ stored' = [stored EXCEPT ![n] = Restrict(@, DOMAIN @ \ {k})]
         /\ job' = [job EXCEPT ![r].keys = @ \ {k}]
    /\ UNCHANGED <<phase, clock, unfinished, live, m_contextNameMap, history>>

DeleteFileFails(r) ==
    /\ At(r, {"delete"}, "deleting") /\ job[r].keys # {}
    /\ Goto(r, "failed")
    /\ UNCHANGED <<phase, clock, files, live, m_contextNameMap, history>>

\* A deletion lasts until the main configuration brings an embedded context back.
DeleteDone(r) ==
    /\ At(r, {"delete"}, "deleting") /\ job[r].keys = {}
    /\ m_contextNameMap' = [m_contextNameMap EXCEPT ![job[r].name] = "absent"]
    /\ Answered(r, {None, Default(job[r].name)})
    /\ Goto(r, "done")
    /\ UNCHANGED <<phase, clock, files, live, settled, disturbed>>

-----------------------------------------------------------------------------
(* The service goes down, and starts again at least a second later         *)

Crash ==
    /\ phase # "down" /\ boot < MaxBoots
    /\ phase' = "down" /\ boot' = boot + 1 /\ m_configCounter' = 0
    /\ live' = [n \in Names |-> None]
    /\ m_contextNameMap' = [n \in Names |-> "absent"]
    /\ job' = [r \in Requests |-> IF job[r].pc \in InFlight THEN [job[r] EXCEPT !.pc = "crashed"]
                                  ELSE job[r]]
    /\ UNCHANGED <<files, history>>

\* clearUnfinishedTransactions looks into the store directory, while the
\* .failed files have been written without a directory.
ClearUnfinished ==
    /\ phase = "down" /\ phase' = "cleaning"
    /\ unfinished' = IF WorkDirIsStore THEN {} ELSE unfinished
    /\ UNCHANGED <<clock, stored, live, m_contextNameMap, job, history>>

\* deleteObsoleteConfigurations: all but the youngest file, from young to old.
RemoveObsolete(n) ==
    LET obsolete == Keys(n) \ {StoredFile(n)} IN
    /\ phase = "cleaning" /\ obsolete # {}
    /\ stored' = [stored EXCEPT ![n] = Restrict(@, DOMAIN @ \ {Youngest(obsolete)})]
    /\ UNCHANGED <<phase, clock, unfinished, live, m_contextNameMap, job, history>>

\* loadConfiguration: every configuration is declared as not stored.
Load ==
    /\ phase = "cleaning" /\ \A n \in Names : Cardinality(Keys(n)) <= 1
    /\ phase' = "up"
    /\ live' = [n \in Names |-> Loaded(n)]
    /\ m_contextNameMap' = [n \in Names |-> IF Declared(n) THEN "unstored" ELSE "absent"]
    /\ possible' = [n \in Names |-> {Restorable(n)}]
    /\ disturbed' = {}
    /\ UNCHANGED <<clock, files, job, settled>>

-----------------------------------------------------------------------------
Request(r) ==
    \/ Begin(r) \/ BeginTemporary(r) \/ StoreConfiguration(r)
    \/ Execute(r) \/ ExecuteFails(r)
    \/ Transfer(r) \/ TransferFails(r) \/ Commit(r) \/ CommitFails(r)
    \/ RemoveContext(r) \/ DeleteSchema(r) \/ DeleteSchemaFails(r)
    \/ ListFiles(r) \/ DeleteFile(r) \/ DeleteFileFails(r) \/ DeleteDone(r)

Service == Crash \/ ClearUnfinished \/ (\E n \in Names : RemoveObsolete(n)) \/ Load

Next == (\E r \in Requests : Request(r)) \/ Service

Spec == Init /\ [][Next]_vars

-----------------------------------------------------------------------------
Key == {NoKey} \cup ((1..MaxBoots) \X Nat)
Content == Requests \cup {None, Builtin}

\* The type of the state: a file has the name and the key of the request that
\* wrote it, and a context is what a request put or what is embedded.
TypeOK ==
    /\ phase \in {"down", "cleaning", "up"}
    /\ boot \in 1..MaxBoots /\ m_configCounter \in Nat
    /\ DOMAIN stored = Names
    /\ \A n \in Names :
         /\ Keys(n) \subseteq Key \ {NoKey}
         /\ \A k \in Keys(n) : stored[n][k] \in Requests /\ job[stored[n][k]].name = n
                                                        /\ job[stored[n][k]].key = k
    /\ unfinished \subseteq Requests
    /\ live \in [Names -> Content]
    /\ m_contextNameMap \in [Names -> {"absent", "unstored", "stored"}]
    /\ job \in [Requests -> [pc : {"new"} \cup InFlight \cup Ended,
                             kind : {None, "load", "update", "temporary", "delete"},
                             name : Names \cup {None}, key : Key, keys : SUBSET Key]]
    /\ possible \in [Names -> SUBSET Content]
    /\ settled \in [Requests -> SUBSET Content]
    /\ disturbed \subseteq Names

\* Whenever the service crashes, what it restores of a name is what the last
\* answered change left, or a change under way or unfinished since: an
\* answered change is never lost, whatever a rename, a deletion of several
\* files or the clean-up at the start leave behind.
RestartKeepsAnswered == \A n \in Names : Restorable(n) \in possible[n]

\* The context the service works with is one a client may expect: when nothing
\* has gone wrong since the last answer it is the one a restart restores.
LiveIsPossible == phase = "up" => \A n \in Names : live[n] \in possible[n]

\* A name in use is in m_contextNameMap, so that it is not allocated to a
\* configuration posted without a name, which would replace it.
NamesKnown ==
    phase = "up" => \A n \in Names \ disturbed :
        live[n] # None \/ Keys(n) # {} => \/ m_contextNameMap[n] # "absent"
                                          \/ Active(n) # {}

\* The context of an answered request keeps the file that request wrote, unless a
\* deletion runs at the same time: two updates of a context that replace one file
\* leave the content of the same one of them in both places.
LiveKeepsItsFile ==
    phase = "up" => \A n \in Names \ disturbed, r \in Requests :
        live[n] = r /\ job[r].pc = "done" => job[r].key \in Keys(n) /\ stored[n][job[r].key] = r
=============================================================================
