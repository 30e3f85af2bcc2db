---------------------- MODULE ConfigurationStoreProofs ----------------------
(***************************************************************************)
(* What the store of configurations promises, proved for every finite set  *)
(* of requests and names and any number of starts.                         *)
(*                                                                         *)
(* An answered request takes back what was settled when it began.  The     *)
(* argument is that nothing which is still to be restored or in use was    *)
(* settled then: what came after it began is not settled for it            *)
(* (ConcurrentUnsettled), a file younger than the one it writes came after *)
(* it began (YoungerUnsettled), and so did what a deletion finds and has   *)
(* not listed (DeletionListed) or what is in use after it removed the      *)
(* context (RemovedUnsettled).  Files and keys are finitely many at any    *)
(* time, which is said without counting them: every set of keys of a name  *)
(* has a youngest one (KeysOrdered).                                       *)
(***************************************************************************)
EXTENDS ConfigurationStore, TLAPS

-----------------------------------------------------------------------------
(* The invariant                                                           *)

\* A request that stores a configuration, and one that deletes some.
Writing == {"stored", "executed", "renaming"}
Removing == {"removed", "schema", "deleting"}

\* What a request is at each point; requests are under way while the service is up.
JobsOK ==
    \A r \in Requests :
        /\ job[r].pc \in InFlight => phase = "up" /\ job[r].name \in Names
        /\ job[r].pc \in Writing => job[r].kind \in {"load", "update", "temporary"}
        /\ job[r].pc \in Removing => job[r].kind = "delete"

\* A file holds the content of a request that has been answered.
FilesAnswered == \A n \in Names : \A k \in Keys(n) : job[stored[n][k]].pc = "done"

\* The key the next request gets is younger than any other.
KeysPast == \A r \in Requests : job[r].key # NoKey => Younger(<<boot, m_configCounter>>, job[r].key)

\* A set of keys has a youngest one.
HasYoungest(keys) == \E k \in keys : \A l \in keys \ {k} : Younger(k, l)

\* So has every set of keys of files of one name.
KeysOrdered == \A n \in Names : \A keys \in SUBSET Keys(n) : keys # {} => HasYoungest(keys)

\* Nobody has heard of a request before it arrives.
NewUnknown ==
    \A r \in Requests : job[r].pc = "new" =>
        /\ \A n \in Names : r \notin possible[n] /\ live[n] # r
        /\ \A q \in Requests : r \notin settled[q]

\* What runs at the same time as a request is not settled for it.
ConcurrentUnsettled ==
    \A r, q \in Requests :
        job[r].pc \in InFlight /\ job[q].pc \in InFlight /\ job[q].name = job[r].name
            => q \notin settled[r]

\* A file younger than the one a request writes came while it ran.
YoungerUnsettled ==
    \A r \in Requests : job[r].pc \in Writing /\ job[r].key # NoKey =>
        \A k \in Keys(job[r].name) : Younger(k, job[r].key) => stored[job[r].name][k] \notin settled[r]

\* A deletion that removes files has listed what a crash may bring back, and
\* what it has not listed came while it ran.
DeletionListed ==
    \A r \in Requests : job[r].pc = "deleting" =>
        LET n == job[r].name IN
        /\ Default(n) \in possible[n]
        /\ \A k \in Keys(n) : /\ stored[n][k] \in possible[n]
                              /\ k \notin job[r].keys => stored[n][k] \notin settled[r]

\* The mutex of the transfer.
OneTransfer ==
    \A r \in Requests : job[r].pc = "renaming" =>
        /\ live[job[r].name] = r
        /\ \A q \in Requests : job[q].pc = "renaming" => q = r

\* A context belongs to the name of the request that built it.
LiveNamed == \A n \in Names : live[n] \in Requests => job[live[n]].name = n

\* After a deletion has removed the context, another one came while it ran.
RemovedUnsettled ==
    \A r \in Requests : job[r].pc \in Removing =>
        LET n == job[r].name IN live[n] = None \/ live[n] \notin settled[r]

\* A deletion that nobody disturbs is alone, and so finds what it has listed.
Undisturbed ==
    \A r \in Requests : job[r].pc \in InFlight /\ job[r].kind = "delete" /\ job[r].name \notin disturbed =>
        LET n == job[r].name IN
        /\ Active(n) = {r}
        /\ job[r].pc \in Removing => live[n] = None
        /\ job[r].pc = "deleting" => Keys(n) \subseteq job[r].keys

\* Why a name in use is in the map, and nobody is going to take it out.
NameHeld(n) ==
    \/ m_contextNameMap[n] = "stored"
    \/ m_contextNameMap[n] = "unstored" /\ \A r \in Active(n) : job[r].kind # "temporary"
    \/ \E r \in Active(n) : job[r].pc = "renaming"

NamesHeld ==
    phase = "up" => \A n \in Names \ disturbed : live[n] # None \/ Keys(n) # {} => NameHeld(n)

\* The part of the invariant that does not speak of what clients expect.
Core == TypeOK /\ JobsOK /\ FilesAnswered /\ KeysPast /\ KeysOrdered

\* TypeOK in three parts.
Jobs == [pc : {"new"} \cup InFlight \cup Ended,
         kind : {None, "load", "update", "temporary", "delete"},
         name : Names \cup {None}, key : Key, keys : SUBSET Key]

JobTypes == job \in [Requests -> Jobs]

FileTypes ==
    /\ DOMAIN stored = Names
    /\ \A n \in Names :
         /\ Keys(n) \subseteq Key \ {NoKey}
         /\ \A k \in Keys(n) : stored[n][k] \in Requests /\ job[stored[n][k]].name = n
                                                        /\ job[stored[n][k]].key = k

OtherTypes ==
    /\ phase \in {"down", "cleaning", "up"}
    /\ boot \in 1..MaxBoots /\ m_configCounter \in Nat
    /\ unfinished \subseteq Requests
    /\ live \in [Names -> Content]
    /\ m_contextNameMap \in [Names -> {"absent", "unstored", "stored"}]
    /\ possible \in [Names -> SUBSET Content]
    /\ settled \in [Requests -> SUBSET Content]
    /\ disturbed \subseteq Names

\* The parts of the types.
LEMMA TypeParts == TypeOK <=> JobTypes /\ FileTypes /\ OtherTypes
BY DEF TypeOK, JobTypes, Jobs, FileTypes, OtherTypes

\* The youngest key is one of the keys.
LEMMA YoungestIsOne ==
    ASSUME NEW keys, HasYoungest(keys)
    PROVE  /\ Youngest(keys) \in keys
           /\ \A l \in keys \ {Youngest(keys)} : Younger(Youngest(keys), l)
BY DEF HasYoungest, Youngest

\* Keys are ordered by the start and the counter.
LEMMA YoungerIsTotal ==
    ASSUME NEW k \in Key \ {NoKey}, NEW l \in Key \ {NoKey}
    PROVE  /\ k # l => Younger(k, l) \/ Younger(l, k)
           /\ ~ (Younger(k, l) /\ Younger(l, k))
           /\ \A m \in Key \ {NoKey} : Younger(k, l) /\ Younger(l, m) => Younger(k, m)
BY StoreAssumption DEF StoreAssumption, Key, NoKey, Younger

\* getStoredConfigurationFile returns the youngest file, or none.
LEMMA StoredFileIsKey ==
    ASSUME TypeOK, KeysOrdered, NEW n \in Names
    PROVE  /\ StoredFile(n) \in Key
           /\ Keys(n) # {} => /\ StoredFile(n) \in Keys(n)
                              /\ \A l \in Keys(n) \ {StoredFile(n)} : Younger(StoredFile(n), l)
<1>1. CASE Keys(n) = {}
  BY <1>1 DEF StoredFile, Key
<1>2. CASE Keys(n) # {}
  <2>1. HasYoungest(Keys(n))
    BY <1>2 DEF KeysOrdered
  <2> QED
    BY <1>2, <2>1, YoungestIsOne DEF StoredFile, TypeOK
<1> QED
  BY <1>1, <1>2

-----------------------------------------------------------------------------
(* Jobs and files, step by step                                            *)

\* A request goes on.
LEMMA GoesOn ==
    ASSUME JobTypes, NEW r \in Requests, NEW pc \in InFlight \cup Ended, Goto(r, pc)
    PROVE  /\ JobTypes'
           /\ job'[r].pc = pc
           /\ \A q \in Requests \ {r} : job'[q] = job[q]
           /\ \A q \in Requests : /\ job'[q].kind = job[q].kind /\ job'[q].name = job[q].name
                                   /\ job'[q].key = job[q].key /\ job'[q].keys = job[q].keys
BY DEF JobTypes, Jobs, Goto

\* A request arrives.
LEMMA Arrival ==
    ASSUME JobTypes, NEW r \in Requests, NEW n \in Names,
           NEW kind \in {"load", "update", "temporary", "delete"}, Arrives(r, kind, n)
    PROVE  /\ JobTypes'
           /\ job[r].pc = "new" /\ job'[r].pc = "begun" /\ job'[r].kind = kind /\ job'[r].name = n
           /\ job'[r].key = job[r].key /\ job'[r].keys = job[r].keys
           /\ \A q \in Requests \ {r} : job'[q] = job[q]
BY DEF JobTypes, Jobs, Arrives, InFlight

\* A request gets the key of its file.
LEMMA Storing ==
    ASSUME Core, NEW r \in Requests, StoreConfiguration(r)
    PROVE  /\ JobTypes'
           /\ job[r].pc = "begun" /\ job'[r].pc = "stored"
           /\ job'[r].key = IF job[r].kind = "update" THEN StoredFile(job[r].name) ELSE NewKey
           /\ job'[r].kind = job[r].kind /\ job'[r].name = job[r].name /\ job'[r].keys = job[r].keys
           /\ \A q \in Requests \ {r} : job'[q] = job[q]
<1>1. /\ job[r].pc = "begun" /\ job[r].name \in Names
      /\ job' = [job EXCEPT ![r].pc = "stored",
                            ![r].key = IF job[r].kind = "update" THEN StoredFile(job[r].name) ELSE NewKey]
  BY DEF StoreConfiguration, At, Core, JobsOK, InFlight
<1>2. NewKey \in Key /\ StoredFile(job[r].name) \in Key
  BY <1>1, StoredFileIsKey DEF Core, TypeOK, NewKey, Key
<1>3. JobTypes
  BY TypeParts DEF Core
<1> QED
  BY <1>1, <1>2, <1>3 DEF JobTypes, Jobs, InFlight

\* The files stay, and so do the requests that wrote them.
LEMMA FilesStay ==
    ASSUME FileTypes, FilesAnswered, KeysOrdered, stored' = stored,
           \A q \in Requests : job[q].pc = "done" => job'[q] = job[q]
    PROVE  /\ FileTypes' /\ FilesAnswered' /\ KeysOrdered'
           /\ \A n \in Names : /\ Keys(n)' = Keys(n)
                               /\ StoredFile(n)' = StoredFile(n) /\ Restorable(n)' = Restorable(n)
<1>1. \A n \in Names : Keys(n)' = Keys(n)
  BY DEF Keys
<1>2. FileTypes' /\ FilesAnswered'
  BY <1>1 DEF FileTypes, FilesAnswered
<1>3. KeysOrdered'
  BY <1>1 DEF KeysOrdered
<1> QED
  BY <1>1, <1>2, <1>3 DEF StoredFile, Restorable

\* The part that does.
Histories ==
    /\ NewUnknown /\ ConcurrentUnsettled /\ YoungerUnsettled /\ DeletionListed
    /\ OneTransfer /\ LiveNamed /\ RemovedUnsettled /\ Undisturbed /\ NamesHeld

\* The inductive invariant.
StoreInv == Core /\ Histories /\ RestartKeepsAnswered /\ LiveIsPossible /\ LiveKeepsItsFile

-----------------------------------------------------------------------------
(* The invariant is kept by every step                                     *)

\* A step of a request that changes neither contexts nor files nor what is expected.
LEMMA QuietStep ==
    ASSUME StoreInv, NEW r \in Requests, NEW pc \in (InFlight \cup Ended) \ {"begun", "renaming", "deleting", "done"},
           Goto(r, pc), phase = "up", job[r].pc \in InFlight \ {"renaming"},
           pc \in InFlight => job[r].pc \notin {"begun", "deleting"},
           pc \in Writing => job[r].pc \in Writing,
           pc \in Removing => job[r].pc \in Removing,
           OtherTypes', NamesHeld',
           UNCHANGED <<phase, clock, stored, live, history>>
    PROVE  StoreInv'
<1> USE DEF InFlight, Ended, Writing, Removing, clock, history
<1>1. JobTypes /\ FileTypes /\ OtherTypes
  BY TypeParts DEF StoreInv, Core
<1>2. /\ JobTypes' /\ job'[r].pc = pc
      /\ \A q \in Requests \ {r} : job'[q] = job[q]
      /\ \A q \in Requests : /\ job'[q].kind = job[q].kind /\ job'[q].name = job[q].name
                             /\ job'[q].key = job[q].key /\ job'[q].keys = job[q].keys
  BY <1>1, GoesOn
<1>3. /\ FileTypes' /\ FilesAnswered' /\ KeysOrdered'
      /\ \A n \in Names : Keys(n)' = Keys(n) /\ Restorable(n)' = Restorable(n)
  <2>1. \A q \in Requests : job[q].pc = "done" => job'[q] = job[q]
    BY <1>2
  <2> QED
    BY <1>1, <2>1, FilesStay DEF StoreInv, Core
<1>4. Core'
  <2>1. TypeOK'
    BY <1>2, <1>3, TypeParts, PTL
  <2>2. JobsOK'
    BY <1>2 DEF StoreInv, Core, JobsOK
  <2>3. KeysPast'
    BY <1>2 DEF StoreInv, Core, KeysPast
  <2> QED
    BY <1>3, <2>1, <2>2, <2>3 DEF Core
<1>5. Histories'
  <2>1. NewUnknown'
    BY <1>2 DEF StoreInv, Histories, NewUnknown
  <2>2. ConcurrentUnsettled'
    BY <1>2 DEF StoreInv, Histories, ConcurrentUnsettled
  <2>3. YoungerUnsettled'
    BY <1>2, <1>3 DEF StoreInv, Histories, YoungerUnsettled, Core, JobsOK
  <2>4. DeletionListed'
    BY <1>2, <1>3 DEF StoreInv, Histories, DeletionListed, Core, JobsOK, Default
  <2>5. OneTransfer'
    BY <1>2 DEF StoreInv, Histories, OneTransfer
  <2>6. LiveNamed'
    BY <1>2 DEF StoreInv, Histories, LiveNamed
  <2>7. RemovedUnsettled'
    BY <1>2 DEF StoreInv, Histories, RemovedUnsettled
  <2>8. Undisturbed'
    BY <1>2, <1>3 DEF StoreInv, Histories, Undisturbed, Core, JobsOK, Active
  <2> QED
    BY <2>1, <2>2, <2>3, <2>4, <2>5, <2>6, <2>7, <2>8 DEF Histories
<1>6. RestartKeepsAnswered'
  BY <1>3 DEF StoreInv, RestartKeepsAnswered
<1>7. LiveIsPossible'
  BY DEF StoreInv, LiveIsPossible
<1>8. LiveKeepsItsFile'
  BY <1>2, <1>3 DEF StoreInv, LiveKeepsItsFile
<1> QED
  BY <1>4, <1>5, <1>6, <1>7, <1>8 DEF StoreInv

\* Two ways to arrive, which differ in what happens to the name.
LEMMA ArrivalStep ==
    ASSUME StoreInv, NEW r \in Requests, NEW n \in Names,
           NEW kind \in {"load", "update", "temporary", "delete"}, Arrives(r, kind, n),
           \/ kind # "temporary" /\ UNCHANGED m_contextNameMap
           \/ /\ kind = "temporary" /\ m_contextNameMap[n] = "absent"
              /\ m_contextNameMap' = [m_contextNameMap EXCEPT ![n] = "unstored"]
    PROVE  StoreInv'
<1> USE DEF InFlight, Ended, Writing, Removing
<1>1. JobTypes /\ FileTypes /\ OtherTypes
  BY TypeParts DEF StoreInv, Core
<1>2. /\ JobTypes' /\ job[r].pc = "new" /\ job'[r].pc = "begun"
      /\ job'[r].kind = kind /\ job'[r].name = n
      /\ job'[r].key = job[r].key /\ job'[r].keys = job[r].keys
      /\ \A q \in Requests \ {r} : job'[q] = job[q]
  BY <1>1, Arrival
<1>3. /\ phase = "up" /\ settled' = [settled EXCEPT ![r] = Settled(n)]
      /\ disturbed' = IF Deleting(n) \/ (kind = "delete" /\ Active(n) # {})
                      THEN disturbed \cup {n} ELSE disturbed
      /\ UNCHANGED <<phase, boot, m_configCounter, stored, unfinished, live, possible>>
  BY DEF Arrives, clock, files
<1>4. /\ FileTypes' /\ FilesAnswered' /\ KeysOrdered'
      /\ \A m \in Names : Keys(m)' = Keys(m) /\ Restorable(m)' = Restorable(m)
  <2>1. \A q \in Requests : job[q].pc = "done" => job'[q] = job[q]
    BY <1>2
  <2> QED
    BY <1>1, <1>3, <2>1, FilesStay DEF StoreInv, Core
<1>5. \* What is settled is possible, and nobody under way put it.
      /\ settled'[r] \subseteq possible[n] /\ \A q \in Active(n) : q \notin settled'[r]
      /\ \A q \in Requests \ {r} : settled'[q] = settled[q]
  BY <1>1, <1>3 DEF Settled, OtherTypes
<1>6. Core'
  <2>1. OtherTypes'
    BY <1>1, <1>3, <1>5 DEF OtherTypes
  <2>2. TypeOK'
    BY <1>2, <1>4, <2>1, TypeParts, PTL
  <2>3. JobsOK'
    BY <1>2, <1>3 DEF StoreInv, Core, JobsOK
  <2>4. KeysPast'
    BY <1>2, <1>3 DEF StoreInv, Core, KeysPast
  <2> QED
    BY <1>4, <2>2, <2>3, <2>4 DEF Core
<1>7. Histories'
  <2>1. NewUnknown'
    BY <1>2, <1>3, <1>5 DEF StoreInv, Histories, NewUnknown
  <2>2. ConcurrentUnsettled'
    <3> SUFFICES ASSUME NEW p \in Requests, NEW q \in Requests,
                        job'[p].pc \in InFlight, job'[q].pc \in InFlight, job'[q].name = job'[p].name
                 PROVE  q \notin settled'[p]
      BY DEF ConcurrentUnsettled
    <3>1. CASE p = r /\ q = r
      BY <1>2, <1>5, <3>1 DEF StoreInv, Histories, NewUnknown
    <3>2. CASE p = r /\ q # r
      BY <1>2, <1>5, <3>2 DEF Active
    <3>3. CASE p # r /\ q = r
      BY <1>2, <1>5, <3>3 DEF StoreInv, Histories, NewUnknown
    <3>4. CASE p # r /\ q # r
      BY <1>2, <1>5, <3>4 DEF StoreInv, Histories, ConcurrentUnsettled
    <3> QED
      BY <3>1, <3>2, <3>3, <3>4
  <2>3. YoungerUnsettled'
    BY <1>2, <1>3, <1>4, <1>5 DEF StoreInv, Histories, YoungerUnsettled, Core, JobsOK
  <2>4. DeletionListed'
    BY <1>2, <1>3, <1>4, <1>5 DEF StoreInv, Histories, DeletionListed, Default, Core, JobsOK
  <2>5. OneTransfer'
    BY <1>2, <1>3 DEF StoreInv, Histories, OneTransfer
  <2>6. LiveNamed'
    BY <1>2, <1>3 DEF StoreInv, Histories, LiveNamed, NewUnknown
  <2>7. RemovedUnsettled'
    BY <1>2, <1>3, <1>5 DEF StoreInv, Histories, RemovedUnsettled
  <2>8. Undisturbed'
    <3> SUFFICES ASSUME NEW q \in Requests, NEW m \in Names, job'[q].name = m,
                        job'[q].pc \in InFlight, job'[q].kind = "delete", m \notin disturbed'
                 PROVE  /\ Active(m)' = {q}
                        /\ job'[q].pc \in Removing => live'[m] = None
                        /\ job'[q].pc = "deleting" => Keys(m)' \subseteq job'[q].keys
      BY <1>6 DEF Undisturbed, Active, Keys, Core, JobsOK
    <3>1. CASE q = r
      BY <1>2, <1>3, <3>1 DEF Active
    <3>2. CASE q # r
      <4>1. m # n
        BY <1>2, <1>3, <3>2 DEF Deleting, Active
      <4>2. Active(m)' = Active(m)
        BY <1>2, <4>1 DEF Active
      <4> QED
        BY <1>2, <1>3, <1>4, <3>2, <4>2 DEF StoreInv, Histories, Undisturbed
    <3> QED
      BY <3>1, <3>2
  <2>9. NamesHeld'
    <3> SUFFICES ASSUME NEW m \in Names \ disturbed', live'[m] # None \/ Keys(m)' # {}
                 PROVE  NameHeld(m)'
      BY DEF NamesHeld
    <3>1. NameHeld(m)
      BY <1>3, <1>4 DEF StoreInv, Histories, NamesHeld
    <3>2. Active(m) \subseteq Active(m)' /\ Active(m)' \subseteq Active(m) \cup (IF m = n THEN {r} ELSE {})
      BY <1>2 DEF Active
    <3> QED
      BY <1>1, <1>2, <3>1, <3>2 DEF NameHeld, OtherTypes, Active
  <2> QED
    BY <2>1, <2>2, <2>3, <2>4, <2>5, <2>6, <2>7, <2>8, <2>9 DEF Histories
<1>8. RestartKeepsAnswered'
  BY <1>3, <1>4 DEF StoreInv, RestartKeepsAnswered
<1>9. LiveIsPossible'
  BY <1>3 DEF StoreInv, LiveIsPossible
<1>10. LiveKeepsItsFile'
  BY <1>2, <1>3, <1>4 DEF StoreInv, LiveKeepsItsFile
<1> QED
  BY <1>6, <1>7, <1>8, <1>9, <1>10 DEF StoreInv

\* The key of a new configuration is younger than any other.
LEMMA StoreStep ==
    ASSUME StoreInv, NEW r \in Requests, StoreConfiguration(r)
    PROVE  StoreInv'
<1> USE DEF InFlight, Ended, Writing, Removing
<1>1. JobTypes /\ FileTypes /\ OtherTypes /\ Core
  BY TypeParts DEF StoreInv, Core
<1>2. /\ JobTypes' /\ job[r].pc = "begun" /\ job'[r].pc = "stored"
      /\ job'[r].key = IF job[r].kind = "update" THEN StoredFile(job[r].name) ELSE NewKey
      /\ job'[r].kind = job[r].kind /\ job'[r].name = job[r].name /\ job'[r].keys = job[r].keys
      /\ \A q \in Requests \ {r} : job'[q] = job[q]
  BY <1>1, Storing
<1>3. /\ phase = "up" /\ job[r].kind \in {"load", "temporary", "update"} /\ job[r].name \in Names
      /\ m_configCounter' = m_configCounter + 1 /\ unfinished' = unfinished \cup {r}
      /\ UNCHANGED <<phase, boot, stored, live, m_contextNameMap, possible, settled, disturbed>>
  BY <1>1 DEF StoreConfiguration, At, history, Core, JobsOK
<1>4. /\ FileTypes' /\ FilesAnswered' /\ KeysOrdered'
      /\ \A m \in Names : Keys(m)' = Keys(m) /\ Restorable(m)' = Restorable(m)
  <2>1. \A q \in Requests : job[q].pc = "done" => job'[q] = job[q]
    BY <1>2
  <2> QED
    BY <1>1, <1>3, <2>1, FilesStay DEF Core
<1>5. \* Every key is older than the counter, and every file is the one replaced or older.
      /\ Younger(<<boot, m_configCounter'>>, NewKey)
      /\ \A k \in Key \ {NoKey} : Younger(NewKey, k) => Younger(<<boot, m_configCounter'>>, k)
      /\ \A k \in Keys(job[r].name) : job'[r].key # NoKey => ~ Younger(k, job'[r].key)
  <2>1. boot \in 1..MaxBoots /\ m_configCounter \in Nat /\ NewKey \in Key \ {NoKey}
    BY <1>1 DEF OtherTypes, NewKey, Key, NoKey
  <2>2. Younger(<<boot, m_configCounter'>>, NewKey)
    BY <2>1, <1>3 DEF NewKey, Younger
  <2>3. \A k \in Key \ {NoKey} : Younger(NewKey, k) => Younger(<<boot, m_configCounter'>>, k)
    BY <2>1, <1>3, StoreAssumption DEF NewKey, Younger, Key, NoKey, StoreAssumption
  <2>4. ASSUME NEW k \in Keys(job[r].name), job'[r].key # NoKey
        PROVE  ~ Younger(k, job'[r].key)
    <3>1. k \in Key \ {NoKey} /\ Younger(NewKey, k)
      BY <1>1, <1>3 DEF FileTypes, Core, KeysPast, NewKey
    <3>2. CASE job[r].kind = "update"
      BY <1>1, <1>2, <1>3, <2>4, <3>1, <3>2, StoredFileIsKey, YoungerIsTotal DEF Core, FileTypes
    <3>3. CASE job[r].kind # "update"
      BY <1>2, <2>1, <3>1, <3>3, YoungerIsTotal
    <3> QED
      BY <3>2, <3>3
  <2> QED
    BY <2>2, <2>3, <2>4
<1>6. Core'
  <2>1. OtherTypes'
    BY <1>1, <1>3 DEF OtherTypes
  <2>2. TypeOK'
    BY <1>2, <1>4, <2>1, TypeParts, PTL
  <2>3. JobsOK'
    BY <1>1, <1>2, <1>3 DEF Core, JobsOK
  <2>4. KeysPast'
    <3> SUFFICES ASSUME NEW q \in Requests, job'[q].key # NoKey
                 PROVE  Younger(<<boot, m_configCounter'>>, job'[q].key)
      BY <1>3 DEF KeysPast
    <3>1. job'[q].key \in Key \ {NoKey}
      BY <1>2 DEF JobTypes, Jobs
    <3>2. job'[q].key = NewKey \/ Younger(NewKey, job'[q].key)
      <4>1. CASE job'[q].key = job[q].key
        BY <1>1, <4>1 DEF Core, KeysPast, NewKey
      <4>2. CASE q = r /\ job'[r].key = StoredFile(job[r].name)
        <5>1. StoredFile(job[r].name) \in Keys(job[r].name)
          BY <1>1, <1>3, <4>2, StoredFileIsKey DEF StoredFile, Core
        <5> QED
          BY <1>1, <1>3, <4>2, <5>1 DEF FileTypes, Core, KeysPast, NewKey
      <4> QED
        BY <1>2, <4>1, <4>2
    <3> QED
      BY <1>5, <3>1, <3>2
  <2> QED
    BY <1>4, <2>2, <2>3, <2>4 DEF Core
<1>7. Histories'
  <2>1. NewUnknown'
    BY <1>2, <1>3 DEF StoreInv, Histories, NewUnknown
  <2>2. ConcurrentUnsettled'
    BY <1>2, <1>3 DEF StoreInv, Histories, ConcurrentUnsettled
  <2>3. YoungerUnsettled'
    BY <1>2, <1>3, <1>4, <1>5 DEF StoreInv, Histories, YoungerUnsettled, Core, JobsOK
  <2>4. DeletionListed'
    BY <1>2, <1>3, <1>4 DEF StoreInv, Histories, DeletionListed, Default, Core, JobsOK
  <2>5. OneTransfer'
    BY <1>2, <1>3 DEF StoreInv, Histories, OneTransfer
  <2>6. LiveNamed'
    BY <1>2, <1>3 DEF StoreInv, Histories, LiveNamed
  <2>7. RemovedUnsettled'
    BY <1>2, <1>3 DEF StoreInv, Histories, RemovedUnsettled
  <2>8. Undisturbed'
    BY <1>1, <1>2, <1>3, <1>4 DEF StoreInv, Histories, Undisturbed, Active, Core, JobsOK
  <2>9. NamesHeld'
    <3> SUFFICES ASSUME NEW m \in Names \ disturbed, live[m] # None \/ Keys(m) # {}
                 PROVE  NameHeld(m)'
      BY <1>3, <1>4 DEF NamesHeld
    <3>1. NameHeld(m)
      BY <1>3 DEF StoreInv, Histories, NamesHeld
    <3>2. Active(m)' = Active(m)
      BY <1>2 DEF Active
    <3> QED
      BY <1>2, <1>3, <3>1, <3>2 DEF NameHeld, Active
  <2> QED
    BY <2>1, <2>2, <2>3, <2>4, <2>5, <2>6, <2>7, <2>8, <2>9 DEF Histories
<1>8. RestartKeepsAnswered'
  BY <1>3, <1>4 DEF StoreInv, RestartKeepsAnswered
<1>9. LiveIsPossible'
  BY <1>3 DEF StoreInv, LiveIsPossible
<1>10. LiveKeepsItsFile'
  BY <1>2, <1>3, <1>4 DEF StoreInv, LiveKeepsItsFile
<1> QED
  BY <1>6, <1>7, <1>8, <1>9, <1>10 DEF StoreInv

\* The context is handed over while nobody else holds the mutex.
LEMMA TransferStep ==
    ASSUME StoreInv, NEW r \in Requests, Transfer(r)
    PROVE  StoreInv'
<1> USE DEF InFlight, Ended, Writing, Removing
<1>1. JobTypes /\ FileTypes /\ OtherTypes /\ Core
  BY TypeParts DEF StoreInv, Core
<1> DEFINE n == job[r].name
<1>2. /\ job[r].pc = "executed" /\ n \in Names /\ phase = "up" /\ TransferLockFree
      /\ live' = [live EXCEPT ![n] = r]
      /\ possible' = [possible EXCEPT ![n] = @ \cup {r}]
      /\ Goto(r, "renaming")
      /\ UNCHANGED <<phase, boot, m_configCounter, stored, unfinished, m_contextNameMap, settled, disturbed>>
  BY <1>1 DEF Transfer, At, Core, JobsOK, clock, files
<1>3. /\ JobTypes' /\ job'[r].pc = "renaming"
      /\ \A q \in Requests \ {r} : job'[q] = job[q]
      /\ \A q \in Requests : /\ job'[q].kind = job[q].kind /\ job'[q].name = job[q].name
                             /\ job'[q].key = job[q].key /\ job'[q].keys = job[q].keys
  BY <1>1, <1>2, GoesOn
<1> HIDE DEF n
<1>4. /\ FileTypes' /\ FilesAnswered' /\ KeysOrdered'
      /\ \A m \in Names : Keys(m)' = Keys(m) /\ Restorable(m)' = Restorable(m)
  <2>1. \A q \in Requests : job[q].pc = "done" => job'[q] = job[q]
    BY <1>2, <1>3
  <2> QED
    BY <1>1, <1>2, <2>1, FilesStay DEF Core
<1>5. /\ \A m \in Names : live'[m] = IF m = n THEN r ELSE live[m]
      /\ \A m \in Names : possible'[m] = IF m = n THEN possible[m] \cup {r} ELSE possible[m]
      /\ \A m \in Names : Active(m)' = Active(m)
  BY <1>1, <1>2, <1>3 DEF OtherTypes, Active
<1>6. Core'
  <2>1. OtherTypes'
    BY <1>1, <1>2 DEF OtherTypes, Content
  <2>2. TypeOK'
    BY <1>3, <1>4, <2>1, TypeParts, PTL
  <2>3. JobsOK'
    BY <1>1, <1>2, <1>3 DEF Core, JobsOK
  <2>4. KeysPast'
    BY <1>1, <1>2, <1>3 DEF Core, KeysPast
  <2> QED
    BY <1>4, <2>2, <2>3, <2>4 DEF Core
<1>7. Histories'
  <2>1. NewUnknown'
    BY <1>2, <1>3, <1>5 DEF StoreInv, Histories, NewUnknown
  <2>2. ConcurrentUnsettled'
    BY <1>2, <1>3 DEF StoreInv, Histories, ConcurrentUnsettled
  <2>3. YoungerUnsettled'
    BY <1>2, <1>3, <1>4 DEF StoreInv, Histories, YoungerUnsettled, Core, JobsOK
  <2>4. DeletionListed'
    BY <1>2, <1>3, <1>4, <1>5 DEF StoreInv, Histories, DeletionListed, Default, Core, JobsOK
  <2>5. OneTransfer'
    BY <1>2, <1>3, <1>5 DEF StoreInv, Histories, OneTransfer, TransferLockFree, n
  <2>6. LiveNamed'
    BY <1>2, <1>3, <1>5 DEF StoreInv, Histories, LiveNamed, n
  <2>7. RemovedUnsettled'
    BY <1>1, <1>2, <1>3, <1>5 DEF StoreInv, Histories, RemovedUnsettled, ConcurrentUnsettled, Core, JobsOK, n
  <2>8. Undisturbed'
    <3> SUFFICES ASSUME NEW q \in Requests, NEW m \in Names, job'[q].name = m,
                        job'[q].pc \in InFlight, job'[q].kind = "delete", m \notin disturbed'
                 PROVE  /\ Active(m)' = {q}
                        /\ job'[q].pc \in Removing => live'[m] = None
                        /\ job'[q].pc = "deleting" => Keys(m)' \subseteq job'[q].keys
      BY <1>6 DEF Undisturbed, Active, Keys, Core, JobsOK
    <3>1. q # r
      BY <1>1, <1>2, <1>3 DEF Core, JobsOK
    <3>2. Active(m) = {q}
      BY <1>2, <1>3, <3>1 DEF StoreInv, Histories, Undisturbed
    <3>3. m # n
      BY <1>2, <3>1, <3>2 DEF Active, n
    <3> QED
      BY <1>2, <1>3, <1>4, <1>5, <3>1, <3>2, <3>3 DEF StoreInv, Histories, Undisturbed
  <2>9. NamesHeld'
    <3> SUFFICES ASSUME NEW m \in Names \ disturbed, live'[m] # None \/ Keys(m) # {}
                 PROVE  NameHeld(m)'
      BY <1>2, <1>4 DEF NamesHeld
    <3>1. CASE m = n
      BY <1>2, <1>3, <3>1 DEF NameHeld, Active, n
    <3>2. CASE m # n
      <4>1. NameHeld(m)
        BY <1>2, <1>5, <3>2 DEF StoreInv, Histories, NamesHeld
      <4> QED
        BY <1>2, <1>3, <1>5, <4>1 DEF NameHeld, Active
    <3> QED
      BY <3>1, <3>2
  <2> QED
    BY <2>1, <2>2, <2>3, <2>4, <2>5, <2>6, <2>7, <2>8, <2>9 DEF Histories
<1>8. RestartKeepsAnswered'
  BY <1>4, <1>5 DEF StoreInv, RestartKeepsAnswered
<1>9. LiveIsPossible'
  BY <1>2, <1>5 DEF StoreInv, LiveIsPossible
<1>10. LiveKeepsItsFile'
  BY <1>2, <1>3, <1>4, <1>5 DEF StoreInv, LiveKeepsItsFile
<1> QED
  BY <1>6, <1>7, <1>8, <1>9, <1>10 DEF StoreInv

\* One more file: a set of keys with a youngest one in each of its parts keeps it.
LEMMA OneMoreKey ==
    ASSUME NEW keys \in SUBSET (Key \ {NoKey}), NEW new \in Key \ {NoKey},
           \A some \in SUBSET keys : some # {} => HasYoungest(some)
    PROVE  \A some \in SUBSET (keys \cup {new}) : some # {} => HasYoungest(some)
<1> SUFFICES ASSUME NEW some \in SUBSET (keys \cup {new}), some # {}
             PROVE  HasYoungest(some)
  OBVIOUS
<1>1. CASE new \notin some
  BY <1>1
<1>2. CASE some = {new}
  BY <1>2 DEF HasYoungest
<1>3. CASE new \in some /\ some # {new}
  <2>1. HasYoungest(some \ {new})
    BY <1>3
  <2>2. PICK k \in some \ {new} : \A l \in (some \ {new}) \ {k} : Younger(k, l)
    BY <2>1 DEF HasYoungest
  <2>3. CASE Younger(k, new)
    BY <2>2, <2>3 DEF HasYoungest
  <2>4. CASE Younger(new, k)
    <3>1. \A l \in some \ {new} : Younger(new, l)
      BY <2>2, <2>4, YoungerIsTotal
    <3> QED
      BY <1>3, <3>1 DEF HasYoungest
  <2> QED
    BY <2>2, <2>3, <2>4, YoungerIsTotal
<1> QED
  BY <1>1, <1>2, <1>3

\* The file gets its name.  What it restores is the new content, or a younger
\* one, which came while the request ran.
LEMMA CommitStep ==
    ASSUME StoreInv, NEW r \in Requests, Commit(r)
    PROVE  StoreInv'
<1> USE DEF InFlight, Ended, Writing, Removing
<1>1. JobTypes /\ FileTypes /\ OtherTypes /\ Core
  BY TypeParts DEF StoreInv, Core
<1> DEFINE n == job[r].name
           key == job[r].key
           old == IF \E q \in Active(n) \ {r} : job[q].kind = "delete" THEN {} ELSE settled[r]
<1>2. /\ job[r].pc = "renaming" /\ n \in Names /\ phase = "up" /\ key \in Key \ {NoKey}
      /\ job[r].kind # "delete"
      /\ stored' = [stored EXCEPT ![n] = [k \in Keys(n) \cup {key} |-> IF k = key THEN r ELSE stored[n][k]]]
      /\ m_contextNameMap' = [m_contextNameMap EXCEPT ![n] = "stored"]
      /\ possible' = [possible EXCEPT ![n] = (@ \ old) \cup {r}]
      /\ unfinished' = unfinished \ {r}
      /\ Goto(r, "done")
      /\ UNCHANGED <<phase, boot, m_configCounter, live, settled, disturbed>>
  BY <1>1 DEF Commit, FileName, Answered, Core, JobsOK, clock, JobTypes, Jobs
<1>3. /\ JobTypes' /\ job'[r].pc = "done"
      /\ \A q \in Requests \ {r} : job'[q] = job[q]
      /\ \A q \in Requests : /\ job'[q].kind = job[q].kind /\ job'[q].name = job[q].name
                             /\ job'[q].key = job[q].key /\ job'[q].keys = job[q].keys
  BY <1>1, <1>2, GoesOn
<1>4. /\ DOMAIN stored' = Names
      /\ \A m \in Names : Keys(m)' = IF m = n THEN Keys(m) \cup {key} ELSE Keys(m)
      /\ \A m \in Names : \A k \in Keys(m)' : stored'[m][k] = IF m = n /\ k = key THEN r ELSE stored[m][k]
      /\ \A m \in Names \ {n} : stored'[m] = stored[m]
  BY <1>1, <1>2 DEF FileTypes, Keys
<1>5. /\ \A m \in Names : possible'[m] = IF m = n THEN (possible[m] \ old) \cup {r} ELSE possible[m]
      /\ \A m \in Names : Active(m)' = Active(m) \ {r}
      /\ \A m \in Names : m_contextNameMap'[m] = IF m = n THEN "stored" ELSE m_contextNameMap[m]
      /\ live[n] = r
  <2>1. live[n] = r
    BY <1>2 DEF StoreInv, Histories, OneTransfer
  <2>2. \A m \in Names : Active(m)' = Active(m) \ {r}
    BY <1>2, <1>3 DEF Active
  <2> HIDE DEF n, old
  <2> QED
    BY <1>1, <1>2, <2>1, <2>2 DEF OtherTypes
<1>6. /\ old \subseteq settled[r]
      /\ \A q \in Requests : job[q].pc \in InFlight /\ job[q].name = n /\ job[q].kind = "delete" => old = {}
      /\ \A k \in Keys(n) : Younger(k, key) => stored[n][k] \notin old
  BY <1>1, <1>2 DEF StoreInv, Histories, YoungerUnsettled, Active
<1> HIDE DEF n, key, old
<1>7. Core'
  <2>1. OtherTypes'
    BY <1>1, <1>2, <1>6 DEF OtherTypes, Content
  <2>2. FileTypes' /\ FilesAnswered'
    <3>1. FileTypes'
      BY <1>1, <1>2, <1>3, <1>4 DEF FileTypes, n, key
    <3>2. FilesAnswered'
      BY <1>1, <1>2, <1>3, <1>4 DEF FileTypes, FilesAnswered, Core
    <3> QED
      BY <3>1, <3>2
  <2>3. TypeOK'
    BY <1>3, <2>1, <2>2, TypeParts, PTL
  <2>4. JobsOK'
    BY <1>1, <1>2, <1>3 DEF Core, JobsOK
  <2>5. KeysPast'
    BY <1>1, <1>2, <1>3 DEF Core, KeysPast
  <2>6. KeysOrdered'
    <3>1. \A some \in SUBSET (Keys(n) \cup {key}) : some # {} => HasYoungest(some)
      BY <1>1, <1>2, OneMoreKey DEF Core, KeysOrdered, FileTypes
    <3> QED
      BY <1>1, <1>4, <3>1 DEF Core, KeysOrdered
  <2> QED
    BY <2>2, <2>3, <2>4, <2>5, <2>6 DEF Core
<1>8. RestartKeepsAnswered'
  <2> SUFFICES ASSUME NEW m \in Names
               PROVE  Restorable(m)' \in possible'[m]
    BY DEF RestartKeepsAnswered
  <2>1. CASE m # n
    BY <1>4, <1>5, <2>1 DEF StoreInv, RestartKeepsAnswered, Restorable, StoredFile, Keys
  <2>2. CASE m = n
    <3> DEFINE keys == Keys(m) \cup {key}
               y == Youngest(keys)
    <3>1. y \in keys /\ \A l \in keys \ {y} : Younger(y, l)
      <4>1. HasYoungest(keys)
        BY <1>4, <1>7, <2>2 DEF Core, KeysOrdered
      <4> HIDE DEF keys
      <4> QED
        BY <4>1, YoungestIsOne
    <3>2. Restorable(m)' = IF y = key THEN r ELSE stored[m][y]
      <4>1. Keys(m)' = keys /\ keys # {}
        BY <1>4, <2>2
      <4>2. StoredFile(m)' = y
        BY <4>1 DEF StoredFile
      <4> HIDE DEF y, keys
      <4> QED
        BY <1>4, <2>2, <3>1, <4>1, <4>2 DEF Restorable
    <3> HIDE DEF y
    <3>3. CASE y = key
      BY <1>5, <2>2, <3>2, <3>3
    <3>4. CASE y # key
      <4>1. y \in Keys(m) /\ Younger(y, key) /\ \A l \in Keys(m) \ {y} : Younger(y, l)
        BY <3>1, <3>4
      <4>2. StoredFile(m) = y
        BY <1>1, <4>1, StoredFileIsKey, YoungerIsTotal DEF Core, FileTypes
      <4>3. stored[m][y] \in possible[m]
        BY <4>1, <4>2 DEF StoreInv, RestartKeepsAnswered, Restorable
      <4>4. stored[m][y] \notin old
        BY <1>6, <2>2, <4>1
      <4> HIDE DEF keys
      <4> QED
        BY <1>5, <2>2, <3>2, <3>4, <4>3, <4>4
    <3> QED
      BY <3>3, <3>4
  <2> QED
    BY <2>1, <2>2
<1>9. LiveIsPossible'
  BY <1>2, <1>5 DEF StoreInv, LiveIsPossible
<1>10. LiveKeepsItsFile'
  <2> SUFFICES ASSUME NEW m \in Names \ disturbed, NEW q \in Requests, live[m] = q, job'[q].pc = "done"
               PROVE  job'[q].key \in Keys(m)' /\ stored'[m][job'[q].key] = q
    BY <1>2 DEF LiveKeepsItsFile
  <2>1. CASE q = r
    BY <1>2, <1>3, <1>4, <2>1 DEF StoreInv, Histories, LiveNamed, n, key
  <2>2. CASE q # r
    BY <1>2, <1>3, <1>4, <1>5, <2>2 DEF StoreInv, LiveKeepsItsFile
  <2> QED
    BY <2>1, <2>2
<1>11. Histories'
  <2>1. NewUnknown'
    BY <1>2, <1>3, <1>5 DEF StoreInv, Histories, NewUnknown
  <2>2. ConcurrentUnsettled'
    BY <1>2, <1>3 DEF StoreInv, Histories, ConcurrentUnsettled
  <2>3. YoungerUnsettled'
    <3> SUFFICES ASSUME NEW q \in Requests, NEW m \in Names, job'[q].name = m, job'[q].pc \in Writing,
                        job'[q].key # NoKey, NEW k \in Keys(m)', Younger(k, job'[q].key)
                 PROVE  stored'[m][k] \notin settled[q]
      BY <1>2, <1>7 DEF YoungerUnsettled, Core, JobsOK, Keys
    <3>1. q # r /\ job'[q] = job[q]
      BY <1>3
    <3>2. CASE m = n /\ k = key
      BY <1>2, <1>4, <3>1, <3>2 DEF StoreInv, Histories, ConcurrentUnsettled, n
    <3>3. CASE ~ (m = n /\ k = key)
      <4>1. k \in Keys(m) /\ stored'[m][k] = stored[m][k]
        BY <1>4, <3>3
      <4> QED
        BY <3>1, <4>1 DEF StoreInv, Histories, YoungerUnsettled
    <3> QED
      BY <3>2, <3>3
  <2>4. DeletionListed'
    <3> SUFFICES ASSUME NEW q \in Requests, NEW m \in Names, job'[q].name = m, job'[q].pc = "deleting"
                 PROVE  /\ Default(m) \in possible'[m]
                        /\ \A k \in Keys(m)' : /\ stored'[m][k] \in possible'[m]
                                               /\ k \notin job'[q].keys => stored'[m][k] \notin settled[q]
      BY <1>2, <1>7 DEF DeletionListed, Core, JobsOK, Keys, Default
    <3>1. q # r /\ job'[q] = job[q]
      BY <1>3
    <3>2. /\ Default(m) \in possible[m]
          /\ \A k \in Keys(m) : /\ stored[m][k] \in possible[m]
                                /\ k \notin job[q].keys => stored[m][k] \notin settled[q]
      BY <3>1 DEF StoreInv, Histories, DeletionListed
    <3>3. possible[m] \subseteq possible'[m] /\ (m = n => r \in possible'[m])
      BY <1>1, <1>5, <1>6, <3>1 DEF Core, JobsOK
    <3>4. r \notin settled[q] \/ m # n
      BY <1>2, <3>1 DEF StoreInv, Histories, ConcurrentUnsettled, n
    <3> QED
      BY <1>4, <3>1, <3>2, <3>3, <3>4
  <2>5. OneTransfer'
    BY <1>2, <1>3 DEF StoreInv, Histories, OneTransfer
  <2>6. LiveNamed'
    BY <1>2, <1>3 DEF StoreInv, Histories, LiveNamed
  <2>7. RemovedUnsettled'
    BY <1>2, <1>3 DEF StoreInv, Histories, RemovedUnsettled
  <2>8. Undisturbed'
    <3> SUFFICES ASSUME NEW q \in Requests, NEW m \in Names, job'[q].name = m,
                        job'[q].pc \in InFlight, job'[q].kind = "delete", m \notin disturbed'
                 PROVE  /\ Active(m)' = {q}
                        /\ job'[q].pc \in Removing => live'[m] = None
                        /\ job'[q].pc = "deleting" => Keys(m)' \subseteq job'[q].keys
      BY <1>7 DEF Undisturbed, Active, Keys, Core, JobsOK
    <3>1. q # r /\ job'[q] = job[q]
      BY <1>3
    <3>2. Active(m) = {q}
      BY <1>2, <3>1 DEF StoreInv, Histories, Undisturbed
    <3>3. m # n
      BY <1>2, <3>1, <3>2 DEF Active, n
    <3> QED
      BY <1>2, <1>4, <1>5, <3>1, <3>2, <3>3 DEF StoreInv, Histories, Undisturbed
  <2>9. NamesHeld'
    <3> SUFFICES ASSUME NEW m \in Names \ disturbed, live[m] # None \/ Keys(m)' # {}
                 PROVE  NameHeld(m)'
      BY <1>2 DEF NamesHeld
    <3>1. CASE m = n
      BY <1>2, <1>5, <3>1 DEF NameHeld
    <3>2. CASE m # n
      <4>1. NameHeld(m)
        BY <1>2, <1>4, <3>2 DEF StoreInv, Histories, NamesHeld
      <4>2. Active(m)' = Active(m)
        BY <1>5, <3>2 DEF Active, n
      <4> QED
        BY <1>2, <1>3, <1>5, <3>2, <4>1, <4>2 DEF NameHeld, Active, n
    <3> QED
      BY <3>1, <3>2
  <2> QED
    BY <2>1, <2>2, <2>3, <2>4, <2>5, <2>6, <2>7, <2>8, <2>9 DEF Histories
<1> QED
  BY <1>7, <1>8, <1>9, <1>10, <1>11 DEF StoreInv

\* A rename that fails leaves the name in doubt.
LEMMA CommitFailsStep ==
    ASSUME StoreInv, NEW r \in Requests, CommitFails(r)
    PROVE  StoreInv'
<1> USE DEF InFlight, Ended, Writing, Removing
<1>1. JobTypes /\ FileTypes /\ OtherTypes /\ Core
  BY TypeParts DEF StoreInv, Core
<1> DEFINE n == job[r].name
<1>2. /\ job[r].pc = "renaming" /\ n \in Names /\ phase = "up"
      /\ m_contextNameMap' = [m_contextNameMap EXCEPT ![n] = "absent"]
      /\ disturbed' = disturbed \cup {n}
      /\ Goto(r, "inconsistent")
      /\ UNCHANGED <<phase, boot, m_configCounter, stored, unfinished, live, possible, settled>>
  BY <1>1 DEF CommitFails, Core, JobsOK, clock, files
<1>3. /\ JobTypes' /\ job'[r].pc = "inconsistent"
      /\ \A q \in Requests \ {r} : job'[q] = job[q]
      /\ \A q \in Requests : /\ job'[q].kind = job[q].kind /\ job'[q].name = job[q].name
                             /\ job'[q].key = job[q].key /\ job'[q].keys = job[q].keys
  BY <1>1, <1>2, GoesOn
<1> HIDE DEF n
<1>4. /\ FileTypes' /\ FilesAnswered' /\ KeysOrdered'
      /\ \A m \in Names : Keys(m)' = Keys(m) /\ Restorable(m)' = Restorable(m)
  <2>1. \A q \in Requests : job[q].pc = "done" => job'[q] = job[q]
    BY <1>2, <1>3
  <2> QED
    BY <1>1, <1>2, <2>1, FilesStay DEF Core
<1>5. Core'
  <2>1. OtherTypes'
    BY <1>1, <1>2 DEF OtherTypes
  <2>2. TypeOK'
    BY <1>3, <1>4, <2>1, TypeParts, PTL
  <2>3. JobsOK'
    BY <1>1, <1>2, <1>3 DEF Core, JobsOK
  <2>4. KeysPast'
    BY <1>1, <1>2, <1>3 DEF Core, KeysPast
  <2> QED
    BY <1>4, <2>2, <2>3, <2>4 DEF Core
<1>6. Histories'
  <2>1. NewUnknown'
    BY <1>2, <1>3 DEF StoreInv, Histories, NewUnknown
  <2>2. ConcurrentUnsettled'
    BY <1>2, <1>3 DEF StoreInv, Histories, ConcurrentUnsettled
  <2>3. YoungerUnsettled'
    BY <1>2, <1>3, <1>4 DEF StoreInv, Histories, YoungerUnsettled, Core, JobsOK
  <2>4. DeletionListed'
    BY <1>2, <1>3, <1>4 DEF StoreInv, Histories, DeletionListed, Default, Core, JobsOK
  <2>5. OneTransfer'
    BY <1>2, <1>3 DEF StoreInv, Histories, OneTransfer
  <2>6. LiveNamed'
    BY <1>2, <1>3 DEF StoreInv, Histories, LiveNamed
  <2>7. RemovedUnsettled'
    BY <1>2, <1>3 DEF StoreInv, Histories, RemovedUnsettled
  <2>8. Undisturbed'
    <3> SUFFICES ASSUME NEW q \in Requests, NEW m \in Names, job'[q].name = m,
                        job'[q].pc \in InFlight, job'[q].kind = "delete", m \notin disturbed'
                 PROVE  /\ Active(m)' = {q}
                        /\ job'[q].pc \in Removing => live'[m] = None
                        /\ job'[q].pc = "deleting" => Keys(m)' \subseteq job'[q].keys
      BY <1>5 DEF Undisturbed, Active, Keys, Core, JobsOK
    <3>1. m # n /\ q # r
      BY <1>2, <1>3 DEF n
    <3>2. Active(m)' = Active(m)
      BY <1>3, <3>1 DEF Active, n
    <3> QED
      BY <1>2, <1>3, <1>4, <3>1, <3>2 DEF StoreInv, Histories, Undisturbed
  <2>9. NamesHeld'
    <3> SUFFICES ASSUME NEW m \in Names \ disturbed', live[m] # None \/ Keys(m) # {}
                 PROVE  NameHeld(m)'
      BY <1>2, <1>4 DEF NamesHeld
    <3>1. m # n
      BY <1>2
    <3>2. NameHeld(m)
      BY <1>2 DEF StoreInv, Histories, NamesHeld
    <3>3. Active(m)' = Active(m)
      BY <1>3, <3>1 DEF Active, n
    <3> QED
      BY <1>1, <1>2, <1>3, <3>1, <3>2, <3>3 DEF NameHeld, Active, OtherTypes, n
  <2> QED
    BY <2>1, <2>2, <2>3, <2>4, <2>5, <2>6, <2>7, <2>8, <2>9 DEF Histories
<1>7. RestartKeepsAnswered'
  BY <1>2, <1>4 DEF StoreInv, RestartKeepsAnswered
<1>8. LiveIsPossible'
  BY <1>2 DEF StoreInv, LiveIsPossible
<1>9. LiveKeepsItsFile'
  BY <1>2, <1>3, <1>4 DEF StoreInv, LiveKeepsItsFile
<1> QED
  BY <1>5, <1>6, <1>7, <1>8, <1>9 DEF StoreInv

\* A deletion takes the context away, and fails when there is none.
LEMMA RemoveContextStep ==
    ASSUME StoreInv, NEW r \in Requests, RemoveContext(r)
    PROVE  StoreInv'
<1> USE DEF InFlight, Ended, Writing, Removing
<1>1. JobTypes /\ FileTypes /\ OtherTypes /\ Core
  BY TypeParts DEF StoreInv, Core
<1> DEFINE n == job[r].name
           pc == IF live[n] = None THEN "failed" ELSE "removed"
<1>2. /\ job[r].pc = "begun" /\ n \in Names /\ phase = "up" /\ job[r].kind = "delete" /\ TransferLockFree
      /\ Goto(r, pc)
      /\ live' = [live EXCEPT ![n] = None]
      /\ possible' = IF live[n] = None THEN possible ELSE [possible EXCEPT ![n] = @ \cup {None}]
      /\ UNCHANGED <<phase, boot, m_configCounter, stored, unfinished, m_contextNameMap, settled, disturbed>>
  BY <1>1 DEF RemoveContext, At, Core, JobsOK, clock, files
<1>3. /\ JobTypes' /\ job'[r].pc = pc
      /\ \A q \in Requests \ {r} : job'[q] = job[q]
      /\ \A q \in Requests : /\ job'[q].kind = job[q].kind /\ job'[q].name = job[q].name
                             /\ job'[q].key = job[q].key /\ job'[q].keys = job[q].keys
  BY <1>1, <1>2, GoesOn
<1> HIDE DEF n
<1>4. /\ FileTypes' /\ FilesAnswered' /\ KeysOrdered'
      /\ \A m \in Names : Keys(m)' = Keys(m) /\ Restorable(m)' = Restorable(m)
  <2>1. \A q \in Requests : job[q].pc = "done" => job'[q] = job[q]
    BY <1>2, <1>3
  <2> QED
    BY <1>1, <1>2, <2>1, FilesStay DEF Core
<1>5. /\ \A m \in Names : live'[m] = IF m = n THEN None ELSE live[m]
      /\ \A m \in Names : possible[m] \subseteq possible'[m] /\ possible'[m] \subseteq possible[m] \cup {None}
      /\ None \in possible'[n]
  <2>1. live[n] = None => None \in possible[n]
    BY <1>2 DEF StoreInv, LiveIsPossible
  <2> QED
    BY <1>1, <1>2, <2>1 DEF OtherTypes
<1>6. Core'
  <2>1. OtherTypes'
    BY <1>1, <1>2 DEF OtherTypes, Content
  <2>2. TypeOK'
    BY <1>3, <1>4, <2>1, TypeParts, PTL
  <2>3. JobsOK'
    BY <1>1, <1>2, <1>3 DEF Core, JobsOK
  <2>4. KeysPast'
    BY <1>1, <1>2, <1>3 DEF Core, KeysPast
  <2> QED
    BY <1>4, <2>2, <2>3, <2>4 DEF Core
<1>7. Histories'
  <2>0. None \notin Requests
    BY StoreAssumption DEF StoreAssumption
  <2>1. NewUnknown'
    BY <1>2, <1>3, <1>5, <2>0 DEF StoreInv, Histories, NewUnknown
  <2>2. ConcurrentUnsettled'
    BY <1>2, <1>3 DEF StoreInv, Histories, ConcurrentUnsettled
  <2>3. YoungerUnsettled'
    BY <1>2, <1>3, <1>4 DEF StoreInv, Histories, YoungerUnsettled, Core, JobsOK
  <2>4. DeletionListed'
    BY <1>2, <1>3, <1>4, <1>5 DEF StoreInv, Histories, DeletionListed, Default, Core, JobsOK
  <2>5. OneTransfer'
    BY <1>2, <1>3 DEF StoreInv, Histories, OneTransfer, TransferLockFree
  <2>6. LiveNamed'
    BY <1>2, <1>3, <1>5, <2>0 DEF StoreInv, Histories, LiveNamed
  <2>7. RemovedUnsettled'
    BY <1>1, <1>2, <1>3, <1>5 DEF StoreInv, Histories, RemovedUnsettled, Core, JobsOK, n
  <2>8. Undisturbed'
    <3> SUFFICES ASSUME NEW q \in Requests, NEW m \in Names, job'[q].name = m,
                        job'[q].pc \in InFlight, job'[q].kind = "delete", m \notin disturbed'
                 PROVE  /\ Active(m)' = {q}
                        /\ job'[q].pc \in Removing => live'[m] = None
                        /\ job'[q].pc = "deleting" => Keys(m)' \subseteq job'[q].keys
      BY <1>6 DEF Undisturbed, Active, Keys, Core, JobsOK
    <3>1. CASE q = r
      <4>1. Active(m) = {q}
        BY <1>2, <1>3, <3>1 DEF StoreInv, Histories, Undisturbed
      <4>2. Active(m)' = {q}
        BY <1>3, <3>1, <4>1 DEF Active
      <4> QED
        BY <1>3, <1>5, <3>1, <4>2 DEF n
    <3>2. CASE q # r
      <4>1. Active(m) = {q}
        BY <1>2, <1>3, <3>2 DEF StoreInv, Histories, Undisturbed
      <4>2. m # n
        BY <1>2, <3>2, <4>1 DEF Active, n
      <4>3. Active(m)' = Active(m)
        BY <1>3, <4>2 DEF Active, n
      <4> QED
        BY <1>2, <1>3, <1>4, <1>5, <3>2, <4>2, <4>3 DEF StoreInv, Histories, Undisturbed
    <3> QED
      BY <3>1, <3>2
  <2>9. NamesHeld'
    <3> SUFFICES ASSUME NEW m \in Names \ disturbed, live[m] # None \/ Keys(m) # {}
                 PROVE  NameHeld(m)'
      BY <1>2, <1>4, <1>5 DEF NamesHeld
    <3>1. NameHeld(m)
      BY <1>2 DEF StoreInv, Histories, NamesHeld
    <3>2. \A q \in Active(m)' : q \in Active(m)
      BY <1>2, <1>3 DEF Active
    <3>3. \A q \in Active(m) : job[q].pc = "renaming" => q \in Active(m)' /\ job'[q].pc = "renaming"
      BY <1>2, <1>3 DEF Active
    <3> QED
      BY <1>2, <1>3, <3>1, <3>2, <3>3 DEF NameHeld, Active
  <2> QED
    BY <2>1, <2>2, <2>3, <2>4, <2>5, <2>6, <2>7, <2>8, <2>9 DEF Histories
<1>8. RestartKeepsAnswered'
  BY <1>4, <1>5 DEF StoreInv, RestartKeepsAnswered
<1>9. LiveIsPossible'
  BY <1>2, <1>5 DEF StoreInv, LiveIsPossible
<1>10. LiveKeepsItsFile'
  <2>1. None \notin Requests
    BY StoreAssumption DEF StoreAssumption
  <2> QED
    BY <1>2, <1>3, <1>4, <1>5, <2>1 DEF StoreInv, LiveKeepsItsFile
<1> QED
  BY <1>6, <1>7, <1>8, <1>9, <1>10 DEF StoreInv

\* A deletion lists the files it is going to remove.
LEMMA ListFilesStep ==
    ASSUME StoreInv, NEW r \in Requests, ListFiles(r)
    PROVE  StoreInv'
<1> USE DEF InFlight, Ended, Writing, Removing
<1>1. JobTypes /\ FileTypes /\ OtherTypes /\ Core
  BY TypeParts DEF StoreInv, Core
<1> DEFINE n == job[r].name
<1>2. /\ job[r].pc = "schema" /\ n \in Names /\ phase = "up" /\ job[r].kind = "delete"
      /\ possible' = [possible EXCEPT ![n] = @ \cup Range(stored[n]) \cup {Default(n)}]
      /\ UNCHANGED <<phase, boot, m_configCounter, stored, unfinished, live, m_contextNameMap, settled, disturbed>>
  BY <1>1 DEF ListFiles, At, Core, JobsOK, clock, files
<1>3. /\ JobTypes' /\ job'[r].pc = "deleting" /\ job'[r].keys = Keys(n)
      /\ \A q \in Requests \ {r} : job'[q] = job[q]
      /\ \A q \in Requests : job'[q].kind = job[q].kind /\ job'[q].name = job[q].name /\ job'[q].key = job[q].key
  <2>1. job' = [job EXCEPT ![r].pc = "deleting", ![r].keys = Keys(n)]
    BY DEF ListFiles
  <2>2. Keys(n) \in SUBSET Key
    BY <1>1, <1>2 DEF FileTypes
  <2> HIDE DEF n
  <2> QED
    BY <1>1, <2>1, <2>2 DEF JobTypes, Jobs
<1> HIDE DEF n
<1>4. /\ FileTypes' /\ FilesAnswered' /\ KeysOrdered'
      /\ \A m \in Names : Keys(m)' = Keys(m) /\ Restorable(m)' = Restorable(m)
  <2>1. \A q \in Requests : job[q].pc = "done" => job'[q] = job[q]
    BY <1>2, <1>3 DEF n
  <2> QED
    BY <1>1, <1>2, <2>1, FilesStay DEF Core
<1>5. /\ \A m \in Names : possible[m] \subseteq possible'[m]
      /\ \A m \in Names : \A x \in possible'[m] :
            x \in possible[m] \/ x \in {None, Builtin} \/ (x \in Requests /\ job[x].pc = "done")
      /\ Default(n) \in possible'[n] /\ \A k \in Keys(n) : stored[n][k] \in possible'[n]
      /\ \A m \in Names : Active(m)' = Active(m)
  <2>1. \A x \in Range(stored[n]) : x \in Requests /\ job[x].pc = "done"
    BY <1>1, <1>2 DEF Core, FileTypes, FilesAnswered, Range, Keys
  <2>2. \A k \in Keys(n) : stored[n][k] \in Range(stored[n])
    BY DEF Range, Keys
  <2>3. \A m \in Names : Active(m)' = Active(m)
    BY <1>2, <1>3 DEF Active
  <2> QED
    BY <1>1, <1>2, <2>1, <2>2, <2>3 DEF OtherTypes, Default
<1>6. Core'
  <2>1. OtherTypes'
    <3>1. possible' \in [Names -> SUBSET Content]
      <4>1. DOMAIN possible' = Names /\ possible' = [m \in Names |-> possible'[m]]
        BY <1>1, <1>2 DEF OtherTypes
      <4>2. \A m \in Names : possible'[m] \subseteq Content
        BY <1>1, <1>5 DEF OtherTypes, Content
      <4> QED
        BY <4>1, <4>2
    <3> QED
      BY <1>1, <1>2, <3>1 DEF OtherTypes
  <2>2. TypeOK'
    BY <1>3, <1>4, <2>1, TypeParts, PTL
  <2>3. JobsOK'
    BY <1>1, <1>2, <1>3 DEF Core, JobsOK
  <2>4. KeysPast'
    BY <1>1, <1>2, <1>3 DEF Core, KeysPast
  <2> QED
    BY <1>4, <2>2, <2>3, <2>4 DEF Core
<1>7. Histories'
  <2>0. {None, Builtin} \cap Requests = {}
    BY StoreAssumption DEF StoreAssumption
  <2>1. NewUnknown'
    BY <1>2, <1>3, <1>5, <2>0 DEF StoreInv, Histories, NewUnknown
  <2>2. ConcurrentUnsettled'
    BY <1>2, <1>3 DEF StoreInv, Histories, ConcurrentUnsettled
  <2>3. YoungerUnsettled'
    BY <1>2, <1>3, <1>4 DEF StoreInv, Histories, YoungerUnsettled, Core, JobsOK
  <2>4. DeletionListed'
    <3> SUFFICES ASSUME NEW q \in Requests, NEW m \in Names, job'[q].name = m, job'[q].pc = "deleting"
                 PROVE  /\ Default(m) \in possible'[m]
                        /\ \A k \in Keys(m)' : /\ stored'[m][k] \in possible'[m]
                                               /\ k \notin job'[q].keys => stored'[m][k] \notin settled[q]
      BY <1>2, <1>6 DEF DeletionListed, Core, JobsOK, Keys, Default
    <3>1. CASE q = r
      BY <1>2, <1>3, <1>4, <1>5, <3>1 DEF n
    <3>2. CASE q # r
      BY <1>2, <1>3, <1>4, <1>5, <3>2 DEF StoreInv, Histories, DeletionListed
    <3> QED
      BY <3>1, <3>2
  <2>5. OneTransfer'
    BY <1>2, <1>3 DEF StoreInv, Histories, OneTransfer
  <2>6. LiveNamed'
    BY <1>2, <1>3 DEF StoreInv, Histories, LiveNamed
  <2>7. RemovedUnsettled'
    BY <1>2, <1>3 DEF StoreInv, Histories, RemovedUnsettled
  <2>8. Undisturbed'
    <3> SUFFICES ASSUME NEW q \in Requests, NEW m \in Names, job'[q].name = m,
                        job'[q].pc \in InFlight, job'[q].kind = "delete", m \notin disturbed'
                 PROVE  /\ Active(m)' = {q}
                        /\ job'[q].pc \in Removing => live'[m] = None
                        /\ job'[q].pc = "deleting" => Keys(m)' \subseteq job'[q].keys
      BY <1>6 DEF Undisturbed, Active, Keys, Core, JobsOK
    <3>1. job[q].pc \in InFlight /\ (job'[q].pc \in Removing => job[q].pc \in Removing)
      BY <1>2, <1>3
    <3>2. Active(m) = {q} /\ (job[q].pc \in Removing => live[m] = None)
      BY <1>2, <1>3, <3>1 DEF StoreInv, Histories, Undisturbed
    <3>3. CASE q = r
      BY <1>2, <1>3, <1>4, <1>5, <3>1, <3>2, <3>3 DEF n
    <3>4. CASE q # r
      BY <1>2, <1>3, <1>4, <1>5, <3>4 DEF StoreInv, Histories, Undisturbed
    <3> QED
      BY <3>3, <3>4
  <2>9. NamesHeld'
    <3> SUFFICES ASSUME NEW m \in Names \ disturbed, live[m] # None \/ Keys(m) # {}
                 PROVE  NameHeld(m)'
      BY <1>2, <1>4 DEF NamesHeld
    <3>1. NameHeld(m)
      BY <1>2 DEF StoreInv, Histories, NamesHeld
    <3> QED
      BY <1>2, <1>3, <1>5, <3>1 DEF NameHeld, Active
  <2> QED
    BY <2>1, <2>2, <2>3, <2>4, <2>5, <2>6, <2>7, <2>8, <2>9 DEF Histories
<1>8. RestartKeepsAnswered'
  BY <1>4, <1>5 DEF StoreInv, RestartKeepsAnswered
<1>9. LiveIsPossible'
  BY <1>2, <1>5 DEF StoreInv, LiveIsPossible
<1>10. LiveKeepsItsFile'
  BY <1>2, <1>3, <1>4, <1>5 DEF StoreInv, LiveKeepsItsFile
<1> QED
  BY <1>6, <1>7, <1>8, <1>9, <1>10 DEF StoreInv

\* A file is removed, and the requests that wrote files stay.
LEMMA FileGone ==
    ASSUME FileTypes, FilesAnswered, KeysOrdered, NEW n \in Names, NEW k,
           stored' = [stored EXCEPT ![n] = Restrict(@, DOMAIN @ \ {k})],
           \A q \in Requests : job[q].pc = "done" =>
               job'[q].pc = "done" /\ job'[q].name = job[q].name /\ job'[q].key = job[q].key
    PROVE  /\ FileTypes' /\ FilesAnswered' /\ KeysOrdered'
           /\ \A m \in Names : Keys(m)' = IF m = n THEN Keys(m) \ {k} ELSE Keys(m)
           /\ \A m \in Names : \A l \in Keys(m)' : stored'[m][l] = stored[m][l]
<1>1. \A m \in Names : Keys(m)' = IF m = n THEN Keys(m) \ {k} ELSE Keys(m)
  BY DEF FileTypes, Keys, Restrict
<1>2. DOMAIN stored' = Names /\ \A m \in Names : \A l \in Keys(m)' : stored'[m][l] = stored[m][l]
  BY DEF FileTypes, Keys, Restrict
<1>3. ASSUME NEW m \in Names, NEW l \in Keys(m)'
      PROVE  /\ l \in Key \ {NoKey} /\ stored'[m][l] \in Requests
             /\ job'[stored'[m][l]].name = m /\ job'[stored'[m][l]].key = l /\ job'[stored'[m][l]].pc = "done"
  <2>1. l \in Keys(m) /\ stored'[m][l] = stored[m][l]
    BY <1>1, <1>2
  <2> QED
    BY <2>1 DEF FileTypes, FilesAnswered
<1>4. FileTypes' /\ FilesAnswered'
  <2> HIDE DEF Keys
  <2> QED
    BY <1>2, <1>3 DEF FileTypes, FilesAnswered
<1>5. KeysOrdered'
  BY <1>1 DEF KeysOrdered
<1> QED
  BY <1>1, <1>2, <1>3, <1>4, <1>5

\* What is left may be any of the files listed, or one that came since.
LEMMA DeleteFileStep ==
    ASSUME StoreInv, NEW r \in Requests, DeleteFile(r)
    PROVE  StoreInv'
<1> USE DEF InFlight, Ended, Writing, Removing
<1>1. JobTypes /\ FileTypes /\ OtherTypes /\ Core
  BY TypeParts DEF StoreInv, Core
<1> DEFINE n == job[r].name
<1>2. /\ job[r].pc = "deleting" /\ n \in Names /\ phase = "up" /\ job[r].kind = "delete"
      /\ UNCHANGED <<phase, boot, m_configCounter, unfinished, live, m_contextNameMap, possible, settled, disturbed>>
  BY <1>1 DEF DeleteFile, At, Core, JobsOK, clock, history
<1>3. PICK k \in job[r].keys : /\ stored' = [stored EXCEPT ![n] = Restrict(@, DOMAIN @ \ {k})]
                               /\ job' = [job EXCEPT ![r].keys = @ \ {k}]
  BY DEF DeleteFile
<1>4. /\ JobTypes' /\ job'[r].keys = job[r].keys \ {k}
      /\ \A q \in Requests \ {r} : job'[q] = job[q]
      /\ \A q \in Requests : /\ job'[q].pc = job[q].pc /\ job'[q].kind = job[q].kind
                             /\ job'[q].name = job[q].name /\ job'[q].key = job[q].key
  BY <1>1, <1>3 DEF JobTypes, Jobs
<1>5. /\ FileTypes' /\ FilesAnswered' /\ KeysOrdered'
      /\ \A m \in Names : Keys(m)' = IF m = n THEN Keys(m) \ {k} ELSE Keys(m)
      /\ \A m \in Names : \A l \in Keys(m)' : stored'[m][l] = stored[m][l]
  <2> HIDE DEF n
  <2>1. \A q \in Requests : job[q].pc = "done" =>
           job'[q].pc = "done" /\ job'[q].name = job[q].name /\ job'[q].key = job[q].key
    BY <1>4
  <2>2. stored' = [stored EXCEPT ![n] = Restrict(@, DOMAIN @ \ {k})]
    BY <1>3
  <2> QED
    BY <1>1, <1>2, <2>1, <2>2, FileGone DEF Core
<1> HIDE DEF n
<1>6. /\ \A m \in Names : Keys(m)' \subseteq Keys(m)
      /\ \A m \in Names : Active(m)' = Active(m)
      /\ \A q \in Requests : job'[q].keys \subseteq job[q].keys
  BY <1>4, <1>5 DEF Active
<1>7. Core'
  <2>1. OtherTypes'
    BY <1>1, <1>2 DEF OtherTypes
  <2>2. TypeOK'
    BY <1>4, <1>5, <2>1, TypeParts, PTL
  <2>3. JobsOK'
    BY <1>1, <1>2, <1>4 DEF Core, JobsOK
  <2>4. KeysPast'
    BY <1>1, <1>2, <1>4 DEF Core, KeysPast
  <2> QED
    BY <1>5, <2>2, <2>3, <2>4 DEF Core
<1>8. Histories'
  <2>1. NewUnknown'
    BY <1>2, <1>4 DEF StoreInv, Histories, NewUnknown
  <2>2. ConcurrentUnsettled'
    BY <1>2, <1>4 DEF StoreInv, Histories, ConcurrentUnsettled
  <2>3. YoungerUnsettled'
    BY <1>1, <1>2, <1>4, <1>5, <1>6 DEF StoreInv, Histories, YoungerUnsettled, Core, JobsOK
  <2>4. DeletionListed'
    <3> SUFFICES ASSUME NEW q \in Requests, NEW m \in Names, job'[q].name = m, job'[q].pc = "deleting"
                 PROVE  /\ Default(m) \in possible[m]
                        /\ \A l \in Keys(m)' : /\ stored'[m][l] \in possible[m]
                                               /\ l \notin job'[q].keys => stored'[m][l] \notin settled[q]
      BY <1>2, <1>7 DEF DeletionListed, Core, JobsOK, Keys, Default
    <3>1. /\ Default(m) \in possible[m]
          /\ \A l \in Keys(m) : /\ stored[m][l] \in possible[m]
                                /\ l \notin job[q].keys => stored[m][l] \notin settled[q]
      BY <1>4 DEF StoreInv, Histories, DeletionListed
    <3>2. \A l \in Keys(m)' : l \notin job'[q].keys => l \notin job[q].keys
      BY <1>4, <1>5 DEF n
    <3> QED
      BY <1>5, <1>6, <3>1, <3>2
  <2>5. OneTransfer'
    BY <1>2, <1>4 DEF StoreInv, Histories, OneTransfer
  <2>6. LiveNamed'
    BY <1>2, <1>4 DEF StoreInv, Histories, LiveNamed
  <2>7. RemovedUnsettled'
    BY <1>2, <1>4 DEF StoreInv, Histories, RemovedUnsettled
  <2>8. Undisturbed'
    <3> SUFFICES ASSUME NEW q \in Requests, NEW m \in Names, job'[q].name = m,
                        job'[q].pc \in InFlight, job'[q].kind = "delete", m \notin disturbed'
                 PROVE  /\ Active(m)' = {q}
                        /\ job'[q].pc \in Removing => live'[m] = None
                        /\ job'[q].pc = "deleting" => Keys(m)' \subseteq job'[q].keys
      BY <1>7 DEF Undisturbed, Active, Keys, Core, JobsOK
    <3>1. Active(m) = {q} /\ (job'[q].pc \in Removing => live[m] = None)
          /\ (job'[q].pc = "deleting" => Keys(m) \subseteq job[q].keys)
      BY <1>2, <1>4 DEF StoreInv, Histories, Undisturbed
    <3>2. m = n => q = r
      BY <1>2, <3>1 DEF Active, n
    <3> QED
      BY <1>2, <1>4, <1>5, <1>6, <3>1, <3>2 DEF n
  <2>9. NamesHeld'
    <3> SUFFICES ASSUME NEW m \in Names \ disturbed, live[m] # None \/ Keys(m) # {}
                 PROVE  NameHeld(m)'
      BY <1>2, <1>6 DEF NamesHeld
    <3>1. NameHeld(m)
      BY <1>2 DEF StoreInv, Histories, NamesHeld
    <3> QED
      BY <1>2, <1>4, <1>6, <3>1 DEF NameHeld, Active
  <2> QED
    BY <2>1, <2>2, <2>3, <2>4, <2>5, <2>6, <2>7, <2>8, <2>9 DEF Histories
<1>9. RestartKeepsAnswered'
  <2> SUFFICES ASSUME NEW m \in Names
               PROVE  Restorable(m)' \in possible[m]
    BY <1>2 DEF RestartKeepsAnswered
  <2>1. CASE m # n
    <3>1. stored'[m] = stored[m]
      BY <1>1, <1>3, <2>1 DEF FileTypes
    <3> QED
      BY <3>1 DEF StoreInv, RestartKeepsAnswered, Restorable, StoredFile, Keys
  <2>2. CASE m = n
    <3>1. /\ Default(m) \in possible[m]
          /\ \A l \in Keys(m) : stored[m][l] \in possible[m]
      BY <1>2, <2>2 DEF StoreInv, Histories, DeletionListed, n
    <3>2. CASE Keys(m)' = {}
      BY <3>1, <3>2 DEF Restorable, Default
    <3>3. CASE Keys(m)' # {}
      <4> DEFINE keys == Keys(m)'
      <4>1. HasYoungest(keys)
        BY <1>7, <3>3 DEF Core, KeysOrdered
      <4>2. StoredFile(m)' = Youngest(keys) /\ Restorable(m)' = stored'[m][StoredFile(m)']
        BY <3>3 DEF StoredFile, Restorable
      <4> HIDE DEF keys
      <4>3. Youngest(keys) \in keys
        BY <4>1, YoungestIsOne
      <4> QED
        BY <1>5, <1>6, <3>1, <4>2, <4>3 DEF keys
    <3> QED
      BY <3>2, <3>3
  <2> QED
    BY <2>1, <2>2
<1>10. LiveIsPossible'
  BY <1>2 DEF StoreInv, LiveIsPossible
<1>11. LiveKeepsItsFile'
  <2> SUFFICES ASSUME NEW m \in Names \ disturbed, NEW q \in Requests, live[m] = q, job'[q].pc = "done"
               PROVE  job'[q].key \in Keys(m)' /\ stored'[m][job'[q].key] = q
    BY <1>2 DEF LiveKeepsItsFile
  <2>1. m # n
    BY <1>2, StoreAssumption DEF StoreInv, Histories, Undisturbed, n, StoreAssumption
  <2> QED
    BY <1>2, <1>4, <1>5, <2>1 DEF StoreInv, LiveKeepsItsFile
<1> QED
  BY <1>7, <1>8, <1>9, <1>10, <1>11 DEF StoreInv

\* All files listed are gone.
LEMMA DeleteDoneStep ==
    ASSUME StoreInv, NEW r \in Requests, DeleteDone(r)
    PROVE  StoreInv'
<1> USE DEF InFlight, Ended, Writing, Removing
<1>1. JobTypes /\ FileTypes /\ OtherTypes /\ Core
  BY TypeParts DEF StoreInv, Core
<1> DEFINE n == job[r].name
           old == IF \E q \in Active(n) \ {r} : job[q].kind = "delete" THEN {} ELSE settled[r]
<1>2. /\ job[r].pc = "deleting" /\ job[r].keys = {} /\ n \in Names /\ phase = "up" /\ job[r].kind = "delete"
      /\ m_contextNameMap' = [m_contextNameMap EXCEPT ![n] = "absent"]
      /\ possible' = [possible EXCEPT ![n] = (@ \ old) \cup {None, Default(n)}]
      /\ Goto(r, "done")
      /\ UNCHANGED <<phase, boot, m_configCounter, stored, unfinished, live, settled, disturbed>>
  BY <1>1 DEF DeleteDone, At, Answered, Core, JobsOK, clock, files
<1>3. /\ JobTypes' /\ job'[r].pc = "done"
      /\ \A q \in Requests \ {r} : job'[q] = job[q]
      /\ \A q \in Requests : /\ job'[q].kind = job[q].kind /\ job'[q].name = job[q].name
                             /\ job'[q].key = job[q].key /\ job'[q].keys = job[q].keys
  BY <1>1, <1>2, GoesOn
<1>4. /\ FileTypes' /\ FilesAnswered' /\ KeysOrdered'
      /\ \A m \in Names : Keys(m)' = Keys(m) /\ Restorable(m)' = Restorable(m)
  <2>1. \A q \in Requests : job[q].pc = "done" => job'[q] = job[q]
    BY <1>2, <1>3
  <2> QED
    BY <1>1, <1>2, <2>1, FilesStay DEF Core
<1>5. /\ old \subseteq settled[r]
      /\ \A q \in Requests \ {r} : job[q].pc \in InFlight /\ job[q].name = n /\ job[q].kind = "delete" => old = {}
      /\ \A k \in Keys(n) : stored[n][k] \notin old
      /\ live[n] = None \/ live[n] \notin old
      /\ \A m \in Names : Active(m)' = Active(m) \ {r}
  BY <1>2, <1>3 DEF StoreInv, Histories, DeletionListed, RemovedUnsettled, Active
<1> HIDE DEF n, old
<1>6. \A m \in Names : possible'[m] = IF m = n THEN (possible[m] \ old) \cup {None, Default(m)} ELSE possible[m]
  BY <1>1, <1>2 DEF OtherTypes
<1>7. Core'
  <2>1. OtherTypes'
    BY <1>1, <1>2 DEF OtherTypes, Content, Default
  <2>2. TypeOK'
    BY <1>3, <1>4, <2>1, TypeParts, PTL
  <2>3. JobsOK'
    BY <1>1, <1>2, <1>3 DEF Core, JobsOK
  <2>4. KeysPast'
    BY <1>1, <1>2, <1>3 DEF Core, KeysPast
  <2> QED
    BY <1>4, <2>2, <2>3, <2>4 DEF Core
<1>8. Histories'
  <2>0. {None, Builtin} \cap Requests = {}
    BY StoreAssumption DEF StoreAssumption
  <2>1. NewUnknown'
    BY <1>2, <1>3, <1>6, <2>0 DEF StoreInv, Histories, NewUnknown, Default
  <2>2. ConcurrentUnsettled'
    BY <1>2, <1>3 DEF StoreInv, Histories, ConcurrentUnsettled
  <2>3. YoungerUnsettled'
    BY <1>2, <1>3, <1>4 DEF StoreInv, Histories, YoungerUnsettled, Core, JobsOK
  <2>4. DeletionListed'
    <3> SUFFICES ASSUME NEW q \in Requests, NEW m \in Names, job'[q].name = m, job'[q].pc = "deleting"
                 PROVE  /\ Default(m) \in possible'[m]
                        /\ \A k \in Keys(m) : /\ stored[m][k] \in possible'[m]
                                              /\ k \notin job'[q].keys => stored[m][k] \notin settled[q]
      BY <1>2, <1>4, <1>7 DEF DeletionListed, Core, JobsOK, Keys, Default
    <3>1. q # r /\ job'[q] = job[q]
      BY <1>3
    <3>2. /\ Default(m) \in possible[m]
          /\ \A k \in Keys(m) : /\ stored[m][k] \in possible[m]
                                /\ k \notin job[q].keys => stored[m][k] \notin settled[q]
      BY <3>1 DEF StoreInv, Histories, DeletionListed
    <3>3. possible[m] \subseteq possible'[m]
      BY <1>1, <1>5, <1>6, <3>1 DEF Core, JobsOK
    <3> QED
      BY <3>1, <3>2, <3>3
  <2>5. OneTransfer'
    BY <1>2, <1>3 DEF StoreInv, Histories, OneTransfer
  <2>6. LiveNamed'
    BY <1>2, <1>3 DEF StoreInv, Histories, LiveNamed
  <2>7. RemovedUnsettled'
    BY <1>2, <1>3 DEF StoreInv, Histories, RemovedUnsettled
  <2>8. Undisturbed'
    <3> SUFFICES ASSUME NEW q \in Requests, NEW m \in Names, job'[q].name = m,
                        job'[q].pc \in InFlight, job'[q].kind = "delete", m \notin disturbed'
                 PROVE  /\ Active(m)' = {q}
                        /\ job'[q].pc \in Removing => live'[m] = None
                        /\ job'[q].pc = "deleting" => Keys(m)' \subseteq job'[q].keys
      BY <1>7 DEF Undisturbed, Active, Keys, Core, JobsOK
    <3>1. q # r /\ job'[q] = job[q]
      BY <1>3
    <3>2. Active(m) = {q}
      BY <1>2, <3>1 DEF StoreInv, Histories, Undisturbed
    <3> QED
      BY <1>2, <1>4, <1>5, <3>1, <3>2 DEF StoreInv, Histories, Undisturbed
  <2>9. NamesHeld'
    <3> SUFFICES ASSUME NEW m \in Names \ disturbed, live[m] # None \/ Keys(m) # {}
                 PROVE  NameHeld(m)'
      BY <1>2, <1>4 DEF NamesHeld
    <3>1. m # n
      BY <1>2 DEF StoreInv, Histories, Undisturbed, n
    <3>2. NameHeld(m)
      BY <1>2 DEF StoreInv, Histories, NamesHeld
    <3>3. Active(m)' = Active(m)
      BY <1>5, <3>1 DEF Active, n
    <3> QED
      BY <1>1, <1>2, <1>3, <3>1, <3>2, <3>3 DEF NameHeld, Active, OtherTypes, n
  <2> QED
    BY <2>1, <2>2, <2>3, <2>4, <2>5, <2>6, <2>7, <2>8, <2>9 DEF Histories
<1>9. RestartKeepsAnswered'
  <2> SUFFICES ASSUME NEW m \in Names
               PROVE  Restorable(m) \in possible'[m]
    BY <1>4 DEF RestartKeepsAnswered
  <2>1. Restorable(m) \in possible[m]
    BY DEF StoreInv, RestartKeepsAnswered
  <2>2. Restorable(m) = Default(m) \/ \E k \in Keys(m) : Restorable(m) = stored[m][k]
    BY <1>1, StoredFileIsKey DEF Restorable, Core
  <2> QED
    BY <1>5, <1>6, <2>1, <2>2
<1>10. LiveIsPossible'
  BY <1>2, <1>5, <1>6 DEF StoreInv, LiveIsPossible
<1>11. LiveKeepsItsFile'
  <2> SUFFICES ASSUME NEW m \in Names \ disturbed, NEW q \in Requests, live[m] = q, job'[q].pc = "done"
               PROVE  job'[q].key \in Keys(m) /\ stored[m][job'[q].key] = q
    BY <1>2, <1>4 DEF LiveKeepsItsFile
  <2>1. q # r
    BY <1>2, StoreAssumption DEF StoreInv, Histories, Undisturbed, LiveNamed, n, StoreAssumption
  <2> QED
    BY <1>2, <1>3, <2>1 DEF StoreInv, LiveKeepsItsFile
<1> QED
  BY <1>7, <1>8, <1>9, <1>10, <1>11 DEF StoreInv

\* What was under way when the service goes down is not answered.
LEMMA CrashStep ==
    ASSUME StoreInv, Crash
    PROVE  StoreInv'
<1> USE DEF InFlight, Ended, Writing, Removing
<1>1. JobTypes /\ FileTypes /\ OtherTypes /\ Core
  BY TypeParts DEF StoreInv, Core
<1>2. /\ phase' = "down" /\ boot < MaxBoots /\ boot' = boot + 1 /\ m_configCounter' = 0
      /\ live' = [n \in Names |-> None]
      /\ m_contextNameMap' = [n \in Names |-> "absent"]
      /\ UNCHANGED <<stored, unfinished, possible, settled, disturbed>>
  BY DEF Crash, files, history
<1>3. /\ JobTypes'
      /\ \A r \in Requests : /\ job'[r].pc \notin InFlight /\ (job'[r].pc = "new" => job[r].pc = "new")
                             /\ (job[r].pc \notin InFlight => job'[r] = job[r])
                             /\ job'[r].kind = job[r].kind /\ job'[r].name = job[r].name
                             /\ job'[r].key = job[r].key /\ job'[r].keys = job[r].keys
  BY <1>1 DEF Crash, JobTypes, Jobs
<1>4. /\ FileTypes' /\ FilesAnswered' /\ KeysOrdered'
      /\ \A m \in Names : Keys(m)' = Keys(m) /\ Restorable(m)' = Restorable(m)
  <2>1. \A q \in Requests : job[q].pc = "done" => job'[q] = job[q]
    BY <1>3
  <2> QED
    BY <1>1, <1>2, <2>1, FilesStay DEF Core
<1>5. None \notin Requests
  BY StoreAssumption DEF StoreAssumption
<1>6. Core'
  <2>1. OtherTypes'
    BY <1>1, <1>2, StoreAssumption DEF OtherTypes, Content, StoreAssumption
  <2>2. TypeOK'
    BY <1>3, <1>4, <2>1, TypeParts, PTL
  <2>3. JobsOK'
    BY <1>3 DEF JobsOK
  <2>4. KeysPast'
    <3> SUFFICES ASSUME NEW q \in Requests, job'[q].key # NoKey
                 PROVE  Younger(<<boot', m_configCounter'>>, job'[q].key)
      BY DEF KeysPast
    <3>1. job[q].key \in Key \ {NoKey} /\ Younger(<<boot, m_configCounter>>, job[q].key)
      BY <1>1, <1>3 DEF Core, KeysPast, JobTypes, Jobs
    <3> QED
      BY <1>1, <1>2, <1>3, <3>1, StoreAssumption DEF Younger, OtherTypes, Key, NoKey, StoreAssumption
  <2> QED
    BY <1>4, <2>2, <2>3, <2>4 DEF Core
<1>7. Histories'
  <2>1. NewUnknown'
    BY <1>2, <1>3, <1>5 DEF StoreInv, Histories, NewUnknown
  <2>2. ConcurrentUnsettled' /\ YoungerUnsettled' /\ DeletionListed' /\ OneTransfer'
        /\ RemovedUnsettled' /\ Undisturbed'
    BY <1>3 DEF ConcurrentUnsettled, YoungerUnsettled, DeletionListed, OneTransfer, RemovedUnsettled, Undisturbed
  <2>3. LiveNamed' /\ NamesHeld'
    BY <1>2, <1>5 DEF LiveNamed, NamesHeld
  <2> QED
    BY <2>1, <2>2, <2>3 DEF Histories
<1>8. RestartKeepsAnswered'
  BY <1>2, <1>4 DEF StoreInv, RestartKeepsAnswered
<1>9. LiveIsPossible' /\ LiveKeepsItsFile'
  BY <1>2 DEF LiveIsPossible, LiveKeepsItsFile
<1> QED
  BY <1>6, <1>7, <1>8, <1>9 DEF StoreInv

\* While the service is not up nothing is promised of its contexts.
LEMMA NotUp ==
    ASSUME StoreInv, phase # "up", phase' # "up",
           Core', RestartKeepsAnswered', UNCHANGED <<live, job, possible, settled>>
    PROVE  StoreInv'
<1>1. \A r \in Requests : job'[r].pc \notin InFlight
  BY DEF StoreInv, Core, JobsOK
<1>2. Writing \subseteq InFlight /\ Removing \subseteq InFlight /\ "renaming" \in InFlight /\ "deleting" \in InFlight
  BY DEF Writing, Removing, InFlight
<1>3. Histories'
  <2>1. NewUnknown'
    BY DEF StoreInv, Histories, NewUnknown
  <2>2. LiveNamed'
    BY DEF StoreInv, Histories, LiveNamed
  <2>3. ConcurrentUnsettled' /\ YoungerUnsettled' /\ DeletionListed' /\ OneTransfer'
        /\ RemovedUnsettled' /\ Undisturbed'
    BY <1>1, <1>2 DEF ConcurrentUnsettled, YoungerUnsettled, DeletionListed, OneTransfer, RemovedUnsettled, Undisturbed
  <2>4. NamesHeld'
    BY DEF NamesHeld
  <2> QED
    BY <2>1, <2>2, <2>3, <2>4 DEF Histories
<1>4. LiveIsPossible' /\ LiveKeepsItsFile'
  BY DEF LiveIsPossible, LiveKeepsItsFile
<1> QED
  BY <1>3, <1>4 DEF StoreInv

\* The clean-up of unfinished files touches nothing else.
LEMMA ClearUnfinishedStep ==
    ASSUME StoreInv, ClearUnfinished
    PROVE  StoreInv'
<1>1. JobTypes /\ FileTypes /\ OtherTypes /\ Core
  BY TypeParts DEF StoreInv, Core
<1>2. /\ phase = "down" /\ phase' = "cleaning" /\ unfinished' \subseteq unfinished
      /\ UNCHANGED <<boot, m_configCounter, stored, live, m_contextNameMap, job, possible, settled, disturbed>>
  BY DEF ClearUnfinished, clock, history
<1>3. /\ FileTypes' /\ FilesAnswered' /\ KeysOrdered'
      /\ \A m \in Names : Restorable(m)' = Restorable(m)
  BY <1>1, <1>2, FilesStay DEF Core
<1>4. Core'
  <2>1. OtherTypes' /\ JobTypes'
    BY <1>1, <1>2 DEF OtherTypes, JobTypes
  <2>2. TypeOK'
    BY <1>3, <2>1, TypeParts, PTL
  <2>3. JobsOK'
    BY <1>1, <1>2 DEF Core, JobsOK
  <2>4. KeysPast'
    BY <1>1, <1>2 DEF Core, KeysPast
  <2> QED
    BY <1>3, <2>2, <2>3, <2>4 DEF Core
<1>5. RestartKeepsAnswered'
  BY <1>2, <1>3 DEF StoreInv, RestartKeepsAnswered
<1> QED
  BY <1>2, <1>4, <1>5, NotUp

\* The clean-up leaves the youngest file of each name.
LEMMA RemoveObsoleteStep ==
    ASSUME StoreInv, NEW n \in Names, RemoveObsolete(n)
    PROVE  StoreInv'
<1>1. JobTypes /\ FileTypes /\ OtherTypes /\ Core
  BY TypeParts DEF StoreInv, Core
<1> DEFINE obsolete == Keys(n) \ {StoredFile(n)}
           k == Youngest(obsolete)
<1>2. /\ phase = "cleaning" /\ obsolete # {}
      /\ stored' = [stored EXCEPT ![n] = Restrict(@, DOMAIN @ \ {k})]
      /\ UNCHANGED <<phase, boot, m_configCounter, unfinished, live, m_contextNameMap, job, possible, settled, disturbed>>
  BY DEF RemoveObsolete, clock, history
<1>3. k \in obsolete
  <2>1. HasYoungest(obsolete)
    BY <1>1, <1>2 DEF Core, KeysOrdered
  <2> HIDE DEF obsolete
  <2> QED
    BY <2>1, YoungestIsOne
<1>4. k \in Keys(n) /\ k # StoredFile(n)
  BY <1>3
<1> HIDE DEF k, obsolete
<1>5. /\ FileTypes' /\ FilesAnswered' /\ KeysOrdered'
      /\ \A m \in Names : Keys(m)' = IF m = n THEN Keys(m) \ {k} ELSE Keys(m)
      /\ \A m \in Names : \A l \in Keys(m)' : stored'[m][l] = stored[m][l]
  BY <1>1, <1>2, FileGone DEF Core
<1>6. Core'
  <2>1. OtherTypes' /\ JobTypes'
    BY <1>1, <1>2 DEF OtherTypes, JobTypes
  <2>2. TypeOK'
    BY <1>5, <2>1, TypeParts, PTL
  <2>3. JobsOK'
    BY <1>1, <1>2 DEF Core, JobsOK
  <2>4. KeysPast'
    BY <1>1, <1>2 DEF Core, KeysPast
  <2> QED
    BY <1>5, <2>2, <2>3, <2>4 DEF Core
<1>7. RestartKeepsAnswered'
  <2> SUFFICES ASSUME NEW m \in Names
               PROVE  Restorable(m)' \in possible[m]
    BY <1>2 DEF RestartKeepsAnswered
  <2>1. Restorable(m) \in possible[m]
    BY DEF StoreInv, RestartKeepsAnswered
  <2>2. CASE m # n
    <3>1. stored'[m] = stored[m]
      BY <1>1, <1>2, <2>2 DEF FileTypes
    <3> QED
      BY <2>1, <3>1 DEF Restorable, StoredFile, Keys
  <2>3. CASE m = n
    <3> DEFINE y == StoredFile(m)
               keys == Keys(m)'
    <3>1. y \in Keys(m) /\ \A l \in Keys(m) \ {y} : Younger(y, l)
      BY <1>1, <1>4, <2>3, StoredFileIsKey DEF Core
    <3>2. y \in keys /\ \A l \in keys \ {y} : Younger(y, l)
      BY <1>4, <1>5, <2>3, <3>1
    <3>3. keys \in SUBSET (Key \ {NoKey})
      BY <1>5 DEF FileTypes
    <3>4. StoredFile(m)' = Youngest(keys) /\ Restorable(m)' = stored'[m][StoredFile(m)']
      BY <3>2 DEF StoredFile, Restorable
    <3>5. Restorable(m) = stored[m][y]
      BY <3>1 DEF Restorable
    <3>6. stored'[m][y] = stored[m][y]
      BY <1>5, <3>2
    <3> HIDE DEF keys, y
    <3>7. Youngest(keys) = y
      <4>1. HasYoungest(keys)
        BY <3>2 DEF HasYoungest
      <4>2. Youngest(keys) \in keys /\ \A l \in keys \ {Youngest(keys)} : Younger(Youngest(keys), l)
        BY <4>1, YoungestIsOne
      <4> QED
        BY <3>2, <3>3, <4>2, YoungerIsTotal
    <3> QED
      BY <2>1, <3>4, <3>5, <3>6, <3>7
  <2> QED
    BY <2>2, <2>3
<1> QED
  BY <1>2, <1>6, <1>7, NotUp

\* The service starts with what its files and its main configuration say.
LEMMA LoadStep ==
    ASSUME StoreInv, Load
    PROVE  StoreInv'
<1>1. JobTypes /\ FileTypes /\ OtherTypes /\ Core
  BY TypeParts DEF StoreInv, Core
<1>2. /\ phase = "cleaning" /\ phase' = "up"
      /\ live' = [n \in Names |-> Restorable(n)]
      /\ m_contextNameMap' = [n \in Names |-> IF Declared(n) THEN "unstored" ELSE "absent"]
      /\ possible' = [n \in Names |-> {Restorable(n)}]
      /\ disturbed' = {}
      /\ UNCHANGED <<boot, m_configCounter, stored, unfinished, job, settled>>
  BY DEF Load, Loaded, clock, files
<1>3. /\ FileTypes' /\ FilesAnswered' /\ KeysOrdered'
      /\ \A m \in Names : Keys(m)' = Keys(m) /\ Restorable(m)' = Restorable(m)
  BY <1>1, <1>2, FilesStay DEF Core
<1>4. {None, Builtin} \cap Requests = {} /\ None # Builtin
  BY StoreAssumption DEF StoreAssumption
<1>5. \A n \in Names :
         \/ Keys(n) = {} /\ Restorable(n) = Default(n) /\ Restorable(n) \in {None, Builtin}
         \/ /\ Keys(n) # {} /\ StoredFile(n) \in Keys(n)
            /\ Restorable(n) = stored[n][StoredFile(n)] /\ Restorable(n) \in Requests
            /\ job[Restorable(n)].pc = "done" /\ job[Restorable(n)].name = n
            /\ job[Restorable(n)].key = StoredFile(n)
  <2> TAKE n \in Names
  <2>1. CASE Keys(n) = {}
    BY <2>1 DEF Restorable, Default
  <2>2. CASE Keys(n) # {}
    <3>1. StoredFile(n) \in Keys(n) /\ Restorable(n) = stored[n][StoredFile(n)]
      BY <1>1, <2>2, StoredFileIsKey DEF Core, Restorable
    <3> QED
      BY <1>1, <2>2, <3>1 DEF FileTypes, Core, FilesAnswered
  <2> QED
    BY <2>1, <2>2
<1>6. \A r \in Requests : job'[r].pc \notin InFlight
  BY <1>1, <1>2 DEF Core, JobsOK
<1>7. Writing \subseteq InFlight /\ Removing \subseteq InFlight /\ "renaming" \in InFlight /\ "deleting" \in InFlight
  BY DEF Writing, Removing, InFlight
<1>8. Core'
  <2>1. OtherTypes' /\ JobTypes'
    BY <1>1, <1>2, <1>5 DEF OtherTypes, JobTypes, Content
  <2>2. TypeOK'
    BY <1>3, <2>1, TypeParts, PTL
  <2>3. JobsOK'
    BY <1>6, <1>7 DEF JobsOK
  <2>4. KeysPast'
    BY <1>1, <1>2 DEF Core, KeysPast
  <2> QED
    BY <1>3, <2>2, <2>3, <2>4 DEF Core
<1>9. Histories'
  <2>1. NewUnknown'
    BY <1>2, <1>4, <1>5 DEF StoreInv, Histories, NewUnknown
  <2>2. LiveNamed'
    BY <1>2, <1>4, <1>5 DEF LiveNamed
  <2>3. ConcurrentUnsettled' /\ YoungerUnsettled' /\ DeletionListed' /\ OneTransfer'
        /\ RemovedUnsettled' /\ Undisturbed'
    BY <1>6, <1>7 DEF ConcurrentUnsettled, YoungerUnsettled, DeletionListed, OneTransfer, RemovedUnsettled, Undisturbed
  <2>4. NamesHeld'
    <3> SUFFICES ASSUME NEW m \in Names, live'[m] # None \/ Keys(m)' # {}
                 PROVE  NameHeld(m)'
      BY DEF NamesHeld
    <3>1. Declared(m)
      BY <1>2, <1>3, <1>4, <1>5 DEF Declared
    <3>2. Active(m)' = {}
      BY <1>6 DEF Active
    <3> QED
      BY <1>2, <3>1, <3>2 DEF NameHeld
  <2> QED
    BY <2>1, <2>2, <2>3, <2>4 DEF Histories
<1>10. RestartKeepsAnswered' /\ LiveIsPossible'
  BY <1>2, <1>3 DEF RestartKeepsAnswered, LiveIsPossible
<1>11. LiveKeepsItsFile'
  BY <1>2, <1>3, <1>4, <1>5 DEF LiveKeepsItsFile
<1> QED
  BY <1>8, <1>9, <1>10, <1>11 DEF StoreInv

\* The steps of a request that only move it on.
LEMMA OnlyMoves ==
    ASSUME StoreInv, NEW r \in Requests,
           \/ Execute(r) \/ ExecuteFails(r) \/ TransferFails(r)
           \/ DeleteSchema(r) \/ DeleteSchemaFails(r) \/ DeleteFileFails(r)
    PROVE  StoreInv'
<1>1. JobTypes /\ FileTypes /\ OtherTypes /\ Core
  BY TypeParts DEF StoreInv, Core
<1>2. PICK pc \in {"executed", "failed", "schema"} :
         /\ Goto(r, pc) /\ phase = "up"
         /\ \/ pc = "executed" /\ job[r].pc = "stored"
            \/ pc = "schema" /\ job[r].pc = "removed"
            \/ pc = "failed" /\ job[r].pc \in {"stored", "executed", "removed", "deleting"}
         /\ UNCHANGED <<phase, boot, m_configCounter, stored, unfinished, live, possible, settled, disturbed>>
         /\ \/ UNCHANGED m_contextNameMap
            \/ /\ pc = "failed" /\ job[r].kind = "temporary" /\ m_contextNameMap[job[r].name] = "unstored"
               /\ m_contextNameMap' = [m_contextNameMap EXCEPT ![job[r].name] = "absent"]
  BY DEF Execute, ExecuteFails, TransferFails, DeleteSchema, DeleteSchemaFails, DeleteFileFails,
         At, clock, files, history
<1>3. OtherTypes'
  BY <1>1, <1>2 DEF OtherTypes
<1>4. NamesHeld'
  <2>1. /\ job'[r].pc = pc /\ \A q \in Requests \ {r} : job'[q] = job[q]
        /\ \A q \in Requests : job'[q].kind = job[q].kind /\ job'[q].name = job[q].name
    <3>1. pc \in InFlight \cup Ended
      BY DEF InFlight, Ended
    <3> QED
      BY <1>1, <1>2, <3>1, GoesOn
  <2> SUFFICES ASSUME NEW m \in Names \ disturbed, live[m] # None \/ Keys(m) # {}
               PROVE  NameHeld(m)'
    BY <1>2 DEF NamesHeld, Keys
  <2>2. NameHeld(m)
    BY <1>2 DEF StoreInv, Histories, NamesHeld
  <2>3. \A q \in Active(m)' : q \in Active(m)
    BY <1>2, <2>1 DEF Active, InFlight
  <2>4. \A q \in Active(m) : job[q].pc = "renaming" => q \in Active(m)' /\ job'[q].pc = "renaming"
    BY <1>2, <2>1 DEF Active
  <2>5. CASE UNCHANGED m_contextNameMap
    BY <2>1, <2>2, <2>3, <2>4, <2>5 DEF NameHeld, Active
  <2>6. CASE /\ job[r].kind = "temporary" /\ m_contextNameMap[job[r].name] = "unstored"
             /\ m_contextNameMap' = [m_contextNameMap EXCEPT ![job[r].name] = "absent"]
    <3>1. CASE m # job[r].name
      BY <1>1, <2>1, <2>2, <2>3, <2>4, <2>6, <3>1 DEF NameHeld, Active, OtherTypes
    <3>2. CASE m = job[r].name
      <4>1. r \in Active(m)
        BY <1>2, <3>2 DEF Active, InFlight
      <4> QED
        BY <2>1, <2>2, <2>4, <2>6, <3>2, <4>1 DEF NameHeld
    <3> QED
      BY <3>1, <3>2
  <2> QED
    BY <1>2, <2>5, <2>6
<1> QED
  <2>1. /\ pc \in (InFlight \cup Ended) \ {"begun", "renaming", "deleting", "done"}
        /\ job[r].pc \in InFlight \ {"renaming"}
        /\ pc \in InFlight => job[r].pc \notin {"begun", "deleting"}
        /\ pc \in Writing => job[r].pc \in Writing
        /\ pc \in Removing => job[r].pc \in Removing
    BY <1>2 DEF InFlight, Ended, Writing, Removing
  <2>2. UNCHANGED <<phase, clock, stored, live, history>>
    BY <1>2 DEF clock, history
  <2> QED
    BY <1>2, <1>3, <1>4, <2>1, <2>2, QuietStep

\* The first start finds an empty store.
LEMMA InitStore == Init => StoreInv
<1> SUFFICES ASSUME Init
             PROVE  StoreInv
  OBVIOUS
<1> USE StoreAssumption DEF StoreAssumption
<1>1. /\ \A n \in Names : Keys(n) = {} /\ Restorable(n) = Default(n)
      /\ \A r \in Requests : job[r].pc = "new" /\ job[r].key = NoKey /\ job[r].pc \notin InFlight
      /\ \A n \in Names : Default(n) \in {None, Builtin}
  BY DEF Init, Keys, Restorable, InFlight, Default
<1>2. Core
  <2>1. JobTypes
    BY DEF Init, JobTypes, Jobs, Key
  <2>2. FileTypes
    BY <1>1 DEF Init, FileTypes
  <2>3. OtherTypes
    BY <1>1 DEF Init, OtherTypes, Content
  <2> QED
    BY <1>1, <2>1, <2>2, <2>3, TypeParts
    DEF Core, JobsOK, FilesAnswered, KeysPast, KeysOrdered, Writing, Removing, InFlight
<1>3. Histories
  <2>1. \A n \in Names : live[n] = None /\ possible[n] = {Default(n)}
    BY <1>1 DEF Init
  <2>2. NewUnknown
    BY <1>1, <2>1 DEF Init, NewUnknown
  <2>3. LiveNamed /\ NamesHeld
    BY <2>1 DEF Init, LiveNamed, NamesHeld
  <2>4. \A r \in Requests : job[r].pc \notin Writing \cup Removing \cup {"renaming", "deleting"}
    BY <1>1 DEF Writing, Removing, InFlight
  <2> QED
    BY <1>1, <2>2, <2>3, <2>4 DEF Histories, ConcurrentUnsettled, YoungerUnsettled, DeletionListed,
                                  OneTransfer, RemovedUnsettled, Undisturbed
<1> QED
  BY <1>1, <1>2, <1>3 DEF StoreInv, Init, RestartKeepsAnswered, LiveIsPossible, LiveKeepsItsFile

\* Nothing happens.
LEMMA StutterStore == StoreInv /\ UNCHANGED vars => StoreInv'
BY DEF vars, clock, files, history, StoreInv, Core, Histories, TypeOK, JobsOK, FilesAnswered, KeysPast,
       KeysOrdered, NewUnknown, ConcurrentUnsettled, YoungerUnsettled, DeletionListed, OneTransfer, LiveNamed,
       RemovedUnsettled, Undisturbed, NamesHeld, NameHeld, Active, Keys, Default, Restorable, StoredFile,
       RestartKeepsAnswered, LiveIsPossible, LiveKeepsItsFile

-----------------------------------------------------------------------------
\* The inductive invariant of the store, for every finite set of requests and
\* names and any number of starts (configurationHandler.cpp, webRequestHandler.cpp).
THEOREM StoreInvariant == Spec => []StoreInv
<1>1. StoreInv /\ [Next]_vars => StoreInv'
  <2> SUFFICES ASSUME StoreInv, [Next]_vars
               PROVE  StoreInv'
    OBVIOUS
  <2>1. ASSUME NEW r \in Requests, Request(r)
        PROVE  StoreInv'
    <3>1. CASE Begin(r)
      <4>1. PICK n \in Names, kind \in {"load", "update", "delete"} :
               Arrives(r, kind, n) /\ UNCHANGED m_contextNameMap
        BY <3>1 DEF Begin
      <4> QED
        BY <4>1, ArrivalStep
    <3>2. CASE BeginTemporary(r)
      <4>1. PICK n \in Names :
               /\ Arrives(r, "temporary", n) /\ m_contextNameMap[n] = "absent"
               /\ m_contextNameMap' = [m_contextNameMap EXCEPT ![n] = "unstored"]
        BY <3>2 DEF BeginTemporary
      <4> QED
        BY <4>1, ArrivalStep
    <3> QED
      BY <2>1, <3>1, <3>2, StoreStep, TransferStep, CommitStep, CommitFailsStep, RemoveContextStep,
         ListFilesStep, DeleteFileStep, DeleteDoneStep, OnlyMoves DEF Request
  <2>2. CASE Crash
    BY <2>2, CrashStep
  <2>3. CASE ClearUnfinished
    BY <2>3, ClearUnfinishedStep
  <2>4. ASSUME NEW n \in Names, RemoveObsolete(n)
        PROVE  StoreInv'
    BY <2>4, RemoveObsoleteStep
  <2>5. CASE Load
    BY <2>5, LoadStep
  <2>6. CASE UNCHANGED vars
    BY <2>6, StutterStore
  <2> QED
    BY <2>1, <2>2, <2>3, <2>4, <2>5, <2>6 DEF Next, Service
<1> QED
  BY <1>1, InitStore, PTL DEF Spec

\* The state of the store keeps its types: a file has the name and the key of the
\* request that wrote it (commitStoreConfiguration).
THEOREM StoreTypeCorrect == Spec => []TypeOK
<1>1. StoreInv => TypeOK
  BY DEF StoreInv, Core
<1> QED
  BY <1>1, StoreInvariant, PTL

\* A restart keeps the last answered change of every name, or one that was under
\* way, whatever a crash interrupted (deleteObsoleteConfigurations, loadConfiguration).
THEOREM RestartsKeepAnswers == Spec => []RestartKeepsAnswered
<1>1. StoreInv => RestartKeepsAnswered
  BY DEF StoreInv
<1> QED
  BY <1>1, StoreInvariant, PTL

\* The context of a name is one a client may expect (transferConfigurationContext,
\* removeConfigurationContext).
THEOREM ContextsAreExpected == Spec => []LiveIsPossible
<1>1. StoreInv => LiveIsPossible
  BY DEF StoreInv
<1> QED
  BY <1>1, StoreInvariant, PTL

\* The context of an answered request keeps the file it wrote, unless deletions
\* and other changes meet (commitStoreConfiguration under the transfer mutex).
THEOREM ContextsKeepFiles == Spec => []LiveKeepsItsFile
<1>1. StoreInv => LiveKeepsItsFile
  BY DEF StoreInv
<1> QED
  BY <1>1, StoreInvariant, PTL

\* A name in use is in the map, so that allocTemporaryContextName does not give it away.
THEOREM NamesStayKnown == Spec => []NamesKnown
<1>1. StoreInv => NamesKnown
  BY DEF StoreInv, Histories, NamesHeld, NameHeld, NamesKnown
<1> QED
  BY <1>1, StoreInvariant, PTL
=============================================================================
