------------------------- MODULE IntrospectionCalls -------------------------
(***************************************************************************)
(* Requests that walk down the pages of a storage, a vector storage or a   *)
(* context while other clients insert documents into the storage and       *)
(* delete them.  getPathContent opens one page after the other and         *)
(* serializes the last one; the storage may change between any two steps.  *)
(***************************************************************************)
EXTENDS StorageIntrospection, ContextIntrospection

CONSTANTS Contents,     \* the documents clients insert
          OtherNames,   \* names that are asked for without being listed
          MaxDocno,     \* bound: documents inserted
          MaxPath       \* bound: names of a path; a dump takes lengths forever

(* Texts are sequences of bytes; each byte of the names that are sorted    *)
(* has its place among the characters.                                     *)
ASSUME TextAssumption ==
  /\ {"", "/", "_"} \subseteq Seq(Bytes)
  /\ Len("") = 0 /\ Len("/") = 1 /\ Len("_") = 1
  /\ OtherNames \subseteq Seq(Bytes)
  /\ \A name \in TimeStamps \cup DOMAIN Features : IsText(name)

(* What the storage keeps of a document: ids and values are texts, and a   *)
(* forward index has for a type one term at a position, counted from 1.    *)
ASSUME ContentAssumption ==
  \A c \in Contents :
     /\ IsText(c.id)
     /\ IsFiniteSet(c.search) /\ IsFiniteSet(c.forward)
     /\ \A t \in c.search : IsText(t.value) /\ t.pos \in Nat
     /\ \A t, u \in c.forward :
          t.pos \in Nat \ {0} /\ (t.type = u.type /\ t.pos = u.pos => t = u)

ASSUME BoundAssumption ==
  /\ IsFiniteSet(TimeStamps) /\ IsFiniteSet(DOMAIN Features)
  /\ MaxListSizeDeepExpansion \in Nat /\ MaxDocno \in Nat

VARIABLES storage,      \* what the storage has
          request,      \* the path opened so far, and the page it led to
          answer        \* what the last request got

vars == <<storage, request, answer>>

---------------------------------------------------------------------------
(* The virtual methods of a page.                                          *)

OpenPage(st, p, name) ==
  CASE p.kind = "storage"     -> OpenStorage(st, name)
    [] p.kind = "vstorage"    -> OpenVectorStorage(name)
    [] p.kind = "context"     -> OpenContext(name)
    [] p.kind = "config"      -> OpenConfig(p, name)
    [] p.kind = "keyvalues"   -> OpenKeyValue(p, name)
    [] p.kind = "values"      -> OpenValues(p, name)
    [] p.kind = "metatable"   -> OpenMetaDataTable(name)
    [] p.kind = "term"        -> OpenTerm(st, p, name)
    [] p.kind = "postings"    -> OpenTermPostings(st, p, name)
    [] p.kind = "docs"        -> OpenDocid(st, p, name)
    [] p.kind = "document"    -> OpenDocument(p, name)
    [] p.kind = "attributes"  -> OpenAttribute(st, p, name)
    [] p.kind = "metadata"    -> OpenMetaData(st, p, name)
    [] p.kind = "findex"      -> OpenForwardIndex(p, name)
    [] p.kind = "sindex"      -> OpenSearchIndex(p, name)
    [] p.kind = "docpostings" -> OpenDocumentPostings(p, name)
    [] p.kind = "statistics"  -> OpenStatistics(name)
    [] p.kind = "increment"   -> OpenIncrement(name)
    [] p.kind = "env"         -> OpenEnvironment(name)
    [] p.kind = "textproc"    -> OpenProcessor(TextFunctions, name)
    [] p.kind = "queryproc"   -> OpenProcessor(QueryFunctions, name)
    [] p.kind = "functions"   -> OpenFunction(p, name)
    [] p.kind = "features"    -> OpenFeatureValue(p, name)
    [] p.kind = "feature"     -> OpenFeatureType(p, name)
    [] OTHER                  -> Null

ListPage(st, p) ==
  CASE p.kind = "storage"     -> StorageMembers
    [] p.kind = "vstorage"    -> VectorStorageMembers
    [] p.kind = "context"     -> ContextMembers
    [] p.kind = "config"      -> Links(TRUE, KeysOf(p.items))
    [] p.kind = "keyvalues"   -> Links(TRUE, KeysOnce(p.items))
    [] p.kind = "metatable"   -> Links(TRUE, InOrder(DOMAIN MetaDataTable))
    [] p.kind = "term"        -> ListTerm(st, p)
    [] p.kind = "docs"        -> ListDocid(st, p)
    [] p.kind = "document"    -> DocumentMembers
    [] p.kind = "attributes"  -> Links(TRUE, InOrder(st.attributes))
    [] p.kind = "metadata"    -> Links(TRUE, InOrder(DOMAIN MetaDataTable))
    [] p.kind = "statistics"  -> <<Link("increment"), Link("snapshot")>>
    [] p.kind = "increment"   -> Links(FALSE, p.items)
    [] p.kind = "env"         -> EnvironmentMembers
    [] p.kind = "textproc"    -> Links(TRUE, TextFunctions)
    [] p.kind = "queryproc"   -> Links(TRUE, QueryFunctions)
    [] p.kind = "functions"   -> ListFunctions(p)
    [] p.kind = "features"    -> ListFeatureValues(p)
    [] p.kind = "feature"     -> Links(FALSE, p.items)
    [] OTHER                  -> << >>

(* What a page shows, its members written by SerializeMember.              *)
Serialized(st, p, SerializeMember(_)) ==
  CASE p.kind \in {"atomic", "structure"} -> p.items
    [] p.kind = "config"      -> Dictionary(p.items)
    [] p.kind = "values"      -> Strings(ListValues(p, ValuesOf(st, p.of)))
    [] p.kind = "findex"      -> SerializeForwardIndex(st, p)
    [] p.kind = "findexlist"  -> SerializeForwardIndexList(st, p)
    [] p.kind = "sindex"      -> SerializeSearchIndex(st, p)
    [] p.kind = "docpostings" -> SerializeDocumentPostings(st, p)
    [] p.kind = "postings"    -> SerializeTermPostings(st, p)
    [] p.kind = "function"    -> SerializeFunction(p)
    [] OTHER -> SerializeMembers(ListPage(st, p), LAMBDA name : OpenPage(st, p, name),
                                 SerializeMember)

(* A member is put in brackets unless it is atomic.  What is expanded has  *)
(* members that are expanded, and those have none: a document has its      *)
(* attributes, a context the kinds of functions of its processors.         *)
AsMember(p, ser) == IF p.kind = "atomic" THEN ser ELSE Bracket(ser)
Content(st, p) ==
  LET ofMember(m) == AsMember(m, Serialized(st, m, LAMBDA x : << >>))
      member(m)   == AsMember(m, Serialized(st, m, ofMember))
  IN  Serialized(st, p, member)

(* A whole path at once.                                                   *)
OpenPath(st, root, path) ==
  LET Opened[n \in 0..Len(path)] ==
        IF n = 0 THEN PageOf(root)
        ELSE IF IsPage(Opened[n - 1]) THEN OpenPage(st, Opened[n - 1], path[n])
        ELSE Opened[n - 1]
  IN  Opened[Len(path)]

---------------------------------------------------------------------------
NoRequest == [path |-> << >>, page |-> Null]

Init ==
  /\ storage = [docs |-> << >>, last |-> 0, types |-> {}, attributes |-> {"docid"}]
  /\ request = NoRequest
  /\ answer = [status |-> "none", content |-> << >>]

(* A transaction of another client: a document gets a new number, and      *)
(* replaces the one that had its id.  A commit between two requests is the *)
(* same as one at the beginning of the second.                             *)
Remaining(id) == {d \in DOMAIN storage.docs : storage.docs[d].id # id}
InsertDoc(c) ==
  LET docno == storage.last + 1
  IN  /\ IsPage(request.page)
      /\ docno <= MaxDocno
      /\ storage' = [docs |-> [d \in Remaining(c.id) \cup {docno} |->
                                 IF d = docno THEN c ELSE storage.docs[d]],
                     last |-> docno,
                     types |-> storage.types \cup {t.type : t \in c.search \cup c.forward},
                     attributes |-> storage.attributes \cup DOMAIN c.attribute]
      /\ UNCHANGED <<request, answer>>
DeleteDoc(id) ==
  /\ IsPage(request.page)
  /\ DocumentNumber(storage, id) # 0
  /\ storage' = [storage EXCEPT !.docs = [d \in Remaining(id) |-> storage.docs[d]]]
  /\ UNCHANGED <<request, answer>>

(* A request is asked of an object, opens a name, and ends with the        *)
(* content of a page or with the error of the name that did not open.      *)
Ask(root) ==
  /\ ~IsPage(request.page)
  /\ request' = [path |-> << >>, page |-> PageOf(root)]
  /\ answer' = [status |-> "none", content |-> << >>]
  /\ UNCHANGED storage

End(status, content) ==
  /\ request' = NoRequest
  /\ answer' = [status |-> status, content |-> content]
  /\ UNCHANGED storage

Shown(st, p) == {ListPage(st, p)[i].name : i \in DOMAIN ListPage(st, p)}
Step(name) ==
  LET p == OpenPage(storage, request.page, name)
  IN  \/ /\ IsPage(p)
         /\ request' = [path |-> Append(request.path, name), page |-> p]
         /\ UNCHANGED <<storage, answer>>
      \/ /\ p.kind \in {"null", "notfound"}
         /\ End("not found", << >>)
      \/ /\ p.kind = "invalid"
         /\ End("failed", << >>)
Open_ ==
  /\ IsPage(request.page) /\ Len(request.path) < MaxPath
  /\ \E name \in Shown(storage, request.page) \cup OtherNames : Step(name)

Serialize ==
  /\ IsPage(request.page)
  /\ End("ok", Content(storage, request.page))

Next ==
  \/ \E c \in Contents : InsertDoc(c)
  \/ \E c \in Contents : DeleteDoc(c.id)
  \/ \E root \in {"storage", "vstorage", "context"} : Ask(root)
  \/ Open_
  \/ Serialize

Spec == Init /\ [][Next]_vars

---------------------------------------------------------------------------
(* Properties.                                                             *)

(* A page that lists the names with a prefix lists them from the directory *)
(* the prefix is in, and opens them below the prefix: its links are dead.  *)
IsPrefixPage(p) == (p.kind = "docs" /\ ~p.complete) \/ (p.kind = "features" /\ p.id # "")

(* Every link a page shows leads to a page: what list() offers, open()     *)
(* takes, for every kind of page and also when the document of the page    *)
(* was deleted after it was opened.                                        *)
LinksOpen ==
  LET p == request.page
      list == ListPage(storage, p)
  IN  IsPage(p) /\ ~IsPrefixPage(p) =>
        \A i \in DOMAIN list : ~list[i].autoexpand => IsPage(OpenPage(storage, p, list[i].name))

(* The id the names of a path spell from the first on; below the documents *)
(* the star of a prefix is left out.                                       *)
Spelled(path, n) ==
  IF path[1] = "doc" /\ LastChar(path[n]) = "*" THEN WithoutLastChar(path[n]) ELSE path[n]
PathId(path, first, last) ==
  LET Id[n \in 0..last] ==
        IF n < first THEN ""
        ELSE Id[n - 1] \o (IF Id[n - 1] = "" THEN "" ELSE "/") \o Spelled(path, n)
  IN  Id[last]

(* Where the name of a document begins in a path: behind "doc", or behind  *)
(* the postings of a term.                                                 *)
Behind(path) ==
  IF path[1] = "doc" THEN {2} ELSE {i + 1 : i \in {j \in DOMAIN path : path[j] = "postings"}}
NamedByNumber(path, docno) ==
  \E first \in Behind(path) : \E i \in first..Len(path) : path[i] = "_" \o ToString(docno)
NamedById(path, id) ==
  \E first \in Behind(path) : \E last \in first..Len(path) : PathId(path, first, last) = id

(* A page of a document is reached by the id or by the number of this very *)
(* document: however the storage changed while the request went on, it     *)
(* never shows the content of a document that was not asked for.           *)
PageIsOfDocumentAsked ==
  LET docno == request.page.docno
  IN  (IsPage(request.page) /\ docno \in DOMAIN storage.docs) =>
        \/ NamedByNumber(request.path, docno)
        \/ NamedById(request.path, storage.docs[docno].id)

(* The path of a document.  A document whose id goes on below the id of    *)
(* another one cannot be reached by its id.                                *)
Segments(id) ==
  LET ends == Ascending(Slashes(id) \cup {Len(id) + 1})
  IN  [i \in DOMAIN ends |-> SubSeq(id, IF i = 1 THEN 1 ELSE ends[i - 1] + 1, ends[i] - 1)]
Reachable(st) == {d \in DOMAIN st.docs :
                    \A id \in Docids(st) : ~StartsWith(st.docs[d].id, id \o "/")}

(* The search index is the same from both sides: the positions shown for a *)
(* term below a document are those shown for the document below the term,  *)
(* and a document is listed with a term's values exactly when it has some. *)
FromDocument(st, d, type, value) ==
  Content(st, OpenPath(st, "storage",
                <<"doc">> \o Segments(st.docs[d].id) \o <<"sindex", type, value>>))
FromTerm(st, d, type, value) ==
  Content(st, OpenPath(st, "storage",
                <<"term", type, value, "postings">> \o Segments(st.docs[d].id) \o <<"pos">>))
SidesAgree ==
  request.path = << >> =>
    \A d \in Reachable(storage), type \in storage.types, value \in TermValues(storage) :
       FromDocument(storage, d, type, value) = FromTerm(storage, d, type, value)

(* Below a type the values of its terms are listed: each once, and all of  *)
(* them unless the list is full.                                           *)
ValuesListedOnce ==
  request.path = << >> =>
    \A type \in storage.types :
       LET list == ListTermValues(storage, type)
           listed == {list[i] : i \in DOMAIN list}
           values == {t.value : t \in UNION {SearchTerms(storage, d, type) : d \in DOMAIN storage.docs}}
       IN  /\ Cardinality(listed) = Len(list)
           /\ listed \subseteq values
           /\ listed = values \/ Len(list) = MaxListSizeDeepExpansion

(* The windows of a forward index fit together: a dump of any length and   *)
(* the dump from its end on have every term of the whole text once.        *)
WindowsFit ==
  request.path = << >> =>
    \A d \in DOMAIN storage.docs, type \in ForwardTypes :
       LET terms == ForwardTerms(storage, d, type)
       IN  \A n \in {t.pos : t \in terms} :
              Dumped(terms, 1, n) \o Dumped(terms, n + 1, 0) = Dumped(terms, 0, 0)

(* The comment at introspectionBase.cpp says that a directory is taken as  *)
(* one element and the elements of the directory are skipped: no name is   *)
(* listed more often than as a document and as a directory.                *)
DirectoriesListedOnce ==
  LET list == ListPage(storage, request.page)
  IN  request.page.kind = "docs" =>
        \A name \in Shown(storage, request.page) :
           Cardinality({i \in DOMAIN list : list[i].name = name}) <= 2

---------------------------------------------------------------------------
(* What the theorems ask of the documents.                                 *)

(* An id whose directories and whose own name can be told apart, and that  *)
(* does not look like the number of a document.                            *)
PlainId(id) ==
  /\ id # "" /\ ~StartsWith(id, "_")
  /\ \A i \in Slashes(id) : i # 1 /\ i # Len(id) /\ i + 1 \notin Slashes(id)
PlainIds == \A c \in Contents : PlainId(c.id)

(* No directory and no name of the id ends like a prefix.                  *)
StarlessId(id) ==
  \A i \in 1..Len(id) : CharAt(id, i) = "*" => i # Len(id) /\ i + 1 \notin Slashes(id)
StarlessIds == \A c \in Contents : StarlessId(c.id)

(* Every term has a type and a value.                                      *)
NamedTerms == \A c \in Contents : \A t \in c.search \cup c.forward : t.type # "" /\ t.value # ""

=============================================================================
