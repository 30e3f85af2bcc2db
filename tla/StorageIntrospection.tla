------------------------ MODULE StorageIntrospection ------------------------
(***************************************************************************)
(* The pages of a storage (storageIntrospection.cpp).  A storage is seen   *)
(* from two sides: its documents with their attributes, metadata, search   *)
(* index and forward index, and its terms with the documents they occur    *)
(* in.  A page of a document holds the number the document had when the    *)
(* page was opened, and reads the storage when it is asked for something.  *)
(*                                                                         *)
(* The storage itself is external: st.docs maps the number of a document   *)
(* to its content, st.types has the term types and st.attributes the names *)
(* of attributes the storage got to know.                                  *)
(***************************************************************************)
EXTENDS Introspection

CONSTANTS Config,           \* the items of the configuration
          Users,            \* the names of users with access rights
          MetaDataTable,    \* the columns of the metadata table with their types
          ForwardTypes,     \* the term types of the forward index
          TimeStamps,       \* those of the statistics messages stored, none
                            \* when there is no statistics processor
          PartialDumpSize   \* the length of a forward index dump without one

---------------------------------------------------------------------------
(* What the storage client answers.                                        *)

NoDocument == [id |-> "", attribute |-> << >>, metadata |-> << >>, search |-> {}, forward |-> {}]
Document(st, docno) == IF docno \in DOMAIN st.docs THEN st.docs[docno] ELSE NoDocument
Docids(st) == {st.docs[d].id : d \in DOMAIN st.docs}
DocumentNumber(st, id) ==
  LET found == {d \in DOMAIN st.docs : st.docs[d].id = id}
  IN  IF found = {} THEN 0 ELSE CHOOSE d \in found : TRUE
Ascending(numbers) == SortedBy(numbers, {p \in numbers \X numbers : p[1] < p[2]})
Numerals(numbers)  == Each(Ascending(numbers), LAMBDA n : Value(ToString(n)))
Number(n)          == AtomicPage(ToString(n))
Postings(st, type, value) ==
  {d \in DOMAIN st.docs : \E t \in st.docs[d].search : t.type = type /\ t.value = value}
Positions(st, docno, type, value) ==
  {t.pos : t \in {u \in Document(st, docno).search : u.type = type /\ u.value = value}}
SearchTerms(st, docno, type)  == {t \in Document(st, docno).search : t.type = type}
ForwardTerms(st, docno, type) == {t \in Document(st, docno).forward : t.type = type}
TermValues(st) == {t.value : t \in UNION {st.docs[d].search : d \in DOMAIN st.docs}}
ValuesOf(st, of) ==
  CASE of = "user" -> Users [] of = "termtype" -> st.types [] of = "termvalue" -> TermValues(st)

GetDocidFromDocno(st, docno) == Document(st, docno).id
IsValidDocumentIdPrefix(st, prefix) == SkippedPrefix(Docids(st), prefix) # {}

---------------------------------------------------------------------------
(* Attributes and metadata of a document: every name the storage knows is  *)
(* a member, with an empty value when the document has none.               *)

AttributePage(docno) == [Blank EXCEPT !.kind = "attributes", !.docno = docno]
OpenAttribute(st, p, name) ==
  IF name \notin st.attributes THEN Null
  ELSE LET a == Document(st, p.docno).attribute
       IN  AtomicPage(IF name \in DOMAIN a THEN a[name] ELSE "")
MetaDataPage(docno) == [Blank EXCEPT !.kind = "metadata", !.docno = docno]
OpenMetaData(st, p, name) ==
  IF name \notin DOMAIN MetaDataTable THEN Null
  ELSE LET m == Document(st, p.docno).metadata
       IN  AtomicPage(IF name \in DOMAIN m THEN m[name] ELSE "0")
OpenMetaDataTable(name) ==
  IF name \in DOMAIN MetaDataTable THEN AtomicPage(MetaDataTable[name]) ELSE Null

---------------------------------------------------------------------------
(* The forward index of a document: for a type, a position and a length    *)
(* the text from that position on.                                         *)

ForwardIndexPage(docno, type, pos, size) ==
  [Blank EXCEPT !.kind = "findex", !.docno = docno, !.type = type, !.pos = pos, !.size = size]
ForwardIndexListPage(p) == [p EXCEPT !.kind = "findexlist"]
ForwardIndexTypes(st) == InOrder({t \in st.types : t \in ForwardTypes})

OpenForwardIndex(p, name) ==
  LET n == ParseIndex(name)
  IN  IF p.type = "" THEN ForwardIndexPage(p.docno, name, 0, 0)
      ELSE IF p.pos = 0 /\ name = "list" THEN ForwardIndexListPage(p)
      ELSE IF n = 0 THEN Invalid
      ELSE IF p.pos = 0 THEN ForwardIndexPage(p.docno, p.type, n, 0)
      ELSE ForwardIndexPage(p.docno, p.type, p.pos, n)

(* The terms dumped: those from the start position to before its end.      *)
ByPosition(terms) == SortedBy(terms, {p \in terms \X terms : p[1].pos < p[2].pos})
(* Mutant: the position behind the end is dumped too.                      *)
DumpedToEnd(terms, start, size) ==
  ByPosition({t \in terms : t.pos >= start /\ (size = 0 \/ t.pos <= start + size)})
Dumped(terms, start, size) ==
  ByPosition({t \in terms : t.pos >= start /\ (size = 0 \/ t.pos < start + size)})

(* The text: a gap before the first term shows, the terms follow each      *)
(* other with a blank.                                                     *)
DumpContent(terms, start, size) ==
  FoldLeft(LAMBDA content, t :
             (IF content # "" THEN content \o " "
              ELSE IF start + 4 < t.pos THEN " -- "
              ELSE IF start + 2 < t.pos THEN " " ELSE "") \o t.value,
           "", Dumped(terms, start, size))

DumpSize(p) == IF p.pos = 0 THEN 0 ELSE IF p.size = 0 THEN PartialDumpSize ELSE p.size
Dump(st, p) ==
  Value(DumpContent(ForwardTerms(st, p.docno, p.type), p.pos, DumpSize(p)))
SerializeForwardIndex(st, p) ==
  IF p.type # "" THEN Dump(st, p)
  ELSE Each(ForwardIndexTypes(st),
            LAMBDA t : Member(t, Bracket(Dump(st, [p EXCEPT !.type = t]))))

SerializeForwardIndexList(st, p) ==
  Each(ByPosition(ForwardTerms(st, p.docno, p.type)),
       LAMBDA t : Bracket(Member("value", Value(t.value)) \o Member("pos", Value(ToString(t.pos)))))

---------------------------------------------------------------------------
(* The search index of a document.  A page shows nothing, and leaves its   *)
(* bracket open, when the document does not have the terms any more.       *)

SearchIndexPage(docno, type) ==
  [Blank EXCEPT !.kind = "sindex", !.docno = docno, !.type = type]
DocumentPostingsPage(docno, type, value, pos) ==
  [Blank EXCEPT !.kind = "docpostings", !.docno = docno, !.type = type, !.value = value,
                !.pos = pos]
SearchIndexTypes(st, docno) ==
  InOrder({t \in st.types : SearchTerms(st, docno, t) # {}})

OpenSearchIndex(p, name) ==
  IF p.type = "" THEN SearchIndexPage(p.docno, name)
  ELSE DocumentPostingsPage(p.docno, p.type, name, 0)

TermsOfDocument(st, p) ==
  LET terms == SearchTerms(st, p.docno, p.type)
      at(v) == {t.pos : t \in {u \in terms : u.value = v}}
  IN  Each(InOrder({t.value : t \in terms}),
           LAMBDA v : Bracket(Value(ToString(Cardinality(at(v))))
                              \o Value(ToString(Ascending(at(v))[1])) \o Value(v)))
SerializeSearchIndex(st, p) ==
  IF p.type # "" THEN TermsOfDocument(st, p)
  ELSE Each(SearchIndexTypes(st, p.docno),
            LAMBDA t : Member(t, Bracket(TermsOfDocument(st, [p EXCEPT !.type = t]))))

OpenDocumentPostings(p, name) ==
  LET n == ParseIndex(name)
  IN  IF p.pos # 0 THEN NotFound
      ELSE IF n = 0 THEN Invalid
      ELSE DocumentPostingsPage(p.docno, p.type, p.value, n)
SerializeDocumentPostings(st, p) ==
  LET found == {n \in Positions(st, p.docno, p.type, p.value) : n >= p.pos}
  IN  IF p.pos = 0 \/ found = {} THEN Numerals(found)
      ELSE Value(ToString(Ascending(found)[1]))

---------------------------------------------------------------------------
(* A term, and its postings: all of them, those from the first document    *)
(* with a docid prefix on, or those of a document.                         *)

TermPage(type, value) == [Blank EXCEPT !.kind = "term", !.type = type, !.value = value]
TermPostingsPage(p, docid, docno) ==
  [Blank EXCEPT !.kind = "postings", !.type = p.type, !.value = p.value, !.id = docid,
                !.docno = docno]

OpenTerm(st, p, name) ==
  IF p.type = "" THEN TermPage(name, "")
  ELSE IF p.value = "" THEN TermPage(p.type, name)
  ELSE CASE name = "df" -> Number(Cardinality(Postings(st, p.type, p.value)))
         [] name = "postings" -> TermPostingsPage(p, "", 0)
         [] OTHER -> NotFound

(* The values of a type, document by document, each once.                  *)
ValuesIn(st, d, type) == InOrder({t.value : t \in SearchTerms(st, d, type)})
(* Mutant: without the set of the values listed.                           *)
AddAgain(list, v) == IF Len(list) >= MaxListSizeDeepExpansion THEN list ELSE Append(list, v)
AddValue(list, v) ==
  IF v \in {list[i] : i \in DOMAIN list} \/ Len(list) >= MaxListSizeDeepExpansion
  THEN list ELSE Append(list, v)
AddValues(list, values) ==
  LET Added[n \in 0..Len(values)] ==
        IF n = 0 THEN list ELSE AddValue(Added[n - 1], values[n])
  IN  Added[Len(values)]
ListTermValues(st, type) ==
  LET docs == Ascending(DOMAIN st.docs)
      Listed[n \in 0..Len(docs)] ==
        IF n = 0 THEN << >> ELSE AddValues(Listed[n - 1], ValuesIn(st, docs[n], type))
  IN  Listed[Len(docs)]
ListTerm(st, p) ==
  IF p.type = "" THEN Links(FALSE, ListValues(ValuesPage("termtype", FALSE, ""), st.types))
  ELSE IF p.value = "" THEN Links(FALSE, ListTermValues(st, p.type))
  ELSE <<Expanded("df"), Expanded("postings")>>

(* A document is named by its number, by its id, or step by step: what is  *)
(* not an id may still be the beginning of one.                            *)
Docno(name) == ParseIndex(After(name, 1))
(* Mutant: a name is looked up without the path it is below.               *)
NameAlone(path, name) == name
Extended(path, name) == IF path = "" THEN name ELSE path \o "/" \o name

OpenPostingsBelow(st, p, name) ==
  LET docid == Extended(p.id, name)
      docno == DocumentNumber(st, docid)
  IN  IF p.id = "" /\ StartsWith(name, "_") THEN
        IF Docno(name) = 0 THEN Invalid
        ELSE TermPostingsPage(p, GetDocidFromDocno(st, Docno(name)), Docno(name))
      ELSE IF docno # 0 \/ IsValidDocumentIdPrefix(st, docid)
      THEN TermPostingsPage(p, docid, docno)
      ELSE NotFound
(* Mutant: the positions are read where the iterator stands, at the first  *)
(* document of the term.                                                   *)
OpenPostingsAtFirst(st, p, name) ==
  LET first == IF Postings(st, p.type, p.value) = {} THEN 0 ELSE Ascending(Postings(st, p.type, p.value))[1]
      positions == Positions(st, first, p.type, p.value)
  IN  IF name = "pos" THEN StructurePage(Numerals(positions)) ELSE Number(p.docno)
OpenPostingsOf(st, p, name) ==
  LET positions == Positions(st, p.docno, p.type, p.value)
  IN  CASE name = "pos"       -> StructurePage(Numerals(positions))
        [] name = "frequency" -> Number(Cardinality(positions))
        [] name = "docid"     -> AtomicPage(GetDocidFromDocno(st, p.docno))
        [] name = "docno"     -> Number(p.docno)
        [] OTHER              -> NotFound
OpenTermPostings(st, p, name) ==
  IF p.docno = 0 THEN OpenPostingsBelow(st, p, name) ELSE OpenPostingsOf(st, p, name)

(* The first documents from the number on.                                 *)
FirstDocno(st, p) ==
  LET found == FetchValues(SkippedPrefix(Docids(st), p.id), 1)
  IN  IF p.docno # 0 THEN p.docno
      ELSE IF p.id = "" THEN 1
      ELSE IF found = << >> THEN 0 ELSE DocumentNumber(st, found[1])
Posting(st, p, d) ==
  LET positions == Positions(st, d, p.type, p.value)
  IN  Member("docid", Value(GetDocidFromDocno(st, d))) \o Member("docno", Value(ToString(d)))
      \o Member("frequency", Value(ToString(Cardinality(positions))))
      \o Member("pos", Bracket(Numerals(positions)))
SerializeTermPostings(st, p) ==
  LET first == FirstDocno(st, p)
      docs  == Ascending({d \in Postings(st, p.type, p.value) : d >= first})
      count == IF Len(docs) < MaxListSizeDeepExpansion THEN Len(docs)
               ELSE MaxListSizeDeepExpansion
  IN  IF first = 0 THEN << >>
      ELSE Array(SubSeq(docs, 1, count), LAMBDA d : Posting(st, p, d))

---------------------------------------------------------------------------
(* Documents.                                                              *)

DocumentPage(docid, docno) == [Blank EXCEPT !.kind = "document", !.id = docid, !.docno = docno]
DocumentMembers ==
  Links(TRUE, <<"docno", "attribute", "metadata", "findex", "sindex", "access">>)
OpenDocument(p, name) ==
  CASE name = "docno"     -> Number(p.docno)
    [] name = "attribute" -> AttributePage(p.docno)
    [] name = "metadata"  -> MetaDataPage(p.docno)
    [] name = "sindex"    -> SearchIndexPage(p.docno, "")
    [] name = "findex"    -> ForwardIndexPage(p.docno, "", 0, 0)
    [] name = "access"    -> ValuesPage("user", FALSE, "")
    [] OTHER              -> Null

DocidPage(path, complete) ==
  [Blank EXCEPT !.kind = "docs", !.id = path, !.complete = complete]

OpenDocid(st, p, name) ==
  LET prefix == Extended(p.id, name)
      docno  == DocumentNumber(st, prefix)
  IN  IF name = "" THEN Null
      ELSE IF p.id = "" /\ StartsWith(name, "_") THEN
        IF Docno(name) = 0 THEN Invalid
        ELSE DocumentPage(GetDocidFromDocno(st, Docno(name)), Docno(name))
      ELSE IF LastChar(prefix) = "*" THEN
        IF IsValidDocumentIdPrefix(st, WithoutLastChar(prefix))
        THEN DocidPage(WithoutLastChar(prefix), FALSE) ELSE NotFound
      ELSE IF docno # 0 THEN DocumentPage(prefix, docno)
      ELSE IF IsValidDocumentIdPrefix(st, prefix \o "/") THEN DocidPage(prefix, TRUE)
      ELSE NotFound

ListDocid(st, p) == Links(FALSE, FetchDirectory(Docids(st), p.id, p.complete))

---------------------------------------------------------------------------
(* The statistics messages, and the storage.                               *)

IncrementPage == [Blank EXCEPT !.kind = "increment", !.items = InOrder(TimeStamps)]
OpenIncrement(name) ==
  IF name \in TimeStamps THEN StructurePage(Value(name)) ELSE Null
OpenStatistics(name) ==
  CASE name = "increment" -> IncrementPage
    [] name = "snapshot"  -> StructurePage(Each(InOrder(TimeStamps), Value))
    [] OTHER              -> Null

StorageMembers ==
  <<Expanded("config"), Link("diskusage"), Link("blockstats"), Expanded("nofdocs"),
    Expanded("maxdocno"), Expanded("user"), Expanded("termtype"), Link("termvalue"),
    Link("attribute"), Link("metadata"), Link("term"), Link("doc")>>
  \o IF TimeStamps = {} THEN << >> ELSE <<Link("statistics")>>
OpenStorage(st, name) ==
  CASE name = "config"     -> ConfigPage(Config)
    [] name \in {"diskusage", "blockstats"} -> AtomicPage("size")
    [] name = "nofdocs"    -> Number(Cardinality(DOMAIN st.docs))
    [] name = "maxdocno"   -> Number(st.last)
    [] name = "user"       -> ValuesPage("user", FALSE, "")
    [] name = "termtype"   -> ValuesPage("termtype", FALSE, "")
    [] name = "termvalue"  -> ValuesPage("termvalue", TRUE, "")
    [] name = "attribute"  -> StructurePage(Each(InOrder(st.attributes), Value))
    [] name = "metadata"   -> PageOf("metatable")
    [] name = "term"       -> TermPage("", "")
    [] name = "doc"        -> DocidPage("", TRUE)
    [] name = "statistics" -> IF TimeStamps = {} THEN Invalid ELSE PageOf("statistics")
    [] OTHER               -> Null

=============================================================================
