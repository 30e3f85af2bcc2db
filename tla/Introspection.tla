---------------------------- MODULE Introspection ----------------------------
(***************************************************************************)
(* The objects of the bindings show what they know as pages: a page opens  *)
(* the pages below it by name, lists their names and serializes itself     *)
(* (introspectionBase.cpp, introspectionTemplates.hpp).  The name of a     *)
(* listed page is either expanded where it is listed, or shown as a link   *)
(* for the caller to follow.                                               *)
(*                                                                         *)
(* A page is a record: its kind, and whatever its constructor got.  The    *)
(* kinds null, notfound and invalid stand for the outcomes of open that    *)
(* are no page: NULL, the exception "not found" and any other exception.   *)
(***************************************************************************)
EXTENDS Serializer

CONSTANTS Bytes,                    \* what texts are made of
          Characters,               \* the text that has every byte, in their order
          MaxListSizeDeepExpansion  \* no list is longer

---------------------------------------------------------------------------
(* Sets in an order: the i-th element has i - 1 elements before it.        *)

SortedBy(S, before) ==
  [i \in 1..Cardinality(S) |->
     CHOOSE x \in S : Cardinality({y \in S : <<y, x>> \in before}) = i - 1]
First(list, n) == SubSeq(list, 1, IF Len(list) < n THEN Len(list) ELSE n)

(* Texts, ordered like the keys of a storage.                              *)

CharAt(text, i)   == SubSeq(text, i, i)
Place(char)       == CHOOSE i \in 1..Len(Characters) : CharAt(Characters, i) = char
StartsWith(text, prefix) ==
  Len(prefix) <= Len(text) /\ SubSeq(text, 1, Len(prefix)) = prefix
After(text, n)    == SubSeq(text, n + 1, Len(text))
Slashes(text)     == {i \in 1..Len(text) : CharAt(text, i) = "/"}
Precedes(a, b) ==
  \E i \in 1..Len(b) :
     /\ StartsWith(a, SubSeq(b, 1, i - 1))
     /\ Len(a) < i \/ Place(CharAt(a, i)) < Place(CharAt(b, i))
IsText(text) ==
  /\ text \in Seq(Bytes)
  /\ \A i \in 1..Len(text) : \E j \in 1..Len(Characters) : CharAt(Characters, j) = CharAt(text, i)
KeyOrder(texts)   == {p \in texts \X texts : Precedes(p[1], p[2])}
InOrder(texts)    == SortedBy(texts, KeyOrder(texts))
LastChar(text)    == IF text = "" THEN "" ELSE CharAt(text, Len(text))
WithoutLastChar(text) == SubSeq(text, 1, Len(text) - 1)

(* A value iterator: skip to a key, skip to the values with a prefix, and  *)
(* fetch the first values from there.                                      *)
SkippedTo(texts, key)     == {t \in texts : ~Precedes(t, key)}
SkippedPrefix(texts, key) == {t \in texts : StartsWith(t, key)}
FetchValues(texts, n)     == First(InOrder(texts), n)

(* A name that is a number: 0 when it is none.                             *)
ParseIndex(text) ==
  LET n == {i \in 1..Len(Characters) : ToString(i) = text}
  IN  IF n = {} THEN 0 ELSE CHOOSE i \in n : TRUE

---------------------------------------------------------------------------
(* Pages.                                                                  *)

Blank == [kind |-> "null", of |-> "", docno |-> 0, id |-> "", type |-> "", value |-> "",
          pos |-> 0, size |-> 0, complete |-> TRUE, items |-> << >>]

Null     == Blank
NotFound == [Blank EXCEPT !.kind = "notfound"]
Invalid  == [Blank EXCEPT !.kind = "invalid"]
IsPage(p) == p.kind \notin {"null", "notfound", "invalid"}

PageOf(kind)        == [Blank EXCEPT !.kind = kind]
AtomicPage(text)    == [Blank EXCEPT !.kind = "atomic", !.items = Value(text)]
StructurePage(ser)  == [Blank EXCEPT !.kind = "structure", !.items = ser]

(* The values of an iterator, from a key or with a prefix on.              *)
ValuesPage(of, prefixBound, key) ==
  [Blank EXCEPT !.kind = "values", !.of = of, !.complete = ~prefixBound, !.id = key]
OpenValues(p, name) == IF p.id = "" THEN [p EXCEPT !.id = name] ELSE Null
ListValues(p, texts) ==
  FetchValues(IF p.complete THEN SkippedTo(texts, p.id) ELSE SkippedPrefix(texts, p.id),
              MaxListSizeDeepExpansion)

(* Pairs of a key and a value.  A key that occurs more than once shows all *)
(* its values.                                                             *)
KeyValuesPage(items) == [Blank EXCEPT !.kind = "keyvalues", !.items = items]
OpenKeyValue(p, name) ==
  LET found == SelectSeq(p.items, LAMBDA x : x.name = name)
  IN  IF found = << >> THEN Null
      ELSE [Blank EXCEPT !.kind = "atomic", !.items = Each(found, LAMBDA x : Value(x.value))]

(* A configuration: the item "metadata" has items of its own.              *)
ConfigPage(items) == [Blank EXCEPT !.kind = "config", !.items = items]
OpenConfig(p, name) ==
  LET found == SelectSeq(p.items, LAMBDA x : x.name = name)
  IN  IF found = << >> THEN Null
      ELSE IF name = "metadata" THEN KeyValuesPage(found[1].items)
      ELSE AtomicPage(found[1].value)
KeysOf(items) == [i \in DOMAIN items |-> items[i].name]
KeysOnce(items) ==
  FoldLeft(LAMBDA keys, x : IF Contains(keys, x.name) THEN keys ELSE Append(keys, x.name),
           << >>, items)

---------------------------------------------------------------------------
(* Lists.                                                                  *)

Link(name)     == [autoexpand |-> FALSE, name |-> name]    \* a name with a dot before it
Expanded(name) == [autoexpand |-> TRUE, name |-> name]
Links(autoexpand, names) ==
  [i \in DOMAIN names |-> [autoexpand |-> autoexpand, name |-> names[i]]]

(* serializeMembers: the members that open, then the links.                *)
SerializeMembers(list, OpenMember(_), SerializeMember(_)) ==
  LET links == SelectSeq(list, LAMBDA l : ~l.autoexpand)
      expanded(l, p) == IF IsPage(p) THEN Member(l.name, SerializeMember(p)) ELSE << >>
  IN  Each(list, LAMBDA l : IF l.autoexpand THEN expanded(l, OpenMember(l.name)) ELSE << >>)
      \o When(links # << >>,
              Member("link", Bracket(Each(links, LAMBDA l : Value(l.name)))))

(* Documents whose ids form directories.  The walk goes through the ids    *)
(* from the search key on; at an id that goes on below the directory it    *)
(* takes the directory, and searches again from the directory's name and   *)
(* the byte 1, which comes before the slash.                               *)
ParentPath(path) ==
  LET last == CHOOSE i \in Slashes(path) : \A j \in Slashes(path) : j <= i
  IN  SubSeq(path, 1, last - 1)
DirectoryPrefix(path, complete) == IF complete /\ path # "" THEN path \o "/" ELSE path
(* Mutant: the directory stays in front of the names.                      *)
ContextOfPrefix(path, complete) ==
  IF Slashes(path) # {} THEN ParentPath(path) \o "/" ELSE ""
DirectoryContext(path, complete) ==
  IF complete THEN DirectoryPrefix(path, complete)
  ELSE IF Slashes(path) # {} THEN ParentPath(path) \o "/" ELSE ""
Searched(ids, key) == FetchValues(SkippedTo(ids, key), MaxListSizeDeepExpansion)

(* A turn of the walk: found are the ids still to look at, rt the names    *)
(* listed so far.  A turn lists one name, or none any more.                *)
WalkOn(ids, walk, prefix, context) ==
  LET elem  == After(walk.found[1], Len(context))
      delim == CHOOSE i \in Slashes(elem) : \A j \in Slashes(elem) : i <= j
      name  == SubSeq(elem, 1, delim - 1)
  IN  IF walk.found = << >> \/ ~StartsWith(walk.found[1], prefix) THEN walk
      ELSE IF Slashes(elem) = {}
      THEN [found |-> Tail(walk.found), rt |-> Append(walk.rt, elem)]
      ELSE [found |-> Searched(ids, context \o name \o CharAt(Characters, 1)),
            rt |-> Append(walk.rt, name)]

FetchDirectory(ids, path, complete) ==
  LET prefix  == DirectoryPrefix(path, complete)
      context == DirectoryContext(path, complete)
      Walk[n \in 0..MaxListSizeDeepExpansion] ==
        IF n = 0 THEN [found |-> Searched(ids, prefix), rt |-> << >>]
        ELSE WalkOn(ids, Walk[n - 1], prefix, context)
  IN  Walk[MaxListSizeDeepExpansion].rt

=============================================================================
