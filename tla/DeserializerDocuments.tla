------------------------ MODULE DeserializerDocuments ------------------------
(***************************************************************************)
(* The readers of deserializer.cpp for documents, updates, statistics and  *)
(* metadata restrictions.  They call an interface while they read: made    *)
(* keeps the calls, a section of a document as one call with its fields.   *)
(***************************************************************************)
EXTENDS DeserializerExpressions

CONSTANTS FarPositions    \* the numbers above storage_max_position_info

(* The calls made for a part: the fields read for it, as one call.         *)
Call(c, name, Read(_)) ==
  With(Fields(c, Read), LAMBDA d :
    Back(IF Ok(d) THEN [d EXCEPT !.made = Append(@, [call |-> name, fields |-> d.got])]
         ELSE d, c))
Section(c, name, Read(_)) == Call(c, name, LAMBDA d : Structure(d, Read))
Ignored(c, Read(_)) == [Read(c) EXCEPT !.got = c.got, !.seen = @ \ {"len"}]

---------------------------------------------------------------------------
PairsOf(c, Read(_, _)) ==
  Pairs(c, "name", "value", Read, LAMBDA d, first, t : Read(Put(d, first, t), "value"))
BuildMetaData(c)   == PairsOf(c, GetNumber)
BuildAttributes(c) == PairsOf(c, GetString)

(* Elements up to the close tag, each one in brackets.                     *)
EntriesUpToClose(c, Read(_)) ==
  With(Structures(c, Read), LAMBDA d : Check(d, At(d, "close")))
Tuple(c, Positional(_), Named(_)) ==
  IF At(c, "value") THEN Positional(c) ELSE Named(Check(c, At(c, "name")))

(* An occurrence beyond the last position a storage has is left out.       *)
IndexEntry(c) ==
  LET length(d) == IF At(d, "value") THEN Skip(d) ELSE d
      near(d) == IF Ok(d) /\ d.got[Append(c.path, "pos")] \in FarPositions
                 THEN [d EXCEPT !.got = c.got] ELSE d
  IN  With(Tuple(c,
        LAMBDA d : length(GetNumber(GetString(GetString(d, "type"), "value"), "pos")),
        LAMBDA d : Complete(Members(d, <<"type", "value", "pos", "len">>,
          LAMBDA e, n : CASE n = "len" -> Ignored(e, LAMBDA f : GetNumber(f, n))
                          [] n = "pos" -> GetNumber(e, n)
                          [] OTHER     -> GetString(e, n)), {"type", "value", "pos"})), near)
BuildStorageIndex(c) == EntriesUpToClose(c, IndexEntry)

(* The positions of a structure are looked at only if it has named members. *)
StructureEntry(c) ==
  LET ends  == {c.path \o <<f, "end">> : f \in {"source", "sink"}}
      named == Complete(Members(c, <<"name", "source", "sink">>,
                 LAMBDA d, n : IF n = "name" THEN GetString(d, n)
                               ELSE GetIndexRangeAsValue(d, n)),
                 {"name", "source", "sink"})
      far(d) == \E p \in ends \cap DOMAIN d.got : d.got[p] \in FarPositions
  IN  Tuple(c,
        LAMBDA d : GetIndexRangeAsValue(GetIndexRangeAsValue(GetString(d, "name"),
                                                             "source"), "sink"),
        LAMBDA d : With(named, LAMBDA e : IF Ok(e) /\ far(e) THEN [e EXCEPT !.got = c.got]
                                          ELSE e))
BuildStorageStructures(c) == EntriesUpToClose(c, StructureEntry)

BuildAccessRights(c) == AtomicTypeList(c, GetString)
BuildAccessRightsValue(c) ==
  IF At(c, "value") /\ Here(c).type = "void" THEN Skip(c)
  ELSE Call(c, "access", LAMBDA d : IF At(d, "open") THEN Structure(d, BuildAccessRights)
                                    ELSE GetString(d, "1"))

---------------------------------------------------------------------------
(* A document: its sections by name, or in their order until the end.      *)

BuildSection(c, name) ==
  CASE name \in {"docid", "doctype"} -> Ignored(c, LAMBDA d : GetString(d, name))
    [] name = "access"       -> BuildAccessRightsValue(c)
    [] OTHER -> Section(c, name, LAMBDA d :
                  CASE name = "attribute"    -> BuildAttributes(d)
                    [] name = "metadata"     -> BuildMetaData(d)
                    [] name \in {"forwardindex", "searchindex"} -> BuildStorageIndex(d)
                    [] name = "searchstruct" -> BuildStorageStructures(d))

SectionsByIndex ==                           \* the indexes in the other order
  <<"docid", "doctype", "attribute", "metadata", "searchindex", "forwardindex",
    "searchstruct", "access">>
DocumentSections ==
  <<"docid", "doctype", "attribute", "metadata", "forwardindex", "searchindex",
    "searchstruct", "access">>

BuildStorageDocument(c) ==
  LET tuple(Read(_, _)) ==
        LET first == Ignored(c, LAMBDA d : GetString(d, "doctype"))
            Rest[k \in 2..8] ==
              IF k = 2 THEN first
              ELSE IF Eof(Rest[k-1]) THEN Rest[k-1]
              ELSE Read(Rest[k-1], DocumentSections[k])
        IN  Rest[8]
      sections(Read(_, _)) ==
        IF At(c, "name") THEN LaterMembers(c, DocumentSections, Read) ELSE tuple(Read)
  IN  AtEnd(sections(BuildSection))

BuildInsertDocument(c) == Argument(c, Skip, Fail, BuildStorageDocument)

(* An update clears first.  The access rights are cleared all together, or *)
(* the names are taken for types of the forward index.                     *)
DeleteCall(d, name) ==
  LET named == \E p \in DOMAIN d.got : d.got[p] = "*"
  IN  IF name # "access" THEN "clear " \o name
      ELSE IF named THEN "clear access" ELSE "clear forwardindex"
ClearSection(c, name) ==
  With(Fields(c, LAMBDA e : AtomicTypeListAsValue(e, GetString)), LAMBDA d :
    Back(IF Ok(d) THEN [d EXCEPT !.made = Append(@, [call |-> DeleteCall(d, name),
                                                    fields |-> d.got])]
         ELSE d, c))

BuildStorageDocumentDeletes(c) ==
  Argument(c, Skip, Fail,
    LAMBDA d : AtEnd(LaterMembers(Check(d, At(d, "name")),
      <<"attribute", "metadata", "forwardindex", "searchindex", "access">>, ClearSection)))

BuildUpdateDocument(c) == BuildInsertDocument(BuildStorageDocumentDeletes(c))

---------------------------------------------------------------------------
(* Statistics: the changes are read one behind the other, without brackets *)
(* of their own.                                                           *)
DfChanges(c) ==
  IF At(c, "open")
  THEN ConsumeClose(Loop(Skip(c), LAMBDA d : ~At(d, "close"),
                         LAMBDA d, k : Call(d, "dfchange", DfChangeDef)))
  ELSE c
BuildStatistics(c) ==
  Argument(c, Skip, Fail,
    LAMBDA d : AtEnd(LaterMembers(Check(d, At(d, "name")), <<"dfchange", "nofdocs">>,
      LAMBDA e, n : IF n = "dfchange" THEN DfChanges(e)
                    ELSE Call(e, n, LAMBDA f : GetNumber(f, n)))))

---------------------------------------------------------------------------
(* Metadata restrictions.  A query takes conditions, each one that opens a *)
(* group or joins the last one; made is the conjunction of the groups.  A  *)
(* metadata expression takes comparisons and the operator that joins the   *)
(* last count of them; made is the expression in postfix order.            *)

JoinGroup(c) ==
  IF Ok(c) /\ c.count > 1
  THEN [c EXCEPT !.made = Append(@, [op |-> "or", argc |-> c.count]), !.count = 0] ELSE c

AddCondition(c, condition, newGroup) ==
  LET last   == Len(c.made)
      joined == IF newGroup THEN JoinGroup(c) ELSE c
  IN  IF ~Ok(c) THEN c
      ELSE IF c.builder = "metadata" THEN
        [joined EXCEPT !.made = Append(@, [op |-> "compare", condition |-> condition]),
                       !.count = IF newGroup THEN 1 ELSE @ + 1]
      ELSE IF newGroup \/ last = 0 THEN [c EXCEPT !.made = Append(@, <<condition>>)]
      ELSE [c EXCEPT !.made[last] = Append(@, condition)]

Compare(c, newGroup) ==
  With(Fields(c, MetaDataCompareDef), LAMBDA d :
    Back(AddCondition(Check(d, c.builder # "metadata" => Field(d, "value", "") \in Numbers),
                      <<Field(d, "op", ""), Field(d, "name", ""), Field(d, "value", "")>>,
                      newGroup), c))

(* Every condition opens a group, or with doGroup the first one only.      *)
ConditionJoinLast(c, doGroup) ==             \* with doGroup none opens a group
  Loop(c, LAMBDA d : At(d, "open"),
       LAMBDA d, k : Structure(d, LAMBDA e : Compare(e, ~doGroup)))

ConditionJoin(c, doGroup) ==
  Loop(c, LAMBDA d : At(d, "open"),
       LAMBDA d, k : Structure(d, LAMBDA e : Compare(e, k = "1" \/ ~doGroup)))

ConditionJoinStruct(c, doGroup) ==
  Structure(c, LAMBDA d : IF At(d, "open") THEN ConditionJoin(d, doGroup)
                          ELSE Compare(d, TRUE))

(* The bracket that names the conditions of a union is opened, not closed. *)
RestrictionNamed(c) ==
  LET names == <<"union", "condition", "op", "name", "value">>
      body  == Check(Skip(c), At(Skip(c), "open"))
      named(d)   == Skip(Check(d, Here(d).text = "condition"))
      union(i)   == i = 1 /\ At(Skip(body), "name")
      joined(as) == ConditionJoinStruct(IF as THEN named(Skip(body)) ELSE body, as)
  IN  With(IF At(c, "name") THEN NameIndex(names, Here(c).text) ELSE 0, LAMBDA i :
        IF i = 0 THEN Fail(c)
        ELSE IF i > 2 THEN Compare(c, TRUE) ELSE joined(union(i)))

RestrictionElement(c) ==
  IF At(c, "name") THEN RestrictionNamed(c)
  ELSE IF At(c, "open") THEN ConditionJoin(c, TRUE)
  ELSE Compare(c, TRUE)

(* So is the bracket of a list whose first element has named members.      *)
BuildRestriction(c) ==
  LET start == IF At(c, "open") /\ At(Skip(c), "name") THEN Skip(c) ELSE c
      read  == IF At(c, "open") /\ start = c
               THEN Loop(c, LAMBDA d : At(d, "open"),
                         LAMBDA d, k : Structure(d, RestrictionElement))
               ELSE IF Eof(c) THEN c ELSE RestrictionElement(start)
  IN  With(read, JoinGroup)

BuildMetaDataRestriction(c) ==
  Argument(c, Skip, Fail, LAMBDA d : AtEnd(BuildRestriction(d)))

=============================================================================
