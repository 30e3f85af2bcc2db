------------------------- MODULE DeserializerResults -------------------------
(***************************************************************************)
(* The readers of deserializer.cpp for options, classes and statistics and *)
(* for the results of queries that come back from other servers.           *)
(***************************************************************************)
EXTENDS StructDefs

GetWeightedStringList(c) ==
  Argument(c, Fail, Fail, LAMBDA d : AtEnd(Structures(d, WeightedStringInit)))

GetIndexRange(c) ==
  IF At(c, "name") THEN Members(c, <<"start", "end">>, GetNumber)
  ELSE GetNumber(GetNumber(c, "start"), "end")
GetIndexRangeAsValue(c, label) ==
  In(c, label, LAMBDA d : Structure(d, GetIndexRange))

(* Characters: in brackets, or all characters of one text.                 *)
GetCharListUnicode(c) ==
  IF At(c, "open")
  THEN ConsumeClose(Loop(Skip(c), LAMBDA d : At(d, "value"), GetString))
  ELSE GetString(c, "1")

---------------------------------------------------------------------------
(* Simple structures: values by position, or members by name.  Nothing is  *)
(* skipped behind an open tag, so that no structure in brackets is read.   *)

SimpleStructure(c, names, Read(_, _)) ==
  IF At(c, "value") THEN
    Loop(c, LAMBDA d : At(d, "value"),
         LAMBDA d, k : LET left == {i \in DOMAIN names : ToString(i) = k}
                       IN  IF left = {} THEN Fail(d)
                           ELSE Read(d, names[CHOOSE i \in left : TRUE]))
  ELSE IF At(c, "open") THEN ConsumeClose(c)
  ELSE LaterMembers(c, names, Read)

SimpleArgument(c, names, Read(_, _)) ==
  Argument(c, Skip, LAMBDA d : Read(d, names[1]),
           LAMBDA d : AtEnd(SimpleStructure(d, names, Read)))

PositionBinds == [content |-> "content", succ |-> "successor",
                  pred |-> "predecessor", unique |-> "predecessor"]
SetPosition(c, field) ==
  LET t == Here(c).text
  IN  IF At(c, "value") /\ t \in DOMAIN PositionBinds
      THEN Skip(Put(c, field, PositionBinds[t])) ELSE Fail(c)

GetFeatureOptionsAt(c)  == SimpleStructure(c, <<"position">>, SetPosition)
GetFeatureOptions(c)    == SimpleArgument(c, <<"position">>, SetPosition)
GetTermStatistics(c)    == SimpleArgument(c, <<"df">>, GetNumber)
GetGlobalStatistics(c)  == SimpleArgument(c, <<"nofdocs">>, GetNumber)
GetDocumentClass(c)     == SimpleArgument(c, <<"mimetype", "encoding", "schema">>, GetString)

---------------------------------------------------------------------------
(* Time stamps and the statistics messages that carry one.                 *)

GetTimeStampAt(c) ==
  IF At(c, "name") THEN Members(c, <<"unixtime", "counter">>, GetNumber)
  ELSE IF At(c, "value") THEN
         With(IF Here(c).type = "void" THEN Skip(c) ELSE GetNumber(c, "unixtime"),
              LAMBDA d : IF At(d, "close") THEN d ELSE GetNumber(d, "counter"))
  ELSE Check(c, At(c, "close"))

GetTimeStamp(c) ==
  Argument(c, Skip, LAMBDA d : GetNumber(d, "unixtime"),
           LAMBDA d : AtEnd(GetTimeStampAt(d)))

(* By position the time stamp is looked at, and left where it is: the      *)
(* message that follows is read from the same value.                       *)
GetStatisticsMessageAt(c) ==
  LET peek(d) == [GetTimeStamp(d) EXCEPT !.at = d.at]
      stamp(d) == IF At(d, "value") THEN GetTimeStamp(d)
                  ELSE Structure(d, GetTimeStampAt)
  IN  IF At(c, "name") THEN
        Members(c, <<"timestamp", "blob">>,
          LAMBDA d, n : IF n = "timestamp" THEN In(d, n, stamp)
                        ELSE GetBlobBase64Decoded(d, n))
      ELSE IF At(c, "close") THEN c
      ELSE GetBlobBase64Decoded(InBracketsOrNot(c, LAMBDA d : In(d, "timestamp", peek)), "blob")

GetStatisticsMessage(c) ==
  Argument(c, Skip, LAMBDA d : GetBlobBase64Decoded(d, "blob"),
           LAMBDA d : AtEnd(GetStatisticsMessageAt(d)))

---------------------------------------------------------------------------
(* Results.  The name of an unknown member is skipped without an error: its *)
(* value ends the members.                                                  *)

ResultMembers(c, names, Read(_, _)) == MembersWhere(c, names, TRUE, LAMBDA d : d, Read)

GetSummaryElement(c) ==
  LET next(d, field, Read(_, _)) == IF At(d, "value") THEN Read(d, field) ELSE d
  IN  IF At(c, "name") THEN
        Complete(ResultMembers(c, <<"name", "value", "weight", "index">>,
                   LAMBDA d, n : IF n \in {"name", "value"} THEN GetString(d, n)
                                 ELSE GetNumber(d, n)), {"name", "value"})
      ELSE next(next(GetString(GetString(c, "name"), "value"),
                     "weight", GetNumber), "index", GetNumber)

(* Structures up to a close tag, or one element without brackets.          *)
ElementList(c, Read(_)) ==
  IF At(c, "open") THEN With(Structures(c, Read), LAMBDA d : Check(d, At(d, "close")))
  ELSE In(c, "1", Read)
ElementListValue(c, label, Read(_)) ==
  In(c, label, LAMBDA d : Structure(d, LAMBDA e : ElementList(e, Read)))

UnlessClosed(c, Read(_)) == IF At(c, "close") THEN c ELSE Read(c)

(* What follows the elements is not looked at.                             *)
GetSummary(c) == Argument(c, Fail, Fail, LAMBDA d : ElementList(d, GetSummaryElement))

GetResultDocument(c) ==
  LET tuple == GetNumber(GetNumber(c, "docno"), "weight")
      field == UnlessClosed(tuple, LAMBDA d : GetIndexRangeAsValue(d, "field"))
  IN  IF At(c, "name") THEN
        Complete(ResultMembers(c, <<"docno", "weight", "field", "summary">>,
                   LAMBDA d, n :
                     CASE n \in {"docno", "weight"} -> GetNumber(d, n)
                       [] n = "field"   -> GetIndexRangeAsValue(d, n)
                       [] n = "summary" -> ElementListValue(d, n, GetSummaryElement)),
                 {"docno", "weight"})
      ELSE UnlessClosed(field, LAMBDA d : ElementListValue(d, "summary", GetSummaryElement))

(* The array of the members seen has a place less than there are members:  *)
(* whether the summary counts as seen is whatever lies behind the array.   *)
GetQueryResult(c) ==
  LET tuple == GetNumber(GetNumber(GetNumber(c, "evalpass"), "nofranked"), "nofvisited")
      ranks == UnlessClosed(tuple, LAMBDA d : ElementListValue(d, "ranks", GetResultDocument))
      start == [c EXCEPT !.seen = IF c.behind THEN {"summary"} ELSE {}]
  IN  IF At(c, "name") THEN
        Complete(ResultMembers(start,
                   <<"evalpass", "nofranked", "nofvisited", "ranks", "summary">>,
                   LAMBDA d, n :
                     CASE n = "ranks"   -> ElementListValue(d, n, GetResultDocument)
                       [] n = "summary" -> ElementListValue(d, n, GetSummaryElement)
                       [] OTHER         -> GetNumber(d, n)),
                 {"nofranked", "nofvisited"})
      ELSE UnlessClosed(ranks, LAMBDA d : ElementListValue(d, "summary", GetSummaryElement))

GetQueryResultValue(c) == Argument(c, Fail, Fail, GetQueryResult)

(* A value that is a result is read, and then the reader of a result       *)
(* without brackets goes on behind it.                                     *)
GetQueryResultListAt(c) ==
  LET packed(d) == IF Here(d).type = "serialization" THEN GetQueryResultValue(d) ELSE d
      label(d, k) == IF At(d, "open") THEN k ELSE ToString(<<k>>)
      more(d, k) == With(In(d, k, packed), LAMBDA e :
                      In(e, label(e, k), LAMBDA f : InBracketsOrNot(f, GetQueryResult)))
  IN  Loop(c, LAMBDA d : ~At(d, "close"), more)
GetQueryResultList(c) == Argument(c, Fail, Fail, GetQueryResultListAt)

=============================================================================
