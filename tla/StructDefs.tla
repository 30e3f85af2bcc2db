----------------------------- MODULE StructDefs -----------------------------
(***************************************************************************)
(* The readers of the deserializer: the iterator it walks over a           *)
(* serialization, the readers of single values, the map of member names    *)
(* (structNameMap.cpp), the shapes the readers of structDefs.cpp and       *)
(* deserializer.cpp are all built from, and the structures of              *)
(* structDefs.cpp, whose fields are kept under their names.                *)
(*                                                                         *)
(* A reader takes a cursor and returns the cursor behind what it has read. *)
(* An exception makes the cursor's status "error", and every operator      *)
(* leaves a cursor that is not "ok" alone, so that readers compose.        *)
(***************************************************************************)
EXTENDS Serialization

---------------------------------------------------------------------------
(* The cursor.  got holds what was read: the path of a field with its      *)
(* text; seen the members named so far in the structure that is being      *)
(* read; stack and made belong to the builder that expressions are pushed  *)
(* to (DeserializerExpressions), count to the reader of a list, and behind *)
(* is what the program finds when it reads behind an array.                *)

Cursor(ser) == [ser |-> ser, at |-> 1, status |-> "ok", got |-> << >>,
                seen |-> {}, path |-> << >>,
                builder |-> "none", stack |-> << >>, made |-> << >>, count |-> 0,
                behind |-> FALSE]

(* What a reader returns, used under a name.                               *)
With(c, Use(_)) == Use(c)

Ok(c)   == c.status = "ok"
Eof(c)  == c.at > Len(c.ser)
Tag(c)  == IF Eof(c) THEN "close" ELSE c.ser[c.at].tag
Here(c) == IF Eof(c) THEN Close ELSE c.ser[c.at]
At(c, tag) == Ok(c) /\ Tag(c) = tag

Fail(c)     == IF Ok(c) THEN [c EXCEPT !.status = "error"] ELSE c
Check(c, p) == IF p THEN c ELSE Fail(c)
Skip(c)     == IF Ok(c) /\ ~Eof(c) THEN [c EXCEPT !.at = @ + 1] ELSE c

Put(c, field, text) ==
  IF Ok(c) THEN [c EXCEPT !.got = (Append(c.path, field) :> text) @@ @] ELSE c

(* Reads a part: its fields are kept under the label, its members counted  *)
(* on their own.                                                           *)
In(c, label, Read(_)) ==
  LET d == Read([c EXCEPT !.path = Append(@, label), !.seen = {}])
  IN  [d EXCEPT !.path = c.path, !.seen = c.seen]

(* Reads a serialization that is itself a value of the one being read.     *)
Within(c, ser, Read(_)) ==
  LET d == Read([c EXCEPT !.ser = ser, !.at = 1, !.seen = {}])
  IN  [d EXCEPT !.ser = c.ser, !.at = c.at, !.seen = c.seen]

(* while (Continue) Body.  The turns are counted: a loop that still goes on *)
(* after more turns than there are tokens has stopped consuming them.       *)
Loop(c, Continue(_), Body(_, _)) ==
  LET RECURSIVE Turn(_, _)
      Turn(d, k) == IF ~Ok(d) \/ ~Continue(d) THEN d
                    ELSE IF k > Len(c.ser) + 2 THEN [d EXCEPT !.status = "hang"]
                    ELSE Turn(Body(d, ToString(k)), k + 1)
  IN  Turn(c, 1)

---------------------------------------------------------------------------
(* Single values.                                                          *)

GetValue(c) == Check(c, At(c, "value"))

GetString(c, field) ==
  LET v == Here(c) IN Skip(Put(Check(GetValue(c), v.type = "atom"), field, v.text))

GetNumber(c, field) ==
  LET v == Here(c)
  IN  Skip(Put(Check(GetValue(c), v.type = "atom" /\ v.text \in Numbers), field, v.text))

GetVariant(c, field) ==
  LET v == Here(c)
  IN  Skip(Put(GetValue(c), field, IF v.type = "atom" THEN v.text ELSE v.type))

GetBlobBase64Decoded(c, field) ==
  LET v == Here(c)
  IN  IF v.text \in DOMAIN Base64
      THEN Skip(Put(GetValue(c), field, Base64[v.text]))
      ELSE Fail(c)

CompareOperators ==
  [o \in {"<", "lt"} |-> "less"] @@ [o \in {"<=", "le"} |-> "lessequal"] @@
  [o \in {">", "gt"} |-> "greater"] @@ [o \in {">=", "ge"} |-> "greaterequal"] @@
  [o \in {"=", "==", "eq"} |-> "equal"] @@ [o \in {"!=", "ne"} |-> "notequal"]

(* The operator is the value at the iterator whatever its tag: a name with *)
(* the text of an operator is taken as well.                               *)
GetMetaDataCmpOp(c, field) ==
  LET t == Here(c).text
  IN  IF Tag(c) \in {"value", "name"} /\ t \in DOMAIN CompareOperators
      THEN Skip(Put(c, field, CompareOperators[t])) ELSE Fail(c)

ConsumeClose(c) == Skip(Check(c, At(c, "close") /\ ~Eof(c)))
AtEnd(c) == Check(c, Eof(c))

---------------------------------------------------------------------------
(* The map of member names.  The names are kept in one string, and a name  *)
(* is looked up as the first place where that string contains it: the      *)
(* member is the one that ends where the occurrence ends.                  *)

Joined(names) ==
  LET J[k \in 1..Len(names)] == IF k = 1 THEN names[1] ELSE J[k-1] \o "," \o names[k]
  IN  J[Len(names)]

EndOf(names, k) == Len(Joined(SubSeq(names, 1, k)))

(* strstr: the positions before which the text occurs.                     *)
Occurrences(text, id) ==
  {p \in 0..(Len(text) - Len(id)) : SubSeq(text, p + 1, p + Len(id)) = id}

NameIndex(names, id) ==
  With(Occurrences(Joined(names), id), LAMBDA found :
    LET ends == {k \in DOMAIN names : EndOf(names, k) - Len(id) \in found}
        first == {k \in ends : \A p \in found : EndOf(names, k) - Len(id) <= p}
    IN  IF first = {} THEN 0 ELSE CHOOSE k \in first : TRUE)

---------------------------------------------------------------------------
(* The shapes of the readers.                                              *)

(* while the next tag is a name: look it up, skip it, read the member.  An *)
(* unknown name is refused; so is a repeated one when the members are      *)
(* guarded by the array "defined".                                         *)
MembersWhere(c, names, unique, unknown(_), Read(_, _)) ==
  Loop(c, LAMBDA d : At(d, "name"),
    LAMBDA d, k :
      With(NameIndex(names, Here(d).text), LAMBDA i :
        IF i = 0 THEN unknown(Skip(d))
        ELSE IF unique /\ names[i] \in d.seen THEN Fail(d)
        ELSE Read([Skip(d) EXCEPT !.seen = @ \cup {names[i]}], names[i])))

Members(c, names, Read(_, _))     == MembersWhere(c, names, TRUE, Fail, Read)
LaterMembers(c, names, Read(_, _)) == MembersWhere(c, names, FALSE, Fail, Read)

Complete(c, required) == Check(c, required \subseteq c.seen)

(* A structure in brackets.                                                *)
Structure(c, Read(_)) == ConsumeClose(Read(Skip(Check(c, At(c, "open")))))

InBracketsOrNot(c, Read(_)) == IF At(c, "open") THEN Structure(c, Read) ELSE Read(c)

(* while the next tag opens a structure: read it, as the k-th element.     *)
Structures(c, Read(_)) ==
  Loop(c, LAMBDA d : At(d, "open"),
       LAMBDA d, k : Structure(d, LAMBDA e : In(e, k, Read)))

(* A value passed as an argument: nothing, a serialization, or an atom.    *)
Argument(c, Undefined(_), Atomic(_), Read(_)) ==
  LET v == Here(c)
  IN  IF ~At(c, "value") THEN Fail(c)
      ELSE IF v.type = "void" THEN Undefined(c)
      ELSE IF v.type = "atom" THEN Atomic(c)
      ELSE Skip(Within(c, v.ser, Read))

(* Values up to the close tag, or in brackets, or a single one.            *)
AtomicTypeList(c, Read(_, _)) ==
  Loop(c, LAMBDA d : ~At(d, "close"), Read)
AtomicTypeListAsValue(c, Read(_, _)) ==
  IF At(c, "open") THEN ConsumeClose(AtomicTypeList(Skip(c), Read))
  ELSE Read(Check(c, At(c, "value")), "1")

GetStringList(c, label) == In(c, label, LAMBDA d : AtomicTypeList(d, GetString))
GetStringListAsValue(c, label) ==
  In(c, label, LAMBDA d : AtomicTypeListAsValue(d, GetString))

(* Pairs of a name and a value up to the close tag: as a tuple, as a       *)
(* structure that names both members, or as a member of a dictionary.      *)
Pairs(c, first, second, Read(_, _), Dictionary(_, _, _)) ==
  Loop(c, LAMBDA d : ~At(d, "close"),
    LAMBDA d, k :
      IF At(d, "open") THEN
        Structure(d, LAMBDA e : In(e, k, LAMBDA f :
          IF At(f, "value") THEN Read(GetString(f, first), second)
          ELSE Complete(Members(f, <<first, second>>,
                          LAMBDA g, n : IF n = first THEN GetString(g, first)
                                        ELSE Read(g, second)),
                        {first, second})))
      ELSE IF At(d, "name") THEN
        In(d, k, LAMBDA f : Dictionary(Skip(f), first, Here(f).text))
      ELSE Fail(d))

---------------------------------------------------------------------------
(* The structures of structDefs.cpp.                                       *)

(* A name and its arguments.  The members may be repeated, the last counts. *)
Cleared(c, label) ==
  LET n == Len(c.path) + 1
  IN  [c EXCEPT !.got =
         [p \in {q \in DOMAIN c.got : SubSeq(q, 1, n) # Append(c.path, label)} |-> c.got[p]]]
AnalyzerFunctionDef(c) ==
  IF At(c, "name") THEN
    Complete(LaterMembers(c, <<"name", "arg">>,
               LAMBDA d, n : IF n = "name" THEN GetString(d, n)
                             ELSE GetStringListAsValue(Cleared(d, n), n)), {"name"})
  ELSE GetStringList(GetString(Check(c, At(c, "value")), "name"), "arg")

---------------------------------------------------------------------------
(* A member that may be left out: read if it is the next one.              *)
OptionalDefinition(c, option) ==
  IF At(c, "name") /\ Here(c).text = option THEN GetString(Skip(c), option) ELSE c

(* A term as a tuple may start with its variable in a structure.           *)
QueryTermDef(c) ==
  LET given(d) == IF At(c, "open") /\ d.at # c.at + 1 THEN ConsumeClose(d) ELSE c
      typed(d) == GetString(Check(d, At(d, "value")), "type")
      valued(d) == GetString(Check(d, ~At(d, "close")), "value")
      tuple == valued(typed(given(OptionalDefinition(Skip(c), "variable"))))
      named == LaterMembers(c, <<"type", "value", "variable", "len">>,
                 LAMBDA d, n : IF n = "len" THEN GetNumber(d, n) ELSE GetString(d, n))
  IN  IF At(c, "name")
      THEN With(named, LAMBDA d : Check(d, /\ "type" \in d.seen
                                           /\ "len" \in d.seen => "value" \in d.seen))
      ELSE With(tuple, LAMBDA d : IF At(d, "close") THEN d ELSE GetNumber(d, "len"))

---------------------------------------------------------------------------
KeyValuePairs(c) ==
  Pairs(c, "name", "value", GetVariant,
        LAMBDA d, first, t : GetVariant(Put(d, first, t), "value"))

KeyValueList(c) ==
  Argument(c, Skip, Fail, LAMBDA d : AtEnd(KeyValuePairs(d)))

(* A configuration is a text or a list of keys with values; a value is a   *)
(* text or a list of names with types.  The names of a dictionary of types *)
(* are read and left out of the configuration.                             *)
ValueTypeDefinitionList(c) ==
  Pairs(c, "name", "type", GetString,
        LAMBDA d, first, t :
          LET e == GetString(d, "type") IN [e EXCEPT !.got = d.got])

ConfigValue(c, field) ==
  IF At(c, "open") THEN In(c, field, LAMBDA d : Structure(d, ValueTypeDefinitionList))
  ELSE GetString(c, field)

ConfigPairs(c) ==
  Pairs(c, "name", "value", ConfigValue,
        LAMBDA d, first, t : ConfigValue(Put(d, first, t), "value"))

ConfigDef(c) ==
  Argument(c, LAMBDA d : GetString(d, "config"), LAMBDA d : GetString(d, "config"),
           LAMBDA d : AtEnd(ConfigPairs(d)))
ConfigDefAt(c, field) ==
  IF At(c, "open") THEN In(c, field, LAMBDA d : Structure(d, ConfigPairs))
  ELSE GetString(c, field)

---------------------------------------------------------------------------
DfChangeDef(c) ==
  IF At(c, "value") THEN GetNumber(GetString(GetString(c, "type"), "value"), "increment")
  ELSE Complete(Members(c, <<"type", "value", "increment">>,
                  LAMBDA d, n : IF n = "increment" THEN GetNumber(d, n)
                                ELSE GetString(d, n)),
                {"type", "value", "increment"})

ContextDefInit(c) ==
  IF At(c, "value") THEN GetString(c, "rpc")
  ELSE Members(c, <<"threads", "rpc", "trace">>,
         LAMBDA d, n : IF n = "threads" THEN GetNumber(d, n) ELSE ConfigDefAt(d, n))

(* A number is no context configuration; a text is the one of the client.  *)
ContextDef(c) ==
  Argument(c, Skip,
           LAMBDA d : Check(GetString(d, "rpc"), Here(d).text \notin Numbers),
           LAMBDA d : AtEnd(ContextDefInit(d)))

(* The segmenter is named itself, or found by the class of the document.   *)
SegmenterDefInit(c) ==
  LET next(d, field) == IF At(d, "value") THEN GetString(d, field) ELSE d
      class == {"mimetype", "encoding", "scheme"}
      mixed(d, n) == \/ n = "segmenter" /\ d.seen \cap class # {}
                     \/ n \in class /\ "segmenter" \in d.seen
  IN  IF At(c, "value") THEN next(next(GetString(c, "mimetype"), "encoding"), "scheme")
      ELSE Members(c, <<"segmenter", "mimetype", "encoding", "scheme">>,
             LAMBDA d, n : IF mixed(d, n) THEN Fail(d) ELSE GetString(d, n))

SegmenterDef(c) ==
  Argument(c, Fail, LAMBDA d : GetString(d, "segmenter"),
           LAMBDA d : AtEnd(SegmenterDefInit(d)))

---------------------------------------------------------------------------
MetaDataCompareDef(c) ==
  IF At(c, "value") THEN GetVariant(GetString(GetMetaDataCmpOp(c, "op"), "name"), "value")
  ELSE Complete(Members(c, <<"op", "name", "value">>,
                  LAMBDA d, n : CASE n = "op"    -> GetMetaDataCmpOp(d, n)
                                  [] n = "name"  -> GetString(d, n)
                                  [] n = "value" -> GetVariant(d, n)),
                {"op", "name", "value"})

(* The command is looked up in a map of its own.                           *)
TableCommands == <<"add", "replace", "remove", "clear">>
GetTableCommandId(c) ==
  LET i == NameIndex(TableCommands, Here(c).text)
  IN  IF At(c, "value") /\ i # 0 THEN Skip(Put(c, "op", TableCommands[i])) ELSE Fail(c)

MetaDataTableCommand(c) ==
  LET next(d, field) == IF At(d, "value") THEN GetString(d, field) ELSE d
      type(d) == IF At(d, "value") /\ Here(d).type = "void" THEN Skip(d) ELSE next(d, "type")
  IN  IF At(c, "value") THEN next(type(next(GetTableCommandId(c), "name")), "oldname")
      ELSE Complete(Members(c, <<"op", "name", "type", "oldname">>,
                      LAMBDA d, n : IF n = "op" THEN GetTableCommandId(d)
                                    ELSE GetString(d, n)), {"op"})

MetaDataTableEntryDef(c) ==
  LET d == Put(c, "op", "add")
  IN  IF At(c, "value") THEN GetString(GetString(d, "name"), "type")
      ELSE Complete(Members(d, <<"name", "type">>, GetString), {"name", "type"})

(* One element without brackets, or elements in brackets, up to the end.   *)
SingleOrStructures(c, Read(_)) ==
  AtEnd(IF At(c, "value") \/ At(c, "name") THEN In(c, "1", Read)
        ELSE Structures(c, Read))

MetaDataTableCommandList(c) ==
  Argument(c, Skip, Fail, LAMBDA d : SingleOrStructures(d, MetaDataTableCommand))
MetaDataNameTypePairs(c) ==
  Argument(c, Skip, Fail, LAMBDA d : SingleOrStructures(d, MetaDataTableEntryDef))

---------------------------------------------------------------------------
CONSTANTS Fractions,  \* the numbers between 0.0 and 1.0
          Positives   \* the numbers greater than 0

(* The tuple has no place for the weight of co-occurrence.                 *)
FeatureExpansion(c) ==
  LET next(d, field) == IF At(d, "value") THEN GetNumber(d, field) ELSE d
      tuple == next(next(GetNumber(GetString(c, "type"), "sim"), "results"), "cut")
      named == Complete(Members(c, <<"type", "sim", "coweight", "results", "cut">>,
                          LAMBDA d, n : IF n = "type" THEN GetString(d, n)
                                        ELSE GetNumber(d, n)), {"type", "sim"})
      read  == IF At(c, "value") THEN tuple ELSE named
      within(d, field, range) ==
        LET p == Append(c.path, field) IN p \in DOMAIN d.got => d.got[p] \in range
  IN  With(read, LAMBDA d : Check(d, /\ within(d, "sim", Fractions)
                                     /\ within(d, "results", Positives)
                                     /\ within(d, "cut", Fractions)))

QueryFeatureExpansionMap(c) ==
  Argument(c, Skip, Fail, LAMBDA d : SingleOrStructures(d, FeatureExpansion))

(* Neither member of a weighted string is required.                        *)
WeightedStringInit(c) ==
  IF At(c, "value") THEN GetNumber(GetString(c, "value"), "weight")
  ELSE Members(Check(c, At(c, "name")), <<"value", "weight">>,
         LAMBDA d, n : IF n = "value" THEN GetString(d, n) ELSE GetNumber(d, n))

WeightedString(c) ==
  Argument(c, Skip, Fail, LAMBDA d : AtEnd(WeightedStringInit(d)))

=============================================================================
