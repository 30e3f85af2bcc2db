----------------------- MODULE DeserializerExpressions -----------------------
(***************************************************************************)
(* The readers of deserializer.cpp for expressions, patterns and query     *)
(* features, and the builders they drive (expressionBuilder.cpp and        *)
(* queryExpression.cpp).  A builder is a stack machine: a term is pushed,  *)
(* an operator takes its arguments from the stack and leaves one           *)
(* expression, a feature or a pattern takes the expression on top.         *)
(* Only TLC evaluates this module: the readers are recursive.              *)
(***************************************************************************)
EXTENDS DeserializerResults

CONSTANTS Operators,  \* the names of the join operators
          Lexems      \* the term types that are defined as lexems

---------------------------------------------------------------------------
(* The builders: "query" pushes to a query, "analyzer" to the expression of *)
(* a query analyzer, "postings" to a stack of posting iterators, "pattern"  *)
(* to a pattern matcher, "expression" to the nodes of a query expression.   *)

Term(def) == [kind |-> "term", type |-> def.type, value |-> def.value,
              len |-> def.len, variable |-> ""]
Join(op, range, card, args) ==
  [kind |-> "join", op |-> op, range |-> range, cardinality |-> card,
   args |-> args, variable |-> ""]

Depth(c) == Len(c.stack)
Push(c, e) == IF Ok(c) THEN [c EXCEPT !.stack = Append(@, e)] ELSE c

(* Which of the three forms of a term a builder takes.                     *)
TakesTerm(builder, def) ==
  CASE def.lendefined   -> builder \in {"query", "postings", "expression"}
    [] def.valuedefined -> builder = "pattern" => def.type \in Lexems
    [] OTHER            -> builder \in {"analyzer", "pattern", "expression"}

AttachVariable(c, variable) ==
  IF variable = "" THEN c
  ELSE IF ~Ok(c) \/ c.builder = "postings" \/ Depth(c) = 0 THEN Fail(c)
  ELSE [c EXCEPT !.stack[Depth(c)].variable = variable]

BuilderPushTerm(c, def) ==
  AttachVariable(Push(Check(c, TakesTerm(c.builder, def)), Term(def)), def.variable)

PushExpression(c, op, argc, range, card) ==
  LET below == Depth(c) - argc
      args  == SubSeq(c.stack, below + 1, Depth(c))
  IN  IF ~Ok(c) \/ below < 0 THEN Fail(c)
      ELSE IF c.builder \notin {"analyzer", "expression"} /\ op \notin Operators THEN Fail(c)
      ELSE [c EXCEPT !.stack = Append(SubSeq(@, 1, below), Join(op, range, card, args))]

(* A definition takes the expression on top of the stack.                  *)
DefineKeeping(c, builders, what) ==          \* and leaves it there
  IF ~Ok(c) \/ c.builder \notin builders \/ Depth(c) = 0 THEN Fail(c)
  ELSE [c EXCEPT !.made = Append(@, what @@ [expression |-> c.stack[Depth(c)]])]

Define(c, builders, what) ==
  IF ~Ok(c) \/ c.builder \notin builders \/ Depth(c) = 0 THEN Fail(c)
  ELSE [c EXCEPT !.made = Append(@, what @@ [expression |-> c.stack[Depth(c)]]),
                 !.stack = SubSeq(@, 1, Depth(c) - 1)]

DefinePattern(c, name, format, visible) ==
  Define(c, {"pattern"}, [name |-> name, format |-> format, visible |-> visible])
DefineFeature(c, set, weight) ==
  Define(c, {"query", "expression"}, [set |-> set, weight |-> weight])

(* while (nofExpressions--) defineFeature                                  *)
DefineFeatures(c, set, weight) ==
  LET Left[n \in Nat] == IF n = 0 THEN c ELSE DefineFeature(Left[n - 1], set, weight)
  IN  Left[c.count]

---------------------------------------------------------------------------
(* The members of the structure being read, kept apart from the others.    *)
Fields(c, Read(_)) == Read([c EXCEPT !.got = << >>, !.path = << >>, !.seen = {}])
FieldAt(got, path, default) == IF path \in DOMAIN got THEN got[path] ELSE default
Field(d, f, default) == FieldAt(d.got, <<f>>, default)
Given(d, f) == <<f>> \in DOMAIN d.got
Back(d, c) == [d EXCEPT !.got = c.got, !.path = c.path, !.seen = c.seen]

(* skipStructure: a value, or everything up to the matching close.         *)
ClosedAt(c) ==
  LET depth(p) == Cardinality({q \in c.at..p : c.ser[q].tag = "open"})
                    - Cardinality({q \in c.at..p : c.ser[q].tag = "close"})
  IN  {p \in c.at..Len(c.ser) : depth(p) = 0}
CanSkip(c) == At(c, "value") \/ (At(c, "open") /\ ClosedAt(c) # {})
SkipStructure(c) ==
  IF At(c, "value") THEN Skip(c)
  ELSE IF ~At(c, "open") THEN c
  ELSE IF ClosedAt(c) = {} THEN [c EXCEPT !.at = Len(c.ser) + 1]
  ELSE [c EXCEPT !.at = 1 + CHOOSE p \in ClosedAt(c) : \A q \in ClosedAt(c) : p <= q]

(* getExpressionType looks ahead: by the first name that is not a variable, *)
(* or by the values before the first thing that is not a value.             *)
TypeOfKeyword(name) ==
  CASE name \in {"type", "value", "len"} -> "term"
    [] name \in {"op", "range", "cardinality", "arg"} -> "join"
    [] OTHER -> "unknown"

NamedType(c) ==
  LET names == <<"type", "value", "len", "variable", "op", "range", "cardinality", "arg">>
      keyword(d) == LET i == NameIndex(names, Here(d).text)
                    IN  IF At(d, "name") /\ i # 0 THEN names[i] ELSE "none"
      last == Loop(c, LAMBDA d : keyword(d) = "variable",
                   LAMBDA d, k : IF CanSkip(Skip(d)) THEN SkipStructure(Skip(d))
                                 ELSE Fail(d))
  IN  IF Ok(last) THEN TypeOfKeyword(keyword(last)) ELSE "unknown"

GetExpressionType(c) ==
  LET listed(name) == At(c, "open") /\ ~(At(name, "name") /\ Here(name).text = "variable")
      behind(d) == IF At(c, "open") THEN ConsumeClose(SkipStructure(d)) ELSE c
      three(d)  == \A k \in 0..2 : At([d EXCEPT !.at = @ + k], "value")
      values(d) == IF three(d) THEN [d EXCEPT !.at = @ + 3]
                   ELSE Loop(d, LAMBDA e : At(e, "value"), LAMBDA e, k : Skip(e))
      type(start, end) == IF ~At(end, "close") THEN "join"
                          ELSE IF end.at = start.at THEN "empty" ELSE "term"
  IN  IF At(c, "name") THEN NamedType(c)
      ELSE IF listed(Skip(c)) THEN "list"
      ELSE IF At(c, "open") /\ ~CanSkip(Skip(Skip(c))) THEN "unknown"
      ELSE With(behind(Skip(Skip(c))),
                LAMBDA d : IF ~Ok(d) THEN "unknown" ELSE type(d, values(d)))

---------------------------------------------------------------------------
BuildTerm(c) ==
  With(Fields(c, QueryTermDef), LAMBDA d :
    Back(BuilderPushTerm(d, [type |-> Field(d, "type", ""), value |-> Field(d, "value", ""),
                             len |-> Field(d, "len", "1"),
                             lendefined |-> Given(d, "len"),
                             valuedefined |-> Given(d, "value"),
                             variable |-> Field(d, "variable", "")]), c))

RECURSIVE BuildExpression(_, _)

(* One argument in brackets; count is the number of the arguments read.    *)
Argued(c, Read(_)) == [Read(c) EXCEPT !.count = c.count + 1]
One(c) == BuildExpression(c, FALSE)
Expressions(c) ==
  Loop(c, LAMBDA d : At(d, "open"), LAMBDA d, k : Structure(d, LAMBDA e : Argued(e, One)))

(* The head of a join given by position: the variable in a structure, the  *)
(* operator, and the range and the cardinality if they are numbers.        *)
JoinVariable(c) ==
  IF At(c, "open")
  THEN Structure(c, LAMBDA d : Loop(d, LAMBDA e : At(e, "name"),
                                    LAMBDA e, k : OptionalDefinition(e, "variable")))
  ELSE c
JoinHead(c) ==
  LET numeric(d) == At(d, "value") /\ Here(d).text \in Numbers
      ranged(d)  == IF numeric(d) THEN GetNumber(d, "range") ELSE d
      carded(d)  == IF numeric(d) /\ Given(d, "range") THEN GetNumber(d, "cardinality") ELSE d
  IN  carded(ranged(GetString(JoinVariable(c), "op")))

ArgumentList(c) == With(Expressions(c), LAMBDA d : Check(d, At(d, "close")))
JoinArgument(c) ==
  Structure(c, LAMBDA d : IF At(d, "open") THEN Expressions(d) ELSE Argued(d, One))
JoinMembers(c) ==
  Members(c, <<"variable", "op", "range", "cardinality", "arg">>,
    LAMBDA d, n : CASE n \in {"variable", "op"} -> GetString(d, n)
                    [] n \in {"range", "cardinality"} -> GetNumber(d, n)
                    [] n = "arg" -> JoinArgument(d))

BuildExpressionJoin(c) ==
  LET head == Fields([c EXCEPT !.count = 0],
                     LAMBDA d : IF At(d, "name") THEN JoinMembers(d) ELSE ArgumentList(JoinHead(d)))
  IN  With(head, LAMBDA d :
        Back(AttachVariable(PushExpression(d, Field(d, "op", ""), d.count,
                                           Field(d, "range", "0"), Field(d, "cardinality", "0")),
                            Field(d, "variable", "")), c))

BuildExpressionTyped(c, type, allowLists) ==
  CASE type = "term" -> BuildTerm(c)
    [] type = "join" -> BuildExpressionJoin(c)
    [] type = "list" -> IF allowLists THEN Expressions(c) ELSE Fail(c)
    [] OTHER         -> Fail(c)

(* The expression may be named by its type, otherwise the type is guessed. *)
BuildExpression(c, allowLists) ==
  LET typed(d, type) == BuildExpressionTyped(d, type, allowLists)
      named(i, type, Typed(_, _)) ==
        IF i = 0 THEN Typed(c, type) ELSE Structure(Skip(c), LAMBDA d : Typed(d, type))
      keyword == IF At(c, "name")
                 THEN NameIndex(<<"expression", "term", "list">>, Here(c).text) ELSE 0
  IN  IF ~Ok(c) THEN c
      ELSE With(keyword, LAMBDA i :
             named(i, IF i = 0 THEN GetExpressionType(c) ELSE <<"join", "term", "list">>[i], typed))

BuildExpressionValue(c, allowLists) ==
  Argument(c, Fail, Fail, LAMBDA d : AtEnd(BuildExpression(d, allowLists)))

---------------------------------------------------------------------------
(* Patterns.  The options of a pattern given by position stay at a name     *)
(* that is none of the two.                                                 *)

PatternOptions(c) ==
  Structure(c, LAMBDA d : Loop(d, LAMBDA e : At(e, "name"),
    LAMBDA e, k :
      LET shown == OptionalDefinition(e, "visibility")
      IN  IF shown.at = e.at THEN OptionalDefinition(e, "format")
          ELSE Check(shown, shown.got[<<"visibility">>] \in {"public", "private"})))

BuildPattern(c) ==
  LET fields  == [c EXCEPT !.got = << >>, !.path = << >>, !.seen = {}]
      named   == LaterMembers(fields, <<"name", "expression", "format", "visible">>,
                   LAMBDA d, n : IF n = "expression" THEN BuildExpression(d, FALSE)
                                 ELSE GetString(d, n))
      start   == IF At(c, "open") THEN PatternOptions(fields) ELSE fields
      visible(d) == /\ Field(d, "visible", "true") # "false"
                    /\ Field(d, "visibility", "public") # "private"
  IN  With(IF At(c, "name") THEN named ELSE BuildExpression(GetString(start, "name"), FALSE),
           LAMBDA d : Back(DefinePattern(d, Field(d, "name", ""), Field(d, "format", ""),
                                         visible(d)), c))

BuildPatterns(c) ==
  Argument(c, Skip, Fail,
           LAMBDA d : AtEnd(IF At(d, "open") THEN Structures(d, BuildPattern)
                            ELSE BuildPattern(d)))

---------------------------------------------------------------------------
(* Query features: the expressions are pushed and counted, and then as     *)
(* many features are defined, the last expression first.  What follows the *)
(* expressions is not looked at.                                           *)

BuildExpressionListCounted(c) ==
  LET d == [c EXCEPT !.count = 0]
  IN  IF At(c, "open") THEN Expressions(d) ELSE Argued(d, One)

BuildQueryFeaturesOf(c, set, weight) ==
  Argument(c, Fail, Fail,
           LAMBDA d : DefineFeatures(BuildExpressionListCounted(d), set, weight))

=============================================================================
