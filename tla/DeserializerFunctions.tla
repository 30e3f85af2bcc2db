------------------------ MODULE DeserializerFunctions ------------------------
(***************************************************************************)
(* The readers of deserializer.cpp for the functions an analyzer and a     *)
(* query evaluation are made of: tokenizers, normalizers and aggregators   *)
(* with their arguments, weighting functions and summarizers with their    *)
(* parameters.  made keeps the functions that were created.                *)
(***************************************************************************)
EXTENDS DeserializerDocuments

CONSTANTS Functions    \* the names of the functions the processors create

NoFunction == [name |-> "", args |-> << >>]

MakeFunction(c, name, args) ==
  IF Ok(c) /\ name \in Functions
  THEN [c EXCEPT !.made = Append(@, [name |-> name, args |-> args])] ELSE Fail(c)

(* The texts read under a label, in their order.                           *)
TextsAt(got, path) ==
  LET labels == {p \in DOMAIN got : /\ Len(p) = Len(path) + 1
                                    /\ SubSeq(p, 1, Len(path)) = path}
  IN  [i \in 1..Cardinality(labels) |-> got[Append(path, ToString(i))]]

---------------------------------------------------------------------------
(* One function.  Empty brackets are no function, without an error.        *)
FunctionAt(c) ==
  IF At(c, "close") THEN [c EXCEPT !.made = Append(@, NoFunction)]
  ELSE With(Fields(c, AnalyzerFunctionDef), LAMBDA d :
         Back(MakeFunction(d, Field(d, "name", ""), TextsAt(d.got, <<"arg">>)), c))

(* An argument that is no structure is the name of a function.             *)
FunctionArgument(c, Read(_)) ==
  Argument(c, Fail, LAMBDA d : Skip(MakeFunction(d, Here(d).text, << >>)),
           LAMBDA d : AtEnd(Read(d)))
GetFunction(c) == FunctionArgument(c, FunctionAt)

(* In a list of normalizers a value is a function without arguments, only  *)
(* what is in brackets or named can have some.                             *)
NormalizersInOne(c) == FunctionAt(c)         \* the list as one function
NormalizersAt(c) ==
  Loop(c, LAMBDA d : ~At(d, "close"),
    LAMBDA d, k :
      IF At(d, "value")
      THEN Skip(MakeFunction(Check(d, Here(d).type = "atom"), Here(d).text, << >>))
      ELSE InBracketsOrNot(d, FunctionAt))
GetNormalizers(c) == FunctionArgument(c, NormalizersAt)

(* The functions of a feature: the tokenizer, that may be missing, first.  *)
FeatureFuncDef(c) ==
  GetNormalizers(IF Here(c).type = "void"
                 THEN Skip([c EXCEPT !.made = Append(@, NoFunction)])
                 ELSE GetFunction(c))

---------------------------------------------------------------------------
(* Parameters of a function, and the feature sets it is fed with, for each *)
(* role one or more.                                                       *)

QueryEvalFunctionParameters(c) ==
  Argument(c, Fail, Fail, LAMBDA d : AtEnd(PairsOf(d, GetString)))

FeatureParameters(c) ==
  LET sets(d, field) == GetStringListAsValue(d, field)
  IN  Argument(c, Skip, Fail,
        LAMBDA d : AtEnd(Pairs(d, "role", "set", sets,
                               LAMBDA e, first, t : sets(Put(e, first, t), "set"))))

Ordered(got, field) ==
  LET labels == {p[1] : p \in {q \in DOMAIN got : Len(q) = 2 /\ q[2] = field}}
  IN  [i \in 1..Cardinality(labels) |-> ToString(i)]
ParametersOf(got) ==
  LET labels == Ordered(got, "name")
  IN  [i \in DOMAIN labels |-> <<got[<<labels[i], "name">>], FieldAt(got, <<labels[i], "value">>, "")>>]
FeaturesOfRoles(got) ==
  LET labels == Ordered(got, "role")
      of(l)  == LET sets == TextsAt(got, <<l, "set">>)
                IN  [i \in DOMAIN sets |-> <<got[<<l, "role">>], sets[i]>>]
      All[k \in 0..Len(labels)] == IF k = 0 THEN << >> ELSE All[k - 1] \o of(labels[k])
  IN  All[Len(labels)]

(* The function is created before its parameters are read.                 *)
BuildFunction(c, name) ==
  LET built(parameters, features) ==
        [cursor |-> Back(features, c),
         definition |-> [function |-> name, parameters |-> ParametersOf(parameters.got),
                         features |-> FeaturesOfRoles(features.got)]]
  IN  With(Fields(MakeFunction(c, name, << >>), QueryEvalFunctionParameters), LAMBDA d :
           built(d, Fields(d, FeatureParameters)))

(* Of the parameters of a formula one is the name of a parser, the others  *)
(* are numbers.                                                            *)
BuildWeightingFormula(c, source) ==
  LET built(d, numbers, parsers) ==
        [cursor |-> Back(Check(d, \A i \in DOMAIN numbers : numbers[i][2] \in Numbers), c),
         definition |-> [formula |-> source, variables |-> numbers,
                         parser |-> IF parsers = << >> THEN "" ELSE parsers[Len(parsers)][2]]]
  IN  With(Fields(c, KeyValueList), LAMBDA d :
        built(d, SelectSeq(ParametersOf(d.got), LAMBDA p : p[1] # "parser"),
              SelectSeq(ParametersOf(d.got), LAMBDA p : p[1] = "parser")))

=============================================================================
