--------------------------- MODULE MCBindingCalls ---------------------------
(* Small values for the objects of the bindings.  An expression is given in *)
(* the notations a program can write it in, together with its tree.        *)
EXTENDS DefinitionCalls

MCNumbers   == {"0", "1", "2", "5", "7", "2000", "0.5", "1.0", "2.5", "3.5", "-1", "99999"}
MCBase64    == [Ymxv |-> "blob"]
MCFractions == {"0", "1", "0.5"}
MCPositives == MCNumbers \ {"0", "-1"}
MCTenths    == ("1.0" :> 10) @@ ("2.5" :> 25) @@ ("3.5" :> 35)
MCFarPositions == {"99999"}

Word == [kind |-> "term", type |-> "word", value |-> "hello", len |-> "1", variable |-> ""]
Stem == [Word EXCEPT !.type = "stem", !.variable = "x"]
Thing == [Word EXCEPT !.value = "thing"]
Long == [Word EXCEPT !.value = "world", !.len = "2"]
Near == Join("within", "5", "2", <<Word, Stem>>)
Both == Join("union", "0", "2", <<Join("within", "5", "0", <<Word, Thing>>), Thing>>)
Deep == [Join("union", "7", "0", <<Long, Near, Word>>) EXCEPT !.variable = "y"]
Odd  == Join("nothing", "5", "2", <<Word, Long>>)

(* By position: type, value, length; operator, range, cardinality, args.   *)
RECURSIVE Positional(_)
Positional(e) ==
  When(e.variable # "", Bracket(Member("variable", Value(e.variable))))
  \o IF e.kind = "term"
     THEN Value(e.type) \o Value(e.value) \o When(e.len # "1", Value(e.len))
     ELSE Value(e.op) \o Value(e.range) \o Value(e.cardinality) \o Array(e.args, Positional)

(* By name, the members in another order than they are declared in.        *)
RECURSIVE ByName(_)
ByName(e) ==
  (IF e.kind = "term"
   THEN When(e.len # "1", Member("len", Value(e.len)))
        \o Member("value", Value(e.value)) \o Member("type", Value(e.type))
   ELSE Member("arg", Bracket(Array(e.args, ByName))) \o Member("cardinality", Value(e.cardinality))
        \o Member("range", Value(e.range)) \o Member("op", Value(e.op)))
  \o When(e.variable # "", Member("variable", Value(e.variable)))

(* As a server writes it: each expression named by what it is.             *)
RECURSIVE ByKind(_)
ByKind(e) ==
  LET members == (IF e.kind = "term"
                  THEN Member("type", Value(e.type)) \o Member("value", Value(e.value))
                       \o When(e.len # "1", Member("len", Value(e.len)))
                  ELSE Member("op", Value(e.op)) \o Member("range", Value(e.range))
                       \o Member("cardinality", Value(e.cardinality))
                       \o Member("arg", Bracket(Array(e.args, ByKind))))
                 \o When(e.variable # "", Member("variable", Value(e.variable)))
  IN  Member(IF e.kind = "term" THEN "term" ELSE "expression", Bracket(members))

Meaning(ser, trees) == [value |-> Packed(ser), trees |-> trees]
Written(e) == {Meaning(Positional(e), <<e>>), Meaning(ByName(e), <<e>>), Meaning(ByKind(e), <<e>>)}

MCFeatureValues ==
  UNION {Written(e) : e \in {Word, Stem, Near, Both, Deep}}
  \cup {Meaning(Array(<<Word, Near>>, Positional), <<Word, Near>>),
        Meaning(Array(<<Both, Thing>>, ByName), <<Both, Thing>>),
        Meaning(Array(<<Near, Stem>>, ByKind), <<Near, Stem>>),
        Meaning(Positional(Odd), <<Odd>>),
        Meaning(Array(<<Near, Odd>>, ByKind), <<Near, Odd>>),
        Meaning(Array(<<Word, Deep>>, Positional) \o Bracket(Value("within")),
                <<Word, Deep, Join("within", "0", "0", << >>)>>),
        Meaning(Member("type", Value("word")), <<[Word EXCEPT !.value = ""]>>),
        [value |-> Void, trees |-> << >>]}

Year == <<"greaterequal", "year", "2000">>
Kind == <<"equal", "kind", "7">>
Rate == <<"less", "rate", "2.5">>
Compared(c) == Value(Symbols[c[1]]) \o Value(c[2]) \o Value(c[3])
NamedComparison(c) ==
  Member("value", Value(c[3])) \o Member("name", Value(c[2])) \o Member("op", Value(Symbols[c[1]]))
Conjunction(ser, groups) == [value |-> Packed(ser), groups |-> groups]

MCRestrictionValues ==
  {Conjunction(Compared(Year), <<<<Year>>>>),
   Conjunction(NamedComparison(Kind), <<<<Kind>>>>),
   Conjunction(Array(<<Year, Rate>>, Compared), <<<<Year>>, <<Rate>>>>),
   Conjunction(Bracket(Array(<<Year, Kind>>, Compared)) \o Bracket(Compared(Rate)),
               <<<<Year, Kind>>, <<Rate>>>>),
   Conjunction(Bracket(NamedComparison(Rate)) \o Bracket(Array(<<Kind, Year, Rate>>, Compared)),
               <<<<Rate>>, <<Kind, Year, Rate>>>>),
   Conjunction(Member("condition", Bracket(Array(<<Year, Kind>>, NamedComparison))),
               <<<<Year>>, <<Kind>>>>),
   Conjunction(Bracket(Compared(Year)) \o Bracket(Value("<") \o Value("rate") \o Value("high")),
               << >>)}

Term1 == [name |-> "n", value |-> "a", weight |-> "1.0", index |-> "-1"]
Term2 == [name |-> "n", value |-> "b", weight |-> "2.5", index |-> "-1"]
Term3 == [name |-> "n", value |-> "a", weight |-> "1.0", index |-> "2"]
MCSummaryValues == {<<Term1>>, <<Term1, Term2>>, <<Term3, Term2, Term1>>}

Whole == [start |-> "0", end |-> "0"]
Part  == [start |-> "2", end |-> "5"]
Rank(docno, field, summary) ==
  [docno |-> docno, weight |-> "2.5", field |-> field, summary |-> summary]
Result(ranks, summary) ==
  [evalpass |-> "1", nofranked |-> "2", nofvisited |-> "5", ranks |-> ranks, summary |-> summary]
MCResultValues ==
  {Result(<<Rank("1", Whole, <<Term1>>)>>, << >>),
   Result(<<Rank("1", Part, <<Term1, Term3>>), Rank("2", Whole, <<Term2>>)>>, <<Term2>>),
   Result(<<Rank("7", Part, << >>)>>, << >>),
   Result(<< >>, << >>)}

Attr(n, v)   == [name |-> n, value |-> v]
Index(v, p)  == [type |-> "word", value |-> v, pos |-> p]
Doc(id, index) ==
  [doctype |-> "doc", attribute |-> <<Attr("title", "t")>> \o When(id # "", <<Attr("docid", id)>>),
   metadata |-> <<Attr("year", "2000")>>, forwardindex |-> <<Index("Hello", "1")>>,
   searchindex |-> index, access |-> << >>,
   searchstruct |-> <<[name |-> "sent", source |-> Part, sink |-> Whole]>>]
MCDocumentValues ==
  {<<Doc("d1", <<Index("hello", "1"), Index("world", "2")>>)>>,
   <<[Doc("d2", << >>) EXCEPT !.access = <<"doe", "roe">>, !.searchstruct = << >>]>>,
   <<Doc("d1", <<Index("a", "1")>>), Doc("", << >>)>>,
   <<Doc("d1", <<Index("a", "1")>>), Doc("d2", <<Index("b", "5")>>)>>}

Fill(list) == [p \in {<<ToString(i)>> : i \in DOMAIN list} |->
                 list[CHOOSE i \in DOMAIN list : <<ToString(i)>> = p]]
Clear(what, list) == SectionCall("clear " \o what, Fill(list))
MCUpdateValues ==
  {[content |-> Packed(Member("attribute", Bracket(Member("title", Value("u"))))),
    deletes |-> Packed(Member("metadata", Bracket(Strings(<<"year", "kind">>)))
                       \o Member("access", Value("*"))),
    calls   |-> <<Clear("metadata", <<"year", "kind">>), Clear("access", <<"*">>),
                  SectionCall("attribute", Listed(<<Attr("title", "u")>>, {"name", "value"}))>>],
   [content |-> Void,
    deletes |-> Packed(Member("searchindex", Value("word")) \o Member("attribute", Value("title"))),
    calls   |-> <<Clear("searchindex", <<"word">>), Clear("attribute", <<"title">>)>>],
   [content |-> Packed(Member("searchindex",
                  Bracket(Bracket(Member("pos", Value("2")) \o Member("value", Value("v"))
                                  \o Member("len", Value("1")) \o Member("type", Value("word")))
                          \o Bracket(WriteDocumentTerm(FALSE, Index("far", "99999")))))),
    deletes |-> Void,
    calls   |-> <<SectionCall("searchindex", Listed(<<Index("v", "2")>>, {"type", "value", "pos"}))>>],
   [content |-> Packed(Value("doc") \o Value("attributes")), deletes |-> Void, calls |-> << >>]}

Table(define, ser, calls_) == [define |-> define, value |-> Packed(ser), calls |-> calls_]
MCTableValues ==
  {Table(TRUE, Array(<<<<"doclen", "UINT16">>, <<"class", "INT8">>>>, Strings),
         <<<<"addElement", "doclen", "UINT16">>, <<"addElement", "class", "INT8">>>>),
   Table(FALSE, Bracket(Strings(<<"add", "year", "UINT16">>))
                \o Bracket(Member("name", Value("kind")) \o Member("op", Value("clear")))
                \o Bracket(Value("remove")),
         <<<<"addElement", "year", "UINT16">>, <<"clearElement", "kind">>, <<"deleteElements">>>>),
   Table(FALSE, Strings(<<"remove", "year">>), <<<<"deleteElement", "year">>>>),
   Table(FALSE, Member("name", Value("year")) \o Member("type", Value("INT8")), << >>)}

---------------------------------------------------------------------------
(* What objects are configured with.                                       *)

Function(name, args) == [name |-> name, args |-> args]
MCFunctions == {"split", "lc", "stem", "bm25"}

(* A function by position, and by name with its arguments first.           *)
Call1(f) == Value(f.name) \o Strings(f.args)
Call2(f) == Member("arg", Bracket(Strings(f.args))) \o Member("name", Value(f.name))
Functions_(values, functions) == [values |-> values, functions |-> functions]
OneOf(value, functions) == [value |-> value, functions |-> functions]

Split == Function("split", << >>)
Lc    == Function("lc", << >>)
StemDe == Function("stem", <<"de", "x">>)
Wrong == Function("steem", <<"de">>)
MCFunctionValues ==
  {Functions_(<<Atom("split"), Atom("lc")>>, <<Split, Lc>>),
   Functions_(<<Void, Packed(Bracket(Call1(Lc)) \o Bracket(Call1(StemDe)))>>, <<NoFunction, Lc, StemDe>>),
   Functions_(<<Packed(Call2(Split)), Packed(Bracket(Call2(StemDe)) \o Value("lc"))>>,
         <<Split, StemDe, Lc>>),
   Functions_(<<Packed(Call1(Function("split", <<"1">>))), Packed(Call2(StemDe))>>,
         <<Function("split", <<"1">>), StemDe>>),
   Functions_(<<Atom("split"), Packed(Value("lc") \o Value("stem"))>>,
         <<Split, Lc, Function("stem", << >>)>>),
   Functions_(<<Atom("split"), Packed(Bracket(Call1(StemDe)) \o Bracket(Call1(Wrong)))>>, << >>),
   Functions_(<<Void, Void>>, << >>)}
MCAggregatorValues ==
  {OneOf(Packed(Call1(StemDe)), <<StemDe>>), OneOf(Atom("lc"), <<Lc>>), OneOf(Packed(Call2(StemDe)), <<StemDe>>),
   OneOf(Atom("steem"), << >>)}

Option(values, priority, position) ==
  [values |-> values, priority |-> priority, position |-> position]
MCOptionValues ==
  {Option(<<Void, Void>>, "0", "content"),
   Option(<<Atom("5"), Packed(Member("position", Value("succ")))>>, "5", "successor"),
   Option(<<Atom("1"), Packed(Value("pred"))>>, "1", "predecessor"),
   Option(<<Atom("high"), Void>>, "0", "content"),
   Option(<<Atom("2"), Packed(Member("position", Value("behind")))>>, "2", "content")}

Class(value, class, segmenter) == [value |-> value, class |-> class, segmenter |-> segmenter]
MCClassValues ==
  {Class(Packed(Strings(<<"text/xml", "UTF-8", "book">>)), <<"text/xml", "UTF-8", "book">>, ""),
   Class(Packed(Member("encoding", Value("UTF-8")) \o Member("mimetype", Value("text/xml"))),
         <<"text/xml", "UTF-8", "">>, ""),
   Class(Packed(Member("schema", Value("book")) \o Member("mimetype", Value("text/xml"))),
         <<"text/xml", "", "book">>, ""),
   Class(Packed(Member("segmenter", Value("textwolf"))), <<"", "", "">>, "textwolf"),
   Class(Atom("textwolf"), <<"textwolf", "", "">>, "textwolf"),
   Class(Void, <<"", "", "">>, "")}
MCSegmenters == (<<"segmenter", "textwolf">> :> "xml") @@ (<<"mimetype", "text/xml">> :> "xml")

Expansion(value, fields) == [value |-> value, fields |-> fields]
MCExpansionValues ==
  {Expansion(Void, << >>),
   Expansion(Packed(Bracket(Strings(<<"word", "0.5", "5">>))
                    \o Bracket(Member("sim", Value("1")) \o Member("type", Value("stem")))),
             (<<"1", "type">> :> "word") @@ (<<"1", "sim">> :> "0.5")
             @@ (<<"1", "results">> :> "5")
             @@ (<<"2", "type">> :> "stem") @@ (<<"2", "sim">> :> "1")),
   Expansion(Packed(Strings(<<"word", "7">>)), << >>)}

Found(type, value, weight) == [type |-> type, value |-> value, weight |-> weight]
MCCollectedValues ==
  {[value |-> Packed(Bracket(Strings(<<"w#hello", "2.5">>))
                     \o Bracket(Member("weight", Value("1.0")) \o Member("value", Value("a:b#c")))),
    terms |-> ("#" :> <<Found("w", "hello", "2.5"), Found("a:b", "c", "1.0")>>)
              @@ (":" :> << >>)],
   [value |-> Packed(Bracket(Member("value", Value("w:hello#")))),
    terms |-> (":" :> <<Found("w", "hello#", "1.0")>>) @@ ("#" :> <<Found("w:hello", "", "1.0")>>)]}

Weighting(values, parameters, features) ==
  [values |-> values, parameters |-> parameters, features |-> features]
MCEvalValues ==
  {Weighting(<<Packed(Member("k1", Value("1.0")) \o Member("b", Value("0.5"))),
               Packed(Member("match", Value("docfeat")))>>,
             <<<<"k1", "1.0">>, <<"b", "0.5">>>>, <<<<"match", "docfeat">>>>),
   Weighting(<<Packed(Bracket(Strings(<<"text", "abstract">>))
                      \o Bracket(Member("value", Value("5")) \o Member("name", Value("k1")))),
               Packed(Member("match", Bracket(Strings(<<"docfeat", "sum">>)))
                      \o Bracket(Value("title") \o Bracket(Strings(<<"head", "foot">>))))>>,
             <<<<"text", "abstract">>, <<"k1", "5">>>>,
             <<<<"match", "docfeat">>, <<"match", "sum">>, <<"title", "head">>, <<"title", "foot">>>>),
   Weighting(<<Packed(Bracket(Strings(<<"k1">>))), Void>>, << >>, << >>)}

MCFormulaValues ==
  {[value |-> Void, numbers |-> << >>, parser |-> ""],
   [value |-> Packed(Member("a", Value("5")) \o Member("parser", Value("std"))
                     \o Bracket(Strings(<<"b", "7">>))),
    numbers |-> <<<<"a", "5">>, <<"b", "7">>>>, parser |-> "std"],
   [value |-> Packed(Member("a", Value("1")) \o Member("b", Value("much"))),
    numbers |-> << >>, parser |-> ""]}

MCListValues ==
  {[value |-> Void, list |-> << >>], [value |-> Atom("5"), list |-> <<"5">>],
   [value |-> Packed(Strings(<<"7", "5">>)), list |-> <<"7", "5">>],
   [value |-> Packed(Value("doe") \o Bracket(Value("5"))), list |-> << >>]}
MCCountValues ==
  {[value |-> Atom("5"), count |-> "5"], [value |-> Void, count |-> "-1"],
   [value |-> Packed(Member("df", Value("7"))), count |-> "7"],
   [value |-> Packed(Value("7")), count |-> "7"],
   [value |-> Packed(Member("nofdocs", Value("7"))), count |-> "7"]}

=============================================================================
