------------------------ MODULE MCIntrospectionCalls ------------------------
EXTENDS IntrospectionCalls

MCCharacters == "!*/12_abcdefghijklmnopqrstuvwxyz"
MCBytes == {CharAt(MCCharacters, i) : i \in 1..Len(MCCharacters)}
MCNumbers == {}
MCBase64 == << >>

Term_(type, value, pos) == [type |-> type, value |-> value, pos |-> pos]

(* Two documents in a directory, one beside it with the name of one of     *)
(* them, and another version of it.                                        *)
MCContents ==
  {[id |-> "a", attribute |-> ("title" :> "ta"), metadata |-> ("date" :> "1"),
    search |-> {Term_("word", "x", 1), Term_("word", "y", 2), Term_("word", "x", 3)},
    forward |-> {Term_("orig", "xx", 1), Term_("orig", "yy", 2), Term_("orig", "zz", 7)}],
   [id |-> "a", attribute |-> << >>, metadata |-> << >>,
    search |-> {Term_("word", "y", 2)}, forward |-> {}],
   [id |-> "b/a", attribute |-> << >>, metadata |-> ("date" :> "2"),
    search |-> {Term_("word", "x", 2), Term_("kind", "k", 1)},
    forward |-> {Term_("orig", "xx", 5)}],
   [id |-> "b/c", attribute |-> << >>, metadata |-> << >>,
    search |-> {Term_("kind", "k", 1), Term_("word", "z", 2)}, forward |-> {}]}

(* The theorems that need ids and terms like these are about them.         *)
ASSUME MCHypotheses == PlainIds /\ StarlessIds /\ NamedTerms

MCConfig == <<[name |-> "path", value |-> "p"],
              [name |-> "metadata", value |-> "m",
               items |-> <<[name |-> "date", value |-> "1"], [name |-> "date", value |-> "2"]>>]>>
MCMetaDataTable == ("date" :> "uint")
MCPartConfig == <<[name |-> "path", value |-> "p"]>>
MCFunctions_ ==
  [f \in {"segmenter", "tokenizer", "normalizer", "aggregator", "patternlexer", "patternmatcher",
          "joinop", "weightfunc", "summarizer", "scalarfunc"} |->
     IF f = "tokenizer" THEN {"word", "split"} ELSE IF f = "joinop" THEN {"union"} ELSE {}]
MCFeatures == ("fa" :> {"word", "kind"}) @@ ("fb" :> {"word"})
=============================================================================
