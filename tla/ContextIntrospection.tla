------------------------ MODULE ContextIntrospection ------------------------
(***************************************************************************)
(* The pages of a context (contextIntrospection.cpp), which has the parts  *)
(* that were configured and the functions of the modules loaded, and of a  *)
(* vector storage (vectorStorageIntrospection.cpp).                        *)
(***************************************************************************)
EXTENDS Introspection

CONSTANTS Parts,          \* the parts of the context that were created
          PartConfig,     \* the configuration of the proxies among them
          Modules,        \* the modules loaded
          Functions_,     \* the functions of each kind the modules provide
          Features        \* the types of the features of the vector storage

---------------------------------------------------------------------------
(* The context.  A part is listed whether or not the context has it.       *)

TextFunctions  == <<"segmenter", "tokenizer", "normalizer", "aggregator", "patternlexer",
                    "patternmatcher">>
QueryFunctions == <<"joinop", "weightfunc", "summarizer", "scalarfunc">>
ContextMembers     == Links(TRUE, <<"env", "trace", "rpc", "queryproc", "textproc", "threads">>)
EnvironmentMembers == Links(TRUE, <<"moduledir", "module", "resourcedir", "workdir">>)

OpenContext(name) ==
  CASE name = "threads" -> AtomicPage("0")
    [] name \in {"trace", "rpc"} /\ name \in Parts -> ConfigPage(PartConfig)
    [] name \in {"env", "queryproc", "textproc"} /\ name \in Parts -> PageOf(name)
    [] OTHER -> Null
OpenEnvironment(name) ==
  CASE name = "module" -> StructurePage(Each(InOrder(Modules), Value))
    [] name \in {"moduledir", "resourcedir"} -> StructurePage(Value("dir"))
    [] name = "workdir" -> AtomicPage("dir")
    [] OTHER -> Null

(* The functions of a kind: a page for whatever name is asked for, the     *)
(* view of the function when it is serialized.                             *)
FunctionListPage(of) == [Blank EXCEPT !.kind = "functions", !.of = of]
OpenProcessor(of, name) ==
  IF \E i \in DOMAIN of : of[i] = name THEN FunctionListPage(name) ELSE Null
OpenFunction(p, name) == [Blank EXCEPT !.kind = "function", !.of = p.of, !.value = name]
ListFunctions(p) == Links(FALSE, InOrder(Functions_[p.of]))
SerializeFunction(p) == Member("name", Value(p.value))

---------------------------------------------------------------------------
(* The vector storage: a feature is opened by its value, or the features   *)
(* with a prefix are; the types of a feature are those it has a vector for. *)

IsValidFeatureValuePrefix(prefix) == SkippedPrefix(DOMAIN Features, prefix) # {}
FeatureValuePage(prefix) == [Blank EXCEPT !.kind = "features", !.id = prefix]
FeatureTypeListPage(feature) ==
  [Blank EXCEPT !.kind = "feature", !.value = feature, !.items = InOrder(Features[feature])]

OpenFeatureValue(p, name) ==
  LET prefix == WithoutLastChar(name)
  IN  IF p.id # "" THEN Null
      ELSE IF LastChar(name) = "*"
      THEN IF IsValidFeatureValuePrefix(prefix) THEN FeatureValuePage(prefix) ELSE NotFound
      ELSE IF name \in DOMAIN Features THEN FeatureTypeListPage(name) ELSE NotFound
ListFeatureValues(p) ==
  Links(FALSE, FetchValues(SkippedPrefix(DOMAIN Features, p.id), MaxListSizeDeepExpansion))

OpenFeatureType(p, name) ==
  IF \E i \in DOMAIN p.items : p.items[i] = name
  THEN StructurePage(Value(name) \o Value(p.value)) ELSE NotFound

VectorStorageMembers ==
  Append(Links(TRUE, <<"config", "noftypes", "noffeats">>), Link("feature"))
OpenVectorStorage(name) ==
  CASE name = "config"   -> ConfigPage(PartConfig)
    [] name = "noftypes" -> AtomicPage(ToString(Cardinality(UNION {Features[f] : f \in DOMAIN Features})))
    [] name = "noffeats" -> AtomicPage(ToString(Cardinality(DOMAIN Features)))
    [] name = "feature"  -> FeatureValuePage("")
    [] OTHER             -> Null

=============================================================================
