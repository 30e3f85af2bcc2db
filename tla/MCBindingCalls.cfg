SPECIFICATION ProgramSpec
CONSTANTS
  Numbers <- MCNumbers
  Base64 <- MCBase64
  Fractions <- MCFractions
  Positives <- MCPositives
  Tenths <- MCTenths
  FarPositions <- MCFarPositions
  Operators = {"within", "union"}
  Lexems = {"word"}
  Documents = {"d1"}
  FeatureValues <- MCFeatureValues
  RestrictionValues <- MCRestrictionValues
  SummaryValues <- MCSummaryValues
  ResultValues <- MCResultValues
  DocumentValues <- MCDocumentValues
  UpdateValues <- MCUpdateValues
  TableValues <- MCTableValues
  Functions <- MCFunctions
  Separator = "#"
  FunctionValues <- MCFunctionValues
  AggregatorValues <- MCAggregatorValues
  OptionValues <- MCOptionValues
  ClassValues <- MCClassValues
  Segmenters <- MCSegmenters
  ExpansionValues <- MCExpansionValues
  CollectedValues <- MCCollectedValues
  EvalValues <- MCEvalValues
  FormulaValues <- MCFormulaValues
  ListValues <- MCListValues
  CountValues <- MCCountValues
  Fields_ = {"title"}
  Names = {"bm25", "bm26"}
  Sets = {"docfeat"}
  Weights = {"2.5"}
  Docids = {"d1", "d3"}
  Objects = {"query", "builder", "merger", "transaction",
             "analyzer", "queryanalyzer", "library", "evaluation", "map"}
  MaxCalls = 2
INVARIANTS
  FeaturesAreWhatWasAsked
  FeaturesPassOn
  MergedIsWhatWasSent
  DefinitionsAreWhatWasAsked
PROPERTIES
  StackLeftAlone
  RestrictionsAppend
  TransactionDoesWhatWasAsked
CHECK_DEADLOCK FALSE
