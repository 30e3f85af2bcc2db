SPECIFICATION Spec
CONSTANTS
  Bytes <- MCBytes
  Characters <- MCCharacters
  Numbers <- MCNumbers
  Base64 <- MCBase64
  MaxListSizeDeepExpansion = 3
  Config <- MCConfig
  Users = {"u", "v"}
  MetaDataTable <- MCMetaDataTable
  ForwardTypes = {"orig"}
  TimeStamps = {"t1", "t2"}
  PartialDumpSize = 4
  Parts = {"env", "trace", "queryproc", "textproc"}
  PartConfig <- MCPartConfig
  Modules = {"m"}
  Functions_ <- MCFunctions_
  Features <- MCFeatures
  Contents <- MCContents
  OtherNames = {"", "1", "_1", "b*", "fa*", "list", "a", "x"}
  MaxDocno = 2
  MaxPath = 7
INVARIANTS
  DirectoriesListedOnce
