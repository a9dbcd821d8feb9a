SPECIFICATION DocSpec
CONSTANTS
  Nil = Nil
  Types <- MCTypes
  KeyOrder <- MCKeyOrder
  GoValues <- MCValues
  Configs <- MCConfigs
  MaxDepth = 12
  Nodes <- MCNodes
  Roots <- Graphs
  RootNames <- MCRootNames
  Digits <- Digit
  Illegal <- MCIllegal
  MaxSuffix = 3
  Texts = {"", "x"}
  MaxOptions = 2
INVARIANTS NamesAreUnique RefsResolve ComponentsAreUsed WrittenOnce NothingLeftOut SchemaIsOfTheType EveryConfigurationIsValid
