SPECIFICATION ResolveSpec
CONSTANTS
  c1 = c1  c2 = c2
  refTenant = refTenant  refUser = refUser  refNoKey = refNoKey
  refUnnamed = refUnnamed  refNoDomain = refNoDomain
  NoKey = NoKey  NoCall = NoCall  NoCell = NoCell  NoView = NoView
  Calls <- MCCalls
  Keys <- MCKeys
  Refs <- MCRefs
  Unnamed = {refUnnamed}
  NoDomain = {refNoDomain}
  Seeded <- MCSeeded
  BadCalls = {}
  MinInt <- MCMinInt
  MaxInt = 3
  StoreKind = "cas"
  SharesCell = FALSE
  KeyOf <- ExternalKeyOf
  OwnerOf <- MCOwnerOf
  Requests <- PairRequests
INVARIANTS TypeOK ErrorLeavesNoTrace NoLostUpdate NoSpuriousConflict ReturnedTagNamesResult ReadsSettledWrites
PROPERTIES MutateIsAtomic
