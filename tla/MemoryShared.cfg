SPECIFICATION ResolveSpec
CONSTANTS
  c1 = c1  c2 = c2
  refTenant = refTenant  refUser = refUser  refNoKey = refNoKey
  refUnnamed = refUnnamed  refNoDomain = refNoDomain
  NoKey = NoKey  NoCall = NoCall  NoCell = NoCell  NoView = NoView
  Calls <- MCCalls
  Keys <- MCKeys
  Refs <- MCRefs
  Unnamed = {refUnnamed}
  NoDomain = {refNoDomain}
  Seeded <- MCSeeded
  BadCalls = {c2}
  MinInt <- MCMinInt
  MaxInt = 3
  StoreKind = "memory"
  SharesCell = TRUE
  KeyOf <- MemoryKeyOf
  OwnerOf <- MCOwnerOf
  Requests <- PairRequests
INVARIANTS AuditIdNamesWrite ProvenanceNamesData
