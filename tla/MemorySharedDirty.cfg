SPECIFICATION Spec
CONSTANTS
  c1 = c1  c2 = c2  c3 = c3  key = key  userRef = userRef
  NoKey = NoKey  NoCall = NoCall  NoCell = NoCell
  Calls <- MCCalls
  Keys = {key}
  Refs = {userRef}
  KeyOf <- MCKeyOf
  Unnamed = {}
  NoDomain = {}
  Seeded = {key}
  BadCalls = {c3}
  StoreKind = "memory"
  SharesCell = TRUE
INVARIANTS ErrorLeavesNoTrace
