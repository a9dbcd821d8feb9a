--------------------------- MODULE MCStateResolve ---------------------------
(* Small instances of StateResolve: two calls, the keys of a tenant and of *)
(* a user, the refs no record can be found under, and the scope lists that *)
(* mix present, absent, equally named, equally strong and unusable scopes. *)
EXTENDS StateResolve, StateStoreAtomic

CONSTANTS c1, c2, refTenant, refUser, refNoKey, refUnnamed, refNoDomain

MCCalls == {c1, c2}
MCRefs  == {refTenant, refUser, refNoKey, refUnnamed, refNoDomain}

(* A tenant and a user of one id; a scope without a name or of an unknown  *)
(* one; the tenant again, without a domain.                                *)
Owner(name, domain) == [name |-> name, id |-> <<"a">>, domain |-> domain]
MCOwnerOf ==
  [r \in MCRefs |->
     CASE r = refTenant   -> Owner("tenant", <<"d">>)
       [] r = refUser     -> Owner("user", <<"d">>)
       [] r = refNoKey    -> Owner("region", <<"d">>)
       [] r = refUnnamed  -> Owner("", <<"d">>)
       [] r = refNoDomain -> Owner("tenant", NoText)]
Found == {r \in MCRefs : Identifier(MCOwnerOf[r]) # NoIdentifier}

MCKeys    == {Identifier(MCOwnerOf[r]) : r \in Found}
tenantKey == Identifier(MCOwnerOf[refTenant])
MCSeeded  == {tenantKey}

(* MemoryStore finds no identifier for a scope without a name ...          *)
MemoryKeyOf ==
  [r \in MCRefs |-> IF r \in Found THEN Identifier(MCOwnerOf[r]) ELSE NoKey]

(* ... an external store may keep one under a key like any other.          *)
ExternalKeyOf == [MemoryKeyOf EXCEPT ![refUnnamed] = tenantKey]

(* A three-bit int.                                                        *)
MCMinInt == -4

Scope(name, prio, r) == [name |-> name, prio |-> prio, ref |-> r]

Tenant       == Scope("tenant", 0, refTenant)
User         == Scope("user", 2, refUser)
WeakUser     == Scope("user", -2, refUser)
LevelUser    == Scope("user", 0, refUser)
TenantAsUser == Scope("user", 1, refTenant)
NamelessUser == Scope("", 1, refUser)
Unsupported  == Scope("region", 1, refNoKey)
Reserved     == Scope("defaults", 1, refUser)
AboveBottom  == Scope("user", MinInt + 1, refUser)
Bottom       == Scope("user", MinInt, refUser)
Top          == Scope("tenant", MaxInt, refTenant)

(* Requests every priority of which leaves room below it.                  *)
UsualRequests ==
  {<< >>, <<Tenant>>, <<Tenant, User>>, <<User, Tenant>>, <<WeakUser, Tenant>>,
   <<Tenant, WeakUser>>, <<User, TenantAsUser>>}

OddRequests ==
  {<<LevelUser, Tenant>>, <<Tenant, NamelessUser>>, <<NamelessUser, Tenant>>,
   <<User, Unsupported>>, <<Reserved, Tenant>>, <<AboveBottom, Tenant>>, <<Bottom, Top>>}

PairRequests == {<<Tenant, User>>, <<User, Tenant>>}
AllRequests  == UsualRequests \cup OddRequests
=============================================================================
