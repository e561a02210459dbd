CONSTANTS
  Address = {"sc", "system"}
  SystemSc = "system"
  Tokens <- MCTokens
  Identifiers <- MCIdentifiers
  Grants <- MCGrants
  Quantities = {0, 1, 2}
  Nonces = {0, 1}
  Uris = {"u"}
  Lists <- MCLists
  InitialData <- MCInitialData
  MaxSupply = 2
  MaxNonce = 2
  MaxUris = 1
SPECIFICATION Spec
INVARIANTS
  TypeOK
  NoncesAreCounted
PROPERTY
  SupplyIsAuthorised
CHECK_DEADLOCK FALSE
