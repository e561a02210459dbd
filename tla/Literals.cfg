CONSTANTS
  Elements <- MCElements
  Depth <- MCDepth
  MaxElems = 2
SPECIFICATION Spec
INVARIANTS
  TypeOK
  ListsAreDecodable
  NumbersKeepTheirValue
  AddressesDoNotCollide
  ClaimsPassTheFuzzedNumbers
CHECK_DEADLOCK FALSE
