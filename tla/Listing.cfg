SPECIFICATION FairSpec
CONSTANTS
  MaxByte = 2
  Keys <- MCKeys
  Prefixes <- MCPrefixes
  Delimiters <- MCDelimiters
  StartKeys <- MCStartKeys
  PageSizes = {0, 1}
  MaxKeysLimit = 2
  MaxDisturbances = 2
INVARIANTS
  TypeOK
  ListedOnce
  CompleteListing
PROPERTIES
  ListingEnds
