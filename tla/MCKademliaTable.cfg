CONSTANTS
  KeyBits = 3
  Local = 0
  MaxPeers = 1
  MaxCandidates = 1
  MaxRouters = 2
  DefaultLookupSize = 3
  MaxTags = 2
  Peers <- MCPeers
  Routers <- MCRouters
  LookupSizes <- MCLookupSizes
  BadNames = {notBase32, wrongLength}
SPECIFICATION Spec
INVARIANTS TypeOK NoDuplicateEntries TagOwnership LookupCorrect
PROPERTY ActiveSetRefined
