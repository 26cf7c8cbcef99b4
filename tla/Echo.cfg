\* Two proxies, two lists one after the other, one fault, two key pairs
CONSTANTS
  GFP_PRIME = 23
  R = 32
  fix_decimal_bitlength = 1
  fix_whole_bitlength = 3
  MAX_SAFE_INTEGER = 9
  INT_32_SIZE = 32
  Error = Error
  NProxies = 2
  NoKey = NoKey
  SavedPair = SavedPair
  MaxPairs = 2
  None = None
  Lists <- AllLists
  Masks <- EchoMasks
  MaxSends = 2
  MaxFaults = 1
SPECIFICATION Spec
INVARIANTS
  TypeOK
  KeysAgree
  EchoExact
  ResultsSaid
CHECK_DEADLOCK FALSE
