SPECIFICATION Spec
CONSTANTS
  own = own
  other = other
  peer = peer
  Cards <- AllCards
  Channels <- MCChannels
  fcc = fcc
  mkk = mkk
  bogus = bogus
  Domains <- MCDomains
  FCC = fcc
  DomainMask <- MCDomainMask
  Addrs <- MCAddrs
  OwnAddr = own
  Peers <- MCPeers
  Requests <- MCRequests
  Keys <- AllKeys
  Thresholds <- OneThreshold
  Faults <- CommandFaults
  ApBssidTold = TRUE
INVARIANTS
  SetAsTold
  LevelIsClosest
  KeysAsTold
PROPERTY
  RxOffForConfig
