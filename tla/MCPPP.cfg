SPECIFICATION Spec
CONSTANTS
  MAX_RESTARTS = 2
  UINT8 = 4
  LINK_PERIOD = 1
  PeerProtocols = {"LCP", "PAP", "IPCP", "IP", "CHAP"}
INVARIANTS TypeOK LayersNested  TimerMatchesState  RefusedNeverAcked
