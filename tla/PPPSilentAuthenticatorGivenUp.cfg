SPECIFICATION FairSpec
CONSTANTS
  MAX_RESTARTS = 2
  UINT8 = 3
  LINK_PERIOD = 0
  PeerProtocols = {"LCP", "PAP", "IPCP"}
PROPERTY SilentAuthenticatorGivenUp
