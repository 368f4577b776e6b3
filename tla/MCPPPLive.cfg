SPECIFICATION FairSpec
CONSTANTS
  MAX_RESTARTS = 1
  UINT8 = 3
  LINK_PERIOD = 0
  PeerProtocols = {"LCP", "PAP", "IPCP"}
PROPERTIES SilentPeerGivenUp StoppingLinkReboots
