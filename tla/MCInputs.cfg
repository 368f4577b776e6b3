\* Framing: frames of the peer's and one of ours, and a byte lost or changed.  IP: every
\* field of the header that is looked at, and data of even and odd length.  PacketOptions: a
\* buffer that is full with one option more.  ModemEnumeration: every configuration of so
\* many descriptors.  The first, second and fourth end with their bounds, which is no
\* deadlock of the program.
SPECIFICATION Spec
CONSTANTS
  UIP_BUFSIZE = 12
  Alphabet = {126}
  MaxBody = 1
  Protocols = {33}
  MaxFrames = 4
  MaxSends = 1
  MaxNoise = 1
  NoiseBytes = {126, 125, 65}
  BytesBefore = {0}
  PingBytes = {0, 254, 255}
  DataLengths = {4, 5}
  Paddings = {0, 3}
  Damaged = {0, 2, 3, 6, 9, 10, 11, 19, 24, 27}
  FirstIds = {255, 65535}
  OUTGOING_PACKET_BUFFER_SIZE = 28
  LcpTypes = {1, 3, 13}
  IpcpTypes = {2, 3, 129}
  OptionBytes = {1}
  MaxOptions = 3
  None = None
  MaxDescriptors = 5
  MaxAttachments = 1
  ControlMayFail = TRUE
CHECK_DEADLOCK FALSE
INVARIANTS
  TypeOK
  
  LossBounded
  ChecksumExact
  DamageDropped
  ReplyMirrorsPing
  RequestFollowsPeer
  AnswerExact
  
PROPERTIES
  AddressStaysFirst
  SearchAdvances
