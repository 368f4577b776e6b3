------------------------------- MODULE Framing -------------------------------
(***************************************************************************)
(* HDLC-like framing (src/uIP-Contiki/network.c): network_read takes the   *)
(* modem's bytes apart with a parser whose state is in statics, and        *)
(* network_send resets that state each time it sends a frame of ours.      *)
(*                                                                         *)
(* Bytes are bytes here, checksums checksums.  A step reads one byte: what *)
(* network_read has not finished when the buffer is empty it goes on with  *)
(* later, and our own frames are sent in between.  The peer sends one      *)
(* frame after the other; noise may take or change a byte.                 *)
(*                                                                         *)
(* A definition named Mutant... is the next one with a plausible mistake:  *)
(* the properties below are broken when it takes its place.                *)
(***************************************************************************)
EXTENDS Words, Sequences

CONSTANTS
  UIP_BUFSIZE,    \* bytes of uip_buf
  Alphabet,       \* the bytes in the peer's frames
  MaxBody,        \* bound: how many there are in one
  Protocols,      \* the protocols it uses
  MaxFrames,      \* bound: frames the peer sends
  MaxSends,       \* bound: frames we send meanwhile
  MaxNoise,       \* bound: bytes lost or changed
  NoiseBytes,     \* what a changed byte becomes
  BytesBefore     \* what the byte before uip_buf may hold

ASSUME FramingAssumption ==
  /\ UIP_BUFSIZE \in Nat /\ MaxBody \in Nat /\ MaxBody + 2 <= UIP_BUFSIZE
  /\ Alphabet \subseteq 0..255
  /\ Protocols \subseteq 0..65535
  /\ MaxFrames \in Nat /\ MaxSends \in Nat /\ MaxNoise \in Nat
  /\ NoiseBytes \subseteq 0..255 /\ BytesBefore \subseteq 0..255

Bodies == UNION {[1..n -> Alphabet] : n \in 0..MaxBody}

FLAG   == 126   \* 0x7e
ESCAPE == 125   \* 0x7d

\* The exclusive or of two words, bit by bit
Xor(a, b) ==
  LET bit(m) == ((a \div m + b \div m) % 2) * m
  IN  bit(1) + bit(2) + bit(4) + bit(8) + bit(16) + bit(32) + bit(64) + bit(128) + bit(256)
        + bit(512) + bit(1024) + bit(2048) + bit(4096) + bit(8192) + bit(16384) + bit(32768)

\* avr-libc's _crc_ccitt_update
CALC_CRC16(crc, c) ==
  LET mixed == Xor(c, LSB(crc))
      data  == Xor(mixed, (mixed * 16) % 256)
  IN  Xor(Xor(Word(data, MSB(crc)), data \div 16), data * 8)

\* The checksum of a sequence of bytes
ChecksumOf(bytes) ==
  LET crc[j \in 0..Len(bytes)] == IF j = 0 THEN 65535 ELSE CALC_CRC16(crc[j - 1], bytes[j])
  IN  crc[Len(bytes)]

----------------------------------------------------------------------------
(* What is sent *)

MustEscape(c) == c < 32 \/ c = ESCAPE \/ c = FLAG

Escaped(c) == IF MustEscape(c) THEN <<ESCAPE, Xor(c, 32)>> ELSE <<c>>

EscapedAll(bytes) ==
  LET out[j \in 0..Len(bytes)] == IF j = 0 THEN <<>> ELSE out[j - 1] \o Escaped(bytes[j])
  IN  out[Len(bytes)]

\* The frame network_send builds: the header goes as it is
Framed(protocol, body) ==
  LET header   == <<255, 3, MSB(protocol), LSB(protocol)>>
      checksum == Complement(ChecksumOf(header \o body))
  IN  <<FLAG>> \o header \o EscapedAll(body \o <<LSB(checksum), MSB(checksum)>>) \o <<FLAG>>

\* The peer may escape the header too, leave out address and control, and the first byte
\* of a protocol below 256
Styles == {"plain", "escaped", "compressed"}

FramedBy(style, protocol, body) ==
  LET header   == IF style # "compressed" THEN <<255, 3, MSB(protocol), LSB(protocol)>>
                  ELSE IF protocol < 256 THEN <<protocol>> ELSE <<MSB(protocol), LSB(protocol)>>
      checksum == Complement(ChecksumOf(header \o body))
      trailer  == <<LSB(checksum), MSB(checksum)>>
  IN  IF style = "plain" THEN Framed(protocol, body)
      ELSE <<FLAG>> \o EscapedAll(header \o body \o trailer) \o <<FLAG>>

----------------------------------------------------------------------------
(* The parser: the statics of network.c are the fields of a record *)

PacketStates == {"NULL", "INHEADER", "INBODY"}

VARIABLES
  parser,
  wire,        \* the bytes of the peer's current frame still to come
  unread,      \* this frame and the one before, while they are not read
  frames,      \* how many the peer has begun
  lost,        \* how many had not been read when the next one began
  spurious,    \* whether something else was read
  sends,
  noise

framingVars == <<parser, wire, unread, frames, lost, spurious, sends, noise>>

\* Escape applies to this byte: it is the second of a pair
Unescaped(p, c) == IF p.Escape THEN Xor(c, 32) ELSE c

\* PacketLength, which counts here too, says nothing before the next flag: it is left out
InNull(p, c) ==
  IF c = FLAG
  THEN [p EXCEPT !.PacketState = "INHEADER", !.PacketLength = 1, !.CurrentChecksum = 65535]
  ELSE p

MutantHeaderPosition(p, c) ==   \* address and control must be there
  IF p.PacketLength = 3 /\ c % 2 = 1 THEN 4 ELSE p.PacketLength

\* The four header bytes are number 1 to 4; those left out are counted as if they were there
HeaderPosition(p, c) ==
  LET length == IF p.PacketLength = 1 /\ c # 255 THEN 3 ELSE p.PacketLength
  IN  IF length = 3 /\ c % 2 = 1 THEN 4 ELSE length

InHeader(p, byte) ==
  LET c        == Unescaped(p, byte)
      position == HeaderPosition(p, c)
      q == [p EXCEPT !.Escape = FALSE, !.CurrentChecksum = CALC_CRC16(@, c)]
      msb == IF p.PacketLength # 4 THEN 0 ELSE MSB(p.PacketProtocol)
  IN  CASE byte = ESCAPE -> [p EXCEPT !.Escape = TRUE]
        [] byte # ESCAPE /\ position = 4 ->
             [q EXCEPT !.PacketProtocol = Word(msb, c), !.PacketLength = 0,
                       !.PacketState = "INBODY"]
        [] byte # ESCAPE /\ position # 4 ->
             [q EXCEPT !.PacketProtocol = IF position = 3 THEN Word(c, 0) ELSE @,
                       !.PacketLength = position + 1]

InBody(p, byte) ==
  LET c == Unescaped(p, byte)
  IN  IF byte = ESCAPE THEN [p EXCEPT !.Escape = TRUE]
      ELSE [p EXCEPT !.Escape = FALSE, !.PacketLength = @ + 1,
                     !.uip_buf[p.PacketLength] = c,
                     !.TwoBackChecksum = p.OneBackChecksum,
                     !.OneBackChecksum = p.CurrentChecksum,
                     !.CurrentChecksum = CALC_CRC16(@, c)]

MutantChecksumGood(p) == p.PacketLength >= 2   \* the result is not looked at

\* The last two bytes of the body against the checksum before them.  A body shorter than
\* that is completed with what is in memory before uip_buf.
ChecksumGood(p) ==
  LET At(k) == p.uip_buf[k]
  IN  Complement(p.TwoBackChecksum) = Word(At(p.PacketLength - 1), At(p.PacketLength - 2))


Closed(p) ==
  [p EXCEPT !.uip_len = (p.PacketLength - 2) % 65536, !.Escape = FALSE,
            !.PacketState = "NULL", !.PacketLength = 0]

\* As much of the packet as there is in uip_buf
Body(p) == [j \in {k \in 1..UIP_BUFSIZE : k <= p.uip_len} |-> p.uip_buf[j - 1]]

\* One byte: the parser it leaves, and whether network_read returns a packet
Read(p, c) ==
  CASE p.PacketState = "NULL"     -> [parser |-> InNull(p, c), packet |-> FALSE]
    [] p.PacketState = "INHEADER" -> [parser |-> InHeader(p, c), packet |-> FALSE]
    [] p.PacketState = "INBODY" /\ c # FLAG -> [parser |-> InBody(p, c), packet |-> FALSE]
    [] p.PacketState = "INBODY" /\ c = FLAG ->
         [parser |-> Closed(p), packet |-> ChecksumGood(p)]

network_init(p) == [p EXCEPT !.PacketState = "NULL", !.Escape = FALSE, !.uip_len = 0]

----------------------------------------------------------------------------
(* The steps *)

\* The peer begins its next frame
NextFrame(style, protocol, body) ==
  /\ wire = <<>> /\ frames < MaxFrames
  /\ unread' = Append(IF unread = <<>> THEN <<>> ELSE <<unread[Len(unread)]>>,
                      [protocol |-> protocol, body |-> body])
  /\ wire' = FramedBy(style, protocol, body)
  /\ frames' = frames + 1
  /\ lost' = IF unread # <<>> THEN lost + 1 ELSE lost
  /\ UNCHANGED <<parser, spurious, sends, noise>>

\* network_read is given a byte
network_read(c) ==
  LET r   == Read(parser, c)
      got == [protocol |-> r.parser.PacketProtocol, body |-> Body(r.parser)]
      which == {j \in 1..Len(unread) : unread[j] = got}
      latest == CHOOSE j \in which : \A k \in which : k <= j
  IN  /\ parser' = r.parser
      /\ unread' = IF r.packet /\ which # {} THEN SubSeq(unread, latest + 1, Len(unread))
                   ELSE unread
      /\ spurious' = (spurious \/ (r.packet /\ which = {}))

Arrives ==
  /\ wire # <<>>
  /\ network_read(Head(wire))
  /\ wire' = Tail(wire)
  /\ UNCHANGED <<frames, lost, sends, noise>>

Lost ==
  /\ wire # <<>> /\ noise < MaxNoise
  /\ wire' = Tail(wire)
  /\ noise' = noise + 1
  /\ UNCHANGED <<parser, unread, frames, lost, spurious, sends>>

Changed(c) ==
  /\ wire # <<>> /\ noise < MaxNoise
  /\ network_read(c)
  /\ wire' = Tail(wire)
  /\ noise' = noise + 1
  /\ UNCHANGED <<frames, lost, sends>>

\* What network_send leaves of the parser
network_send(protocol) ==
  /\ sends < MaxSends
  /\ parser' = [parser EXCEPT !.PacketProtocol = protocol, !.PacketState = "NULL", !.uip_len = 0]
  /\ sends' = sends + 1
  /\ UNCHANGED <<wire, unread, frames, lost, spurious, noise>>

\* TCPIP_InitializeTCPStack
Reinitialize ==
  /\ sends < MaxSends
  /\ parser' = network_init(parser)
  /\ sends' = sends + 1
  /\ UNCHANGED <<wire, unread, frames, lost, spurious, noise>>

----------------------------------------------------------------------------
(* The specification *)

FramingInit ==
  /\ \E before \in BytesBefore :
       parser = [PacketState |-> "NULL", Escape |-> FALSE, PacketProtocol |-> 0,
                 PacketLength |-> 0, CurrentChecksum |-> 0, OneBackChecksum |-> 0,
                 TwoBackChecksum |-> 0, uip_len |-> 0,
                 uip_buf |-> [k \in -2..(UIP_BUFSIZE - 1) |-> IF k < 0 THEN before ELSE 0]]
  /\ wire = <<>> /\ unread = <<>>
  /\ frames = 0 /\ lost = 0 /\ sends = 0 /\ noise = 0
  /\ spurious = FALSE

FramingNext ==
  \/ \E style \in Styles, protocol \in Protocols, body \in Bodies :
       NextFrame(style, protocol, body)
  \/ Arrives
  \/ Lost
  \/ \E c \in NoiseBytes : Changed(c)
  \/ \E protocol \in Protocols : network_send(protocol)
  \/ Reinitialize

FramingSpec == FramingInit /\ [][FramingNext]_framingVars

----------------------------------------------------------------------------
(* Properties *)

\* What the parser reads is in uip_buf and the registers are 16 bits wide.
FramingTypeOK ==
  /\ parser \in [PacketState : PacketStates, Escape : BOOLEAN, PacketProtocol : 0..65535,
                 PacketLength : 0..65535, CurrentChecksum : 0..65535,
                 OneBackChecksum : 0..65535, TwoBackChecksum : 0..65535,
                 uip_len : 0..65535, uip_buf : [-2..(UIP_BUFSIZE - 1) -> 0..255]]
  /\ parser.PacketState = "INBODY" => parser.PacketLength <= UIP_BUFSIZE
  /\ frames \in 0..MaxFrames /\ sends \in 0..MaxSends /\ noise \in 0..MaxNoise
  /\ lost \in 0..frames

\* Nothing is read but a frame of the peer's, whole and once: whatever noise does to the
\* line and wherever our own frames reset the parser.
OnlyWholeFrames == ~spurious

\* On a clean line a frame of ours costs two of the peer's at most: the one it falls in
\* and the next, whose opening flag is taken for a byte of a header.
LossBounded == noise = 0 => lost <= 2 * sends
=============================================================================
