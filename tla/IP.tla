---------------------------------- MODULE IP ----------------------------------
(***************************************************************************)
(* uIP's input of an IP packet and its answer to a ping                    *)
(* (src/uIP-Contiki/uip.c, called from TCPIP_GotNewPacket in src/TCPIP.c): *)
(* what is dropped, the Internet checksum as it is computed in 16-bit      *)
(* registers, and the ICMP checksum that is not computed again but         *)
(* adjusted, in the byte order of a little-endian machine.                 *)
(*                                                                         *)
(* A packet is a sequence of bytes; offsets count from 0 as in the code.   *)
(* The peer sends a ping; the line may change one of its bytes, or pad it.  *)
(*                                                                         *)
(* A definition named Mutant... is the next one with a plausible mistake:  *)
(* the properties below are broken when it takes its place.                *)
(***************************************************************************)
EXTENDS Words, Sequences

CONSTANTS
  PingBytes,    \* the bytes of a ping's data, and what a changed byte becomes
  DataLengths,  \* how many bytes of data follow the ICMP checksum
  Paddings,     \* bytes after the end of the packet
  Damaged,      \* the offsets of the bytes that may change
  FirstIds      \* what ipid may have got to

ASSUME IPAssumption ==
  /\ PingBytes \subseteq Byte
  /\ DataLengths \subseteq Nat /\ Paddings \subseteq Nat /\ Damaged \subseteq Nat
  /\ FirstIds \subseteq Word16
  \* the headers and the data are one IP packet, whose length has 16 bits
  /\ \A n \in DataLengths : 24 + n <= MaxWord

UIP_TTL    == 64
UIP_IPH_LEN == 20
ICMP_ECHO  == 8
ICMP_ECHO_REPLY == 0

uip_hostaddr == <<10, 0, 0, 2>>
PeerAddr     == <<10, 0, 0, 1>>

Bytes(w)       == <<w \div 256, w % 256>>
uip_htons(w)   == Word(w % 256, w \div 256)

At(p, offset) == p[offset + 1]
Part(p, first, length) == SubSeq(p, first + 1, first + length)
Patched(p, offset, bytes) ==
  SubSeq(p, 1, offset) \o bytes \o SubSeq(p, offset + Len(bytes) + 1, Len(p))

----------------------------------------------------------------------------
(* Checksums *)

\* The words of a sequence of bytes, a zero after the last if there is one too few
WordAt(data, j) == Word(data[2 * j - 1], IF 2 * j \in DOMAIN data THEN data[2 * j] ELSE 0)
Words(data) == [j \in 1..((Len(data) + 1) \div 2) |-> WordAt(data, j)]

MutantAddCarry(sum, t) == (sum + t) % 65536   \* the carry is lost
AddCarry(sum, t) ==
  LET s == (sum + t) % 65536
  IN  IF s < t THEN (s + 1) % 65536 ELSE s

chksum(sum, data) ==
  LET words == Words(data)
      s[j \in 0..Len(words)] == IF j = 0 THEN sum ELSE AddCarry(s[j - 1], words[j])
  IN  s[Len(words)]

uip_ipchksum(p) ==
  LET sum == chksum(0, Part(p, 0, UIP_IPH_LEN)) IN IF sum = 0 THEN 65535 ELSE sum

\* The same by the definition: the sum of the words modulo 2^16 - 1, zero only if all are
OnesComplementSum(data) ==
  LET words == Words(data)
      s[j \in 0..Len(words)] == IF j = 0 THEN 0 ELSE s[j - 1] + words[j]
      total == s[Len(words)]
  IN  IF total = 0 THEN 0 ELSE ((total - 1) % 65535) + 1

Checks(data) == OnesComplementSum(data) = 65535

----------------------------------------------------------------------------
(* The peer's pings *)

WithChecksum(data, offset) ==
  Patched(data, offset, Bytes(Complement(OnesComplementSum(data))))

Ping(data) ==
  LET icmp   == WithChecksum(<<ICMP_ECHO, 0, 0, 0>> \o data, 2)
      header == <<69, 0>> \o Bytes(UIP_IPH_LEN + Len(icmp)) \o <<0, 1, 0, 0, 9, 1, 0, 0>>
                  \o PeerAddr \o uip_hostaddr
  IN  WithChecksum(header, 10) \o icmp

Datas == UNION {[1..n -> PingBytes] : n \in DataLengths}

VARIABLES
  state,     \* of the packet: "none", "received", "answered", "dropped"
  ping,      \* what the peer has sent
  damage,    \* the offset of the byte that has changed, or -1
  uip_buf,
  uip_len,
  ipid

ipVars == <<state, ping, damage, uip_buf, uip_len, ipid>>

----------------------------------------------------------------------------
(* uip_process(UIP_DATA) *)

BUF_len == Word(At(uip_buf, 2), At(uip_buf, 3))

MutantHeaderGood ==   \* without the checksum
  /\ At(uip_buf, 0) = 69
  /\ BUF_len <= uip_len
  /\ At(uip_buf, 6) % 64 = 0 /\ At(uip_buf, 7) = 0
  /\ Part(uip_buf, 16, 4) = uip_hostaddr
HeaderGood ==
  /\ At(uip_buf, 0) = 69
  /\ BUF_len <= uip_len
  /\ At(uip_buf, 6) % 64 = 0 /\ At(uip_buf, 7) = 0     \* no fragment
  /\ Part(uip_buf, 16, 4) = uip_hostaddr
  /\ uip_ipchksum(uip_buf) = 65535

IsPing == At(uip_buf, 9) = 1 /\ At(uip_buf, 20) = ICMP_ECHO

MutantAdjusted(icmpchksum) == (icmpchksum + uip_htons(ICMP_ECHO * 256)) % 65536   \* no carry
\* icmpchksum is the word as this machine reads it, the low byte first
Adjusted(icmpchksum) ==
  IF icmpchksum >= uip_htons(65535 - ICMP_ECHO * 256)
  THEN (icmpchksum + uip_htons(ICMP_ECHO * 256) + 1) % 65536
  ELSE (icmpchksum + uip_htons(ICMP_ECHO * 256)) % 65536

\* ip_send_nolen
Send(p, id) ==
  LET header == Patched(Patched(p, 0, <<69, 0>>), 4, Bytes(id) \o <<0, 0>>)
      blank  == Patched(header, 10, <<0, 0>>)
  IN  Patched(blank, 10, Bytes(Complement(uip_ipchksum(blank))))

EchoReply(p) ==
  LET read == Word(At(p, 23), At(p, 22))
      icmp == Patched(p, 20, <<ICMP_ECHO_REPLY>>)
      sum  == Patched(icmp, 22, <<Adjusted(read) % 256, Adjusted(read) \div 256>>)
      addresses == Patched(sum, 12, uip_hostaddr \o Part(p, 12, 4))
  IN  Patched(addresses, 8, <<UIP_TTL>>)

uip_input ==
  /\ state = "received"
  /\ IF HeaderGood /\ IsPing
     THEN /\ state' = "answered"
          /\ uip_len' = BUF_len
          /\ ipid' = (ipid + 1) % 65536
          /\ uip_buf' = Send(EchoReply(uip_buf), ipid')
     ELSE state' = "dropped" /\ uip_len' = 0 /\ UNCHANGED <<ipid, uip_buf>>
  /\ UNCHANGED <<ping, damage>>

----------------------------------------------------------------------------
(* The line *)

Receive(p, padding) ==
  /\ state = "none"
  /\ state' = "received"
  /\ ping' = p /\ damage' = -1
  /\ uip_buf' = p \o [j \in 1..padding |-> 0]
  /\ uip_len' = Len(uip_buf')
  /\ UNCHANGED ipid

ReceiveDamaged(p, offset, value) ==
  /\ state = "none" /\ offset < Len(p) /\ At(p, offset) # value
  /\ state' = "received"
  /\ ping' = p /\ damage' = offset
  /\ uip_buf' = Patched(p, offset, <<value>>)
  /\ uip_len' = Len(p)
  /\ UNCHANGED ipid

IPInit ==
  /\ state = "none"
  /\ ping = <<>> /\ damage = -1 /\ uip_buf = <<>> /\ uip_len = 0
  /\ ipid \in FirstIds

IPNext ==
  \/ \E data \in Datas, padding \in Paddings : Receive(Ping(data), padding)
  \/ \E data \in Datas, offset \in Damaged, value \in PingBytes :
       ReceiveDamaged(Ping(data), offset, value)
  \/ uip_input

IPSpec == IPInit /\ [][IPNext]_ipVars

----------------------------------------------------------------------------
(* Properties *)

\* The registers have 16 bits and the length is that of bytes there are.
IPTypeOK ==
  /\ state \in {"none", "received", "answered", "dropped"}
  /\ uip_buf \in Seq(Byte)
  /\ uip_len \in Nat /\ uip_len <= Len(uip_buf)
  /\ ipid \in Word16

\* The 16-bit sum with its carry is the one's complement sum, of whole packets and headers.
ChecksumExact == chksum(0, uip_buf) = OnesComplementSum(uip_buf)

\* No packet with a changed byte in its header is answered, every other ping is.
DamageDropped ==
  /\ state = "answered" => damage = -1 \/ damage >= UIP_IPH_LEN
  /\ state = "dropped" => damage # -1

Reply == Part(uip_buf, 0, uip_len)

\* The answer goes back where the ping came from, as long as the ping without padding, with
\* its data and a good header checksum; and its ICMP checksum is as good or bad as the ping's.
ReplyMirrorsPing ==
  state = "answered" =>
    LET icmp == Part(Reply, 20, uip_len - 20)
        sent == IF damage = -1 THEN ping ELSE Patched(ping, damage, <<At(uip_buf, damage)>>)
    IN  /\ uip_len = Len(ping)
        /\ Part(Reply, 12, 8) = uip_hostaddr \o PeerAddr
        /\ Checks(Part(Reply, 0, 20))
        /\ At(icmp, 0) = ICMP_ECHO_REPLY
        /\ Part(icmp, 4, Len(icmp) - 4) = Part(sent, 24, Len(sent) - 24)
        /\ damage \notin 20..(Len(ping) - 1) => OnesComplementSum(icmp) \in {0, 65535}
        /\ damage \in 24..(Len(ping) - 1) => OnesComplementSum(icmp) \notin {0, 65535}
=============================================================================
