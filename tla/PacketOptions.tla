---------------------------- MODULE PacketOptions ----------------------------
(***************************************************************************)
(* The options of PPP's configure packets (src/PPP.c): the loops that take *)
(* a rejected option out of our request, change or add one the peer asks   *)
(* for, and cut the peer's request down to what is answered.  Module PPP   *)
(* has only the outcome of these loops; here they work on packets.         *)
(*                                                                         *)
(* A packet is the sequence of its options, an option its type and the     *)
(* bytes of its data; the place a loop has reached is an index.  A peer's  *)
(* option is two bytes or longer.                                          *)
(*                                                                         *)
(* A definition named Mutant... is the next one with a plausible mistake:  *)
(* the properties below are broken when it takes its place.                *)
(***************************************************************************)
EXTENDS Integers, Sequences

CONSTANTS
  OUTGOING_PACKET_BUFFER_SIZE,  \* 48
  LcpTypes,                     \* the types the peer uses in LCP,
  IpcpTypes,                    \* and in IPCP
  OptionBytes,                  \* the bytes it puts in an option
  MaxOptions,                   \* bound: options in a packet of the peer's
  None                          \* there is no outgoing packet, no answer

ASSUME OptionsAssumption ==
  /\ OUTGOING_PACKET_BUFFER_SIZE \in Nat /\ OUTGOING_PACKET_BUFFER_SIZE >= 23
  /\ LcpTypes \subseteq 1..255 /\ IpcpTypes \subseteq 1..255
  /\ OptionBytes \subseteq 0..255
  /\ MaxOptions \in Nat

Layers == {"LCP", "IPCP"}

\* The data of an option of a type: as long as ours, four bytes if we have none
Lengths(layer, type) ==
  CASE layer = "LCP" /\ type \in {7, 8} -> 0
    [] layer = "LCP" /\ type = 13 -> 1
    [] layer = "LCP" /\ type \in {1, 3} -> 2
    [] OTHER -> 4

Filled(value, n) == [j \in 1..n |-> value]

PAP  == [type |-> 3, data |-> <<192, 35>>]        \* Option3
CHAP == [type |-> 3, data |-> <<194, 35, 5>>]

PeerOptions(layer) ==
  LET types == IF layer = "LCP" THEN LcpTypes \ {3} ELSE IpcpTypes
  IN  {[type |-> t, data |-> Filled(v, Lengths(layer, t))] : t \in types, v \in OptionBytes}
        \cup (IF layer = "LCP" /\ 3 \in LcpTypes THEN {PAP, CHAP} ELSE {})

PeerPackets(layer) == UNION {[1..n -> PeerOptions(layer)] : n \in 0..MaxOptions}

TypesIn(packet) == {packet[j].type : j \in DOMAIN packet}

\* The packet's Length
LengthOf(packet) ==
  LET length[j \in 0..Len(packet)] ==
        IF j = 0 THEN 4 ELSE length[j - 1] + 2 + Len(packet[j].data)
  IN  length[Len(packet)]

VARIABLES
  layer,       \* the one being configured
  outgoing,    \* OutgoingPacket
  received,    \* the peer's last request
  answer,      \* and what it got for it
  wanted,      \* history: of each type in our request, the data it should have
  rejected,    \* history: the peer has rejected our address option in this layer
  addressFrom  \* the type of the option the address was taken from

optionsVars == <<layer, outgoing, received, answer, wanted, rejected, addressFrom>>

----------------------------------------------------------------------------
(* The helper functions *)

\* The options of some types, in their order
OfTypes(packet, types) ==
  LET found[j \in 0..Len(packet)] ==
        IF j = 0 THEN <<>>
        ELSE IF packet[j].type \in types THEN Append(found[j - 1], packet[j]) ELSE found[j - 1]
  IN  found[Len(packet)]

\* An option moved up into the place of a removed one is passed over
RemoveOption(packet, type) ==
  LET removed[j \in 0..Len(packet)] ==
        IF j = 0 THEN FALSE ELSE packet[j].type = type /\ ~removed[j - 1]
      kept[j \in 0..Len(packet)] ==
        IF j = 0 THEN <<>>
        ELSE IF removed[j] THEN kept[j - 1] ELSE Append(kept[j - 1], packet[j])
  IN  kept[Len(packet)]

\* The data is copied over as many bytes as the new option has
ChangeOption(packet, option) ==
  [j \in DOMAIN packet |->
     IF packet[j].type = option.type
     THEN [packet[j] EXCEPT !.data = [k \in DOMAIN @ |-> IF k <= Len(option.data)
                                                           THEN option.data[k] ELSE @[k]]]
     ELSE packet[j]]

MutantAddOption(packet, option) == Append(packet, option)   \* without looking for space
MutantAddFirst(packet, option) ==   \* in front of the others
  IF LengthOf(packet) + 2 + Len(option.data) > OUTGOING_PACKET_BUFFER_SIZE THEN packet
  ELSE <<option>> \o packet
AddOption(packet, option) ==
  IF LengthOf(packet) + 2 + Len(option.data) > OUTGOING_PACKET_BUFFER_SIZE THEN packet
  ELSE Append(packet, option)

CheckForOption(packet, option) == option.type \in TypesIn(packet)

ProcessOption(packet, option) ==
  IF CheckForOption(packet, option) THEN ChangeOption(packet, option)
  ELSE AddOption(packet, option)

ProcessNAK(packet, nak) ==
  LET out[j \in 0..Len(nak)] == IF j = 0 THEN packet ELSE ProcessOption(out[j - 1], nak[j])
  IN  out[Len(nak)]

MutantProcessREJ(packet, rej) ==   \* the first option only
  IF rej = <<>> THEN packet ELSE RemoveOption(packet, Head(rej).type)
ProcessREJ(packet, rej) ==
  LET out[j \in 0..Len(rej)] == IF j = 0 THEN packet ELSE RemoveOption(out[j - 1], rej[j].type)
  IN  out[Len(rej)]

SupportedOptions(l) == IF l = "LCP" THEN {1, 2, 3, 5, 7, 8} ELSE {3, 129, 131}

\* The first option of some types is removed, if there is one
WithoutFirst(packet, types) ==
  IF TypesIn(packet) \cap types = {} THEN packet
  ELSE LET first == CHOOSE j \in DOMAIN packet :
                      /\ packet[j].type \in types
                      /\ \A k \in 1..(j - 1) : packet[k].type \notin types
       IN  RemoveOption(packet, packet[first].type)

\* The search starts again after each of them, until there is none
Without(packet, types) ==
  LET left[n \in 0..Len(packet)] ==
        IF n = 0 THEN packet ELSE WithoutFirst(left[n - 1], types)
  IN  left[Len(packet)]

\* Whether there is a bad option, and the packet left to be sent
TestForREJ(packet, supported) ==
  [bad    |-> TypesIn(packet) \ supported # {},
   packet |-> IF TypesIn(packet) \subseteq supported THEN packet
              ELSE Without(packet, supported)]

\* The search for other options passes over this one and changes it each time: what is
\* changed twice is changed once
OnlyOption(packet, option) ==
  ChangeOption(Without(packet, TypesIn(packet) \ {option.type}), option)

TestForNAK(packet, option) ==
  LET bad == \E j \in DOMAIN packet : /\ packet[j].type = option.type
                                      /\ \E k \in DOMAIN option.data :
                                           packet[j].data[k] # option.data[k]
  IN  [bad |-> bad, packet |-> IF bad THEN OnlyOption(packet, option) ELSE packet]

----------------------------------------------------------------------------
(* The steps *)

OurOptions(l) ==
  IF l = "LCP"
  THEN <<[type |-> 2,   data |-> Filled(0, 4)], [type |-> 5, data |-> <<39, 245, 70, 161>>],
         [type |-> 7,   data |-> <<>>], [type |-> 8, data |-> <<>>],
         [type |-> 13,  data |-> <<6>>]>>
  ELSE <<[type |-> 3,   data |-> Filled(0, 4)], [type |-> 129, data |-> Filled(0, 4)],
         [type |-> 131, data |-> Filled(0, 4)]>>

NewRequest(options) ==
  LET out[j \in 0..Len(options)] == IF j = 0 THEN <<>> ELSE AddOption(out[j - 1], options[j])
  IN  out[Len(options)]

DataByType(packet) ==
  [t \in TypesIn(packet) |->
     LET j == CHOOSE j \in DOMAIN packet :
                /\ packet[j].type = t
                /\ \A k \in DOMAIN packet : packet[k].type = t => k <= j
     IN  packet[j].data]

\* A request is answered at once: no other packet of the peer's comes between
NothingToAnswer == answer = None /\ UNCHANGED <<received, answer>>

Answer ==
  /\ answer # None
  /\ received' = <<>> /\ answer' = None
  /\ UNCHANGED <<layer, outgoing, wanted, rejected, addressFrom>>

Send_Configure_Request ==
  /\ NothingToAnswer
  /\ outgoing = None
  /\ outgoing' = NewRequest(OurOptions(layer))
  /\ wanted' = DataByType(OurOptions(layer))
  /\ UNCHANGED <<layer, rejected, addressFrom>>

\* What the peer wants is what fits
ReceiveNAK(nak) ==
  /\ NothingToAnswer
  /\ outgoing # None
  /\ outgoing' = ProcessNAK(outgoing, nak)
  /\ wanted' = [t \in DOMAIN wanted \cup TypesIn(outgoing') |->
                  IF t \in TypesIn(nak) THEN DataByType(nak)[t] ELSE wanted[t]]
  /\ UNCHANGED <<layer, rejected, addressFrom>>

\* The peer rejects some of the options in the request, in their order
ReceiveREJ(types) ==
  /\ NothingToAnswer
  /\ outgoing # None
  /\ outgoing' = ProcessREJ(outgoing, OfTypes(outgoing, types))
  /\ wanted' = [t \in DOMAIN wanted \ types |-> wanted[t]]
  /\ rejected' = (rejected \/ (layer = "IPCP" /\ 3 \in types))
  /\ UNCHANGED <<layer, addressFrom>>

MutantAnswerTo(l, packet) ==   \* the two tests in the other order
  LET nak == TestForNAK(packet, PAP)
      rej == TestForREJ(packet, SupportedOptions(l))
  IN  IF l = "LCP" /\ nak.bad THEN [code |-> "NAK", packet |-> nak.packet]
      ELSE IF rej.bad THEN [code |-> "REJ", packet |-> rej.packet]
      ELSE [code |-> "ACK", packet |-> packet]

AnswerTo(l, packet) ==
  LET rej == TestForREJ(packet, SupportedOptions(l))
      nak == TestForNAK(rej.packet, PAP)
  IN  IF rej.bad THEN [code |-> "REJ", packet |-> rej.packet]
      ELSE IF l = "LCP" /\ nak.bad THEN [code |-> "NAK", packet |-> nak.packet]
      ELSE [code |-> "ACK", packet |-> packet]

ReceiveREQ(req) ==
  /\ answer = None
  /\ received' = req
  /\ answer' = AnswerTo(layer, req)
  /\ UNCHANGED <<layer, outgoing, wanted, rejected, addressFrom>>

\* IPCP takes the address from Options[0] of what the peer sends back
ReceiveACK ==
  /\ NothingToAnswer
  /\ layer = "IPCP"
  /\ outgoing \notin {None, <<>>}
  /\ addressFrom' = outgoing[1].type
  /\ UNCHANGED <<layer, outgoing, wanted, rejected>>

\* This_Layer_Up and This_Layer_Down clear the outgoing packet
NextLayer(l) ==
  /\ NothingToAnswer
  /\ layer # l
  /\ layer' = l
  /\ outgoing' = None /\ wanted' = <<>>
  /\ rejected' = FALSE
  /\ UNCHANGED addressFrom

----------------------------------------------------------------------------
(* The specification *)

OptionsInit ==
  /\ layer = "LCP"
  /\ outgoing = None /\ received = <<>> /\ answer = None /\ wanted = <<>>
  /\ rejected = FALSE /\ addressFrom = None

OptionsNext ==
  \/ Send_Configure_Request
  \/ \E nak \in PeerPackets(layer) :
       /\ \A j \in DOMAIN nak : nak[j] # CHAP
       /\ ReceiveNAK(nak)
  \/ outgoing # None /\ \E types \in SUBSET TypesIn(outgoing) : ReceiveREJ(types)
  \/ \E req \in PeerPackets(layer) : ReceiveREQ(req)
  \/ Answer
  \/ ReceiveACK
  \/ \E l \in Layers : NextLayer(l)

OptionsSpec == OptionsInit /\ [][OptionsNext]_optionsVars

----------------------------------------------------------------------------
(* Properties *)

\* An outgoing packet fits its buffer.
OptionsTypeOK ==
  /\ layer \in Layers
  /\ outgoing = None \/ LengthOf(outgoing) <= OUTGOING_PACKET_BUFFER_SIZE
  /\ rejected \in BOOLEAN /\ addressFrom \in {None} \cup (0..255)

\* After any sequence of NAKs and REJs our request has each option the peer has left us
\* once, with the data it asked for last, and none that it has rejected since.
RequestFollowsPeer ==
  outgoing # None =>
    /\ \A j, k \in DOMAIN outgoing : outgoing[j].type = outgoing[k].type => j = k
    /\ DataByType(outgoing) = wanted

\* The answer names exactly what is wrong with the peer's request: all the options we do
\* not support, in the peer's order, else its authentication options, else everything.
AnswerExact ==
  LET unsupported    == OfTypes(received, TypesIn(received) \ SupportedOptions(layer))
      authentication == OfTypes(received, IF layer = "LCP" THEN {3} ELSE {})
  IN  answer # None =>
        answer = IF unsupported # <<>> THEN [code |-> "REJ", packet |-> unsupported]
                 ELSE IF \E j \in DOMAIN authentication : authentication[j] # PAP
                 THEN [code |-> "NAK", packet |-> ChangeOption(authentication, PAP)]
                 ELSE [code |-> "ACK", packet |-> received]

\* IPCP takes our address from the first option of the acknowledged request, whatever its
\* type: until the peer rejects the address option, no NAK or REJ puts another before it.
AddressStaysFirst ==
  [][addressFrom' # addressFrom /\ ~rejected => addressFrom' = 3]_optionsVars
=============================================================================
