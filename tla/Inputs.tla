--------------------------------- MODULE Inputs ---------------------------------
(***************************************************************************)
(* What this program is given from outside and takes apart byte by byte:   *)
(* the modem's bytes into frames (Framing), a frame's bytes into an IP     *)
(* packet (IP), a configure packet's options (PacketOptions), and the      *)
(* descriptors of a USB device (ModemEnumeration).                         *)
(*                                                                         *)
(* The four share no variable, so what one does says nothing about         *)
(* another: a behaviour is one of the first part's, of the second's and so *)
(* on, while the other parts rest in their first state.                    *)
(***************************************************************************)
EXTENDS Framing, IP, PacketOptions, ModemEnumeration

VARIABLE part   \* the one that runs

vars == <<part, framingVars, ipVars, optionsVars, modemVars>>

Parts == {"Framing", "IP", "PacketOptions", "ModemEnumeration"}

Init ==
  /\ part \in Parts
  /\ FramingInit /\ IPInit /\ OptionsInit /\ ModemInit
  /\ part # "Framing" => parser.uip_buf[-1] = CHOOSE b \in BytesBefore : TRUE
  /\ part # "IP" => ipid = CHOOSE i \in FirstIds : TRUE

RunFraming ==
  /\ part = "Framing"
  /\ FramingNext
  /\ UNCHANGED <<part, ipVars, optionsVars, modemVars>>

RunIP ==
  /\ part = "IP"
  /\ IPNext
  /\ UNCHANGED <<part, framingVars, optionsVars, modemVars>>

RunPacketOptions ==
  /\ part = "PacketOptions"
  /\ OptionsNext
  /\ UNCHANGED <<part, framingVars, ipVars, modemVars>>

RunModemEnumeration ==
  /\ part = "ModemEnumeration"
  /\ ModemNext
  /\ UNCHANGED <<part, framingVars, ipVars, optionsVars>>

Next == RunFraming \/ RunIP \/ RunPacketOptions \/ RunModemEnumeration

Spec == Init /\ [][Next]_vars

----------------------------------------------------------------------------
(* Properties *)

\* Buffers hold what is put in them and registers keep their widths, in every part.
TypeOK == FramingTypeOK /\ IPTypeOK /\ OptionsTypeOK /\ ModemTypeOK
=============================================================================
