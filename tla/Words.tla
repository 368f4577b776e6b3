---------------------------------- MODULE Words ----------------------------------
(***************************************************************************)
(* Words of 16 bits and their bytes, as src/uIP-Contiki/network.c and      *)
(* uip.c take them apart and put them together.                            *)
(***************************************************************************)
EXTENDS Integers

Byte    == 0..255
MaxWord == 65535
Word16  == 0..MaxWord

Word(msb, lsb) == msb * 256 + lsb
MSB(w) == w \div 256
LSB(w) == w % 256

Complement(w) == 65535 - w
=============================================================================
