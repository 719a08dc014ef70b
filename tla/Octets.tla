------------------------------- MODULE Octets -------------------------------
(***************************************************************************)
(* Numbers on the wire: read_uint16() to read_uint64(), write_uint16() and *)
(* write_uint32() of src/util.c, octet by octet, the highest first.        *)
(***************************************************************************)
EXTENDS Integers

Octet == 0..255

\* A number of 16 bits takes two octets, of 32 bits four.
write_uint16_Swapped(v) == <<v % 256, (v \div 256) % 256>>

write_uint16(v) == <<(v \div 256) % 256, v % 256>>

write_uint32(v) ==
  <<(v \div 16777216) % 256, (v \div 65536) % 256, (v \div 256) % 256, v % 256>>

\* The octets of p from its first.
read_uint16(p) == p[1] * 256 + p[2]

read_uint32(p) == ((p[1] * 256 + p[2]) * 256 + p[3]) * 256 + p[4]

read_uint64(p) ==
  (((read_uint32(p) * 256 + p[5]) * 256 + p[6]) * 256 + p[7]) * 256 + p[8]
=============================================================================
