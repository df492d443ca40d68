------------------------------ MODULE Encoders -------------------------------
(***************************************************************************)
(* The words the compiler's encoders make (prco_isa.c): an opcode in five  *)
(* bits, one or two registers in three each, and an immediate of which     *)
(* only the bits are kept that its field has.                              *)
(***************************************************************************)
EXTENDS PrcoIsa

opcode_rr(o, rd, ra, simm5) == o * 2048 + rd * 256 + ra * 32 + (simm5 % 32)
opcode_ri(o, rd, imm8)      == o * 2048 + rd * 256 + (imm8 % 256)
=============================================================================
