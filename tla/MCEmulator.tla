----------------------------- MODULE MCEmulator -----------------------------
(* Files for the emulator: every opcode and condition on chosen operands.  *)
EXTENDS Emulator

R(o, rd, ra, simm5) == o * 2048 + rd * 256 + ra * 32 + (simm5 % 32)
I(o, rd, imm8)      == o * 2048 + rd * 256 + imm8

Ax == 0
Bx == 1
Cx == 2

\* Two operands from words 10 and 11, the first less k; a comparison, the
\* instruction, a WRITE.  A word of a file decodes, so it is below 45056: k
\* makes the negative operands.
File(x, y, k, w) ==
  <<R(OP_LW, Ax, Cx, 10), R(OP_LW, Bx, Cx, 11), I(OP_SUBI, Ax, k), R(OP_CMP, Ax, Bx, 0), w,
    I(OP_WRITE, Ax, UART1), I(OP_HALT, Ax, 0), 0, 0, 0, x, y>>

\* Equal, less, greater, the ends of the memory, the signed and the 16-bit edges.
Operands == {<<0, 0, 0>>, <<1, 254, 0>>, <<254, 1, 0>>, <<255, 255, 0>>, <<5, 9, 0>>,
             <<16384, 1, 0>>, <<32767, 255, 0>>, <<32768, 1, 0>>, <<0, 32768, 0>>,
             <<2047, 45055, 0>>, <<2, 9, 5>>}

\* Conditions 0 .. 8, Ra = Bx with offsets, Ra = Ax with an offset, and a big immediate.
LowBytes  == 0 .. 8 \cup {32, 63, 31, 200}
Words     == {o * 2048 + rd * 256 + low : o \in 0 .. 31, rd \in {Ax, Bx}, low \in LowBytes}

\* A loop that writes without end.
WriteLoop == <<I(OP_MOVI, Ax, 66), I(OP_WRITE, Ax, UART1), I(OP_MOVI, Bx, 1), I(OP_JMP, Bx, JMP_J)>>

\* A word that no file holds, made at run time and stored where pc is next.
MadeWord == <<R(OP_LW, Ax, Cx, 4), I(OP_ADDI, Ax, 1), R(OP_SW, Ax, Cx, 3), I(OP_NOP, Ax, 0), 45055>>

\* A jump out of the memory, to an address whose low bits name a jump to it.
FarJump == [i \in 1 .. 45 |-> CASE i = 1 -> I(OP_MOVI, Ax, 150)
                                [] i = 2 -> R(OP_ADD, Ax, Ax, 0)
                                [] i \in {3, 45} -> I(OP_JMP, Ax, JMP_J)
                                [] OTHER -> 0]

Files == {File(x[1], x[2], x[3], w) : x \in Operands, w \in Words}
           \cup {WriteLoop, MadeWord, FarJump}
=============================================================================
