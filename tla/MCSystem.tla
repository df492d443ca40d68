------------------------------- MODULE MCSystem -------------------------------
(* Programs for the model checking of System.                              *)
EXTENDS System

R(op, rd, ra, simm5) == op * 2048 + rd * 256 + ra * 32 + (simm5 % 32)
I(op, rd, imm8)      == op * 2048 + rd * 256 + (imm8 % 256)

Ax == 0
Bx == 1
HaltWord == 18 * 2048

Image(prog) ==
  [a \in 0 .. MemDepth - 1 |-> IF a < Len(prog) THEN prog[a + 1] ELSE HaltWord]

Write == R(OP_WRITE, 0, Ax, 0)

\* Bytes written back to back, and a program that stores, loads, computes and
\* writes what it has computed.
Message == Image(<<I(OP_MOVI, Ax, 72), Write, I(OP_ADDI, Ax, 33), Write>>)
Mixed   == Image(<<I(OP_MOVI, Ax, 5), R(OP_SW, Ax, Ax, 4), R(OP_LW, Bx, Ax, 4),
                   R(OP_ADD, Ax, Bx, 0), R(OP_CMP, Ax, Bx, 0),
                   I(OP_SET, Bx, JMP_JNE), R(OP_NOP, 0, 0, 0), Write>>)
FourBytes == Image(<<I(OP_MOVI, Ax, 72), Write, I(OP_ADDI, Ax, 1), Write, I(OP_ADDI, Ax, 1), Write, I(OP_ADDI, Ax, 1), Write>>)

\* Every pair of instructions other than a jump, before and after a WRITE.
Pool == {R(OP_NOP, 0, 0, 0), R(OP_MOV, Bx, Ax, 0), R(OP_ADD, Ax, Ax, 0), R(OP_LW, Ax, Ax, 1),
         R(OP_SW, Ax, Ax, -1), R(OP_CMP, Ax, Bx, 0), I(OP_SET, Ax, JMP_JNE), Write}
Pairs == {Image(<<I(OP_MOVI, Ax, 3), v, Write, w>>) : v, w \in Pool}

SteppedPrograms == {Message, Mixed} \cup Pairs
BackToBack      == {FourBytes}

RunMode  == {0}
StepMode == {1}
=============================================================================
