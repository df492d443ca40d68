----------------------------- MODULE MCPrcoCore -----------------------------
(* Programs for the model checking of PrcoCore and PrcoCoreArch.           *)
EXTENDS PrcoCoreArch, Sequences

R(op, rd, ra, simm5) == op * 2048 + rd * 256 + ra * 32 + (simm5 % 32)
I(op, rd, imm8)      == op * 2048 + rd * 256 + (imm8 % 256)

Ax == 0
Bx == 1
Cx == 2

HaltWord == 18 * 2048       \* HALT: an opcode the decoder does not know

Image(prog) ==
  [a \in 0 .. MemDepth - 1 |-> IF a < Len(prog) THEN prog[a + 1] ELSE HaltWord]

\* Every program of a MOVI and three words of the pool; loops, self-modifying
\* stores and jumps into data included.
Pool == {R(OP_NOP, 0, 0, 0), R(OP_MOV, Bx, Ax, 0), R(OP_ADD, Ax, Ax, 0),
         R(OP_LW, Bx, Ax, 1), R(OP_SW, Bx, Ax, -1), R(OP_CMP, Ax, Bx, 0),
         I(OP_JMP, Ax, JMP_J), I(OP_JMP, Bx, JMP_JNE), I(OP_SET, Cx, JMP_JL),
         R(OP_WRITE, Ax, Ax, 0), I(OP_MOVI, Cx, 1), I(OP_JMP, Cx, JMP_JG),
         R(OP_SW, Cx, Ax, 0)}

ShortPrograms ==
  {Image(<<I(OP_MOVI, Ax, i), w[1], w[2], w[3]>>) : i \in {2, 3}, w \in [1 .. 3 -> Pool]}

\* A countdown, a call through the stack with its return, and a store over
\* the next instruction.
Countdown == Image(<<I(OP_MOVI, Ax, 3), I(OP_SUBI, Ax, 1), I(OP_MOVI, Cx, 1),
                     R(OP_CMP, Ax, Bx, 0), I(OP_JMP, Cx, JMP_JNE), R(OP_WRITE, 0, Ax, 0)>>)
CallReturn == Image(<<I(OP_MOVI, Ax, 5), I(OP_ADDI, REG_SP, -1), R(OP_SW, Ax, REG_SP, 0),
                      I(OP_MOVI, Bx, 6), I(OP_JMP, Bx, JMP_J), HaltWord,
                      R(OP_LW, Cx, REG_SP, 0), I(OP_JMP, Cx, JMP_J)>>)
Patch == Image(<<I(OP_MOVI, Ax, 4), R(OP_LW, Bx, Ax, 1), R(OP_SW, Bx, Ax, -1),
                 R(OP_NOP, 0, 0, 0), HaltWord, R(OP_WRITE, 0, Ax, 0)>>)

Underflow == Image(<<I(OP_MOVI, Ax, 1), I(OP_SUBI, Ax, 2), I(OP_ADDI, Ax, 255),
                     R(OP_SW, Ax, Ax, 0), R(OP_LW, Cx, Ax, 0)>>)

LongPrograms == {Countdown, CallReturn, Patch, Underflow}
AllPrograms  == ShortPrograms \cup LongPrograms

RunMode  == {0}
StepMode == {1}
=============================================================================
