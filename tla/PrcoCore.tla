------------------------------- MODULE PrcoCore -------------------------------
(***************************************************************************)
(* The clocked core: prco_core.v with the lmem, decoder, register file and *)
(* ALU it instantiates.  One step of the model is one rising clock edge:   *)
(* every always block reads the registers as they were before the edge and *)
(* sets them for after it, so Tick is the conjunction of the blocks.  The  *)
(* chip-enable pulses (q_ce..., i_ce...) are the pipeline's tokens: a      *)
(* module works in the cycle in which its pulse is up and raises the pulse *)
(* of the next one.                                                        *)
(***************************************************************************)
EXTENDS PrcoIsa

CONSTANTS
  MemDepth,        \* words in r_lmem (P_LMEM_DEPTH + 1 = 256 in the source)
  Programs,        \* the memory images $readmemh may leave in r_lmem
  Modes,           \* positions of the debug switch: 0 free running, 1 single step
  MaxResetCycles,  \* i_reset is held for 1 .. MaxResetCycles edges at power-on
  StepGap          \* least number of edges between two i_step pulses

ASSUME CoreAssumption ==
  /\ MemDepth \in Nat \ {0}
  /\ Programs \subseteq [0 .. MemDepth - 1 -> Word]
  /\ Modes \subseteq {0, 1}
  /\ MaxResetCycles \in Nat \ {0}
  /\ StepGap \in Nat \ {0}

VARIABLES
  core,      \* prco_core: pc, core_state, r_cpu_init, i_ce_reg, q_ce, q_debug_instr_clk
  port,      \* prco_core: the memory port and the write-back operand
  lmem,      \* prco_lmem: its two pulses and q_mem_douta
  r_lmem,    \* prco_lmem: the memory
  dec,       \* prco_decoder: its two pulses
  ctl,       \* prco_decoder: the instruction and the outputs latched with it
  regs,      \* prco_regs: two pulses and the two read ports
  r_regs,    \* prco_regs: the registers
  alu,       \* prco_alu: two pulses, q_result, q_should_branch
  r_sr,      \* prco_alu: the flags
  env        \* the board: i_mode, edges of reset left, edges until i_step may pulse

vars == <<core, port, lmem, r_lmem, dec, ctl, regs, r_regs, alu, r_sr, env>>

MemIndex(a) == a % MemDepth         \* only the low address lines reach the RAM
Max0(i)     == IF i > 0 THEN i ELSE 0

\* Power-on: declared initial values, and zero for the registers without one
\* (what the FPGA's configuration loads).
Init ==
  /\ core = [pc |-> 0, core_state |-> 0, r_cpu_init |-> FALSE, i_ce_reg |-> FALSE,
             q_ce |-> FALSE, q_debug_instr_clk |-> FALSE]
  /\ port = [r_mem_addr |-> 0, r_mem_int_i_ce |-> FALSE, r_mem_i_ce |-> FALSE,
             r_reg_dina |-> 0]
  /\ lmem = [q_ce_dec |-> FALSE, q_ce_reg |-> FALSE, q_mem_douta |-> 0]
  /\ r_lmem \in Programs
  /\ dec = [q_ce |-> FALSE, q_fetch |-> FALSE]
  /\ ctl = [q_instr |-> 0, q_sela |-> 0, q_reg_we |-> FALSE, q_req_ram |-> FALSE,
            q_req_ram_we |-> FALSE, q_new_uart1_data |-> FALSE, q_halt |-> FALSE]
  /\ regs = [q_ce_alu |-> FALSE, q_ce_fetch |-> FALSE, q_data |-> 0, q_datb |-> 0]
  /\ r_regs = [r \in Reg |-> 0]
  /\ alu = [q_ce_reg |-> FALSE, q_ce_ram |-> FALSE, q_result |-> 0,
            q_should_branch |-> FALSE]
  /\ r_sr = ClearFlags
  /\ env \in [i_mode : Modes, reset : 1 .. MaxResetCycles, wait : {0}]
-----------------------------------------------------------------------------
i_reset == env.reset > 0
IceWithoutFetch == core.r_cpu_init \/ regs.q_ce_fetch           \* mutant
i_ce    == core.r_cpu_init \/ regs.q_ce_fetch \/ dec.q_fetch

RegWeAnyEdge == ctl.q_reg_we                                     \* mutant
r_reg_we      == ctl.q_reg_we /\ regs.q_ce_fetch
r_lmem_we     == ctl.q_req_ram_we /\ port.r_mem_i_ce
uart_transmit(full) == ctl.q_new_uart1_data /\ regs.q_ce_fetch /\ ~full

\* core_state <= 1 on a taken branch, unless a later assignment of the edge wins.
BranchSeen == IF alu.q_should_branch THEN 1 ELSE core.core_state

Ready == core.i_ce_reg \/ i_ce

\* The block's registers after an edge out of reset: q_ce (fetch) and
\* q_debug_instr_clk (shown) are pulses and r_cpu_init is spent.
Clocked(pc, state, ready, fetch, shown) ==
  [pc |-> pc, core_state |-> state, r_cpu_init |-> FALSE, i_ce_reg |-> ready,
   q_ce |-> fetch, q_debug_instr_clk |-> shown]

CoreReset ==
  /\ i_reset
  /\ core' = [pc |-> 0, core_state |-> core.core_state, r_cpu_init |-> TRUE,
              i_ce_reg |-> core.i_ce_reg, q_ce |-> FALSE,
              q_debug_instr_clk |-> core.q_debug_instr_clk]

CoreHalted ==
  /\ ~i_reset /\ ctl.q_halt
  /\ core' = Clocked(core.pc, BranchSeen, Ready, FALSE, FALSE)

MayIssueUnstepped(step) == core.i_ce_reg                          \* mutant
MayIssueUnready(step)   == env.i_mode = 0 \/ step                 \* mutant

MayIssue(step) ==
  /\ core.i_ce_reg
  /\ env.i_mode = 0 \/ (env.i_mode = 1 /\ step)

Running(state) == ~i_reset /\ ~ctl.q_halt /\ core.core_state = state

CoreIssueKeepsToken(step) ==                                      \* mutant
  /\ Running(0) /\ MayIssue(step)
  /\ core' = Clocked(Wrap(core.pc + 1), BranchSeen, Ready, TRUE, TRUE)

CoreIssue(step) ==
  /\ Running(0) /\ MayIssue(step)
  /\ core' = Clocked(Wrap(core.pc + 1), BranchSeen, FALSE, TRUE, TRUE)

CoreWait(step) ==
  /\ Running(0) /\ ~MayIssue(step)
  /\ core' = Clocked(core.pc, BranchSeen, Ready, FALSE, FALSE)

CoreBranchLoad ==
  /\ Running(1)
  /\ core' = Clocked(alu.q_result, 2, Ready, FALSE, FALSE)

CoreBranchDelay ==
  \E state \in {2, 3} :
    /\ Running(state)
    /\ core' = Clocked(core.pc, state + 1, Ready, FALSE, FALSE)

CoreBranchFetchCounts ==                                          \* mutant
  /\ Running(4)
  /\ core' = Clocked(Wrap(core.pc + 1), 0, Ready, TRUE, FALSE)

CoreBranchFetch ==
  /\ Running(4)
  /\ core' = Clocked(core.pc, 0, Ready, TRUE, FALSE)

CoreControl(step) ==
  \/ CoreReset
  \/ CoreHalted
  \/ CoreIssue(step)
  \/ CoreWait(step)
  \/ CoreBranchLoad
  \/ CoreBranchDelay
  \/ CoreBranchFetch
-----------------------------------------------------------------------------
(* The memory port: a data access holds the ALU's address for two edges,   *)
(* the second of which raises r_mem_i_ce; otherwise the port follows pc.   *)
WriteBackAlu == alu.q_result                                      \* mutant

WriteBackOperand == IF lmem.q_ce_reg THEN lmem.q_mem_douta ELSE alu.q_result

MemPort ==
  LET second == port.r_mem_int_i_ce /\ ~alu.q_ce_ram
  IN  port' = [r_mem_addr     |-> IF alu.q_ce_ram THEN alu.q_result
                                  ELSE IF second THEN port.r_mem_addr ELSE core.pc,
               r_mem_int_i_ce |-> alu.q_ce_ram,
               r_mem_i_ce     |-> second \/ (alu.q_ce_ram /\ port.r_mem_i_ce),
               r_reg_dina     |-> WriteBackOperand]

LmemTickNoClear ==                                                \* mutant
  LET access == core.q_ce \/ port.r_mem_i_ce
      cell   == MemIndex(port.r_mem_addr)
  IN  /\ r_lmem' = IF access /\ r_lmem_we
                   THEN [r_lmem EXCEPT ![cell] = regs.q_data] ELSE r_lmem
      /\ lmem' = [q_ce_dec    |-> core.q_ce,
                  q_ce_reg    |-> port.r_mem_i_ce /\ ~core.q_ce,
                  q_mem_douta |-> IF access THEN r_lmem[cell] ELSE lmem.q_mem_douta]

(* prco_lmem: one access per pulse; a pulse that is up is taken down, even *)
(* when the block has just raised it again.                                *)
LmemTick ==
  LET access == core.q_ce \/ port.r_mem_i_ce
      cell   == MemIndex(port.r_mem_addr)
      spent  == lmem.q_ce_dec \/ lmem.q_ce_reg
  IN  /\ r_lmem' = IF access /\ r_lmem_we
                   THEN [r_lmem EXCEPT ![cell] = regs.q_data] ELSE r_lmem
      /\ lmem' = [q_ce_dec    |-> core.q_ce /\ ~spent,
                  q_ce_reg    |-> port.r_mem_i_ce /\ ~core.q_ce /\ ~spent,
                  q_mem_douta |-> IF access THEN r_lmem[cell] ELSE lmem.q_mem_douta]

\* The decoder's outputs for a word.
Latched(w) ==
  [q_instr  |-> w, q_sela |-> SelA(w), q_reg_we |-> RegWe(Op(w)), q_req_ram |-> ReqRam(Op(w)),
   q_req_ram_we |-> ReqRamWe(Op(w)), q_new_uart1_data |-> NewUart(Op(w)), q_halt |-> Halts(Op(w))]

(* prco_decoder: NOP and the unknown opcodes hand the token back to the    *)
(* core (q_fetch), the others pass it to the registers (q_ce).             *)
DecoderTick ==
  LET instr == lmem.q_mem_douta
      op    == Op(instr)
  IN  /\ dec' = [q_ce    |-> lmem.q_ce_dec /\ ~SkipsAlu(op) /\ ~dec.q_ce,
                 q_fetch |-> lmem.q_ce_dec /\ SkipsAlu(op) /\ ~dec.q_fetch]
      /\ ctl' = IF lmem.q_ce_dec THEN Latched(instr) ELSE ctl

(* prco_regs: reset clears the registers; otherwise any pulse, or a write  *)
(* enable, reads both ports (the values before the write) and the three    *)
(* incoming pulses are told apart in the order ALU, decoder, memory.       *)
RegsReset ==
  /\ i_reset
  /\ r_regs' = [r \in Reg |-> IF r = REG_SP THEN 255 ELSE 0]
  /\ regs' = [q_ce_alu |-> FALSE, q_ce_fetch |-> ~(regs.q_ce_alu \/ regs.q_ce_fetch),
              q_data |-> 0, q_datb |-> 0]

RegsAccess ==
  LET access == dec.q_ce \/ lmem.q_ce_reg \/ alu.q_ce_reg \/ r_reg_we
      spent  == regs.q_ce_alu \/ regs.q_ce_fetch
      rd     == Rd(ctl.q_instr)
  IN  /\ ~i_reset
      /\ r_regs' = IF r_reg_we
                   THEN [r_regs EXCEPT ![rd] = port.r_reg_dina] ELSE r_regs
      /\ regs' = [q_ce_alu   |-> dec.q_ce /\ ~alu.q_ce_reg /\ ~spent,
                  q_ce_fetch |-> /\ alu.q_ce_reg \/ (lmem.q_ce_reg /\ ~dec.q_ce)
                                 /\ ~spent,
                  q_data |-> IF access THEN r_regs[rd] ELSE regs.q_data,
                  q_datb |-> IF access THEN r_regs[ctl.q_sela] ELSE regs.q_datb]

RegsTick == RegsReset \/ RegsAccess

(* prco_alu                                                                *)
AluTick ==
  LET w     == ctl.q_instr
      jumps == /\ Op(w) = OP_JMP
               /\ func_alu_should_jmp(Imm8(w), r_sr)
      spent == alu.q_ce_ram \/ alu.q_ce_reg \/ alu.q_should_branch
  IN  /\ alu' = [q_ce_ram |-> regs.q_ce_alu /\ ctl.q_req_ram /\ ~spent,
                 q_ce_reg |-> regs.q_ce_alu /\ ~ctl.q_req_ram /\ ~spent,
                 q_should_branch |-> regs.q_ce_alu /\ jumps /\ ~spent,
                 q_result |-> IF regs.q_ce_alu
                              THEN AluResult(Op(w), regs.q_data, regs.q_datb,
                                             Imm8(w), Simm5(w), r_sr)
                              ELSE alu.q_result]
      /\ r_sr' = IF regs.q_ce_alu /\ Op(w) = OP_CMP
                 THEN func_alu_cmp(regs.q_data, regs.q_datb) ELSE r_sr

(* The board: i_reset falls once and stays low; a step pulse lasts one     *)
(* edge and the debouncer keeps two of them StepGap edges apart.           *)
StepAllowed == env.i_mode = 1 /\ env.wait = 0

EnvTick(step) ==
  env' = [i_mode |-> env.i_mode,
          reset  |-> Max0(env.reset - 1),
          wait   |-> IF step THEN StepGap ELSE Max0(env.wait - 1)]

Tick(step) ==
  /\ CoreControl(step)
  /\ MemPort
  /\ LmemTick
  /\ DecoderTick
  /\ RegsTick
  /\ AluTick
  /\ EnvTick(step)

Next == \E step \in BOOLEAN : (step => StepAllowed) /\ Tick(step)

Spec == Init /\ [][Next]_vars
-----------------------------------------------------------------------------
CoreType == [pc : Word, core_state : 0 .. 4, r_cpu_init : BOOLEAN,
             i_ce_reg : BOOLEAN, q_ce : BOOLEAN, q_debug_instr_clk : BOOLEAN]
PortType == [r_mem_addr : Word, r_mem_int_i_ce : BOOLEAN, r_mem_i_ce : BOOLEAN,
             r_reg_dina : Word]
LmemType == [q_ce_dec : BOOLEAN, q_ce_reg : BOOLEAN, q_mem_douta : Word]
DecType  == [q_ce : BOOLEAN, q_fetch : BOOLEAN]
CtlType  == [q_instr : Word, q_sela : Reg, q_reg_we : BOOLEAN, q_req_ram : BOOLEAN,
             q_req_ram_we : BOOLEAN, q_new_uart1_data : BOOLEAN, q_halt : BOOLEAN]
RegsType == [q_ce_alu : BOOLEAN, q_ce_fetch : BOOLEAN, q_data : Word, q_datb : Word]
AluType  == [q_ce_reg : BOOLEAN, q_ce_ram : BOOLEAN, q_result : Word,
             q_should_branch : BOOLEAN]
EnvType  == [i_mode : Modes, reset : 0 .. MaxResetCycles, wait : 0 .. StepGap]

(* Every register keeps a value of its width, whatever the program does.   *)
TypeOK ==
  /\ core \in CoreType
  /\ port \in PortType
  /\ lmem \in LmemType
  /\ r_lmem \in [0 .. MemDepth - 1 -> Word]
  /\ dec \in DecType
  /\ ctl \in CtlType
  /\ regs \in RegsType
  /\ r_regs \in [Reg -> Word]
  /\ alu \in AluType
  /\ r_sr \in Flags
  /\ env \in EnvType

(* The pulses that say a module behind the fetch is working.               *)
Working ==
  <<dec.q_ce, dec.q_fetch, regs.q_ce_alu, alu.q_ce_reg, alu.q_ce_ram,
    port.r_mem_int_i_ce, port.r_mem_i_ce, lmem.q_ce_reg, regs.q_ce_fetch>>

(* No two instructions are ever past the fetch at the same time: the ring  *)
(* of enables holds one token, although a taken branch pulses the fetch    *)
(* twice.                                                                  *)
OneInstruction ==
  \A i, j \in DOMAIN Working : Working[i] /\ Working[j] => i = j

(* In free-running mode no fetch starts while an instruction is past the   *)
(* decoder, so a store is in memory before the next word is read.          *)
FetchAlone ==
  env.i_mode = 0 /\ (core.q_ce \/ lmem.q_ce_dec)
    => \A i \in DOMAIN Working : ~Working[i]

(* In free-running mode the word handed to the decoder is the one at the   *)
(* address pc has just left, after a taken branch too, where pc is loaded  *)
(* three edges after the jump and incremented by the second fetch pulse.   *)
DecodesWordBeforePc ==
  env.i_mode = 0 /\ lmem.q_ce_dec
    => lmem.q_mem_douta = r_lmem[MemIndex(Wrap(core.pc - 1))]

-----------------------------------------------------------------------------
(* The strengthening behind OneInstruction.  The token is past the fetch in *)
(* stage n, or nowhere there when n = 0.                                   *)
Stage(n) ==
  /\ dec.q_ce <=> n = 1
  /\ dec.q_fetch <=> n = 2
  /\ regs.q_ce_alu <=> n = 3
  /\ alu.q_ce_reg <=> n = 4
  /\ alu.q_ce_ram <=> n = 5
  /\ port.r_mem_int_i_ce <=> n = 6
  /\ port.r_mem_i_ce <=> n = 7
  /\ lmem.q_ce_reg <=> n = 8
  /\ regs.q_ce_fetch <=> n = 9
  /\ alu.q_should_branch => n = 4

\* The fetch side: i_ce_reg, q_ce and lmem's q_ce_dec, out of reset.
Front(ready, fetch, decode) ==
  /\ core.i_ce_reg <=> ready
  /\ core.q_ce <=> fetch
  /\ lmem.q_ce_dec <=> decode
  /\ ~i_reset /\ ~core.r_cpu_init

PhaseReset ==
  /\ i_reset \/ core.r_cpu_init
  /\ ~core.i_ce_reg /\ ~core.q_ce /\ ~lmem.q_ce_dec
  /\ core.core_state = 0 /\ ~ctl.q_halt
  /\ Stage(0) \/ Stage(9)

PhaseReady  == Front(TRUE, FALSE, FALSE) /\ Stage(0) /\ core.core_state = 0
PhaseFetch  == Front(FALSE, TRUE, FALSE) /\ Stage(0) /\ core.core_state = 0 /\ ~ctl.q_halt
PhaseDecode == Front(FALSE, FALSE, TRUE) /\ Stage(0) /\ core.core_state = 0 /\ ~ctl.q_halt

PhaseWork ==
  \E n \in 1 .. 9 :
    /\ Front(FALSE, FALSE, FALSE) /\ Stage(n)
    /\ core.core_state = 0 \/ (core.core_state = 1 /\ n = 9)
    /\ ctl.q_halt => n = 2

\* A taken branch waits for its target to reach the memory port, then pulses
\* q_ce with i_ce_reg still up, and so pulses it again on the next edge.
PhaseBranch   == /\ Front(TRUE, FALSE, FALSE) /\ Stage(0)
                 /\ core.core_state \in 2 .. 4 /\ ~ctl.q_halt
PhaseRefetch  == Front(TRUE, TRUE, FALSE) /\ Stage(0) /\ core.core_state = 0 /\ ~ctl.q_halt
PhaseRedecode == Front(FALSE, TRUE, TRUE) /\ Stage(0) /\ core.core_state = 0 /\ ~ctl.q_halt

Phases == \/ PhaseReset \/ PhaseReady \/ PhaseFetch \/ PhaseDecode \/ PhaseWork
          \/ PhaseBranch \/ PhaseRefetch \/ PhaseRedecode

(* Free running, the enables hold one token, in one of eight phases; the   *)
(* decoder's RAM request agrees with the opcode the ALU sees.              *)
TokenInv ==
  /\ ctl.q_req_ram <=> ReqRam(Op(ctl.q_instr))
  /\ env.i_mode = 0 => Phases

\* Stepping, with no jump taken: the core rests in PhaseReady between two
\* instructions, and while one is under way i_step is still barred.
Stepped ==
  \/ PhaseReset \/ PhaseReady
  \/ PhaseFetch /\ env.wait = StepGap
  \/ PhaseDecode /\ env.wait = StepGap - 1
  \/ \E n \in 1 .. 9 :
       /\ Front(FALSE, FALSE, FALSE) /\ Stage(n) /\ core.core_state = 0
       /\ ctl.q_halt => n = 2
       /\ env.wait >= StepGap - 1 - n
-----------------------------------------------------------------------------
(* In free-running mode instructions keep being issued until one halts.    *)
KeepsIssuing ==
  env.i_mode = 0 => []<>core.q_debug_instr_clk \/ <>[]ctl.q_halt
=============================================================================
