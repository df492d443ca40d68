--------------------------- MODULE PrcoIsa_proofs ---------------------------
(* The decoder's fields and the ALU's results fit the registers that take  *)
(* them, for every 16-bit word, and what the compiler encodes is what the  *)
(* decoder reads, for every operand.                                       *)
EXTENDS Encoders, TLAPS

(* Words are integers of 16 bits; the bytes are among them.                *)
LEMMA WordRange ==
  /\ \A w \in Word : w \in Int /\ 0 <= w /\ w <= 65535
  /\ \A i \in 0 .. 255 : i \in Word
<1>1. \A w \in Word : w \in Int /\ 0 <= w /\ w <= 65535
  BY SMTT(30) DEF Word
<1>2. \A i \in 0 .. 255 : i \in Word
  BY SMTT(30) DEF Word
<1>. QED
  BY <1>1, <1>2

(* A 16-bit register holds a word whatever integer is assigned to it.      *)
LEMMA WrapType == ASSUME NEW i \in Int PROVE Wrap(i) \in Word
  BY SMTT(30) DEF Wrap, Word

(* The words the core's resets and constants use, and what incrementing   *)
(* an address yields.                                                      *)
LEMMA WordFacts ==
  /\ 0 \in Word /\ 255 \in Word
  /\ \A w \in Word : Wrap(w + 1) \in Word
  BY WordRange, WrapType

(* An address incremented and decremented is the address.                  *)
LEMMA WrapBack ==
  ASSUME NEW w \in Word
  PROVE  Wrap(Wrap(w + 1) - 1) = w
<1>1. w \in Int /\ 0 <= w /\ w <= 65535
  BY WordRange
<1>2. CASE w = 65535
  <2>1. Wrap(w + 1) = 0
    BY <1>2 DEF Wrap
  <2>2. \A i \in Int : -65536 <= i /\ i < 0 => Wrap(i) = i + 65536
    BY DEF Wrap
  <2>3. PICK i \in Int : i = Wrap(w + 1) - 1
    BY <2>1
  <2>. QED
    BY <1>2, <2>1, <2>2, <2>3
<1>3. CASE w < 65535
  <2>1. (w + 1) % 65536 = w + 1 /\ w % 65536 = w
    BY <1>1, <1>3
  <2>. QED
    BY <1>1, <2>1 DEF Wrap
<1>. QED
  BY <1>1, <1>2, <1>3

(* The register selects and immediates of a word are in range.             *)
LEMMA FieldTypes ==
  ASSUME NEW w \in Word
  PROVE  /\ Op(w) \in 0 .. 31
         /\ Rd(w) \in Reg
         /\ Ra(w) \in Reg
         /\ SelA(w) \in Reg
         /\ Imm8(w) \in 0 .. 255
         /\ Simm5(w) \in 0 .. 31
<1>0. w \in Int /\ 0 <= w /\ w <= 65535
  BY WordRange
<1>1. Op(w) \in 0 .. 31
  BY <1>0 DEF Op
<1>2. \A n \in Int : n % 8 \in Reg
  BY DEF Reg
<1>3. w \div 256 \in Int /\ w \div 32 \in Int
  BY <1>0
<1>4. Rd(w) \in Reg /\ Ra(w) \in Reg
  BY <1>2, <1>3 DEF Rd, Ra
<1>5. SelA(w) \in Reg
  BY <1>4 DEF SelA
<1>6. Imm8(w) \in 0 .. 255 /\ Simm5(w) \in 0 .. 31
  BY <1>0 DEF Imm8, Simm5
<1>7. QED
  BY <1>1, <1>4, <1>5, <1>6

(* What a UART is handed of a word.                                        *)
LEMMA LowByte == \A w \in Word : w % 256 \in 0 .. 255
<1>1. \A w \in Word : Imm8(w) \in 0 .. 255
  BY FieldTypes
<1>. QED
  BY <1>1 DEF Imm8

(* CMP yields three Booleans.                                              *)
LEMMA CmpType ==
  ASSUME NEW data \in Word, NEW datb \in Word
  PROVE  func_alu_cmp(data, datb) \in Flags
  BY DEF func_alu_cmp, Flags

(* q_result is a word for every opcode.                                    *)
LEMMA AluResultType ==
  ASSUME NEW op \in 0 .. 31, NEW data \in Word, NEW datb \in Word,
         NEW imm8 \in 0 .. 255, NEW simm5 \in 0 .. 31, NEW sr \in Flags
  PROVE  AluResult(op, data, datb, imm8, simm5, sr) \in Word
<1>1. data \in Int /\ datb \in Int /\ Signed8(imm8) \in Int /\ Signed5(simm5) \in Int
  BY WordRange DEF Signed8, Signed5
<1>2. /\ Wrap(datb + Signed5(simm5)) \in Word
      /\ Wrap(data + datb) \in Word
      /\ Wrap(data + Signed8(imm8)) \in Word
      /\ Wrap(data - Signed8(imm8)) \in Word
  BY <1>1, WrapType
<1>3. imm8 \in Word /\ 0 \in Word /\ 1 \in Word
  BY WordRange
<1>4. QED
  BY <1>2, <1>3 DEF AluResult
-----------------------------------------------------------------------------
(* The fields of a word put together from them.                            *)
Packed(o, rd, low) == o * 2048 + rd * 256 + low

LEMMA FieldsOfPacked ==
  ASSUME NEW o \in 0 .. 31, NEW rd \in Reg, NEW low \in 0 .. 255
  PROVE  /\ Packed(o, rd, low) \in Word
         /\ Op(Packed(o, rd, low)) = o
         /\ Rd(Packed(o, rd, low)) = rd
         /\ Imm8(Packed(o, rd, low)) = low
<1>1. rd \in 0 .. 7
  BY DEF Reg
<1>2. Packed(o, rd, low) \in Int /\ Packed(o, rd, low) % 65536 = Packed(o, rd, low)
  BY <1>1 DEF Packed
<1>3. Packed(o, rd, low) \in Word
  BY <1>2, WrapType DEF Wrap
<1>4. Packed(o, rd, low) \div 2048 = o
  BY <1>1 DEF Packed
<1>5. Packed(o, rd, low) \div 256 = o * 8 + rd
  BY <1>1 DEF Packed
<1>6. (o * 8 + rd) % 8 = rd
  BY <1>1
<1>7. Packed(o, rd, low) % 256 = low
  BY <1>1 DEF Packed
<1>8. QED
  BY <1>3, <1>4, <1>5, <1>6, <1>7 DEF Op, Rd, Imm8

(* What assert_opcode (prco_isa.c) asserts of a word with two registers,   *)
(* and that the signed field comes back as it went in.                     *)
THEOREM RegistersEncoded ==
  ASSUME NEW o \in 0 .. 31, NEW rd \in Reg, NEW ra \in Reg, NEW simm5 \in Int
  PROVE  LET w == opcode_rr(o, rd, ra, simm5)
         IN  /\ w \in Word /\ Op(w) = o /\ Rd(w) = rd /\ Ra(w) = ra
             /\ Signed5(Simm5(w)) = simm5 <=> simm5 \in -16 .. 15
<1>1. rd \in 0 .. 7 /\ ra \in 0 .. 7
  BY DEF Reg
<1>2. PICK five \in 0 .. 31 : five = simm5 % 32
  OBVIOUS
<1>3. PICK low \in 0 .. 255 : low = ra * 32 + five
  BY <1>1, <1>2
<1>4. opcode_rr(o, rd, ra, simm5) = Packed(o, rd, low)
  BY <1>1, <1>2, <1>3 DEF opcode_rr, Packed
<1>5. Ra(Packed(o, rd, low)) = ra /\ Simm5(Packed(o, rd, low)) = five
  <2>1. /\ Packed(o, rd, low) \div 32 = o * 64 + rd * 8 + ra
        /\ Packed(o, rd, low) % 32 = five
    BY <1>1, <1>2, <1>3 DEF Packed
  <2>2. (o * 64 + rd * 8 + ra) % 8 = ra
    BY <1>1
  <2>3. QED
    BY <2>1, <2>2 DEF Ra, Simm5
<1>6. Signed5(five) = simm5 <=> simm5 \in -16 .. 15
  BY <1>2 DEF Signed5
<1>7. /\ Packed(o, rd, low) \in Word
      /\ Op(Packed(o, rd, low)) = o /\ Rd(Packed(o, rd, low)) = rd
  BY FieldsOfPacked
<1>8. QED
  BY ONLY <1>4, <1>5, <1>6, <1>7

(* The same of a word with a register and an immediate: the field is read  *)
(* back unsigned by MOVI and WRITE and signed by ADDI and SUBI, and every  *)
(* value outside the field's range comes back as another one.              *)
THEOREM ImmediatesEncoded ==
  ASSUME NEW o \in 0 .. 31, NEW rd \in Reg, NEW imm8 \in Int
  PROVE  LET w == opcode_ri(o, rd, imm8)
         IN  /\ w \in Word /\ Op(w) = o /\ Rd(w) = rd
             /\ Imm8(w) = imm8 <=> imm8 \in 0 .. 255
             /\ Signed8(Imm8(w)) = imm8 <=> imm8 \in -128 .. 127
<1>1. rd \in Int
  BY DEF Reg
<1>2. PICK low \in 0 .. 255 : low = imm8 % 256
  OBVIOUS
<1>3. opcode_ri(o, rd, imm8) = Packed(o, rd, low)
  BY <1>1, <1>2 DEF opcode_ri, Packed
<1>4. low = imm8 <=> imm8 \in 0 .. 255
  BY <1>2
<1>5. Signed8(low) = imm8 <=> imm8 \in -128 .. 127
  BY <1>2 DEF Signed8
<1>6. /\ Packed(o, rd, low) \in Word /\ Op(Packed(o, rd, low)) = o
      /\ Rd(Packed(o, rd, low)) = rd /\ Imm8(Packed(o, rd, low)) = low
  BY FieldsOfPacked
<1>7. QED
  BY ONLY <1>3, <1>4, <1>5, <1>6
=============================================================================
