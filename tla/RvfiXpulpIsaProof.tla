------------------------- MODULE RvfiXpulpIsaProof -------------------------
(***************************************************************************)
(* Proofs about the isa_<isa>.v modules of a core with the CORE-V          *)
(* instructions, for every word and operands that fit the ports: the word  *)
(* determines the instruction, the comparisons, minima, maxima and bounds  *)
(* of words and lanes tell one order of their numbers, hardware loops take *)
(* what would go to the next instruction and nothing else, a model looks   *)
(* at the registers that it names, and the access after a post-increment   *)
(* is the indexed access.                                                  *)
(***************************************************************************)
EXTENDS RvfiXpulpIsa, RvfiInsnsProof

-----------------------------------------------------------------------------
(***************************************************************************)
(* Decoding: a word belongs to one generator, and its fields single out    *)
(* one row of the generator's table.                                       *)
(***************************************************************************)
\* The generator of a word, for the custom opcodes by the fields in which the
\* manual of CV32E40P encodes their instructions.
ByRegisters(funct7) ==
  LET high == funct7 \div 8
  IN  CASE high \in {0, 1} -> "l"
        [] high = 2 -> "s"
        [] high = 3 -> "bit_man_2"
        [] funct7 = 32 -> "ror"
        [] funct7 \in 33 .. 36 -> "bit_man_3"
        [] funct7 \in 40 .. 51 -> "gen_alu"
        [] high = 7 -> "clip"
        [] high = 8 -> "gen_alu_Nr"
        [] OTHER -> "mac32"
ByImmediates(funct2, funct3) ==
  CASE funct3 \in {2, 3} -> "gen_alu_N"
    [] funct3 >= 4 -> "mac16"
    [] funct3 = 1 /\ funct2 = 3 -> "bitrev"
    [] OTHER -> "bit_man_1"
OfVectors(funct5, funct1) ==
  CASE funct1 = 0 /\ funct5 \in 16 .. 21 -> "dot"
    [] funct1 = 0 /\ funct5 = 23 -> "ext_ins"
    [] funct1 = 0 /\ funct5 \in 24 .. 28 -> "shu"
    [] funct1 = 0 /\ funct5 \in {30, 31} -> "pack"
    [] funct1 = 1 /\ funct5 = 10 -> "cplxmul"
    [] funct1 = 1 /\ funct5 = 11 -> "cplxconj"
    [] funct1 = 1 /\ funct5 \in 12 .. 14 -> "cplxaddsub"
    [] OTHER -> "simd_alu"
Generator(w) ==
  LET op == Field(w, 6, 0)
      funct3 == Field(w, 14, 12)
  IN  CASE op = 11 -> IF funct3 \in {6, 7} THEN "b" ELSE "l"
        [] op = 43 -> IF funct3 = 3 THEN ByRegisters(Field(w, 31, 25)) ELSE "s"
        [] op = 91 -> ByImmediates(Field(w, 31, 30), funct3)
        [] op = 123 -> OfVectors(Field(w, 31, 27), Field(w, 26, 26))
        [] OTHER -> "base"

\* The row of the generator's table that the word names.
WidthCode(numbytes) == CASE numbytes = 1 -> 0 [] numbytes = 2 -> 1 [] numbytes = 4 -> 2
Names(w, n) ==
  LET gen == n[1]
      row == n[2]
      op == Field(w, 6, 0)
      funct2 == Field(w, 31, 30)
      funct3 == Field(w, 14, 12)
      funct5 == Field(w, 31, 27)
      funct1 == Field(w, 26, 26)
      funct7 == Field(w, 31, 25)
      bit25 == Field(w, 25, 25)
  IN  CASE gen = "base" -> row \in Decoded(w)
        [] gen = "l" ->
             IF op = 11 THEN CvLoads[row][1] = funct3
             ELSE /\ funct7 \div 8 = Bool(~CvLoads[row][3])
                  /\ funct7 % 4 = WidthCode(CvLoads[row][2])
        [] gen = "s" ->
             IF funct3 = 3 THEN funct7 % 4 = WidthCode(CvStores[row][2])
             ELSE CvStores[row][1] = funct3
        [] gen = "b" -> CvBranches[row][1] = funct3
        [] gen = "bit_man_1" -> BitMan1[row][1] = funct2 /\ BitMan1[row][2] = funct3
        [] gen = "bit_man_2" -> BitMan2[row] = funct7
        [] gen = "bit_man_3" -> BitMan3[row] = funct7
        [] gen = "gen_alu" -> GenAlu[row][1] = funct7
        [] gen = "clip" -> Clips[row][1] = funct7
        [] gen = "gen_alu_N" ->
             funct2 = 2 * Bool(row.R) + Bool(row.u) /\ funct3 = 2 + Bool(row.sub)
        [] gen = "gen_alu_Nr" -> funct7 = 64 + 4 * Bool(row.sub) + 2 * Bool(row.R) + Bool(row.u)
        [] gen = "mac16" ->
             /\ funct2 = 2 * Bool(row.R) + Bool(row.h)
             /\ funct3 = 4 + 2 * Bool(row.ac) + Bool(row.u)
        [] gen = "mac32" -> Macs32[row][1] = funct7
        [] gen = "simd_alu" ->
             /\ SimdOps[row[1]][1] = funct5 /\ SimdOps[row[1]][2] = funct1
             /\ FormFunct3(row[2], row[3]) = funct3
        [] gen = "ext_ins" -> ExtIns[row[1]] + Bool(~row[2]) = funct3
        [] gen = "dot" -> Dots[row[1]][1] = funct5 /\ FormFunct3(row[2], row[3]) = funct3
        [] gen = "shu" -> Shuffles[row][1] = funct5 /\ Shuffles[row][2] = funct3
        [] gen = "pack" ->
             /\ Packs[row][1] = funct5 /\ Packs[row][2] = funct3
             /\ Bool(Packs[row][4]) = bit25
        [] gen = "cplxmul" -> 2 * row.div = funct3 /\ Bool(row.im) = bit25
        [] gen = "cplxaddsub" -> CplxAddFunct5(row[1]) = funct5 /\ 2 * row[2] = funct3
        [] OTHER -> TRUE

\* The custom opcodes.
LEMMA CvOpcodes == CV0 = 11 /\ CV1 = 43 /\ CV2 = 91 /\ CV3 = 123
BY DEF CV0, CV1, CV2, CV3

\* The tag of a set of rows.
LEMMA InTagged ==
  ASSUME NEW n, NEW gen, NEW rows
  PROVE  n \in Tagged(gen, rows) <=> n = <<gen, n[2]>> /\ n[2] \in rows
BY DEF Tagged

\* The fields that the proofs compute with are numbers.
LEMMA FieldNumbers ==
  ASSUME NEW w \in InsnWords
  PROVE  /\ Field(w, 31, 25) \in Nat /\ Field(w, 31, 30) \in Nat
         /\ Field(w, 14, 12) \in Nat /\ Field(w, 31, 27) \in Nat
         /\ Field(w, 26, 26) \in Nat
BY WordParts, SMT DEF Field

\* The instructions are those of the tables.
LEMMA XIsaTables ==
  ASSUME NEW parts, NEW n
  PROVE  n \in XIsaOf(parts) <=>
       \/ n \in Tagged("base", IsaOf(parts))
       \/ n \in Tagged("l", DOMAIN CvLoads)
       \/ n \in Tagged("s", DOMAIN CvStores)
       \/ n \in Tagged("bit_man_1", DOMAIN BitMan1)
       \/ n \in Tagged("bitrev", {"cv_bitrev"})
       \/ n \in Tagged("bit_man_2", DOMAIN BitMan2)
       \/ n \in Tagged("ror", {"cv_ror"})
       \/ n \in Tagged("bit_man_3", DOMAIN BitMan3)
       \/ n \in Tagged("gen_alu", DOMAIN GenAlu)
       \/ n \in Tagged("clip", DOMAIN Clips)
       \/ n \in Tagged("gen_alu_N", Norms)
       \/ n \in Tagged("gen_alu_Nr", Norms)
       \/ n \in Tagged("b", DOMAIN CvBranches)
       \/ n \in Tagged("mac16", Macs)
       \/ n \in Tagged("mac32", DOMAIN Macs32)
       \/ n \in Tagged("simd_alu", SimdInsns)
       \/ n \in Tagged("ext_ins", (DOMAIN ExtIns) \X BOOLEAN)
       \/ n \in Tagged("dot", (DOMAIN Dots) \X Forms \X BOOLEAN)
       \/ n \in Tagged("shu", DOMAIN Shuffles)
       \/ n \in Tagged("pack", DOMAIN Packs)
       \/ n \in Tagged("cplxmul", CplxMuls)
       \/ n \in Tagged("cplxconj", {"cv_cplxconj"})
       \/ n \in Tagged("cplxaddsub", CplxAdds)
BY DEF XIsaOf, CvInsns

\* The rows of a base instruction leave the custom opcodes alone.
LEMMA BaseDecoding ==
  ASSUME NEW i, NEW w \in InsnWords, w = i.insn, NEW parts \in SUBSET {"I", "M", "C"},
         NEW n \in Tagged("base", IsaOf(parts)), XInsn(n, i).valid
  PROVE  n[1] = Generator(w) /\ Names(w, n)
<1>1. n = <<"base", n[2]>> /\ n[2] \in IsaOf(parts)
  BY InTagged
<1> DEFINE row == n[2]
           out == Insn(row, i)
<1>2. XInsn(n, i) = Loops(row, i, Extended(out))
  <2>1. n[1] = "base"
    BY <1>1
  <2> QED BY <2>1 DEF XInsn, InsnBase
<1> HIDE DEF row
<1>3. out.valid
  <2> HIDE DEF out
  <2> DEFINE e == Extended(out)
  <2>1. "valid" \in DOMAIN e /\ (e.valid => out.valid)
    BY DEF Extended
  <2> HIDE DEF e
  <2>2. Loops(row, i, e).valid => e.valid
    BY <2>1 DEF Loops
  <2> QED BY <1>2, <2>1, <2>2 DEF e
<1>4. row \in Decoded(w)
  BY <1>1, <1>3, Decoding DEF row
<1>5. Field(w, 6, 0) \notin {11, 43, 91, 123}
  <2>1. SUFFICES ASSUME Field(w, 6, 0) \in {11, 43, 91, 123} PROVE FALSE
    OBVIOUS
  <2>2. Field(w, 1, 0) = 3
    BY <2>1, SubFields
  <2>3. Base(w) = {}
    BY <2>1 DEF Base
  <2> QED BY <1>4, <2>2, <2>3 DEF Decoded
<1>6. Generator(w) = "base"
  BY <1>5 DEF Generator
<1>7. n[1] = "base" /\ n[2] = row
  BY <1>1 DEF row
<1> HIDE DEF Generator
<1> QED BY <1>4, <1>6, <1>7 DEF Names

\* A model that reports spec_valid is of the generator and in the row that the
\* word names.
LEMMA XDecoding ==
  ASSUME NEW i, NEW w \in InsnWords, w = i.insn, NEW parts \in SUBSET {"I", "M", "C"},
         NEW n \in XIsaOf(parts), XInsn(n, i).valid
  PROVE  n[1] = Generator(w) /\ Names(w, n)
<1>1. CASE n \in Tagged("base", IsaOf(parts))
  BY <1>1, BaseDecoding
<1>2. CASE n \in Tagged("l", DOMAIN CvLoads)
  <2> DEFINE row == n[2]
  <2>1. n = <<"l", row>> /\ row \in DOMAIN CvLoads
    BY <1>2, InTagged
  <2> HIDE DEF row
  <2>2. InsnCvL(CvLoads[row], i).valid
    BY <2>1 DEF XInsn
  <2>3. /\ \/ Field(w, 14, 12) = 3 /\ Field(w, 6, 0) = 43
           \/ Field(w, 14, 12) = CvLoads[row][1] /\ Field(w, 6, 0) = 11
        /\ RegFunct7(FormatPl(w), IF CvLoads[row][3] THEN 0 ELSE 1, CvLoads[row][2])
    BY <2>2, CvOpcodes DEF InsnCvL, Blank, FormatPl
  <2>4. CASE Field(w, 6, 0) = 11
    <3>1. Field(w, 14, 12) = CvLoads[row][1]
      BY <2>3, <2>4
    <3>2. Field(w, 14, 12) \notin {6, 7}
      BY <2>1, <3>1 DEF CvLoads
    <3>3. Generator(w) = "l"
      BY <2>4, <3>2 DEF Generator
    <3>4. Names(w, n)
      BY <2>1, <2>4, <3>1 DEF Names
    <3> QED BY <2>1, <3>3, <3>4
  <2>5. CASE Field(w, 6, 0) = 43
    <3> DEFINE f == FormatPl(w)
               x == Field(w, 31, 25)
               bytes == CvLoads[row][2]
               high == (IF CvLoads[row][3] THEN 0 ELSE 1)
    <3>1. Field(w, 14, 12) = 3 /\ x \in Nat
      BY <2>3, <2>5, FieldNumbers
    <3>2. f.funct3 = 3 /\ f.funct7 = x
      BY <3>1 DEF FormatPl
    <3> HIDE DEF f
    <3>3. RegForm(f)
      BY <3>2 DEF RegForm
    <3>4. RegFunct7(f, high, bytes)
      BY <2>3 DEF f
    <3> HIDE DEF bytes
    <3>5. x \div 8 = high /\ x % 4 = WidthCode(bytes)
      BY <3>2, <3>3, <3>4 DEF RegFunct7, WidthCode
    <3>6. ByRegisters(x) = "l"
      BY <3>1, <3>5 DEF ByRegisters
    <3>7. Generator(w) = "l"
      BY <2>3, <2>5, <3>1, <3>6 DEF Generator
    <3>8. Names(w, n)
      BY <2>1, <2>5, <3>1, <3>5 DEF Names, Bool, bytes
    <3> QED BY <2>1, <3>7, <3>8
  <2> QED BY <2>3, <2>4, <2>5
<1>3. CASE n \in Tagged("s", DOMAIN CvStores)
  <2> DEFINE row == n[2]
  <2>1. n = <<"s", row>> /\ row \in DOMAIN CvStores
    BY <1>3, InTagged
  <2> HIDE DEF row
  <2>2. InsnCvS(CvStores[row], i).valid
    BY <2>1 DEF XInsn
  <2>3. /\ Field(w, 6, 0) = 43 /\ Field(w, 14, 12) \in {3, CvStores[row][1]}
        /\ RegFunct7(FormatPs(w), 2, CvStores[row][2])
    BY <2>2, CvOpcodes DEF InsnCvS, Blank, FormatPs
  <2>4. CASE Field(w, 14, 12) /= 3
    <3>1. CvStores[row][1] = Field(w, 14, 12)
      BY <2>3, <2>4
    <3>2. Generator(w) = "s"
      BY <2>3, <2>4 DEF Generator
    <3>3. Names(w, n)
      BY <2>1, <2>4, <3>1 DEF Names
    <3> QED BY <2>1, <3>2, <3>3
  <2>5. CASE Field(w, 14, 12) = 3
    <3> DEFINE f == FormatPs(w)
               x == Field(w, 31, 25)
               bytes == CvStores[row][2]
               high == 2
    <3>1. Field(w, 14, 12) = 3 /\ x \in Nat
      BY <2>3, <2>5, FieldNumbers
    <3>2. f.funct3 = 3 /\ f.funct7 = x
      BY <3>1 DEF FormatPs
    <3> HIDE DEF f
    <3>3. RegForm(f)
      BY <3>2 DEF RegForm
    <3>4. RegFunct7(f, high, bytes)
      BY <2>3 DEF f
    <3> HIDE DEF bytes
    <3>5. x \div 8 = high /\ x % 4 = WidthCode(bytes)
      BY <3>2, <3>3, <3>4 DEF RegFunct7, WidthCode
    <3>6. ByRegisters(x) = "s"
      BY <3>1, <3>5 DEF ByRegisters
    <3>7. Generator(w) = "s"
      BY <2>3, <2>5, <3>1, <3>6 DEF Generator
    <3>8. Names(w, n)
      BY <2>1, <2>5, <3>1, <3>5 DEF Names, Bool, bytes
    <3> QED BY <2>1, <3>7, <3>8
  <2> QED BY <2>4, <2>5
<1>4. CASE n \in Tagged("bit_man_1", DOMAIN BitMan1)
  <2> DEFINE row == n[2]
  <2>1. n = <<"bit_man_1", row>> /\ row \in DOMAIN BitMan1
    BY <1>4, InTagged
  <2> HIDE DEF row
  <2>2. InsnCvBitMan1(row, i).valid
    BY <2>1 DEF XInsn
  <2>3. Field(w, 6, 0) = 91 /\ Field(w, 31, 30) = BitMan1[row][1] /\ Field(w, 14, 12) = BitMan1[row][2]
    BY <2>2, CvOpcodes DEF InsnCvBitMan1, Computes, Blank, FormatCvBitMan
  <2>4. Field(w, 14, 12) \in {0, 1} /\ ~(Field(w, 31, 30) = 3 /\ Field(w, 14, 12) = 1)
    BY <2>1, <2>3 DEF BitMan1
  <2>5. Generator(w) = "bit_man_1"
    BY <2>3, <2>4 DEF Generator, ByImmediates
  <2>6. Names(w, n)
    BY <2>1, <2>3 DEF Names
  <2> QED BY <2>1, <2>5, <2>6
<1>5. CASE n \in Tagged("bitrev", {"cv_bitrev"})
  <2> DEFINE row == n[2]
  <2>1. n = <<"bitrev", row>> /\ row \in {"cv_bitrev"}
    BY <1>5, InTagged
  <2> HIDE DEF row
  <2>2. InsnCvBitrev(i).valid
    BY <2>1 DEF XInsn
  <2>3. Field(w, 6, 0) = 91 /\ Field(w, 31, 30) = 3 /\ Field(w, 14, 12) = 1
    BY <2>2, CvOpcodes DEF InsnCvBitrev, Computes, Blank, FormatCvBitMan
  <2>4. Field(w, 14, 12) = 1 /\ Field(w, 31, 30) = 3
    BY <2>1, <2>3
  <2>5. Generator(w) = "bitrev"
    BY <2>3, <2>4 DEF Generator, ByImmediates
  <2>6. Names(w, n)
    BY <2>1, <2>3 DEF Names
  <2> QED BY <2>1, <2>5, <2>6
<1>6. CASE n \in Tagged("bit_man_2", DOMAIN BitMan2)
  <2> DEFINE row == n[2]
  <2>1. n = <<"bit_man_2", row>> /\ row \in DOMAIN BitMan2
    BY <1>6, InTagged
  <2> HIDE DEF row
  <2>2. InsnCvBitMan2(row, i).valid
    BY <2>1 DEF XInsn
  <2>3. Field(w, 6, 0) = 43 /\ Field(w, 31, 25) = BitMan2[row] /\ Field(w, 14, 12) = 3
    BY <2>2, CvOpcodes DEF InsnCvBitMan2, Computes, Blank, FormatR, KnownCv1
  <2>4. Field(w, 14, 12) = 3 /\ Field(w, 31, 25) \in 24 .. 31
    BY <2>1, <2>3 DEF BitMan2
  <2>5. Generator(w) = "bit_man_2"
    BY <2>3, <2>4 DEF Generator, ByRegisters
  <2>6. Names(w, n)
    BY <2>1, <2>3 DEF Names
  <2> QED BY <2>1, <2>5, <2>6
<1>7. CASE n \in Tagged("ror", {"cv_ror"})
  <2> DEFINE row == n[2]
  <2>1. n = <<"ror", row>> /\ row \in {"cv_ror"}
    BY <1>7, InTagged
  <2> HIDE DEF row
  <2>2. InsnCvRor(i).valid
    BY <2>1 DEF XInsn
  <2>3. Field(w, 6, 0) = 43 /\ Field(w, 31, 25) = 32 /\ Field(w, 14, 12) = 3
    BY <2>2, CvOpcodes DEF InsnCvRor, Computes, Blank, FormatR, KnownCv1
  <2>4. Field(w, 14, 12) = 3 /\ Field(w, 31, 25) = 32
    BY <2>1, <2>3
  <2>5. Generator(w) = "ror"
    BY <2>3, <2>4 DEF Generator, ByRegisters
  <2>6. Names(w, n)
    BY <2>1, <2>3 DEF Names
  <2> QED BY <2>1, <2>5, <2>6
<1>8. CASE n \in Tagged("bit_man_3", DOMAIN BitMan3)
  <2> DEFINE row == n[2]
  <2>1. n = <<"bit_man_3", row>> /\ row \in DOMAIN BitMan3
    BY <1>8, InTagged
  <2> HIDE DEF row
  <2>2. InsnCvBitMan3(row, i).valid
    BY <2>1 DEF XInsn
  <2>3. Field(w, 6, 0) = 43 /\ Field(w, 31, 25) = BitMan3[row] /\ Field(w, 14, 12) = 3
    BY <2>2, CvOpcodes DEF InsnCvBitMan3, Computes, Blank, FormatR, KnownCv1
  <2>4. Field(w, 14, 12) = 3 /\ Field(w, 31, 25) \in 33 .. 36
    BY <2>1, <2>3 DEF BitMan3
  <2>5. Generator(w) = "bit_man_3"
    BY <2>3, <2>4 DEF Generator, ByRegisters
  <2>6. Names(w, n)
    BY <2>1, <2>3 DEF Names
  <2> QED BY <2>1, <2>5, <2>6
<1>9. CASE n \in Tagged("gen_alu", DOMAIN GenAlu)
  <2> DEFINE row == n[2]
  <2>1. n = <<"gen_alu", row>> /\ row \in DOMAIN GenAlu
    BY <1>9, InTagged
  <2> HIDE DEF row
  <2>2. InsnCvGenAlu(row, i).valid
    BY <2>1 DEF XInsn
  <2>3. Field(w, 6, 0) = 43 /\ Field(w, 31, 25) = GenAlu[row][1] /\ Field(w, 14, 12) = 3
    BY <2>2, CvOpcodes DEF InsnCvGenAlu, Computes, Blank, FormatR, KnownCv1
  <2>4. Field(w, 14, 12) = 3 /\ Field(w, 31, 25) \in 40 .. 51
    BY <2>1, <2>3 DEF GenAlu
  <2>5. Generator(w) = "gen_alu"
    BY <2>3, <2>4 DEF Generator, ByRegisters
  <2>6. Names(w, n)
    BY <2>1, <2>3 DEF Names
  <2> QED BY <2>1, <2>5, <2>6
<1>10. CASE n \in Tagged("clip", DOMAIN Clips)
  <2> DEFINE row == n[2]
  <2>1. n = <<"clip", row>> /\ row \in DOMAIN Clips
    BY <1>10, InTagged
  <2> HIDE DEF row
  <2>2. InsnCvClip(row, i).valid
    BY <2>1 DEF XInsn
  <2>3. Field(w, 6, 0) = 43 /\ Field(w, 31, 25) = Clips[row][1] /\ Field(w, 14, 12) = 3
    BY <2>2, CvOpcodes DEF InsnCvClip, Computes, Blank, FormatR, KnownCv1
  <2>4. Field(w, 14, 12) = 3 /\ Field(w, 31, 25) \in 56 .. 63
    BY <2>1, <2>3 DEF Clips
  <2>5. Generator(w) = "clip"
    BY <2>3, <2>4 DEF Generator, ByRegisters
  <2>6. Names(w, n)
    BY <2>1, <2>3 DEF Names
  <2> QED BY <2>1, <2>5, <2>6
<1>11. CASE n \in Tagged("gen_alu_N", Norms)
  <2> DEFINE row == n[2]
  <2>1. n = <<"gen_alu_N", row>> /\ row \in Norms
    BY <1>11, InTagged
  <2> HIDE DEF row
  <2>2. InsnCvGenAluN(row, i).valid
    BY <2>1 DEF XInsn
  <2>3. Field(w, 6, 0) = 91 /\ Field(w, 31, 30) = 2 * Bool(row.R) + Bool(row.u) /\ Field(w, 14, 12) = 2 + Bool(row.sub)
    BY <2>2, CvOpcodes DEF InsnCvGenAluN, Computes, Blank, FormatGenAluN
  <2>4. Field(w, 14, 12) \in {2, 3}
    BY <2>1, <2>3 DEF Bool
  <2>5. Generator(w) = "gen_alu_N"
    BY <2>3, <2>4 DEF Generator, ByImmediates
  <2>6. Names(w, n)
    BY <2>1, <2>3 DEF Names
  <2> QED BY <2>1, <2>5, <2>6
<1>12. CASE n \in Tagged("gen_alu_Nr", Norms)
  <2> DEFINE row == n[2]
  <2>1. n = <<"gen_alu_Nr", row>> /\ row \in Norms
    BY <1>12, InTagged
  <2> HIDE DEF row
  <2>2. InsnCvGenAluNr(row, i).valid
    BY <2>1 DEF XInsn
  <2>3. Field(w, 6, 0) = 43 /\ Field(w, 31, 25) = 64 + 4 * Bool(row.sub) + 2 * Bool(row.R) + Bool(row.u) /\ Field(w, 14, 12) = 3
    BY <2>2, CvOpcodes DEF InsnCvGenAluNr, Computes, Blank, FormatCvGenAluNr, KnownCv1
  <2>4. Field(w, 14, 12) = 3 /\ Field(w, 31, 25) \in 64 .. 71
    BY <2>1, <2>3 DEF Bool
  <2>5. Generator(w) = "gen_alu_Nr"
    BY <2>3, <2>4 DEF Generator, ByRegisters
  <2>6. Names(w, n)
    BY <2>1, <2>3 DEF Names
  <2> QED BY <2>1, <2>5, <2>6
<1>13. CASE n \in Tagged("b", DOMAIN CvBranches)
  <2> DEFINE row == n[2]
  <2>1. n = <<"b", row>> /\ row \in DOMAIN CvBranches
    BY <1>13, InTagged
  <2> HIDE DEF row
  <2>2. InsnCvB(CvBranches[row], i).valid
    BY <2>1 DEF XInsn
  <2>3. Field(w, 6, 0) = 11 /\ Field(w, 14, 12) = CvBranches[row][1]
    BY <2>2, CvOpcodes DEF InsnCvB, Blank, FormatPb
  <2>4. Field(w, 14, 12) \in {6, 7}
    BY <2>1, <2>3 DEF CvBranches
  <2>5. Generator(w) = "b"
    BY <2>3, <2>4 DEF Generator
  <2>6. Names(w, n)
    BY <2>1, <2>3 DEF Names
  <2> QED BY <2>1, <2>5, <2>6
<1>14. CASE n \in Tagged("mac16", Macs)
  <2> DEFINE row == n[2]
  <2>1. n = <<"mac16", row>> /\ row \in Macs
    BY <1>14, InTagged
  <2> HIDE DEF row
  <2>2. InsnCvMac16(row, i).valid
    BY <2>1 DEF XInsn
  <2>3. Field(w, 6, 0) = 91 /\ Field(w, 31, 30) = 2 * Bool(row.R) + Bool(row.h) /\ Field(w, 14, 12) = 4 + 2 * Bool(row.ac) + Bool(row.u)
    BY <2>2, CvOpcodes DEF InsnCvMac16, Computes, Blank, FormatGenAluN
  <2>4. Field(w, 14, 12) \in 4 .. 7
    BY <2>1, <2>3 DEF Bool
  <2>5. Generator(w) = "mac16"
    BY <2>3, <2>4 DEF Generator, ByImmediates
  <2>6. Names(w, n)
    BY <2>1, <2>3 DEF Names
  <2> QED BY <2>1, <2>5, <2>6
<1>15. CASE n \in Tagged("mac32", DOMAIN Macs32)
  <2> DEFINE row == n[2]
  <2>1. n = <<"mac32", row>> /\ row \in DOMAIN Macs32
    BY <1>15, InTagged
  <2> HIDE DEF row
  <2>2. InsnCvMac32(row, i).valid
    BY <2>1 DEF XInsn
  <2>3. Field(w, 6, 0) = 43 /\ Field(w, 31, 25) = Macs32[row][1] /\ Field(w, 14, 12) = 3
    BY <2>2, CvOpcodes DEF InsnCvMac32, Computes, Blank, FormatR, KnownCv1
  <2>4. Field(w, 14, 12) = 3 /\ Field(w, 31, 25) \in 72 .. 79
    BY <2>1, <2>3 DEF Macs32
  <2>5. Generator(w) = "mac32"
    BY <2>3, <2>4 DEF Generator, ByRegisters
  <2>6. Names(w, n)
    BY <2>1, <2>3 DEF Names
  <2> QED BY <2>1, <2>5, <2>6
<1>16. CASE n \in Tagged("simd_alu", SimdInsns)
  <2> DEFINE row == n[2]
  <2>1. n = <<"simd_alu", row>> /\ row \in SimdInsns
    BY <1>16, InTagged
  <2> HIDE DEF row
  <2>2. InsnCvSimdAlu(row, i).valid
    BY <2>1 DEF XInsn
  <2>3. Field(w, 6, 0) = 123 /\ Field(w, 31, 27) = SimdOps[row[1]][1] /\ Field(w, 26, 26) = SimdOps[row[1]][2] /\ Field(w, 14, 12) = FormFunct3(row[2], row[3])
    BY <2>2, CvOpcodes DEF InsnCvSimdAlu, Computes, Blank, FormatSimd, KnownCv3
  <2>4. \/ Field(w, 26, 26) = 0 /\ Field(w, 31, 27) \in 0 .. 14
        \/ Field(w, 26, 26) = 1 /\ Field(w, 31, 27) \in 0 .. 9
    <3>1. row[1] \in DOMAIN SimdOps
      BY <2>1 DEF SimdInsns, SimdOps
    <3>2. \A op \in DOMAIN SimdOps :
            \/ SimdOps[op][2] = 0 /\ SimdOps[op][1] \in 0 .. 14
            \/ SimdOps[op][2] = 1 /\ SimdOps[op][1] \in 0 .. 9
      BY DEF SimdOps
    <3> QED BY <2>3, <3>1, <3>2
  <2>5. Generator(w) = "simd_alu"
    BY <2>3, <2>4 DEF Generator, OfVectors
  <2>6. Names(w, n)
    BY <2>1, <2>3 DEF Names
  <2> QED BY <2>1, <2>5, <2>6
<1>17. CASE n \in Tagged("ext_ins", (DOMAIN ExtIns) \X BOOLEAN)
  <2> DEFINE row == n[2]
  <2>1. n = <<"ext_ins", row>> /\ row \in (DOMAIN ExtIns) \X BOOLEAN
    BY <1>17, InTagged
  <2> HIDE DEF row
  <2>2. InsnCvSimdExtIns(row, i).valid
    BY <2>1 DEF XInsn
  <2>3. Field(w, 6, 0) = 123 /\ Field(w, 31, 27) = 23 /\ Field(w, 26, 26) = 0 /\ Field(w, 14, 12) = ExtIns[row[1]] + Bool(~row[2])
    BY <2>2, CvOpcodes DEF InsnCvSimdExtIns, Computes, Blank, FormatSimd, KnownCv3
  <2>4. Field(w, 26, 26) = 0 /\ Field(w, 31, 27) = 23
    BY <2>1, <2>3
  <2>5. Generator(w) = "ext_ins"
    BY <2>3, <2>4 DEF Generator, OfVectors
  <2>6. Names(w, n)
    BY <2>1, <2>3 DEF Names
  <2> QED BY <2>1, <2>5, <2>6
<1>18. CASE n \in Tagged("dot", (DOMAIN Dots) \X Forms \X BOOLEAN)
  <2> DEFINE row == n[2]
  <2>1. n = <<"dot", row>> /\ row \in (DOMAIN Dots) \X Forms \X BOOLEAN
    BY <1>18, InTagged
  <2> HIDE DEF row
  <2>2. InsnCvSimdDot(row, i).valid
    BY <2>1 DEF XInsn
  <2>3. Field(w, 6, 0) = 123 /\ Field(w, 31, 27) = Dots[row[1]][1] /\ Field(w, 26, 26) = 0 /\ Field(w, 14, 12) = FormFunct3(row[2], row[3])
    BY <2>2, CvOpcodes DEF InsnCvSimdDot, Computes, Blank, FormatSimd, KnownCv3
  <2>4. Field(w, 26, 26) = 0 /\ Field(w, 31, 27) \in 16 .. 21
    BY <2>1, <2>3 DEF Dots
  <2>5. Generator(w) = "dot"
    BY <2>3, <2>4 DEF Generator, OfVectors
  <2>6. Names(w, n)
    BY <2>1, <2>3 DEF Names
  <2> QED BY <2>1, <2>5, <2>6
<1>19. CASE n \in Tagged("shu", DOMAIN Shuffles)
  <2> DEFINE row == n[2]
  <2>1. n = <<"shu", row>> /\ row \in DOMAIN Shuffles
    BY <1>19, InTagged
  <2> HIDE DEF row
  <2>2. InsnCvSimdShu(row, i).valid
    BY <2>1 DEF XInsn
  <2>3. Field(w, 6, 0) = 123 /\ Field(w, 31, 27) = Shuffles[row][1] /\ Field(w, 26, 26) = 0 /\ Field(w, 14, 12) = Shuffles[row][2]
    BY <2>2, CvOpcodes DEF InsnCvSimdShu, Computes, Blank, FormatSimd, KnownCv3
  <2>4. Field(w, 26, 26) = 0 /\ Field(w, 31, 27) \in 24 .. 28
    BY <2>1, <2>3 DEF Shuffles
  <2>5. Generator(w) = "shu"
    BY <2>3, <2>4 DEF Generator, OfVectors
  <2>6. Names(w, n)
    BY <2>1, <2>3 DEF Names
  <2> QED BY <2>1, <2>5, <2>6
<1>20. CASE n \in Tagged("pack", DOMAIN Packs)
  <2> DEFINE row == n[2]
  <2>1. n = <<"pack", row>> /\ row \in DOMAIN Packs
    BY <1>20, InTagged
  <2> HIDE DEF row
  <2>2. InsnCvSimdPack(row, i).valid
    BY <2>1 DEF XInsn
  <2>3. Field(w, 6, 0) = 123 /\ Field(w, 31, 27) = Packs[row][1] /\ Field(w, 26, 26) = 0 /\ Field(w, 14, 12) = Packs[row][2] /\ Field(w, 25, 25) = Bool(Packs[row][4])
    BY <2>2, CvOpcodes DEF InsnCvSimdPack, Computes, Blank, FormatSimd, KnownCv3
  <2>4. Field(w, 26, 26) = 0 /\ Field(w, 31, 27) \in {30, 31}
    BY <2>1, <2>3 DEF Packs
  <2>5. Generator(w) = "pack"
    BY <2>3, <2>4 DEF Generator, OfVectors
  <2>6. Names(w, n)
    BY <2>1, <2>3 DEF Names
  <2> QED BY <2>1, <2>5, <2>6
<1>21. CASE n \in Tagged("cplxmul", CplxMuls)
  <2> DEFINE row == n[2]
  <2>1. n = <<"cplxmul", row>> /\ row \in CplxMuls
    BY <1>21, InTagged
  <2> HIDE DEF row
  <2>2. InsnCvCplxmul(row, i).valid
    BY <2>1 DEF XInsn
  <2>3. Field(w, 6, 0) = 123 /\ Field(w, 31, 27) = 10 /\ Field(w, 26, 26) = 1 /\ Field(w, 14, 12) = 2 * row.div /\ Field(w, 25, 25) = Bool(row.im)
    BY <2>2, CvOpcodes DEF InsnCvCplxmul, Computes, Blank, FormatSimd, KnownCv3
  <2>4. Field(w, 26, 26) = 1 /\ Field(w, 31, 27) = 10
    BY <2>1, <2>3
  <2>5. Generator(w) = "cplxmul"
    BY <2>3, <2>4 DEF Generator, OfVectors
  <2>6. Names(w, n)
    BY <2>1, <2>3 DEF Names
  <2> QED BY <2>1, <2>5, <2>6
<1>22. CASE n \in Tagged("cplxconj", {"cv_cplxconj"})
  <2> DEFINE row == n[2]
  <2>1. n = <<"cplxconj", row>> /\ row \in {"cv_cplxconj"}
    BY <1>22, InTagged
  <2> HIDE DEF row
  <2>2. InsnCvCplxconj(i).valid
    BY <2>1 DEF XInsn
  <2>3. Field(w, 6, 0) = 123 /\ Field(w, 31, 27) = 11 /\ Field(w, 26, 26) = 1
    BY <2>2, CvOpcodes DEF InsnCvCplxconj, Computes, Blank, FormatSimd, KnownCv3
  <2>4. Field(w, 26, 26) = 1 /\ Field(w, 31, 27) = 11
    BY <2>1, <2>3
  <2>5. Generator(w) = "cplxconj"
    BY <2>3, <2>4 DEF Generator, OfVectors
  <2>6. Names(w, n)
    BY <2>1, <2>3 DEF Names
  <2> QED BY <2>1, <2>5, <2>6
<1>23. CASE n \in Tagged("cplxaddsub", CplxAdds)
  <2> DEFINE row == n[2]
  <2>1. n = <<"cplxaddsub", row>> /\ row \in CplxAdds
    BY <1>23, InTagged
  <2> HIDE DEF row
  <2>2. InsnCvCplxaddsub(row, i).valid
    BY <2>1 DEF XInsn
  <2>3. Field(w, 6, 0) = 123 /\ Field(w, 31, 27) = CplxAddFunct5(row[1]) /\ Field(w, 26, 26) = 1 /\ Field(w, 14, 12) = 2 * row[2]
    BY <2>2, CvOpcodes DEF InsnCvCplxaddsub, Computes, Blank, FormatSimd, KnownCv3
  <2>4. Field(w, 26, 26) = 1 /\ Field(w, 31, 27) \in 12 .. 14
    BY <2>1, <2>3 DEF CplxAddFunct5, CplxAdds
  <2>5. Generator(w) = "cplxaddsub"
    BY <2>3, <2>4 DEF Generator, OfVectors
  <2>6. Names(w, n)
    BY <2>1, <2>3 DEF Names
  <2> QED BY <2>1, <2>5, <2>6
<1> QED BY XIsaTables, <1>1, <1>2, <1>3, <1>4, <1>5, <1>6, <1>7, <1>8, <1>9, <1>10, <1>11, <1>12, <1>13, <1>14, <1>15, <1>16, <1>17, <1>18, <1>19, <1>20, <1>21, <1>22, <1>23

\* An instruction is a generator and one of its rows.
LEMMA XIsaRows ==
  ASSUME NEW parts, NEW n \in XIsaOf(parts)
  PROVE  /\ n = <<n[1], n[2]>>
         /\ n[1] \in {"base", "l", "s", "bit_man_1", "bitrev", "bit_man_2",
                      "ror", "bit_man_3", "gen_alu", "clip", "gen_alu_N", "gen_alu_Nr",
                      "b", "mac16", "mac32", "simd_alu", "ext_ins", "dot",
                      "shu", "pack", "cplxmul", "cplxconj", "cplxaddsub"}
         /\ n[1] = "base" => n[2] \in IsaOf(parts)
         /\ n[1] = "l" => n[2] \in DOMAIN CvLoads
         /\ n[1] = "s" => n[2] \in DOMAIN CvStores
         /\ n[1] = "bit_man_1" => n[2] \in DOMAIN BitMan1
         /\ n[1] = "bitrev" => n[2] \in {"cv_bitrev"}
         /\ n[1] = "bit_man_2" => n[2] \in DOMAIN BitMan2
         /\ n[1] = "ror" => n[2] \in {"cv_ror"}
         /\ n[1] = "bit_man_3" => n[2] \in DOMAIN BitMan3
         /\ n[1] = "gen_alu" => n[2] \in DOMAIN GenAlu
         /\ n[1] = "clip" => n[2] \in DOMAIN Clips
         /\ n[1] = "gen_alu_N" => n[2] \in Norms
         /\ n[1] = "gen_alu_Nr" => n[2] \in Norms
         /\ n[1] = "b" => n[2] \in DOMAIN CvBranches
         /\ n[1] = "mac16" => n[2] \in Macs
         /\ n[1] = "mac32" => n[2] \in DOMAIN Macs32
         /\ n[1] = "simd_alu" => n[2] \in SimdInsns
         /\ n[1] = "ext_ins" => n[2] \in (DOMAIN ExtIns) \X BOOLEAN
         /\ n[1] = "dot" => n[2] \in (DOMAIN Dots) \X Forms \X BOOLEAN
         /\ n[1] = "shu" => n[2] \in DOMAIN Shuffles
         /\ n[1] = "pack" => n[2] \in DOMAIN Packs
         /\ n[1] = "cplxmul" => n[2] \in CplxMuls
         /\ n[1] = "cplxconj" => n[2] \in {"cv_cplxconj"}
         /\ n[1] = "cplxaddsub" => n[2] \in CplxAdds
<1>1. CASE n \in Tagged("base", IsaOf(parts))
  <2>1. n[1] = "base" /\ n[2] \in IsaOf(parts) /\ n = <<n[1], n[2]>>
    BY <1>1, InTagged
  <2> QED BY <2>1
<1>2. CASE n \in Tagged("l", DOMAIN CvLoads)
  <2>1. n[1] = "l" /\ n[2] \in DOMAIN CvLoads /\ n = <<n[1], n[2]>>
    BY <1>2, InTagged
  <2> QED BY <2>1
<1>3. CASE n \in Tagged("s", DOMAIN CvStores)
  <2>1. n[1] = "s" /\ n[2] \in DOMAIN CvStores /\ n = <<n[1], n[2]>>
    BY <1>3, InTagged
  <2> QED BY <2>1
<1>4. CASE n \in Tagged("bit_man_1", DOMAIN BitMan1)
  <2>1. n[1] = "bit_man_1" /\ n[2] \in DOMAIN BitMan1 /\ n = <<n[1], n[2]>>
    BY <1>4, InTagged
  <2> QED BY <2>1
<1>5. CASE n \in Tagged("bitrev", {"cv_bitrev"})
  <2>1. n[1] = "bitrev" /\ n[2] \in {"cv_bitrev"} /\ n = <<n[1], n[2]>>
    BY <1>5, InTagged
  <2> QED BY <2>1
<1>6. CASE n \in Tagged("bit_man_2", DOMAIN BitMan2)
  <2>1. n[1] = "bit_man_2" /\ n[2] \in DOMAIN BitMan2 /\ n = <<n[1], n[2]>>
    BY <1>6, InTagged
  <2> QED BY <2>1
<1>7. CASE n \in Tagged("ror", {"cv_ror"})
  <2>1. n[1] = "ror" /\ n[2] \in {"cv_ror"} /\ n = <<n[1], n[2]>>
    BY <1>7, InTagged
  <2> QED BY <2>1
<1>8. CASE n \in Tagged("bit_man_3", DOMAIN BitMan3)
  <2>1. n[1] = "bit_man_3" /\ n[2] \in DOMAIN BitMan3 /\ n = <<n[1], n[2]>>
    BY <1>8, InTagged
  <2> QED BY <2>1
<1>9. CASE n \in Tagged("gen_alu", DOMAIN GenAlu)
  <2>1. n[1] = "gen_alu" /\ n[2] \in DOMAIN GenAlu /\ n = <<n[1], n[2]>>
    BY <1>9, InTagged
  <2> QED BY <2>1
<1>10. CASE n \in Tagged("clip", DOMAIN Clips)
  <2>1. n[1] = "clip" /\ n[2] \in DOMAIN Clips /\ n = <<n[1], n[2]>>
    BY <1>10, InTagged
  <2> QED BY <2>1
<1>11. CASE n \in Tagged("gen_alu_N", Norms)
  <2>1. n[1] = "gen_alu_N" /\ n[2] \in Norms /\ n = <<n[1], n[2]>>
    BY <1>11, InTagged
  <2> QED BY <2>1
<1>12. CASE n \in Tagged("gen_alu_Nr", Norms)
  <2>1. n[1] = "gen_alu_Nr" /\ n[2] \in Norms /\ n = <<n[1], n[2]>>
    BY <1>12, InTagged
  <2> QED BY <2>1
<1>13. CASE n \in Tagged("b", DOMAIN CvBranches)
  <2>1. n[1] = "b" /\ n[2] \in DOMAIN CvBranches /\ n = <<n[1], n[2]>>
    BY <1>13, InTagged
  <2> QED BY <2>1
<1>14. CASE n \in Tagged("mac16", Macs)
  <2>1. n[1] = "mac16" /\ n[2] \in Macs /\ n = <<n[1], n[2]>>
    BY <1>14, InTagged
  <2> QED BY <2>1
<1>15. CASE n \in Tagged("mac32", DOMAIN Macs32)
  <2>1. n[1] = "mac32" /\ n[2] \in DOMAIN Macs32 /\ n = <<n[1], n[2]>>
    BY <1>15, InTagged
  <2> QED BY <2>1
<1>16. CASE n \in Tagged("simd_alu", SimdInsns)
  <2>1. n[1] = "simd_alu" /\ n[2] \in SimdInsns /\ n = <<n[1], n[2]>>
    BY <1>16, InTagged
  <2> QED BY <2>1
<1>17. CASE n \in Tagged("ext_ins", (DOMAIN ExtIns) \X BOOLEAN)
  <2>1. n[1] = "ext_ins" /\ n[2] \in (DOMAIN ExtIns) \X BOOLEAN /\ n = <<n[1], n[2]>>
    BY <1>17, InTagged
  <2> QED BY <2>1
<1>18. CASE n \in Tagged("dot", (DOMAIN Dots) \X Forms \X BOOLEAN)
  <2>1. n[1] = "dot" /\ n[2] \in (DOMAIN Dots) \X Forms \X BOOLEAN /\ n = <<n[1], n[2]>>
    BY <1>18, InTagged
  <2> QED BY <2>1
<1>19. CASE n \in Tagged("shu", DOMAIN Shuffles)
  <2>1. n[1] = "shu" /\ n[2] \in DOMAIN Shuffles /\ n = <<n[1], n[2]>>
    BY <1>19, InTagged
  <2> QED BY <2>1
<1>20. CASE n \in Tagged("pack", DOMAIN Packs)
  <2>1. n[1] = "pack" /\ n[2] \in DOMAIN Packs /\ n = <<n[1], n[2]>>
    BY <1>20, InTagged
  <2> QED BY <2>1
<1>21. CASE n \in Tagged("cplxmul", CplxMuls)
  <2>1. n[1] = "cplxmul" /\ n[2] \in CplxMuls /\ n = <<n[1], n[2]>>
    BY <1>21, InTagged
  <2> QED BY <2>1
<1>22. CASE n \in Tagged("cplxconj", {"cv_cplxconj"})
  <2>1. n[1] = "cplxconj" /\ n[2] \in {"cv_cplxconj"} /\ n = <<n[1], n[2]>>
    BY <1>22, InTagged
  <2> QED BY <2>1
<1>23. CASE n \in Tagged("cplxaddsub", CplxAdds)
  <2>1. n[1] = "cplxaddsub" /\ n[2] \in CplxAdds /\ n = <<n[1], n[2]>>
    BY <1>23, InTagged
  <2> QED BY <2>1
<1> QED BY XIsaTables, <1>1, <1>2, <1>3, <1>4, <1>5, <1>6, <1>7, <1>8, <1>9, <1>10, <1>11, <1>12, <1>13, <1>14, <1>15, <1>16, <1>17, <1>18, <1>19, <1>20, <1>21, <1>22, <1>23

\* Loads by registers differ in their width or their sign, and packs in a
\* field or in bit 25.
LEMMA LoadsOnce ==
  ASSUME NEW r \in DOMAIN CvLoads, NEW s \in DOMAIN CvLoads,
         Bool(~CvLoads[r][3]) = Bool(~CvLoads[s][3]),
         WidthCode(CvLoads[r][2]) = WidthCode(CvLoads[s][2])
  PROVE  r = s
<1>1. DOMAIN CvLoads = {"cv_lb", "cv_lh", "cv_lw", "cv_lbu", "cv_lhu"}
  BY DEF CvLoads
<1>2. /\ CvLoads.cv_lb[3] /\ CvLoads.cv_lh[3] /\ CvLoads.cv_lw[3]
      /\ ~CvLoads.cv_lbu[3] /\ ~CvLoads.cv_lhu[3]
  BY DEF CvLoads
<1>3. /\ CvLoads.cv_lb[2] = 1 /\ CvLoads.cv_lh[2] = 2 /\ CvLoads.cv_lw[2] = 4
      /\ CvLoads.cv_lbu[2] = 1 /\ CvLoads.cv_lhu[2] = 2
  BY DEF CvLoads
<1> QED BY <1>1, <1>2, <1>3 DEF Bool, WidthCode
LEMMA PacksOnce ==
  ASSUME NEW r \in DOMAIN Packs, NEW s \in DOMAIN Packs, Packs[r][1] = Packs[s][1],
         Bool(Packs[r][4]) = Bool(Packs[s][4])
  PROVE  r = s
<1>1. DOMAIN Packs = {"pack", "pack_h", "packhi_b", "packlo_b"}
  BY DEF Packs
<1>2. ~Packs.pack[4] /\ Packs.pack_h[4] /\ Packs.packhi_b[4] /\ ~Packs.packlo_b[4]
  BY DEF Packs
<1>3. Packs.pack[1] = 30 /\ Packs.pack_h[1] = 30 /\ Packs.packhi_b[1] = 31
      /\ Packs.packlo_b[1] = 31
  BY DEF Packs
<1> QED BY <1>1, <1>2, <1>3 DEF Bool

\* Two instructions that a word names are one.
LEMMA NamedOnce ==
  ASSUME NEW w, NEW parts, NEW n \in XIsaOf(parts), NEW m \in XIsaOf(parts),
         n[1] = m[1], Names(w, n), Names(w, m)
  PROVE  n = m
<1> DEFINE row == n[2]
           other == m[2]
<1>1. CASE n[1] = "base"
  <2>1. /\ n = <<"base", row>> /\ row \in IsaOf(parts)
        /\ m = <<"base", other>> /\ other \in IsaOf(parts)
    BY <1>1, XIsaRows
  <2> HIDE DEF row, other
  <2>2. row \in Decoded(w) /\ other \in Decoded(w)
    BY <2>1 DEF Names
  <2> QED BY <2>1, <2>2, DecodedOnce DEF Once
<1>2. CASE n[1] = "l"
  <2>1. /\ n = <<"l", row>> /\ row \in DOMAIN CvLoads
        /\ m = <<"l", other>> /\ other \in DOMAIN CvLoads
    BY <1>2, XIsaRows
  <2> HIDE DEF row, other
  <2>2. CASE Field(w, 6, 0) = 11
    <3>1. CvLoads[row][1] = CvLoads[other][1]
      BY <2>1, <2>2 DEF Names
    <3> QED BY <2>1, <3>1 DEF CvLoads
  <2>3. CASE Field(w, 6, 0) /= 11
    <3>1. /\ Bool(~CvLoads[row][3]) = Bool(~CvLoads[other][3])
          /\ WidthCode(CvLoads[row][2]) = WidthCode(CvLoads[other][2])
      BY <2>1, <2>3 DEF Names
    <3> QED BY <2>1, <3>1, LoadsOnce
  <2> QED BY <2>2, <2>3
<1>3. CASE n[1] = "s"
  <2>1. /\ n = <<"s", row>> /\ row \in DOMAIN CvStores
        /\ m = <<"s", other>> /\ other \in DOMAIN CvStores
    BY <1>3, XIsaRows
  <2> HIDE DEF row, other
  <2>2. \/ CvStores[row][1] = CvStores[other][1]
        \/ WidthCode(CvStores[row][2]) = WidthCode(CvStores[other][2])
    BY <2>1 DEF Names
  <2> QED BY <2>1, <2>2 DEF CvStores, WidthCode
<1>4. CASE n[1] = "bit_man_1"
  <2>1. /\ n = <<"bit_man_1", row>> /\ row \in DOMAIN BitMan1
        /\ m = <<"bit_man_1", other>> /\ other \in DOMAIN BitMan1
    BY <1>4, XIsaRows
  <2> HIDE DEF row, other
  <2>2. row = other
    BY <2>1 DEF Names, BitMan1
  <2> QED BY <2>1, <2>2
<1>5. CASE n[1] = "bitrev"
  <2>1. /\ n = <<"bitrev", row>> /\ row \in {"cv_bitrev"}
        /\ m = <<"bitrev", other>> /\ other \in {"cv_bitrev"}
    BY <1>5, XIsaRows
  <2> HIDE DEF row, other
  <2> QED BY <2>1
<1>6. CASE n[1] = "bit_man_2"
  <2>1. /\ n = <<"bit_man_2", row>> /\ row \in DOMAIN BitMan2
        /\ m = <<"bit_man_2", other>> /\ other \in DOMAIN BitMan2
    BY <1>6, XIsaRows
  <2> HIDE DEF row, other
  <2>2. row = other
    BY <2>1 DEF Names, BitMan2
  <2> QED BY <2>1, <2>2
<1>7. CASE n[1] = "ror"
  <2>1. /\ n = <<"ror", row>> /\ row \in {"cv_ror"}
        /\ m = <<"ror", other>> /\ other \in {"cv_ror"}
    BY <1>7, XIsaRows
  <2> HIDE DEF row, other
  <2> QED BY <2>1
<1>8. CASE n[1] = "bit_man_3"
  <2>1. /\ n = <<"bit_man_3", row>> /\ row \in DOMAIN BitMan3
        /\ m = <<"bit_man_3", other>> /\ other \in DOMAIN BitMan3
    BY <1>8, XIsaRows
  <2> HIDE DEF row, other
  <2>2. row = other
    BY <2>1 DEF Names, BitMan3
  <2> QED BY <2>1, <2>2
<1>9. CASE n[1] = "gen_alu"
  <2>1. /\ n = <<"gen_alu", row>> /\ row \in DOMAIN GenAlu
        /\ m = <<"gen_alu", other>> /\ other \in DOMAIN GenAlu
    BY <1>9, XIsaRows
  <2> HIDE DEF row, other
  <2>2. row = other
    BY <2>1 DEF Names, GenAlu
  <2> QED BY <2>1, <2>2
<1>10. CASE n[1] = "clip"
  <2>1. /\ n = <<"clip", row>> /\ row \in DOMAIN Clips
        /\ m = <<"clip", other>> /\ other \in DOMAIN Clips
    BY <1>10, XIsaRows
  <2> HIDE DEF row, other
  <2>2. row = other
    BY <2>1 DEF Names, Clips
  <2> QED BY <2>1, <2>2
<1>11. CASE n[1] = "gen_alu_N"
  <2>1. /\ n = <<"gen_alu_N", row>> /\ row \in Norms
        /\ m = <<"gen_alu_N", other>> /\ other \in Norms
    BY <1>11, XIsaRows
  <2> HIDE DEF row, other
  <2>2. row = other
    BY <2>1 DEF Names, Norms, Bool
  <2> QED BY <2>1, <2>2
<1>12. CASE n[1] = "gen_alu_Nr"
  <2>1. /\ n = <<"gen_alu_Nr", row>> /\ row \in Norms
        /\ m = <<"gen_alu_Nr", other>> /\ other \in Norms
    BY <1>12, XIsaRows
  <2> HIDE DEF row, other
  <2>2. row = other
    BY <2>1 DEF Names, Norms, Bool
  <2> QED BY <2>1, <2>2
<1>13. CASE n[1] = "b"
  <2>1. /\ n = <<"b", row>> /\ row \in DOMAIN CvBranches
        /\ m = <<"b", other>> /\ other \in DOMAIN CvBranches
    BY <1>13, XIsaRows
  <2> HIDE DEF row, other
  <2>2. row = other
    BY <2>1 DEF Names, CvBranches
  <2> QED BY <2>1, <2>2
<1>14. CASE n[1] = "mac16"
  <2>1. /\ n = <<"mac16", row>> /\ row \in Macs
        /\ m = <<"mac16", other>> /\ other \in Macs
    BY <1>14, XIsaRows
  <2> HIDE DEF row, other
  <2>2. row = other
    BY <2>1 DEF Names, Macs, Bool
  <2> QED BY <2>1, <2>2
<1>15. CASE n[1] = "mac32"
  <2>1. /\ n = <<"mac32", row>> /\ row \in DOMAIN Macs32
        /\ m = <<"mac32", other>> /\ other \in DOMAIN Macs32
    BY <1>15, XIsaRows
  <2> HIDE DEF row, other
  <2>2. row = other
    BY <2>1 DEF Names, Macs32
  <2> QED BY <2>1, <2>2
<1>16. CASE n[1] = "simd_alu"
  <2>1. /\ n = <<"simd_alu", row>> /\ row \in SimdInsns
        /\ m = <<"simd_alu", other>> /\ other \in SimdInsns
    BY <1>16, XIsaRows
  <2> HIDE DEF row, other
  <2>2. /\ SimdOps[row[1]][1] = SimdOps[other[1]][1]
        /\ SimdOps[row[1]][2] = SimdOps[other[1]][2]
        /\ FormFunct3(row[2], row[3]) = FormFunct3(other[2], other[3])
    BY <2>1 DEF Names
  <2>3. /\ row \in (DOMAIN SimdOps) \X Forms \X BOOLEAN
        /\ other \in (DOMAIN SimdOps) \X Forms \X BOOLEAN
    BY <2>1 DEF SimdInsns, Forms, SimdOps
  <2>4. row[1] = other[1]
    BY <2>2, <2>3 DEF SimdOps
  <2>5. row[2] = other[2] /\ row[3] = other[3]
    BY <2>2, <2>3 DEF Forms, FormFunct3, Bool
  <2>6. row = <<row[1], row[2], row[3]>> /\ other = <<other[1], other[2], other[3]>>
    BY <2>3
  <2>7. row = other
    BY <2>4, <2>5, <2>6, Zenon
  <2> QED BY <2>1, <2>7
<1>17. CASE n[1] = "ext_ins"
  <2>1. /\ n = <<"ext_ins", row>> /\ row \in (DOMAIN ExtIns) \X BOOLEAN
        /\ m = <<"ext_ins", other>> /\ other \in (DOMAIN ExtIns) \X BOOLEAN
    BY <1>17, XIsaRows
  <2> HIDE DEF row, other
  <2>2. row = other
    BY <2>1 DEF Names, ExtIns, Bool
  <2> QED BY <2>1, <2>2
<1>18. CASE n[1] = "dot"
  <2>1. /\ n = <<"dot", row>> /\ row \in (DOMAIN Dots) \X Forms \X BOOLEAN
        /\ m = <<"dot", other>> /\ other \in (DOMAIN Dots) \X Forms \X BOOLEAN
    BY <1>18, XIsaRows
  <2> HIDE DEF row, other
  <2>2. row = other
    BY <2>1 DEF Names, Dots, Forms, FormFunct3, Bool
  <2> QED BY <2>1, <2>2
<1>19. CASE n[1] = "shu"
  <2>1. /\ n = <<"shu", row>> /\ row \in DOMAIN Shuffles
        /\ m = <<"shu", other>> /\ other \in DOMAIN Shuffles
    BY <1>19, XIsaRows
  <2> HIDE DEF row, other
  <2>2. row = other
    BY <2>1 DEF Names, Shuffles
  <2> QED BY <2>1, <2>2
<1>20. CASE n[1] = "pack"
  <2>1. /\ n = <<"pack", row>> /\ row \in DOMAIN Packs
        /\ m = <<"pack", other>> /\ other \in DOMAIN Packs
    BY <1>20, XIsaRows
  <2> HIDE DEF row, other
  <2>2. Packs[row][1] = Packs[other][1] /\ Bool(Packs[row][4]) = Bool(Packs[other][4])
    BY <2>1 DEF Names
  <2> QED BY <2>1, <2>2, PacksOnce
<1>21. CASE n[1] = "cplxmul"
  <2>1. /\ n = <<"cplxmul", row>> /\ row \in CplxMuls
        /\ m = <<"cplxmul", other>> /\ other \in CplxMuls
    BY <1>21, XIsaRows
  <2> HIDE DEF row, other
  <2>2. row = other
    BY <2>1 DEF Names, CplxMuls, Bool
  <2> QED BY <2>1, <2>2
<1>22. CASE n[1] = "cplxconj"
  <2>1. /\ n = <<"cplxconj", row>> /\ row \in {"cv_cplxconj"}
        /\ m = <<"cplxconj", other>> /\ other \in {"cv_cplxconj"}
    BY <1>22, XIsaRows
  <2> HIDE DEF row, other
  <2> QED BY <2>1
<1>23. CASE n[1] = "cplxaddsub"
  <2>1. /\ n = <<"cplxaddsub", row>> /\ row \in CplxAdds
        /\ m = <<"cplxaddsub", other>> /\ other \in CplxAdds
    BY <1>23, XIsaRows
  <2> HIDE DEF row, other
  <2>2. row = other
    BY <2>1 DEF Names, CplxAdds, CplxAddFunct5
  <2> QED BY <2>1, <2>2
<1> QED BY XIsaRows, <1>1, <1>2, <1>3, <1>4, <1>5, <1>6, <1>7, <1>8, <1>9, <1>10, <1>11, <1>12, <1>13, <1>14, <1>15, <1>16, <1>17, <1>18, <1>19, <1>20, <1>21, <1>22, <1>23

-----------------------------------------------------------------------------
(***************************************************************************)
(* Orders of numbers.                                                      *)
(***************************************************************************)
\* A vector of n bits, its most significant bit, and its signed values.
LEMMA Halves ==
  ASSUME NEW n \in Nat, n >= 1
  PROVE  Msb(n) \in Nat /\ Msb(n) >= 1 /\ 2^n = 2 * Msb(n)
<1> DEFINE k == n - 1
<1>1. k \in Nat /\ n = k + 1
  OBVIOUS
<1> HIDE DEF k
<1>2. 2^k \in Nat /\ 2^k >= 1 /\ 2^n = 2 * 2^k
  BY <1>1, PowerType, PowerSucc
<1> QED BY <1>2 DEF Msb, k

LEMMA PowerMonotone ==
  ASSUME NEW m \in Nat, NEW n \in Nat, m <= n
  PROVE  2^m <= 2^n
<1> DEFINE k == n - m
<1>1. k \in Nat /\ n = m + k
  OBVIOUS
<1> HIDE DEF k
<1>2. /\ 2^m \in Nat /\ 2^k \in Nat /\ 2^k >= 1 /\ 2^n = 2^m * 2^k
  BY <1>1, PowerType, PowerSum
<1> DEFINE p == 2^m
           q == 2^k
<1> HIDE DEF p, q
<1>3. p \in Nat /\ q \in Nat /\ q >= 1 => p <= p * q
  OBVIOUS
<1> QED BY <1>2, <1>3 DEF p, q

LEMMA SignedRange ==
  ASSUME NEW n \in Nat, n >= 1, NEW v \in Vector(n)
  PROVE  /\ v \in Int /\ 0 <= v /\ v < 2^n
         /\ SignedAt(v, n) \in Int /\ -Msb(n) <= SignedAt(v, n) /\ SignedAt(v, n) < Msb(n)
         /\ SignedAt(v, n) = IF v >= Msb(n) THEN v - 2 * Msb(n) ELSE v
BY Halves DEF SignedAt, Vector, Ones, Msb

LEMMA WidthPositive == XLEN \in Nat /\ XLEN >= 1 /\ HALF \in Nat /\ HALF >= 1
                       /\ BYTE <= HALF /\ HALF <= XLEN
<1>1. CASE LANES = 4
  BY <1>1, FormatsAssumption DEF XLEN, HALF
<1>2. CASE LANES = 8
  BY <1>2, FormatsAssumption DEF XLEN, HALF
<1> QED BY <1>1, <1>2, FormatsAssumption

\* A register holds the signed numbers of its width, and holds them once.
LEMMA SignedWrap ==
  ASSUME NEW v \in Int, -Msb(XLEN) <= v, v < Msb(XLEN)
  PROVE  Wrap(v) \in Data /\ Signed(Wrap(v)) = v
<1>1. Msb(XLEN) \in Nat /\ Msb(XLEN) >= 1 /\ 2^XLEN = 2 * Msb(XLEN)
  BY WidthPositive, Halves
<1> DEFINE h == Msb(XLEN)
           m == 2^XLEN
<1> HIDE DEF h, m
<1>2. h \in Nat /\ h >= 1 /\ m = 2 * h /\ -h <= v /\ v < h
  BY <1>1 DEF h, m
<1>3. v % m = IF v < 0 THEN v + m ELSE v
  BY <1>2
<1>4. Wrap(v) = (IF v < 0 THEN v + m ELSE v)
  BY <1>3 DEF Wrap, m
<1> DEFINE x == Wrap(v)
<1>5. x \in Int /\ 0 <= x /\ x < m
  <2>1. CASE v < 0
    BY <1>2, <1>4, <2>1
  <2>2. CASE v >= 0
    BY <1>2, <1>4, <2>2
  <2> QED BY <2>1, <2>2
<1>6. x \in Data
  BY <1>2, <1>5 DEF Data, Vector, Ones, m
<1> HIDE DEF x
<1>7. Signed(x) = IF x >= h THEN x - m ELSE x
  BY DEF Signed, SignedAt, h, m, Msb
<1>8. Signed(x) = v
  BY <1>2, <1>4, <1>7 DEF x
<1> QED BY <1>6, <1>8 DEF x

LEMMA WrapSigned ==
  ASSUME NEW a \in Data
  PROVE  /\ a \in Int /\ 0 <= a
         /\ Signed(a) \in Int /\ -Msb(XLEN) <= Signed(a) /\ Signed(a) < Msb(XLEN)
         /\ Wrap(Signed(a)) = a
         /\ Msb(XLEN) \in Nat /\ Msb(XLEN) >= 1
         /\ Signed(a) = IF a >= Msb(XLEN) THEN a - 2 * Msb(XLEN) ELSE a
<1>1. Msb(XLEN) \in Nat /\ Msb(XLEN) >= 1 /\ 2^XLEN = 2 * Msb(XLEN)
  BY WidthPositive, Halves
<1>2. /\ a \in Int /\ 0 <= a /\ a < 2^XLEN
      /\ Signed(a) \in Int /\ -Msb(XLEN) <= Signed(a) /\ Signed(a) < Msb(XLEN)
      /\ Signed(a) = IF a >= Msb(XLEN) THEN a - 2 * Msb(XLEN) ELSE a
  BY WidthPositive, SignedRange DEF Signed, Data
<1> DEFINE h == Msb(XLEN)
           m == 2^XLEN
           v == Signed(a)
<1> HIDE DEF h, m, v
<1>3. /\ h \in Nat /\ h >= 1 /\ m = 2 * h /\ a \in Int /\ 0 <= a /\ a < m
      /\ v = IF a >= h THEN a - 2 * h ELSE a
  BY <1>1, <1>2 DEF h, m, v
<1>4. v % m = a
  BY <1>3
<1> QED BY <1>1, <1>2, <1>4 DEF Wrap, m, v

\* Words.
LEMMA WordOrder ==
  ASSUME NEW a \in Data, NEW b \in Data
  PROVE  LET G(op, x, y) == GenAluResult(op, x, y)
         IN  /\ G("min", a, b) + G("max", a, b) = a + b
             /\ G("minu", a, b) + G("maxu", a, b) = a + b
             /\ G("slet", a, b) = Bool(G("min", a, b) = a)
             /\ G("sletu", a, b) = Bool(G("minu", a, b) = a)
             /\ G("slet", a, b) + Alu("slt", XLEN, b, a) = 1
<1> DEFINE va == Signed(a)
           vb == Signed(b)
<1>1. /\ a \in Int /\ b \in Int /\ va \in Int /\ vb \in Int /\ (va = vb <=> a = b)
  <2>1. /\ a \in Int /\ Wrap(va) = a /\ va \in Int
        /\ b \in Int /\ Wrap(vb) = b /\ vb \in Int
    BY WrapSigned
  <2>2. a = b => va = vb
    OBVIOUS
  <2> HIDE DEF va, vb
  <2> QED BY <2>1, <2>2
<1>2. Alu("slt", XLEN, b, a) = Bool(vb < va)
  BY DEF Alu, Signed
<1>3. /\ GenAluResult("min", a, b) = (IF va < vb THEN a ELSE b)
      /\ GenAluResult("max", a, b) = (IF va < vb THEN b ELSE a)
      /\ GenAluResult("slet", a, b) = Bool(va <= vb)
  BY DEF GenAluResult
<1>4. /\ GenAluResult("minu", a, b) = (IF a < b THEN a ELSE b)
      /\ GenAluResult("maxu", a, b) = (IF a < b THEN b ELSE a)
      /\ GenAluResult("sletu", a, b) = Bool(a <= b)
  BY DEF GenAluResult
<1> HIDE DEF va, vb
<1>5. CASE va < vb
  <2>1. /\ GenAluResult("min", a, b) = a /\ GenAluResult("max", a, b) = b
        /\ GenAluResult("slet", a, b) = 1 /\ Alu("slt", XLEN, b, a) = 0
    BY <1>1, <1>2, <1>3, <1>5 DEF Bool
  <2> QED BY <1>1, <1>4, <2>1 DEF Bool
<1>6. CASE vb < va
  <2>1. /\ GenAluResult("min", a, b) = b /\ GenAluResult("max", a, b) = a
        /\ GenAluResult("slet", a, b) = 0 /\ Alu("slt", XLEN, b, a) = 1 /\ a /= b
    BY <1>1, <1>2, <1>3, <1>6 DEF Bool
  <2> QED BY <1>1, <1>4, <2>1 DEF Bool
<1>7. CASE va = vb
  <2>1. /\ GenAluResult("min", a, b) = b /\ GenAluResult("max", a, b) = a
        /\ GenAluResult("slet", a, b) = 1 /\ Alu("slt", XLEN, b, a) = 0 /\ a = b
    BY <1>1, <1>2, <1>3, <1>7 DEF Bool
  <2> QED BY <1>1, <1>4, <2>1 DEF Bool
<1> QED BY <1>1, <1>5, <1>6, <1>7

\* The minimum of the maximum is the bounded number.
LEMMA BoundedWord ==
  ASSUME NEW a \in Data, NEW top \in Int, 0 <= top, top < Msb(XLEN),
         NEW low \in Int, -Msb(XLEN) <= low, low <= 0
  PROVE  GenAluResult("min", GenAluResult("max", a, Wrap(low)), top)
           = Wrap(IF Signed(a) <= low THEN low
                  ELSE IF Signed(a) >= top THEN top ELSE Signed(a))
<1> DEFINE va == Signed(a)
           wl == Wrap(low)
<1>1. /\ va \in Int /\ Wrap(va) = a /\ Msb(XLEN) \in Nat
  BY WrapSigned
<1>2. Signed(wl) = low
  BY <1>1, SignedWrap
<1>3. Wrap(top) = top /\ Signed(top) = top
  <2>1. 2^XLEN = 2 * Msb(XLEN)
    BY WidthPositive, Halves
  <2>2. top < 2^XLEN /\ 2^XLEN \in Nat
    BY <1>1, <2>1
  <2>3. Wrap(top) = top
    BY <2>2 DEF Wrap
  <2> QED BY <1>1, <2>3, SignedWrap
<1>4. GenAluResult("max", a, wl) = (IF va < low THEN wl ELSE a)
  BY <1>2 DEF GenAluResult
<1> DEFINE x == GenAluResult("max", a, wl)
<1>5. Signed(x) = (IF va < low THEN low ELSE va)
  BY <1>2, <1>4
<1>6. GenAluResult("min", x, top) = (IF Signed(x) < top THEN x ELSE top)
  BY <1>3 DEF GenAluResult
<1>7. x = IF va < low THEN Wrap(low) ELSE Wrap(va)
  BY <1>1, <1>4
<1> HIDE DEF va, x
<1> QED BY <1>1, <1>3, <1>5, <1>6, <1>7 DEF x, va

\* The bounds of clip and clipr are those of one minimum and maximum.
LEMMA ClipOrder ==
  ASSUME NEW row, row[2] \in BOOLEAN, row[3] \in BOOLEAN, NEW ls2 \in Nat,
         NEW i, i.rs1_rdata \in Data, i.rs2_rdata \in Data, row[3] \/ ls2 <= XLEN - 1
  PROVE  LET top == UpperBound(row[3], i, ls2)
             low == IF row[2] THEN 0 ELSE -(top + 1)
         IN  /\ top \in Int /\ 0 <= top /\ top < Msb(XLEN)
             /\ Clipped(row, i, ls2)
                  = GenAluResult("min", GenAluResult("max", i.rs1_rdata, Wrap(low)), top)
<1> DEFINE a == i.rs1_rdata
           x == i.rs2_rdata
           top == UpperBound(row[3], i, ls2)
<1>1. x \in Int /\ 0 <= x /\ Msb(XLEN) \in Nat /\ Msb(XLEN) >= 1
  BY WrapSigned
<1>2. top \in Int /\ 0 <= top /\ top < Msb(XLEN)
  <2>1. CASE row[3]
    <3>1. top = x % Msb(XLEN)
      BY <2>1 DEF UpperBound
    <3> QED BY <1>1, <3>1
  <2>2. CASE ~row[3] /\ ls2 = 0
    <3>1. top = 0
      BY <2>2 DEF UpperBound
    <3> QED BY <1>1, <3>1
  <2>3. CASE ~row[3] /\ ls2 >= 1
    <3> DEFINE k == ls2 - 1
               l == XLEN - 1
    <3>1. k \in Nat /\ l \in Nat /\ k <= l /\ ls2 /= 0
      BY <2>3, WidthPositive
    <3>2. top = 2^k - 1
      BY <2>3, <3>1 DEF UpperBound
    <3>3. Msb(XLEN) = 2^l
      BY DEF Msb
    <3> HIDE DEF k, l
    <3>4. 2^k \in Nat /\ 2^k > 0 /\ 2^k <= 2^l
      BY <3>1, PowerType, PowerMonotone
    <3> QED BY <1>1, <3>2, <3>3, <3>4
  <2> QED BY <2>1, <2>2, <2>3
<1> HIDE DEF top
<1> DEFINE low == IF row[2] THEN 0 ELSE -(top + 1)
<1>3. low \in Int /\ -Msb(XLEN) <= low /\ low <= 0
  BY <1>1, <1>2
<1>4. Clipped(row, i, ls2)
        = Wrap(IF Signed(a) <= low THEN low ELSE IF Signed(a) >= top THEN top ELSE Signed(a))
  BY DEF Clipped, top
<1> HIDE DEF low
<1>5. GenAluResult("min", GenAluResult("max", a, Wrap(low)), top)
        = Wrap(IF Signed(a) <= low THEN low ELSE IF Signed(a) >= top THEN top ELSE Signed(a))
  BY <1>2, <1>3, BoundedWord
<1> QED BY <1>2, <1>4, <1>5 DEF low, top

\* A lane of n bits.
LEMMA LaneOperations ==
  ASSUME NEW n \in Nat, n >= 1, n <= XLEN, NEW x \in Vector(n), NEW y \in Vector(n)
  PROVE  LaneOrder(n, x, y)
<1> DEFINE S(op) == SimdLane(op, n, x, y)
           vx == SignedAt(x, n)
           vy == SignedAt(y, n)
           h == Msb(n)
<1>1. /\ h \in Nat /\ h >= 1 /\ 2^n = 2 * h /\ x \in Int /\ 0 <= x /\ x < 2^n
      /\ y \in Int /\ 0 <= y /\ y < 2^n
      /\ vx \in Int /\ -h <= vx /\ vx < h /\ vx = IF x >= h THEN x - 2 * h ELSE x
      /\ vy \in Int /\ -h <= vy /\ vy < h /\ vy = IF y >= h THEN y - 2 * h ELSE y
  BY Halves, SignedRange
<1>2. Signed(SignExtend(x, n)) = vx /\ Signed(SignExtend(y, n)) = vy
  <2> DEFINE k == n - 1
             l == XLEN - 1
  <2>1. k \in Nat /\ l \in Nat /\ k <= l
    BY WidthPositive
  <2>2. h = 2^k /\ Msb(XLEN) = 2^l
    BY DEF Msb
  <2> HIDE DEF k, l
  <2>3. h <= Msb(XLEN) /\ Msb(XLEN) \in Nat
    BY <2>1, <2>2, PowerType, PowerMonotone
  <2> HIDE DEF h, vx, vy
  <2>4. -Msb(XLEN) <= vx /\ vx < Msb(XLEN) /\ -Msb(XLEN) <= vy /\ vy < Msb(XLEN)
    BY <1>1, <2>3
  <2>5. Signed(Wrap(vx)) = vx /\ Signed(Wrap(vy)) = vy
    BY <1>1, <2>4, SignedWrap
  <2> QED BY <2>5 DEF SignExtend, vx, vy
<1> DEFINE top == Ones(n)
<1>3. top \in Int /\ top >= 1 /\ top = 2^n - 1
  BY <1>1 DEF Ones
<1>4. /\ S("cmplt") = (IF vx < vy THEN top ELSE 0)
      /\ S("cmpge") = (IF vx >= vy THEN top ELSE 0)
      /\ S("cmpgt") = (IF vx > vy THEN top ELSE 0)
      /\ S("cmple") = (IF vx <= vy THEN top ELSE 0)
      /\ S("cmpeq") = (IF vx = vy THEN top ELSE 0)
      /\ S("cmpne") = (IF vx /= vy THEN top ELSE 0)
  BY DEF SimdLane, SimdShifts, SignedCompares, Compare
<1>5. /\ S("cmpltu") = (IF x < y THEN top ELSE 0)
      /\ S("cmpgeu") = (IF x >= y THEN top ELSE 0)
      /\ S("cmpgtu") = (IF x > y THEN top ELSE 0)
      /\ S("cmpleu") = (IF x <= y THEN top ELSE 0)
  BY DEF SimdLane, SimdShifts, SignedCompares, Compare
<1>6. /\ S("min") = (IF vx < vy THEN x ELSE y) /\ S("max") = (IF vx > vy THEN x ELSE y)
      /\ S("minu") = (IF x < y THEN x ELSE y) /\ S("maxu") = (IF x > y THEN x ELSE y)
  BY DEF SimdLane, SimdShifts, SignedCompares
<1>15. S("abs") = (IF vx < 0 THEN (-x) % 2^n ELSE x)
  BY DEF SimdLane, SimdShifts, SignedCompares
<1>7. vx = vy <=> x = y
  <2>1. x = y => vx = vy
    OBVIOUS
  <2> HIDE DEF vx, vy, h
  <2> QED BY <1>1, <2>1
<1>8. vx < 0 => x + S("abs") = 2^n
  <2> DEFINE m == 2^n
             s == S("abs")
  <2>1. vx < 0 => s = (-x) % m
    BY <1>15
  <2> HIDE DEF vx, vy, h, m, s
  <2>2. vx < 0 => x > 0 /\ x < m /\ m \in Nat
    BY <1>1 DEF m
  <2>3. vx < 0 => (-x) % m = m - x
    BY <1>1, <2>2
  <2> QED BY <1>1, <2>1, <2>2, <2>3 DEF m, s
<1> DEFINE less == Signed(SignExtend(x, n)) < Signed(SignExtend(y, n))
<1>9. less <=> vx < vy
  BY <1>2
<1> HIDE DEF vx, vy, h, top, less
<1>10. /\ S("cmplt") = top <=> less
       /\ S("cmpltu") = top <=> x < y
       /\ S("cmpge") = top <=> ~less
       /\ S("cmpgeu") = top <=> ~(x < y)
  BY <1>1, <1>3, <1>4, <1>5, <1>9
<1>11. /\ S("cmpgt") = top <=> ~(less \/ S("cmpeq") = top)
       /\ S("cmple") = top <=> ~(S("cmpgt") = top)
       /\ S("cmpne") = top <=> ~(S("cmpeq") = top)
  BY <1>1, <1>3, <1>4, <1>9
<1>12. /\ S("cmpgtu") = top <=> ~(x < y \/ S("cmpeq") = top)
       /\ S("cmpleu") = top <=> ~(S("cmpgtu") = top)
  BY <1>1, <1>3, <1>4, <1>5, <1>7
<1>13. /\ S("min") = (IF less THEN x ELSE y) /\ S("min") + S("max") = x + y
       /\ S("minu") = (IF x < y THEN x ELSE y) /\ S("minu") + S("maxu") = x + y
  BY <1>1, <1>6, <1>7, <1>9
<1>14. S("abs") = S("max") \/ x + S("abs") = 2^n \/ S("abs") = x
  BY <1>1, <1>15, <1>8
<1> HIDE DEF S
<1> QED BY <1>10, <1>11, <1>12, <1>13, <1>14, Zenon DEF LaneOrder, S, top, less

-----------------------------------------------------------------------------
(***************************************************************************)
(* The inputs of the module stay those of its ports, and a model that it   *)
(* takes into account is one of its ISA that reports spec_valid.           *)
(***************************************************************************)
OnPorts(i) ==
  /\ i = XInputs(i.valid, i.insn, i, i.def)
  /\ i.insn \in InsnWords
  /\ i.rs1_rdata \in Data /\ i.rs2_rdata \in Data
GatedOutputs(i, outs) == \A n \in DOMAIN outs : outs[n] = XInsn(n, Gate(i, XInsn(n, i)))
XIsaInv ==
  /\ OnPorts(xin)
  /\ \A n \in DOMAIN xspecs : n \in XIsaOf(XParts(xin.def)) /\ XInsn(n, xin).valid
  /\ GatedOutputs(xin, xspecs)

\* The models that the module takes into account are those with spec_valid, and
\* their outputs are those of the operands that they name.
LEMMA SpecsKnown ==
  ASSUME NEW i
  PROVE  /\ \A n \in DOMAIN XSpecs(i) : n \in XIsaOf(XParts(i.def)) /\ XInsn(n, i).valid
         /\ GatedOutputs(i, XSpecs(i))
BY DEF XSpecs, GatedOutputs

LEMMA InputsOf ==
  ASSUME XInputsTyped, NEW w \in XWords, NEW o \in XOperands, NEW valid, NEW def
  PROVE  OnPorts(XInputs(valid, w, o, def))
<1>1. w \in InsnWords
  BY DEF XInputsTyped
<1>2. o.rs1_rdata \in Data /\ o.rs2_rdata \in Data
  BY DEF XInputsTyped
<1> QED BY <1>1, <1>2 DEF OnPorts, XInputs

\* The invariant holds of every ISA with the CORE-V instructions: isa_<isa>.v,
\* generated by insns/generate_xpulp.py, keeps no state of its own.
THEOREM XIsaInvariant == ASSUME XInputsTyped PROVE XSpec => []XIsaInv
<1>1. XInit => XIsaInv
  <2> SUFFICES ASSUME XInit PROVE XIsaInv
    OBVIOUS
  <2>1. PICK w \in XWords, o \in XOperands, def \in XConfigs : xin = XInputs(FALSE, w, o, def)
    BY DEF XInit
  <2>2. DOMAIN xspecs = {}
    BY DEF XInit
  <2>3. GatedOutputs(xin, xspecs)
    BY <2>2 DEF GatedOutputs
  <2> QED BY <2>1, <2>2, <2>3, InputsOf DEF XIsaInv
<1>2. XIsaInv /\ [XNext]_xvars => XIsaInv'
  <2> SUFFICES ASSUME XIsaInv, [XNext]_xvars PROVE XIsaInv'
    OBVIOUS
  <2>1. CASE UNCHANGED xvars
    BY <2>1 DEF XIsaInv, xvars
  <2>2. CASE XNext
    <3>1. PICK valid \in BOOLEAN, w \in XWords, o \in XOperands :
            XDrive(XInputs(valid, w, o, xin.def))
      BY <2>2 DEF XNext
    <3> DEFINE i == XInputs(valid, w, o, xin.def)
    <3>2. OnPorts(i)
      BY InputsOf
    <3> HIDE DEF i
    <3>3. xin' = i /\ xspecs' = XSpecs(i)
      BY <3>1 DEF XDrive, i
    <3> QED BY <3>2, <3>3, SpecsKnown DEF XIsaInv
  <2> QED BY <2>1, <2>2
<1> QED BY <1>1, <1>2, PTL DEF XSpec

\* No word is known to two instruction models of rv32imx or rv32imcx: the
\* encodings that insns/generate_xpulp.py puts into the four custom opcodes and
\* those of the base ISA leave each word to one of them, for every word.
THEOREM UniqueDecodeAlways == ASSUME XInputsTyped PROVE XSpec => []XUniqueDecode
<1>1. XIsaInv => XUniqueDecode
  <2> SUFFICES ASSUME XIsaInv PROVE XUniqueDecode
    OBVIOUS
  <2> DEFINE w == xin.insn
             parts == XParts(xin.def)
  <2>1. w \in InsnWords /\ parts \in SUBSET {"I", "M", "C"}
    BY DEF XIsaInv, OnPorts, XParts
  <2>2. \A n \in DOMAIN xspecs : n \in XIsaOf(parts) /\ XInsn(n, xin).valid
    BY DEF XIsaInv
  <2>3. \A n \in DOMAIN xspecs : n[1] = Generator(w) /\ Names(w, n)
    BY <2>1, <2>2, XDecoding
  <2> HIDE DEF w, parts
  <2>4. \A n, m \in DOMAIN xspecs : n = m
    BY <2>2, <2>3, NamedOnce
  <2>5. CASE DOMAIN xspecs = {}
    BY <2>5, FS_EmptySet DEF XUniqueDecode
  <2>6. CASE DOMAIN xspecs /= {}
    <3>1. PICK n : DOMAIN xspecs = {n}
      BY <2>4, <2>6
    <3>2. Cardinality({n}) = 1
      BY FS_Singleton
    <3> QED BY <3>1, <3>2 DEF XUniqueDecode
  <2> QED BY <2>5, <2>6
<1> QED BY <1>1, XIsaInvariant, PTL

\* Bounds of registers, by registers and by immediates.
LEMMA ClipsOrder ==
  ASSUME XIsaInv
  PROVE  LET a == xin.rs1_rdata
             b == xin.rs2_rdata
             bound == b % Msb(XLEN)
             Clip(op, x, amount) == Clipped(Clips[op], [xin EXCEPT !.rs2_rdata = x], amount)
             Bounded(low) == GenAluResult("min", GenAluResult("max", a, Wrap(low)), bound)
         IN  /\ Clip("clipr", b, 0) = Bounded(-(bound + 1))
             /\ Clip("clipur", b, 0) = Bounded(0)
             /\ \A ls2 \in 1 .. XLEN - 1 :
                  /\ Clip("clip", 0, ls2) = Clip("clipr", 2^(ls2 - 1) - 1, 0)
                  /\ Clip("clipu", 0, ls2) = Clip("clipur", 2^(ls2 - 1) - 1, 0)
             /\ Clip("clip", 0, 0) = Clip("clipr", 0, 0)
<1> DEFINE a == xin.rs1_rdata
           b == xin.rs2_rdata
           h == Msb(XLEN)
           I(x) == [xin EXCEPT !.rs2_rdata = x]
           ClipOf(op, x, amount) == Clipped(Clips[op], I(x), amount)
           Between(low, top) == GenAluResult("min", GenAluResult("max", a, Wrap(low)), top)
<1>1. /\ a \in Data /\ b \in Data /\ b \in Nat /\ h \in Nat /\ h >= 1
      /\ \A x : I(x).rs1_rdata = a /\ I(x).rs2_rdata = x
  <2>1. a \in Data /\ b \in Data /\ xin = XInputs(xin.valid, xin.insn, xin, xin.def)
    BY DEF XIsaInv, OnPorts
  <2>2. \A x : I(x).rs1_rdata = a /\ I(x).rs2_rdata = x
    BY <2>1 DEF XInputs
  <2>3. b \in Nat /\ h \in Nat /\ h >= 1
    BY <2>1, WrapSigned
  <2> QED BY <2>1, <2>2, <2>3
<1>2. /\ Clips["clip"][2] = FALSE /\ Clips["clip"][3] = FALSE
      /\ Clips["clipu"][2] = TRUE /\ Clips["clipu"][3] = FALSE
      /\ Clips["clipr"][2] = FALSE /\ Clips["clipr"][3] = TRUE
      /\ Clips["clipur"][2] = TRUE /\ Clips["clipur"][3] = TRUE
  BY DEF Clips
<1>8. \A op \in {"clip", "clipu", "clipr", "clipur"} :
        Clips[op][2] \in BOOLEAN /\ Clips[op][3] \in BOOLEAN
  BY <1>2
<1>3. \A x \in Data : /\ ClipOf("clipr", x, 0) = Between(-((x % h) + 1), x % h)
                      /\ ClipOf("clipur", x, 0) = Between(0, x % h)
  <2> SUFFICES ASSUME NEW x \in Data
               PROVE  /\ ClipOf("clipr", x, 0) = Between(-((x % h) + 1), x % h)
                      /\ ClipOf("clipur", x, 0) = Between(0, x % h)
    OBVIOUS
  <2>1. I(x).rs1_rdata = a /\ I(x).rs2_rdata = x
    BY <1>1
  <2>2. /\ x % h = UpperBound(Clips["clipr"][3], I(x), 0)
        /\ x % h = UpperBound(Clips["clipur"][3], I(x), 0)
    BY <1>2, <2>1 DEF UpperBound
  <2> DEFINE top == x % h
  <2>3. top = UpperBound(Clips["clipr"][3], I(x), 0)
        /\ top = UpperBound(Clips["clipur"][3], I(x), 0)
    BY <2>2
  <2> HIDE DEF a, I, h, top
  <2>4. 0 \in Nat /\ a \in Data /\ 0 <= XLEN - 1
    BY <1>1, WidthPositive
  <2>5. ClipOf("clipr", x, 0) = Between(IF Clips["clipr"][2] THEN 0 ELSE -(top + 1), top)
    BY <1>1, <1>8, <2>1, <2>3, <2>4, ClipOrder
  <2>6. ClipOf("clipur", x, 0) = Between(IF Clips["clipur"][2] THEN 0 ELSE -(top + 1), top)
    BY <1>1, <1>8, <2>1, <2>3, <2>4, ClipOrder
  <2> QED BY <1>2, <2>5, <2>6 DEF top
<1>4. ASSUME NEW ls2 \in 0 .. XLEN - 1,
             NEW top, top = IF ls2 = 0 THEN 0 ELSE 2^(ls2 - 1) - 1
      PROVE  /\ top \in Data /\ top % h = top
             /\ ClipOf("clip", 0, ls2) = Between(-(top + 1), top)
             /\ ClipOf("clipu", 0, ls2) = Between(0, top)
  <2>1. I(0).rs1_rdata = a /\ I(0).rs2_rdata = 0
    BY <1>1
  <2>2. /\ top = UpperBound(Clips["clip"][3], I(0), ls2)
        /\ top = UpperBound(Clips["clipu"][3], I(0), ls2)
    BY <1>2, <1>4 DEF UpperBound
  <2>3. 0 \in Data /\ 2^XLEN = 2 * h
    BY <1>1, WidthPositive, Halves DEF Data, Vector, Ones
  <2>8. a \in Data /\ ls2 \in Nat /\ ls2 <= XLEN - 1
    BY <1>1, WidthPositive
  <2> HIDE DEF a, I
  <2>4. /\ top \in Int /\ 0 <= top /\ top < h
        /\ ClipOf("clip", 0, ls2) = Between(IF Clips["clip"][2] THEN 0 ELSE -(top + 1), top)
    BY <1>8, <2>1, <2>2, <2>3, <2>8, ClipOrder DEF h
  <2>5. ClipOf("clipu", 0, ls2) = Between(IF Clips["clipu"][2] THEN 0 ELSE -(top + 1), top)
    BY <1>8, <2>1, <2>2, <2>3, <2>8, ClipOrder
  <2> HIDE DEF h, ClipOf, Between
  <2>6. top % h = top
    BY <1>1, <2>4
  <2>7. top \in Data
    BY <1>1, <2>3, <2>4 DEF Data, Vector, Ones
  <2> QED BY <1>2, <2>4, <2>5, <2>6, <2>7
<1> HIDE DEF a, b, h, ClipOf, Between
<1>5. /\ ClipOf("clipr", b, 0) = Between(-((b % h) + 1), b % h)
      /\ ClipOf("clipur", b, 0) = Between(0, b % h)
  BY <1>1, <1>3
<1>6. ASSUME NEW ls2 \in 1 .. XLEN - 1
      PROVE  /\ ClipOf("clip", 0, ls2) = ClipOf("clipr", 2^(ls2 - 1) - 1, 0)
             /\ ClipOf("clipu", 0, ls2) = ClipOf("clipur", 2^(ls2 - 1) - 1, 0)
  <2> DEFINE top == 2^(ls2 - 1) - 1
  <2>1. top = IF ls2 = 0 THEN 0 ELSE 2^(ls2 - 1) - 1
    OBVIOUS
  <2> HIDE DEF top
  <2>2. /\ top \in Data /\ top % h = top
        /\ ClipOf("clip", 0, ls2) = Between(-(top + 1), top)
        /\ ClipOf("clipu", 0, ls2) = Between(0, top)
    BY <1>4, <2>1
  <2>3. /\ ClipOf("clipr", top, 0) = Between(-(top + 1), top)
        /\ ClipOf("clipur", top, 0) = Between(0, top)
    BY <1>3, <2>2
  <2>4. ClipOf("clip", 0, ls2) = ClipOf("clipr", top, 0) /\ ClipOf("clipu", 0, ls2) = ClipOf("clipur", top, 0)
    BY <2>2, <2>3
  <2> QED BY <2>4 DEF top
<1>7. ClipOf("clip", 0, 0) = ClipOf("clipr", 0, 0)
  <2>1. 0 \in 0 .. XLEN - 1
    BY WidthPositive
  <2>2. 0 \in Data /\ 0 % h = 0 /\ ClipOf("clip", 0, 0) = Between(-(0 + 1), 0)
    BY <1>4, <2>1
  <2> QED BY <1>3, <2>2
<1> QED BY <1>5, <1>6, <1>7, Zenon DEF ClipOf, Between, a, b, h

\* The lanes of a register are vectors of their width.
LEMMA LaneVector ==
  ASSUME NEW v \in Data, NEW half \in BOOLEAN, NEW k \in LanesOf(half)
  PROVE  /\ Width(half) \in Nat /\ Width(half) >= 1 /\ Width(half) <= XLEN
         /\ Lane(v, half, k) \in Vector(Width(half))
<1>1. Width(half) \in Nat /\ Width(half) >= 1 /\ Width(half) <= XLEN
  BY WidthPositive, FormatsAssumption DEF Width
<1>2. k \in Nat
  BY DEF LanesOf
<1> DEFINE n == Width(half)
           j == n * k
<1>3. j \in Nat
  BY <1>1, <1>2
<1> HIDE DEF j
<1>4. v \in Int /\ 2^n \in Nat /\ 2^n > 0 /\ 2^j \in Nat /\ 2^j > 0
  BY <1>1, <1>3, PowerType, WrapSigned
<1> DEFINE m == 2^n
           q == 2^j
           x == (v \div q) % m
<1> HIDE DEF n, m, q
<1>5. x \in Int /\ 0 <= x /\ x <= m - 1
  BY <1>4 DEF m, q
<1>6. x \in Vector(n)
  BY <1>5 DEF Vector, Ones, m
<1>7. x = Lane(v, half, k)
  BY Zenon DEF Lane, n, j, m, q
<1> QED BY <1>1, <1>6, <1>7 DEF n

\* Whatever two registers hold, the generators of insns/generate_xpulp.py that
\* compare, take a minimum or a maximum or bound, signed and unsigned, of words
\* and of lanes, follow one order.
THEOREM OneOrderAlways == ASSUME XInputsTyped PROVE XSpec => []OneOrder
<1>1. XIsaInv => OneOrder
  <2> SUFFICES ASSUME XIsaInv PROVE OneOrder
    OBVIOUS
  <2>1. xin.rs1_rdata \in Data /\ xin.rs2_rdata \in Data
    BY DEF XIsaInv, OnPorts
  <2> DEFINE a == xin.rs1_rdata
             b == xin.rs2_rdata
  <2>2. ASSUME NEW half \in BOOLEAN, NEW k \in LanesOf(half)
        PROVE  /\ Width(half) \in Nat /\ Width(half) >= 1 /\ Width(half) <= XLEN
               /\ Lane(a, half, k) \in Vector(Width(half))
               /\ Lane(b, half, k) \in Vector(Width(half))
    BY <2>1, LaneVector
  <2>3. \A half \in BOOLEAN : \A k \in LanesOf(half) :
          LaneOrder(Width(half), Lane(a, half, k), Lane(b, half, k))
    BY <2>2, LaneOperations
  <2>4. /\ GenAluResult("min", a, b) + GenAluResult("max", a, b) = a + b
        /\ GenAluResult("minu", a, b) + GenAluResult("maxu", a, b) = a + b
        /\ GenAluResult("slet", a, b) = Bool(GenAluResult("min", a, b) = a)
        /\ GenAluResult("sletu", a, b) = Bool(GenAluResult("minu", a, b) = a)
        /\ GenAluResult("slet", a, b) + Alu("slt", XLEN, b, a) = 1
    BY <2>1, WordOrder, Zenon
  <2> QED BY <2>3, <2>4, ClipsOrder, Zenon DEF OneOrder
<1> QED BY <1>1, XIsaInvariant, PTL

-----------------------------------------------------------------------------
(***************************************************************************)
(* Hardware loops: the pc after each instruction, at the end of a loop and *)
(* elsewhere.                                                              *)
(***************************************************************************)
\* An instruction of the base ISA that neither jumps nor branches goes to the
\* next one.
LEMMA SequentialPc ==
  ASSUME NEW parts \in SUBSET {"I", "M", "C"}, NEW n \in IsaOf(parts), NEW i,
         n \notin Jumps \cup DOMAIN Branches \cup DOMAIN CBranches
  PROVE  Insn(n, i).pc_wdata \in {Next4(i), Next2(i)}
<1>1. CASE n = "lui"
  <2>1. Insn(n, i) = InsnLui(i)
    BY <1>1, TableNames DEF Insn
  <2> QED BY <2>1 DEF InsnLui, Default
<1>2. CASE n = "auipc"
  <2>1. Insn(n, i) = InsnAuipc(i)
    BY <1>2, TableNames DEF Insn
  <2> QED BY <2>1 DEF InsnAuipc, Default
<1>3. CASE n \in DOMAIN LoadInsns
  <2>1. Insn(n, i) = InsnL(LoadInsns[n], i)
    BY <1>3, TableNames DEF Insn
  <2> QED BY <2>1 DEF InsnL, Default, Loads
<1>4. CASE n \in DOMAIN LoadInsns64
  <2>1. Insn(n, i) = InsnL(LoadInsns64[n], i)
    BY <1>4, TableNames DEF Insn
  <2> QED BY <2>1 DEF InsnL, Default, Loads
<1>5. CASE n \in DOMAIN StoreInsns
  <2>1. Insn(n, i) = InsnS(StoreInsns[n], i)
    BY <1>5, TableNames DEF Insn
  <2> QED BY <2>1 DEF InsnS, Default, Stores
<1>6. CASE n \in DOMAIN StoreInsns64
  <2>1. Insn(n, i) = InsnS(StoreInsns64[n], i)
    BY <1>6, TableNames DEF Insn
  <2> QED BY <2>1 DEF InsnS, Default, Stores
<1>7. CASE n \in DOMAIN ImmInsns
  <2>1. Insn(n, i) = InsnImm(ImmInsns[n], FALSE, i)
    BY <1>7, TableNames DEF Insn
  <2> QED BY <2>1 DEF InsnImm, Default
<1>8. CASE n \in DOMAIN ImmInsns64
  <2>1. Insn(n, i) = InsnImm(ImmInsns64[n], TRUE, i)
    BY <1>8, TableNames DEF Insn
  <2> QED BY <2>1 DEF InsnImm, Default
<1>9. CASE n \in DOMAIN ShiftInsns
  <2>1. Insn(n, i) = InsnShimm(ShiftInsns[n], FALSE, i)
    BY <1>9, TableNames DEF Insn
  <2> QED BY <2>1 DEF InsnShimm, Default
<1>10. CASE n \in DOMAIN ShiftInsns64
  <2>1. Insn(n, i) = InsnShimm(ShiftInsns64[n], TRUE, i)
    BY <1>10, TableNames DEF Insn
  <2> QED BY <2>1 DEF InsnShimm, Default
<1>11. CASE n \in DOMAIN AluInsns
  <2>1. Insn(n, i) = InsnAlu(AluInsns[n], FALSE, i)
    BY <1>11, TableNames DEF Insn
  <2> QED BY <2>1 DEF InsnAlu, Default
<1>12. CASE n \in DOMAIN AluInsns64
  <2>1. Insn(n, i) = InsnAlu(AluInsns64[n], TRUE, i)
    BY <1>12, TableNames DEF Insn
  <2> QED BY <2>1 DEF InsnAlu, Default
<1>13. CASE n \in DOMAIN MulInsns
  <2>1. Insn(n, i) = InsnAlu(MulInsns[n], FALSE, i)
    BY <1>13, TableNames DEF Insn
  <2> QED BY <2>1 DEF InsnAlu, Default
<1>14. CASE n \in DOMAIN MulInsns64
  <2>1. Insn(n, i) = InsnAlu(MulInsns64[n], TRUE, i)
    BY <1>14, TableNames DEF Insn
  <2> QED BY <2>1 DEF InsnAlu, Default
<1>15. CASE n = "c_addi4spn"
  <2>1. Insn(n, i) = InsnCAddi4spn(i)
    BY <1>15, TableNames DEF Insn
  <2> QED BY <2>1 DEF InsnCAddi4spn, Default
<1>16. CASE n \in DOMAIN CLoads
  <2>1. Insn(n, i) = InsnCL(CLoads[n], i)
    BY <1>16, TableNames DEF Insn
  <2> QED BY <2>1 DEF InsnCL, Default, Loads
<1>17. CASE n \in DOMAIN CLoads64
  <2>1. Insn(n, i) = InsnCL(CLoads64[n], i)
    BY <1>17, TableNames DEF Insn
  <2> QED BY <2>1 DEF InsnCL, Default, Loads
<1>18. CASE n \in DOMAIN CStores
  <2>1. Insn(n, i) = InsnCS(CStores[n], i)
    BY <1>18, TableNames DEF Insn
  <2> QED BY <2>1 DEF InsnCS, Default, Stores
<1>19. CASE n \in DOMAIN CStores64
  <2>1. Insn(n, i) = InsnCS(CStores64[n], i)
    BY <1>19, TableNames DEF Insn
  <2> QED BY <2>1 DEF InsnCS, Default, Stores
<1>20. CASE n \in {"c_addi", "c_addiw"}
  <2>1. Insn(n, i) = InsnCAddi(n = "c_addiw", i)
    BY <1>20, TableNames DEF Insn
  <2> QED BY <2>1 DEF InsnCAddi, Default
<1>21. CASE n = "c_li"
  <2>1. Insn(n, i) = InsnCLi(i)
    BY <1>21, TableNames DEF Insn
  <2> QED BY <2>1 DEF InsnCLi, Default
<1>22. CASE n = "c_addi16sp"
  <2>1. Insn(n, i) = InsnCAddi16sp(i)
    BY <1>22, TableNames DEF Insn
  <2> QED BY <2>1 DEF InsnCAddi16sp, Default
<1>23. CASE n = "c_lui"
  <2>1. Insn(n, i) = InsnCLui(i)
    BY <1>23, TableNames DEF Insn
  <2> QED BY <2>1 DEF InsnCLui, Default
<1>24. CASE n \in DOMAIN CRightShifts
  <2>1. Insn(n, i) = InsnCSri(CRightShifts[n], i)
    BY <1>24, TableNames DEF Insn
  <2> QED BY <2>1 DEF InsnCSri, Default
<1>25. CASE n = "c_andi"
  <2>1. Insn(n, i) = InsnCAndi(i)
    BY <1>25, TableNames DEF Insn
  <2> QED BY <2>1 DEF InsnCAndi, Default
<1>26. CASE n \in DOMAIN CAlus
  <2>1. Insn(n, i) = InsnCAlu(CAlus[n], FALSE, i)
    BY <1>26, TableNames DEF Insn
  <2> QED BY <2>1 DEF InsnCAlu, Default
<1>27. CASE n \in DOMAIN CAlus64
  <2>1. Insn(n, i) = InsnCAlu(CAlus64[n], TRUE, i)
    BY <1>27, TableNames DEF Insn
  <2> QED BY <2>1 DEF InsnCAlu, Default
<1>28. CASE n = "c_slli"
  <2>1. Insn(n, i) = InsnCSli(i)
    BY <1>28, TableNames DEF Insn
  <2> QED BY <2>1 DEF InsnCSli, Default
<1>29. CASE n \in DOMAIN CSpLoads
  <2>1. Insn(n, i) = InsnCLsp(CSpLoads[n], i)
    BY <1>29, TableNames DEF Insn
  <2> QED BY <2>1 DEF InsnCLsp, Default, Loads
<1>30. CASE n \in DOMAIN CSpLoads64
  <2>1. Insn(n, i) = InsnCLsp(CSpLoads64[n], i)
    BY <1>30, TableNames DEF Insn
  <2> QED BY <2>1 DEF InsnCLsp, Default, Loads
<1>31. CASE n \in DOMAIN CSpStores
  <2>1. Insn(n, i) = InsnCSsp(CSpStores[n], i)
    BY <1>31, TableNames DEF Insn
  <2> QED BY <2>1 DEF InsnCSsp, Default, Stores
<1>32. CASE n \in DOMAIN CSpStores64
  <2>1. Insn(n, i) = InsnCSsp(CSpStores64[n], i)
    BY <1>32, TableNames DEF Insn
  <2> QED BY <2>1 DEF InsnCSsp, Default, Stores
<1>33. CASE n \in DOMAIN CMoves
  <2>1. Insn(n, i) = InsnCMvadd(CMoves[n], i)
    BY <1>33, TableNames DEF Insn
  <2> QED BY <2>1 DEF InsnCMvadd, Default
<1>34. \/ n = "lui"
      \/ n = "auipc"
      \/ n \in DOMAIN LoadInsns
      \/ n \in DOMAIN LoadInsns64
      \/ n \in DOMAIN StoreInsns
      \/ n \in DOMAIN StoreInsns64
      \/ n \in DOMAIN ImmInsns
      \/ n \in DOMAIN ImmInsns64
      \/ n \in DOMAIN ShiftInsns
      \/ n \in DOMAIN ShiftInsns64
      \/ n \in DOMAIN AluInsns
      \/ n \in DOMAIN AluInsns64
      \/ n \in DOMAIN MulInsns
      \/ n \in DOMAIN MulInsns64
      \/ n = "c_addi4spn"
      \/ n \in DOMAIN CLoads
      \/ n \in DOMAIN CLoads64
      \/ n \in DOMAIN CStores
      \/ n \in DOMAIN CStores64
      \/ n \in {"c_addi", "c_addiw"}
      \/ n = "c_li"
      \/ n = "c_addi16sp"
      \/ n = "c_lui"
      \/ n \in DOMAIN CRightShifts
      \/ n = "c_andi"
      \/ n \in DOMAIN CAlus
      \/ n \in DOMAIN CAlus64
      \/ n = "c_slli"
      \/ n \in DOMAIN CSpLoads
      \/ n \in DOMAIN CSpLoads64
      \/ n \in DOMAIN CSpStores
      \/ n \in DOMAIN CSpStores64
      \/ n \in DOMAIN CMoves
  BY TableNames DEF IsaOf, Adds32, Adds64, Jumps
<1> QED BY <1>1, <1>2, <1>3, <1>4, <1>5, <1>6, <1>7, <1>8, <1>9, <1>10, <1>11, <1>12,
           <1>13, <1>14, <1>15, <1>16, <1>17, <1>18, <1>19, <1>20, <1>21, <1>22,
           <1>23, <1>24, <1>25, <1>26, <1>27, <1>28, <1>29, <1>30, <1>31, <1>32,
           <1>33, <1>34

\* What the inputs say of the word.
SameWord(i, j) == i.valid = j.valid /\ i.insn = j.insn

\* A CORE-V instruction other than a branch goes where assign_pc_wdata says,
\* whatever the operands: the word decides whether the model knows it.
LEMMA CvPc ==
  ASSUME NEW i, NEW j, SameWord(i, j), NEW n \in CvInsns, n[1] /= "b", XInsn(n, i).valid
  PROVE  XInsn(n, j).pc_wdata = PcWdata(j)
<1> DEFINE row == n[2]
<1>1. CASE n \in Tagged("l", DOMAIN CvLoads)
  <2>1. n = <<"l", row>>
    BY <1>1, InTagged
  <2> HIDE DEF row
  <2>2. XInsn(n, i) = InsnCvL(CvLoads[row], i) /\ XInsn(n, j) = InsnCvL(CvLoads[row], j)
    BY <2>1 DEF XInsn
  <2> QED BY <2>2 DEF SameWord, InsnCvL, PostIncrements, Loads, Blank
<1>2. CASE n \in Tagged("s", DOMAIN CvStores)
  <2>1. n = <<"s", row>>
    BY <1>2, InTagged
  <2> HIDE DEF row
  <2>2. XInsn(n, i) = InsnCvS(CvStores[row], i) /\ XInsn(n, j) = InsnCvS(CvStores[row], j)
    BY <2>1 DEF XInsn
  <2> QED BY <2>2 DEF SameWord, InsnCvS, PostIncrements, Stores, Blank
<1>3. CASE n \in Tagged("bit_man_1", DOMAIN BitMan1)
  <2>1. n = <<"bit_man_1", row>>
    BY <1>3, InTagged
  <2> HIDE DEF row
  <2>2. XInsn(n, i) = InsnCvBitMan1(row, i) /\ XInsn(n, j) = InsnCvBitMan1(row, j)
    BY <2>1 DEF XInsn
  <2> QED BY <2>2 DEF SameWord, InsnCvBitMan1, Computes, Blank
<1>4. CASE n \in Tagged("bitrev", {"cv_bitrev"})
  <2>1. n = <<"bitrev", row>>
    BY <1>4, InTagged
  <2> HIDE DEF row
  <2>2. XInsn(n, i) = InsnCvBitrev(i) /\ XInsn(n, j) = InsnCvBitrev(j)
    BY <2>1 DEF XInsn
  <2> QED BY <2>2 DEF SameWord, InsnCvBitrev, Computes, Blank
<1>5. CASE n \in Tagged("bit_man_2", DOMAIN BitMan2)
  <2>1. n = <<"bit_man_2", row>>
    BY <1>5, InTagged
  <2> HIDE DEF row
  <2>2. XInsn(n, i) = InsnCvBitMan2(row, i) /\ XInsn(n, j) = InsnCvBitMan2(row, j)
    BY <2>1 DEF XInsn
  <2> QED BY <2>2 DEF SameWord, InsnCvBitMan2, Computes, Blank
<1>6. CASE n \in Tagged("ror", {"cv_ror"})
  <2>1. n = <<"ror", row>>
    BY <1>6, InTagged
  <2> HIDE DEF row
  <2>2. XInsn(n, i) = InsnCvRor(i) /\ XInsn(n, j) = InsnCvRor(j)
    BY <2>1 DEF XInsn
  <2> QED BY <2>2 DEF SameWord, InsnCvRor, Computes, Blank
<1>7. CASE n \in Tagged("bit_man_3", DOMAIN BitMan3)
  <2>1. n = <<"bit_man_3", row>>
    BY <1>7, InTagged
  <2> HIDE DEF row
  <2>2. XInsn(n, i) = InsnCvBitMan3(row, i) /\ XInsn(n, j) = InsnCvBitMan3(row, j)
    BY <2>1 DEF XInsn
  <2> QED BY <2>2 DEF SameWord, InsnCvBitMan3, Computes, Blank
<1>8. CASE n \in Tagged("gen_alu", DOMAIN GenAlu)
  <2>1. n = <<"gen_alu", row>>
    BY <1>8, InTagged
  <2> HIDE DEF row
  <2>2. XInsn(n, i) = InsnCvGenAlu(row, i) /\ XInsn(n, j) = InsnCvGenAlu(row, j)
    BY <2>1 DEF XInsn
  <2> QED BY <2>2 DEF SameWord, InsnCvGenAlu, Computes, Blank
<1>9. CASE n \in Tagged("clip", DOMAIN Clips)
  <2>1. n = <<"clip", row>>
    BY <1>9, InTagged
  <2> HIDE DEF row
  <2>2. XInsn(n, i) = InsnCvClip(row, i) /\ XInsn(n, j) = InsnCvClip(row, j)
    BY <2>1 DEF XInsn
  <2> QED BY <2>2 DEF SameWord, InsnCvClip, Computes, Blank
<1>10. CASE n \in Tagged("gen_alu_N", Norms)
  <2>1. n = <<"gen_alu_N", row>>
    BY <1>10, InTagged
  <2> HIDE DEF row
  <2>2. XInsn(n, i) = InsnCvGenAluN(row, i) /\ XInsn(n, j) = InsnCvGenAluN(row, j)
    BY <2>1 DEF XInsn
  <2> QED BY <2>2 DEF SameWord, InsnCvGenAluN, Computes, Blank
<1>11. CASE n \in Tagged("gen_alu_Nr", Norms)
  <2>1. n = <<"gen_alu_Nr", row>>
    BY <1>11, InTagged
  <2> HIDE DEF row
  <2>2. XInsn(n, i) = InsnCvGenAluNr(row, i) /\ XInsn(n, j) = InsnCvGenAluNr(row, j)
    BY <2>1 DEF XInsn
  <2> QED BY <2>2 DEF SameWord, InsnCvGenAluNr, Computes, Blank
<1>12. CASE n \in Tagged("mac16", Macs)
  <2>1. n = <<"mac16", row>>
    BY <1>12, InTagged
  <2> HIDE DEF row
  <2>2. XInsn(n, i) = InsnCvMac16(row, i) /\ XInsn(n, j) = InsnCvMac16(row, j)
    BY <2>1 DEF XInsn
  <2> QED BY <2>2 DEF SameWord, InsnCvMac16, Computes, Blank
<1>13. CASE n \in Tagged("mac32", DOMAIN Macs32)
  <2>1. n = <<"mac32", row>>
    BY <1>13, InTagged
  <2> HIDE DEF row
  <2>2. XInsn(n, i) = InsnCvMac32(row, i) /\ XInsn(n, j) = InsnCvMac32(row, j)
    BY <2>1 DEF XInsn
  <2> QED BY <2>2 DEF SameWord, InsnCvMac32, Computes, Blank
<1>14. CASE n \in Tagged("simd_alu", SimdInsns)
  <2>1. n = <<"simd_alu", row>>
    BY <1>14, InTagged
  <2> HIDE DEF row
  <2>2. XInsn(n, i) = InsnCvSimdAlu(row, i) /\ XInsn(n, j) = InsnCvSimdAlu(row, j)
    BY <2>1 DEF XInsn
  <2> QED BY <2>2 DEF SameWord, InsnCvSimdAlu, Computes, Blank
<1>15. CASE n \in Tagged("ext_ins", (DOMAIN ExtIns) \X BOOLEAN)
  <2>1. n = <<"ext_ins", row>>
    BY <1>15, InTagged
  <2> HIDE DEF row
  <2>2. XInsn(n, i) = InsnCvSimdExtIns(row, i) /\ XInsn(n, j) = InsnCvSimdExtIns(row, j)
    BY <2>1 DEF XInsn
  <2> QED BY <2>2 DEF SameWord, InsnCvSimdExtIns, Computes, Blank
<1>16. CASE n \in Tagged("dot", (DOMAIN Dots) \X Forms \X BOOLEAN)
  <2>1. n = <<"dot", row>>
    BY <1>16, InTagged
  <2> HIDE DEF row
  <2>2. XInsn(n, i) = InsnCvSimdDot(row, i) /\ XInsn(n, j) = InsnCvSimdDot(row, j)
    BY <2>1 DEF XInsn
  <2> QED BY <2>2 DEF SameWord, InsnCvSimdDot, Computes, Blank
<1>17. CASE n \in Tagged("shu", DOMAIN Shuffles)
  <2>1. n = <<"shu", row>>
    BY <1>17, InTagged
  <2> HIDE DEF row
  <2>2. XInsn(n, i) = InsnCvSimdShu(row, i) /\ XInsn(n, j) = InsnCvSimdShu(row, j)
    BY <2>1 DEF XInsn
  <2> QED BY <2>2 DEF SameWord, InsnCvSimdShu, Computes, Blank
<1>18. CASE n \in Tagged("pack", DOMAIN Packs)
  <2>1. n = <<"pack", row>>
    BY <1>18, InTagged
  <2> HIDE DEF row
  <2>2. XInsn(n, i) = InsnCvSimdPack(row, i) /\ XInsn(n, j) = InsnCvSimdPack(row, j)
    BY <2>1 DEF XInsn
  <2> QED BY <2>2 DEF SameWord, InsnCvSimdPack, Computes, Blank
<1>19. CASE n \in Tagged("cplxmul", CplxMuls)
  <2>1. n = <<"cplxmul", row>>
    BY <1>19, InTagged
  <2> HIDE DEF row
  <2>2. XInsn(n, i) = InsnCvCplxmul(row, i) /\ XInsn(n, j) = InsnCvCplxmul(row, j)
    BY <2>1 DEF XInsn
  <2> QED BY <2>2 DEF SameWord, InsnCvCplxmul, Computes, Blank
<1>20. CASE n \in Tagged("cplxconj", {"cv_cplxconj"})
  <2>1. n = <<"cplxconj", row>>
    BY <1>20, InTagged
  <2> HIDE DEF row
  <2>2. XInsn(n, i) = InsnCvCplxconj(i) /\ XInsn(n, j) = InsnCvCplxconj(j)
    BY <2>1 DEF XInsn
  <2> QED BY <2>2 DEF SameWord, InsnCvCplxconj, Computes, Blank
<1>21. CASE n \in Tagged("cplxaddsub", CplxAdds)
  <2>1. n = <<"cplxaddsub", row>>
    BY <1>21, InTagged
  <2> HIDE DEF row
  <2>2. XInsn(n, i) = InsnCvCplxaddsub(row, i) /\ XInsn(n, j) = InsnCvCplxaddsub(row, j)
    BY <2>1 DEF XInsn
  <2> QED BY <2>2 DEF SameWord, InsnCvCplxaddsub, Computes, Blank
<1>22. \/ n \in Tagged("l", DOMAIN CvLoads)
       \/ n \in Tagged("s", DOMAIN CvStores)
       \/ n \in Tagged("bit_man_1", DOMAIN BitMan1)
       \/ n \in Tagged("bitrev", {"cv_bitrev"})
       \/ n \in Tagged("bit_man_2", DOMAIN BitMan2)
       \/ n \in Tagged("ror", {"cv_ror"})
       \/ n \in Tagged("bit_man_3", DOMAIN BitMan3)
       \/ n \in Tagged("gen_alu", DOMAIN GenAlu)
       \/ n \in Tagged("clip", DOMAIN Clips)
       \/ n \in Tagged("gen_alu_N", Norms)
       \/ n \in Tagged("gen_alu_Nr", Norms)
       \/ n \in Tagged("mac16", Macs)
       \/ n \in Tagged("mac32", DOMAIN Macs32)
       \/ n \in Tagged("simd_alu", SimdInsns)
       \/ n \in Tagged("ext_ins", (DOMAIN ExtIns) \X BOOLEAN)
       \/ n \in Tagged("dot", (DOMAIN Dots) \X Forms \X BOOLEAN)
       \/ n \in Tagged("shu", DOMAIN Shuffles)
       \/ n \in Tagged("pack", DOMAIN Packs)
       \/ n \in Tagged("cplxmul", CplxMuls)
       \/ n \in Tagged("cplxconj", {"cv_cplxconj"})
       \/ n \in Tagged("cplxaddsub", CplxAdds)
  BY InTagged DEF CvInsns
<1> QED BY <1>1, <1>2, <1>3, <1>4, <1>5, <1>6, <1>7, <1>8, <1>9, <1>10, <1>11, <1>12,
           <1>13, <1>14, <1>15, <1>16, <1>17, <1>18, <1>19, <1>20, <1>21, <1>22

\* What the generators make of an instruction of the base ISA: only its pc_wdata
\* knows of the hardware loop.
LEMMA BasePc ==
  ASSUME NEW n, n[1] = "base", NEW i
  PROVE  XInsn(n, i).pc_wdata =
           IF ~i.is_hwlp \/ Taken(n[2], i) THEN Insn(n[2], i).pc_wdata ELSE i.hwlp_start
<1> DEFINE row == n[2]
           out == Insn(row, i)
           e == Extended(out)
<1>1. XInsn(n, i) = Loops(row, i, e)
  BY DEF XInsn, InsnBase
<1>2. "pc_wdata" \in DOMAIN e /\ e.pc_wdata = out.pc_wdata
  BY DEF Extended
<1> HIDE DEF e, out, row
<1>3. Loops(row, i, e).pc_wdata =
        IF ~i.is_hwlp \/ Taken(row, i) THEN e.pc_wdata ELSE i.hwlp_start
  BY <1>2 DEF Loops
<1> QED BY <1>1, <1>2, <1>3 DEF out, row

\* The target of a jump does not depend on the loop.
LEMMA JumpPc ==
  ASSUME NEW n \in Jumps, NEW i, NEW j,
         i.insn = j.insn, i.pc_rdata = j.pc_rdata, i.rs1_rdata = j.rs1_rdata
  PROVE  Taken(n, i) /\ Insn(n, i).pc_wdata = Insn(n, j).pc_wdata
<1>1. Taken(n, i)
  BY TableNames DEF Taken, Jumps
<1>2. CASE n = "jal"
  <2>1. Insn(n, i) = InsnJal(i) /\ Insn(n, j) = InsnJal(j)
    BY <1>2, TableNames DEF Insn
  <2> QED BY <1>1, <2>1 DEF InsnJal, Default
<1>3. CASE n = "jalr"
  <2>1. Insn(n, i) = InsnJalr(i) /\ Insn(n, j) = InsnJalr(j)
    BY <1>3, TableNames DEF Insn
  <2> QED BY <1>1, <2>1 DEF InsnJalr, Default
<1>4. CASE n \in DOMAIN CJumps
  <2>1. Insn(n, i) = InsnCJal(CJumps[n], i) /\ Insn(n, j) = InsnCJal(CJumps[n], j)
    BY <1>4, TableNames DEF Insn
  <2> QED BY <1>1, <2>1 DEF InsnCJal, Default
<1>5. CASE n \in DOMAIN CRegJumps
  <2>1. Insn(n, i) = InsnCJalr(CRegJumps[n], i) /\ Insn(n, j) = InsnCJalr(CRegJumps[n], j)
    BY <1>5, TableNames DEF Insn
  <2> QED BY <1>1, <2>1 DEF InsnCJalr, Default
<1> QED BY <1>2, <1>3, <1>4, <1>5 DEF Jumps

\* A branch goes to its target when it is taken, else on.
LEMMA BranchPc ==
  ASSUME NEW n, NEW i
  PROVE  /\ n \in DOMAIN Branches =>
              Insn(n, i).pc_wdata =
                IF Taken(n, i) THEN Wrap(i.pc_rdata + FormatSb(i.insn).imm) ELSE Next4(i)
         /\ n \in DOMAIN CBranches =>
              Insn(n, i).pc_wdata =
                IF Taken(n, i) THEN Wrap(i.pc_rdata + FormatCb(i.insn).imm) ELSE Next2(i)
<1>1. CASE n \in DOMAIN Branches
  <2>1. Insn(n, i) = InsnB(Branches[n], i) /\ n \notin DOMAIN CBranches
    BY <1>1, TableNames DEF Insn
  <2> QED BY <1>1, <2>1 DEF InsnB, Default, Taken
<1>2. CASE n \in DOMAIN CBranches
  <2>1. Insn(n, i) = InsnCB(CBranches[n], i) /\ n \notin DOMAIN Branches
    BY <1>2, TableNames DEF Insn
  <2> QED BY <1>2, <2>1 DEF InsnCB, Default, Taken
<1> QED BY <1>1, <1>2

\* The inputs of a word at the end of a hardware loop or elsewhere, what a model
\* makes of the pc there, and the target of a branch.
AtEnd(i, hwlp) == [i EXCEPT !.is_hwlp = hwlp]
PcAt(n, i, hwlp) == XInsn(n, AtEnd(i, hwlp)).pc_wdata
OfBase(n, names) == n[1] = "base" /\ n[2] \in names
BranchTarget(n, i) ==
  Wrap(i.pc_rdata + (CASE n[1] = "b" -> FormatPb(i.insn).imm12
                       [] OfBase(n, DOMAIN Branches) -> FormatSb(i.insn).imm
                       [] OfBase(n, DOMAIN CBranches) -> FormatCb(i.insn).imm
                       [] OTHER -> 0))

\* The end of a loop changes nothing of the other inputs.
LEMMA AtEndFields ==
  ASSUME NEW i, OnPorts(i), NEW hwlp
  PROVE  /\ AtEnd(i, hwlp).is_hwlp = hwlp /\ AtEnd(i, hwlp).hwlp_start = i.hwlp_start
         /\ AtEnd(i, hwlp).valid = i.valid /\ AtEnd(i, hwlp).insn = i.insn
         /\ AtEnd(i, hwlp).pc_rdata = i.pc_rdata /\ AtEnd(i, hwlp).rs1_rdata = i.rs1_rdata
         /\ AtEnd(i, hwlp).rs2_rdata = i.rs2_rdata
BY DEF AtEnd, OnPorts, XInputs

\* A jump goes where it goes, so does a branch that is taken, and everything
\* else goes to the start of the loop instead of on.
LEMMA LoopPc ==
  ASSUME NEW i, OnPorts(i), NEW parts \in SUBSET {"I", "M", "C"}, NEW n \in XIsaOf(parts),
         XInsn(n, i).valid
  PROVE  \/ OfBase(n, Jumps) /\ PcAt(n, i, TRUE) = PcAt(n, i, FALSE)
         \/ /\ ~OfBase(n, Jumps)
            /\ \/ /\ PcAt(n, i, FALSE) = BranchTarget(n, i)
                  /\ PcAt(n, i, TRUE) = BranchTarget(n, i)
               \/ /\ PcAt(n, i, FALSE) \in {Next4(i), Next2(i)}
                  /\ PcAt(n, i, TRUE) = i.hwlp_start
<1> DEFINE at == AtEnd(i, FALSE)
           end == AtEnd(i, TRUE)
           row == n[2]
<1>1. /\ PcAt(n, i, FALSE) = XInsn(n, at).pc_wdata
      /\ PcAt(n, i, TRUE) = XInsn(n, end).pc_wdata
  BY DEF PcAt
<1>2. /\ at.is_hwlp = FALSE /\ end.is_hwlp = TRUE /\ end.hwlp_start = i.hwlp_start
      /\ SameWord(i, at) /\ SameWord(i, end) /\ at.insn = i.insn /\ end.insn = i.insn
      /\ at.pc_rdata = i.pc_rdata /\ end.pc_rdata = i.pc_rdata
      /\ at.rs1_rdata = i.rs1_rdata /\ end.rs1_rdata = i.rs1_rdata
      /\ at.rs2_rdata = i.rs2_rdata /\ end.rs2_rdata = i.rs2_rdata
  BY AtEndFields, Zenon DEF SameWord
<1>3. Next4(at) = Next4(i) /\ Next2(at) = Next2(i)
  BY <1>2 DEF Next4, Next2
<1> HIDE DEF at, end, row
<1>4. CASE n \in Tagged("base", IsaOf(parts))
  <2>1. n[1] = "base" /\ row \in IsaOf(parts)
    BY <1>4, InTagged DEF row
  <2>2. /\ XInsn(n, at).pc_wdata = Insn(row, at).pc_wdata
        /\ XInsn(n, end).pc_wdata =
             IF Taken(row, end) THEN Insn(row, end).pc_wdata ELSE i.hwlp_start
    BY <1>2, <2>1, BasePc DEF row
  <2>3. CASE row \in Jumps
    <3>1. Taken(row, end) /\ Insn(row, end).pc_wdata = Insn(row, at).pc_wdata
      BY <1>2, <2>3, JumpPc
    <3> QED BY <1>1, <2>1, <2>2, <2>3, <3>1 DEF OfBase, row
  <2>4. CASE row \in DOMAIN Branches
    <3>1. row \notin Jumps /\ row \notin DOMAIN CBranches
      BY <2>4, TableNames DEF Jumps
    <3>2. BranchTarget(n, i) = Wrap(i.pc_rdata + FormatSb(i.insn).imm)
      BY <2>1, <2>4, <3>1 DEF BranchTarget, OfBase, row
    <3>3. Taken(row, at) <=> Taken(row, end)
      BY <1>2, <2>4 DEF Taken
    <3>4. /\ Insn(row, at).pc_wdata = IF Taken(row, at) THEN BranchTarget(n, i) ELSE Next4(i)
          /\ Insn(row, end).pc_wdata = IF Taken(row, end) THEN BranchTarget(n, i) ELSE Next4(end)
      BY <1>2, <1>3, <2>4, <3>2, BranchPc
    <3>5. ~OfBase(n, Jumps)
      BY <3>1 DEF OfBase, row
    <3> QED BY <1>1, <2>2, <3>3, <3>4, <3>5
  <2>5. CASE row \in DOMAIN CBranches
    <3>1. row \notin Jumps /\ row \notin DOMAIN Branches
      BY <2>5, TableNames DEF Jumps
    <3>2. BranchTarget(n, i) = Wrap(i.pc_rdata + FormatCb(i.insn).imm)
      BY <2>1, <2>5, <3>1 DEF BranchTarget, OfBase, row
    <3>3. Taken(row, at) <=> Taken(row, end)
      BY <1>2, <2>5, <3>1 DEF Taken
    <3>4. /\ Insn(row, at).pc_wdata = IF Taken(row, at) THEN BranchTarget(n, i) ELSE Next2(i)
          /\ Insn(row, end).pc_wdata = IF Taken(row, end) THEN BranchTarget(n, i) ELSE Next2(end)
      BY <1>2, <1>3, <2>5, <3>2, BranchPc
    <3>5. ~OfBase(n, Jumps)
      BY <3>1 DEF OfBase, row
    <3> QED BY <1>1, <2>2, <3>3, <3>4, <3>5
  <2>6. CASE row \notin Jumps \cup DOMAIN Branches \cup DOMAIN CBranches
    <3>1. Insn(row, at).pc_wdata \in {Next4(i), Next2(i)}
      BY <1>3, <2>1, <2>6, SequentialPc
    <3>2. ~Taken(row, end) /\ ~OfBase(n, Jumps)
      BY <2>6 DEF Taken, OfBase, row
    <3> QED BY <1>1, <2>2, <3>1, <3>2
  <2> QED BY <2>3, <2>4, <2>5, <2>6
<1>5. CASE n \in CvInsns /\ n[1] /= "b"
  <2>1. n[1] /= "base"
    BY <1>5, InTagged DEF CvInsns
  <2>2. XInsn(n, at).pc_wdata = PcWdata(at) /\ XInsn(n, end).pc_wdata = PcWdata(end)
    BY <1>2, <1>5, CvPc
  <2>3. PcWdata(at) = Next4(i) /\ PcWdata(end) = i.hwlp_start
    BY <1>2, <1>3 DEF PcWdata
  <2> QED BY <1>1, <2>1, <2>2, <2>3 DEF OfBase
<1>6. CASE n[1] = "b"
  <2> DEFINE f == FormatPb(i.insn)
             taken == Cond(CvBranches[row][2], i.rs1_rdata, Wrap(f.imm5))
  <2>1. XInsn(n, i) = InsnCvB(CvBranches[row], i)
    BY <1>6 DEF XInsn, row
  <2>2. i.valid /\ ~f.padding /\ f.funct3 = CvBranches[row][1] /\ f.opcode = CV0
    <3> HIDE DEF f
    <3> QED BY <2>1 DEF InsnCvB, Blank, f
  <2>3. BranchTarget(n, i) = Wrap(i.pc_rdata + f.imm12)
    BY <1>6 DEF BranchTarget, OfBase
  <2>4. ASSUME NEW j, SameWord(i, j), j.pc_rdata = i.pc_rdata, j.rs1_rdata = i.rs1_rdata
        PROVE  XInsn(n, j).pc_wdata = IF taken THEN BranchTarget(n, i) ELSE PcWdata(j)
    <3>1. XInsn(n, j) = InsnCvB(CvBranches[row], j)
      BY <1>6 DEF XInsn, row
    <3> QED BY <2>2, <2>3, <2>4, <3>1 DEF InsnCvB, Blank, NextPc, SameWord
  <2>5. /\ XInsn(n, at).pc_wdata = IF taken THEN BranchTarget(n, i) ELSE PcWdata(at)
        /\ XInsn(n, end).pc_wdata = IF taken THEN BranchTarget(n, i) ELSE PcWdata(end)
    BY <1>2, <2>4
  <2>6. PcWdata(at) = Next4(i) /\ PcWdata(end) = i.hwlp_start
    BY <1>2, <1>3 DEF PcWdata
  <2> HIDE DEF taken
  <2> QED BY <1>1, <1>6, <2>5, <2>6 DEF OfBase
<1> QED BY <1>4, <1>5, <1>6 DEF XIsaOf

\* With a hardware loop, whatever the instruction and its operands: the models
\* of insns/generate_xpulp.py that go on to the next instruction go to the start
\* of the loop, and those that jump or branch elsewhere do not see the loop.
THEOREM HardwareLoopAlways == ASSUME XInputsTyped PROVE XSpec => []HardwareLoop
<1>1. XIsaInv => HardwareLoop
  <2> SUFFICES ASSUME XIsaInv PROVE HardwareLoop
    OBVIOUS
  <2>1. OnPorts(xin) /\ XParts(xin.def) \in SUBSET {"I", "M", "C"}
    BY DEF XIsaInv, XParts
  <2>2. ASSUME NEW n \in DOMAIN xspecs
        PROVE  \/ OfBase(n, Jumps) /\ PcAt(n, xin, TRUE) = PcAt(n, xin, FALSE)
               \/ /\ ~OfBase(n, Jumps)
                  /\ \/ /\ PcAt(n, xin, FALSE) = BranchTarget(n, xin)
                        /\ PcAt(n, xin, TRUE) = BranchTarget(n, xin)
                     \/ /\ PcAt(n, xin, FALSE) \in {Next4(xin), Next2(xin)}
                        /\ PcAt(n, xin, TRUE) = xin.hwlp_start
    BY <2>1, LoopPc DEF XIsaInv
  <2> DEFINE next == {Next4(xin), Next2(xin)}
             Pc(n) == [hwlp \in BOOLEAN |-> PcAt(n, xin, hwlp)]
             Lawful(n, pc) ==
               IF OfBase(n, Jumps) \/ pc[FALSE] \notin next THEN pc[TRUE] = pc[FALSE]
               ELSE \/ pc[TRUE] = xin.hwlp_start
                    \/ BranchTarget(n, xin) \in next /\ pc[TRUE] = pc[FALSE]
  <2>3. \A n \in DOMAIN xspecs : Lawful(n, Pc(n))
    BY <2>2
  <2> QED BY <2>3 DEF HardwareLoop, OfBase, BranchTarget, PcAt, AtEnd
<1> QED BY <1>1, XIsaInvariant, PTL

-----------------------------------------------------------------------------
(***************************************************************************)
(* Operands: a model looks at the registers that it names.                 *)
(***************************************************************************)
\* Inputs that agree but for the registers, and registers that agree where a model
\* with the outputs s could look at them.
Alike(i, j) ==
  /\ i.valid = j.valid /\ i.insn = j.insn /\ i.def = j.def /\ i.misa = j.misa
  /\ i.pc_rdata = j.pc_rdata /\ i.mem_rdata = j.mem_rdata /\ i.undef = j.undef
  /\ i.is_hwlp = j.is_hwlp /\ i.hwlp_start = j.hwlp_start
Agree1(i, j, s) == s.rs1_addr /= 0 \/ Field(i.insn, 19, 15) = 0 => i.rs1_rdata = j.rs1_rdata
Agree2(i, j, s) == s.rs2_addr /= 0 \/ Field(i.insn, 24, 20) = 0 => i.rs2_rdata = j.rs2_rdata

\* The registers that a model of the base ISA names do not depend on what they
\* hold, nor do its outputs on registers that it does not name.
LEMMA BaseSources ==
  ASSUME NEW parts \in SUBSET {"I", "M", "C"}, NEW n \in IsaOf(parts), NEW i, NEW j,
         i.insn \in InsnWords, Alike(i, j), Insn(n, i).valid
  PROVE  /\ Insn(n, j).rs1_addr = Insn(n, i).rs1_addr
         /\ Insn(n, j).rs2_addr = Insn(n, i).rs2_addr
         /\ Agree1(i, j, Insn(n, i)) /\ Agree2(i, j, Insn(n, i)) =>
              Insn(n, j) = Insn(n, i)
<1>1. /\ Prime(i.insn, 9, 7) /= 0 /\ Prime(i.insn, 4, 2) /= 0
      /\ ~Padded16(i.insn) => Field(i.insn, 24, 20) = 0
  BY WordParts, SMT DEF Prime, Field, Padded16
<1>2. Next4(j) = Next4(i) /\ Next2(j) = Next2(i)
  BY DEF Alike, Next4, Next2
<1>3. CASE n = "lui"
  <2>1. Insn(n, i) = InsnLui(i) /\ Insn(n, j) = InsnLui(j)
    BY <1>3, TableNames DEF Insn
  <2> QED BY <1>2, <2>1 DEF InsnLui, Default, MisaOk, Known32, Alike, FormatU
<1>4. CASE n = "auipc"
  <2>1. Insn(n, i) = InsnAuipc(i) /\ Insn(n, j) = InsnAuipc(j)
    BY <1>4, TableNames DEF Insn
  <2> QED BY <1>2, <2>1 DEF InsnAuipc, Default, MisaOk, Known32, Alike, FormatU
<1>5. CASE n = "jal"
  <2>1. Insn(n, i) = InsnJal(i) /\ Insn(n, j) = InsnJal(j)
    BY <1>5, TableNames DEF Insn
  <2> QED BY <1>2, <2>1 DEF InsnJal, Default, MisaOk, Known32, Alike, FormatUj,
             JumpTraps, Ialign16
<1>6. CASE n = "jalr"
  <2>1. Insn(n, i) = InsnJalr(i) /\ Insn(n, j) = InsnJalr(j)
    BY <1>6, TableNames DEF Insn
  <2>2. InsnJalr(j).rs1_addr = InsnJalr(i).rs1_addr /\ InsnJalr(j).rs2_addr = InsnJalr(i).rs2_addr
    BY DEF InsnJalr, Default, Alike, FormatI
  <2>3. Agree1(i, j, InsnJalr(i)) =>
          i.rs1_rdata = j.rs1_rdata
    BY <1>1 DEF Agree1, InsnJalr, Default, FormatI
  <2>4. i.rs1_rdata = j.rs1_rdata => InsnJalr(j) = InsnJalr(i)
    BY <1>2 DEF InsnJalr, Default, MisaOk, Known32, Alike, FormatI, JumpTraps,
       Ialign16
  <2> QED BY <2>1, <2>2, <2>3, <2>4
<1>7. CASE n \in DOMAIN Branches
  <2>1. PICK row : Insn(n, i) = InsnB(row, i) /\ Insn(n, j) = InsnB(row, j)
    BY <1>7, TableNames DEF Insn
  <2>2. InsnB(row, j).rs1_addr = InsnB(row, i).rs1_addr /\ InsnB(row, j).rs2_addr = InsnB(row, i).rs2_addr
    BY DEF InsnB, Default, Alike, FormatSb
  <2>3. Agree1(i, j, InsnB(row, i)) =>
          i.rs1_rdata = j.rs1_rdata
    BY <1>1 DEF Agree1, InsnB, Default, FormatSb
  <2>4. Agree2(i, j, InsnB(row, i)) =>
          i.rs2_rdata = j.rs2_rdata
    BY <1>1 DEF Agree2, InsnB, Default, FormatSb
  <2>5. i.rs1_rdata = j.rs1_rdata /\ i.rs2_rdata = j.rs2_rdata => InsnB(row, j) = InsnB(row, i)
    BY <1>2 DEF InsnB, Default, MisaOk, Known32, Alike, FormatSb, JumpTraps, Ialign16
  <2> QED BY <2>1, <2>2, <2>3, <2>4, <2>5
<1>8. CASE n \in DOMAIN LoadInsns \cup DOMAIN LoadInsns64
  <2>1. PICK row : Insn(n, i) = InsnL(row, i) /\ Insn(n, j) = InsnL(row, j)
    BY <1>8, TableNames DEF Insn
  <2>2. InsnL(row, j).rs1_addr = InsnL(row, i).rs1_addr /\ InsnL(row, j).rs2_addr = InsnL(row, i).rs2_addr
    BY DEF InsnL, Default, Alike, FormatI, Loads
  <2>3. Agree1(i, j, InsnL(row, i)) =>
          i.rs1_rdata = j.rs1_rdata
    BY <1>1 DEF Agree1, InsnL, Default, FormatI, Loads
  <2>4. i.rs1_rdata = j.rs1_rdata => InsnL(row, j) = InsnL(row, i)
    BY <1>2 DEF InsnL, Default, MisaOk, Known32, Alike, FormatI, Loads, AccessTraps,
       MemAddr, MemMask, Offset, Aligned
  <2> QED BY <2>1, <2>2, <2>3, <2>4
<1>9. CASE n \in DOMAIN StoreInsns \cup DOMAIN StoreInsns64
  <2>1. PICK row : Insn(n, i) = InsnS(row, i) /\ Insn(n, j) = InsnS(row, j)
    BY <1>9, TableNames DEF Insn
  <2>2. InsnS(row, j).rs1_addr = InsnS(row, i).rs1_addr /\ InsnS(row, j).rs2_addr = InsnS(row, i).rs2_addr
    BY DEF InsnS, Default, Alike, FormatS, Stores
  <2>3. Agree1(i, j, InsnS(row, i)) =>
          i.rs1_rdata = j.rs1_rdata
    BY <1>1 DEF Agree1, InsnS, Default, FormatS, Stores
  <2>4. Agree2(i, j, InsnS(row, i)) =>
          i.rs2_rdata = j.rs2_rdata
    BY <1>1 DEF Agree2, InsnS, Default, FormatS, Stores
  <2>5. i.rs1_rdata = j.rs1_rdata /\ i.rs2_rdata = j.rs2_rdata => InsnS(row, j) = InsnS(row, i)
    BY <1>2 DEF InsnS, Default, MisaOk, Known32, Alike, FormatS, Stores, AccessTraps,
       MemAddr, MemMask, Offset, Aligned
  <2> QED BY <2>1, <2>2, <2>3, <2>4, <2>5
<1>10. CASE n \in DOMAIN ImmInsns \cup DOMAIN ImmInsns64
  <2>1. PICK row, wmode : Insn(n, i) = InsnImm(row, wmode, i) /\ Insn(n, j) = InsnImm(row, wmode, j)
    BY <1>10, TableNames DEF Insn
  <2>2. InsnImm(row, wmode, j).rs1_addr = InsnImm(row, wmode, i).rs1_addr /\ InsnImm(row, wmode, j).rs2_addr = InsnImm(row, wmode, i).rs2_addr
    BY DEF InsnImm, Default, Alike, FormatI
  <2>3. Agree1(i, j, InsnImm(row, wmode, i)) =>
          i.rs1_rdata = j.rs1_rdata
    BY <1>1 DEF Agree1, InsnImm, Default, FormatI
  <2>4. i.rs1_rdata = j.rs1_rdata => InsnImm(row, wmode, j) = InsnImm(row, wmode, i)
    BY <1>2 DEF InsnImm, Default, MisaOk, Known32, Alike, FormatI, Operate
  <2> QED BY <2>1, <2>2, <2>3, <2>4
<1>11. CASE n \in DOMAIN ShiftInsns \cup DOMAIN ShiftInsns64
  <2>1. PICK row, wmode : Insn(n, i) = InsnShimm(row, wmode, i) /\ Insn(n, j) = InsnShimm(row, wmode, j)
    BY <1>11, TableNames DEF Insn
  <2>2. InsnShimm(row, wmode, j).rs1_addr = InsnShimm(row, wmode, i).rs1_addr /\ InsnShimm(row, wmode, j).rs2_addr = InsnShimm(row, wmode, i).rs2_addr
    BY DEF InsnShimm, Default, Alike, FormatIShift
  <2>3. Agree1(i, j, InsnShimm(row, wmode, i)) =>
          i.rs1_rdata = j.rs1_rdata
    BY <1>1 DEF Agree1, InsnShimm, Default, FormatIShift
  <2>4. i.rs1_rdata = j.rs1_rdata => InsnShimm(row, wmode, j) = InsnShimm(row, wmode, i)
    BY <1>2 DEF InsnShimm, Default, MisaOk, Known32, Alike, FormatIShift, Operate
  <2> QED BY <2>1, <2>2, <2>3, <2>4
<1>12. CASE n \in DOMAIN AluInsns \cup DOMAIN AluInsns64 \cup DOMAIN MulInsns \cup
            DOMAIN MulInsns64
  <2>1. PICK row, wmode : Insn(n, i) = InsnAlu(row, wmode, i) /\ Insn(n, j) = InsnAlu(row, wmode, j)
    BY <1>12, TableNames DEF Insn
  <2>2. InsnAlu(row, wmode, j).rs1_addr = InsnAlu(row, wmode, i).rs1_addr /\ InsnAlu(row, wmode, j).rs2_addr = InsnAlu(row, wmode, i).rs2_addr
    BY DEF InsnAlu, Default, Alike, FormatR
  <2>3. Agree1(i, j, InsnAlu(row, wmode, i)) =>
          i.rs1_rdata = j.rs1_rdata
    BY <1>1 DEF Agree1, InsnAlu, Default, FormatR
  <2>4. Agree2(i, j, InsnAlu(row, wmode, i)) =>
          i.rs2_rdata = j.rs2_rdata
    BY <1>1 DEF Agree2, InsnAlu, Default, FormatR
  <2>5. i.rs1_rdata = j.rs1_rdata /\ i.rs2_rdata = j.rs2_rdata => InsnAlu(row, wmode, j) = InsnAlu(row, wmode, i)
    BY <1>2 DEF InsnAlu, Default, MisaOk, Known32, Alike, FormatR, AluResult, Operate
  <2> QED BY <2>1, <2>2, <2>3, <2>4, <2>5
<1>13. CASE n = "c_addi4spn"
  <2>1. Insn(n, i) = InsnCAddi4spn(i) /\ Insn(n, j) = InsnCAddi4spn(j)
    BY <1>13, TableNames DEF Insn
  <2>2. InsnCAddi4spn(j).rs1_addr = InsnCAddi4spn(i).rs1_addr /\ InsnCAddi4spn(j).rs2_addr = InsnCAddi4spn(i).rs2_addr
    BY DEF InsnCAddi4spn, Default, Alike, FormatCiw
  <2>3. Agree1(i, j, InsnCAddi4spn(i)) =>
          i.rs1_rdata = j.rs1_rdata
    BY <1>1 DEF Agree1, InsnCAddi4spn, Default, FormatCiw
  <2>4. i.rs1_rdata = j.rs1_rdata => InsnCAddi4spn(j) = InsnCAddi4spn(i)
    BY <1>2 DEF InsnCAddi4spn, Default, MisaOk, Known16, Alike, FormatCiw
  <2> QED BY <2>1, <2>2, <2>3, <2>4
<1>14. CASE n \in DOMAIN CLoads \cup DOMAIN CLoads64
  <2>1. PICK row : Insn(n, i) = InsnCL(row, i) /\ Insn(n, j) = InsnCL(row, j)
    BY <1>14, TableNames DEF Insn
  <2>2. InsnCL(row, j).rs1_addr = InsnCL(row, i).rs1_addr /\ InsnCL(row, j).rs2_addr = InsnCL(row, i).rs2_addr
    BY DEF InsnCL, Default, Alike, FormatCl, Loads
  <2>3. Agree1(i, j, InsnCL(row, i)) =>
          i.rs1_rdata = j.rs1_rdata
    BY <1>1 DEF Agree1, InsnCL, Default, FormatCl, Loads
  <2>4. i.rs1_rdata = j.rs1_rdata => InsnCL(row, j) = InsnCL(row, i)
    BY <1>2 DEF InsnCL, Default, MisaOk, Known16, Alike, FormatCl, Loads,
       AccessTraps, MemAddr, MemMask, Offset, Aligned
  <2> QED BY <2>1, <2>2, <2>3, <2>4
<1>15. CASE n \in DOMAIN CStores \cup DOMAIN CStores64
  <2>1. PICK row : Insn(n, i) = InsnCS(row, i) /\ Insn(n, j) = InsnCS(row, j)
    BY <1>15, TableNames DEF Insn
  <2>2. InsnCS(row, j).rs1_addr = InsnCS(row, i).rs1_addr /\ InsnCS(row, j).rs2_addr = InsnCS(row, i).rs2_addr
    BY DEF InsnCS, Default, Alike, FormatCs, Stores
  <2>3. Agree1(i, j, InsnCS(row, i)) =>
          i.rs1_rdata = j.rs1_rdata
    BY <1>1 DEF Agree1, InsnCS, Default, FormatCs, Stores
  <2>4. Agree2(i, j, InsnCS(row, i)) =>
          i.rs2_rdata = j.rs2_rdata
    BY <1>1 DEF Agree2, InsnCS, Default, FormatCs, Stores
  <2>5. i.rs1_rdata = j.rs1_rdata /\ i.rs2_rdata = j.rs2_rdata => InsnCS(row, j) = InsnCS(row, i)
    BY <1>2 DEF InsnCS, Default, MisaOk, Known16, Alike, FormatCs, Stores,
       AccessTraps, MemAddr, MemMask, Offset, Aligned
  <2> QED BY <2>1, <2>2, <2>3, <2>4, <2>5
<1>16. CASE n \in {"c_addi", "c_addiw"}
  <2>1. PICK wmode : Insn(n, i) = InsnCAddi(wmode, i) /\ Insn(n, j) = InsnCAddi(wmode, j)
    BY <1>16, TableNames DEF Insn
  <2>2. InsnCAddi(wmode, j).rs1_addr = InsnCAddi(wmode, i).rs1_addr /\ InsnCAddi(wmode, j).rs2_addr = InsnCAddi(wmode, i).rs2_addr
    BY DEF InsnCAddi, Default, Alike, FormatCi
  <2>3. Agree1(i, j, InsnCAddi(wmode, i)) =>
          i.rs1_rdata = j.rs1_rdata \/ Field(i.insn, 11, 7) = 0
    BY <1>1 DEF Agree1, InsnCAddi, Default, FormatCi
  <2>4. i.rs1_rdata = j.rs1_rdata => InsnCAddi(wmode, j) = InsnCAddi(wmode, i)
    BY <1>2 DEF InsnCAddi, Default, MisaOk, Known16, Alike, FormatCi, Operate
  <2>5. Field(i.insn, 11, 7) = 0 => InsnCAddi(wmode, j) = InsnCAddi(wmode, i)
    BY <1>2 DEF InsnCAddi, Default, MisaOk, Known16, Alike, FormatCi, RdWdata
  <2> QED BY <2>1, <2>2, <2>3, <2>4, <2>5
<1>17. CASE n \in DOMAIN CJumps
  <2>1. PICK row : Insn(n, i) = InsnCJal(row, i) /\ Insn(n, j) = InsnCJal(row, j)
    BY <1>17, TableNames DEF Insn
  <2> QED BY <1>2, <2>1 DEF InsnCJal, Default, MisaOk, Known16, Alike, FormatCj
<1>18. CASE n = "c_li"
  <2>1. Insn(n, i) = InsnCLi(i) /\ Insn(n, j) = InsnCLi(j)
    BY <1>18, TableNames DEF Insn
  <2> QED BY <1>2, <2>1 DEF InsnCLi, Default, MisaOk, Known16, Alike
<1>19. CASE n = "c_addi16sp"
  <2>1. Insn(n, i) = InsnCAddi16sp(i) /\ Insn(n, j) = InsnCAddi16sp(j)
    BY <1>19, TableNames DEF Insn
  <2>2. InsnCAddi16sp(j).rs1_addr = InsnCAddi16sp(i).rs1_addr /\ InsnCAddi16sp(j).rs2_addr = InsnCAddi16sp(i).rs2_addr
    BY DEF InsnCAddi16sp, Default, Alike, FormatCiSp, FormatCi
  <2>3. InsnCAddi16sp(i).valid /\ Agree1(i, j, InsnCAddi16sp(i)) =>
          i.rs1_rdata = j.rs1_rdata
    <3>1. InsnCAddi16sp(i).valid => InsnCAddi16sp(i).rs1_addr = 2
      BY DEF InsnCAddi16sp, Default
    <3> QED BY <3>1 DEF Agree1
  <2>4. i.rs1_rdata = j.rs1_rdata => InsnCAddi16sp(j) = InsnCAddi16sp(i)
    BY <1>2 DEF InsnCAddi16sp, Default, MisaOk, Known16, Alike, FormatCiSp, FormatCi
  <2> QED BY <2>1, <2>2, <2>3, <2>4
<1>20. CASE n = "c_lui"
  <2>1. Insn(n, i) = InsnCLui(i) /\ Insn(n, j) = InsnCLui(j)
    BY <1>20, TableNames DEF Insn
  <2> QED BY <1>2, <2>1 DEF InsnCLui, Default, MisaOk, Known16, Alike, FormatCiLui,
             FormatCi
<1>21. CASE n \in DOMAIN CRightShifts
  <2>1. PICK row : Insn(n, i) = InsnCSri(row, i) /\ Insn(n, j) = InsnCSri(row, j)
    BY <1>21, TableNames DEF Insn
  <2>2. InsnCSri(row, j).rs1_addr = InsnCSri(row, i).rs1_addr /\ InsnCSri(row, j).rs2_addr = InsnCSri(row, i).rs2_addr
    BY DEF InsnCSri, Default, Alike, FormatCiSri
  <2>3. Agree1(i, j, InsnCSri(row, i)) =>
          i.rs1_rdata = j.rs1_rdata
    BY <1>1 DEF Agree1, InsnCSri, Default, FormatCiSri
  <2>4. i.rs1_rdata = j.rs1_rdata => InsnCSri(row, j) = InsnCSri(row, i)
    BY <1>2 DEF InsnCSri, Default, MisaOk, Known16, Alike, FormatCiSri
  <2> QED BY <2>1, <2>2, <2>3, <2>4
<1>22. CASE n = "c_andi"
  <2>1. Insn(n, i) = InsnCAndi(i) /\ Insn(n, j) = InsnCAndi(j)
    BY <1>22, TableNames DEF Insn
  <2>2. InsnCAndi(j).rs1_addr = InsnCAndi(i).rs1_addr /\ InsnCAndi(j).rs2_addr = InsnCAndi(i).rs2_addr
    BY DEF InsnCAndi, Default, Alike, FormatCiAndi
  <2>3. Agree1(i, j, InsnCAndi(i)) =>
          i.rs1_rdata = j.rs1_rdata
    BY <1>1 DEF Agree1, InsnCAndi, Default, FormatCiAndi
  <2>4. i.rs1_rdata = j.rs1_rdata => InsnCAndi(j) = InsnCAndi(i)
    BY <1>2 DEF InsnCAndi, Default, MisaOk, Known16, Alike, FormatCiAndi
  <2> QED BY <2>1, <2>2, <2>3, <2>4
<1>23. CASE n \in DOMAIN CAlus \cup DOMAIN CAlus64
  <2>1. PICK row, wmode : Insn(n, i) = InsnCAlu(row, wmode, i) /\ Insn(n, j) = InsnCAlu(row, wmode, j)
    BY <1>23, TableNames DEF Insn
  <2>2. InsnCAlu(row, wmode, j).rs1_addr = InsnCAlu(row, wmode, i).rs1_addr /\ InsnCAlu(row, wmode, j).rs2_addr = InsnCAlu(row, wmode, i).rs2_addr
    BY DEF InsnCAlu, Default, Alike, FormatCsAlu
  <2>3. Agree1(i, j, InsnCAlu(row, wmode, i)) =>
          i.rs1_rdata = j.rs1_rdata
    BY <1>1 DEF Agree1, InsnCAlu, Default, FormatCsAlu
  <2>4. Agree2(i, j, InsnCAlu(row, wmode, i)) =>
          i.rs2_rdata = j.rs2_rdata
    BY <1>1 DEF Agree2, InsnCAlu, Default, FormatCsAlu
  <2>5. i.rs1_rdata = j.rs1_rdata /\ i.rs2_rdata = j.rs2_rdata => InsnCAlu(row, wmode, j) = InsnCAlu(row, wmode, i)
    BY <1>2 DEF InsnCAlu, Default, MisaOk, Known16, Alike, FormatCsAlu, Operate
  <2> QED BY <2>1, <2>2, <2>3, <2>4, <2>5
<1>24. CASE n \in DOMAIN CBranches
  <2>1. PICK row : Insn(n, i) = InsnCB(row, i) /\ Insn(n, j) = InsnCB(row, j)
    BY <1>24, TableNames DEF Insn
  <2>2. InsnCB(row, j).rs1_addr = InsnCB(row, i).rs1_addr /\ InsnCB(row, j).rs2_addr = InsnCB(row, i).rs2_addr
    BY DEF InsnCB, Default, Alike, FormatCb
  <2>3. Agree1(i, j, InsnCB(row, i)) =>
          i.rs1_rdata = j.rs1_rdata
    BY <1>1 DEF Agree1, InsnCB, Default, FormatCb
  <2>4. i.rs1_rdata = j.rs1_rdata => InsnCB(row, j) = InsnCB(row, i)
    BY <1>2 DEF InsnCB, Default, MisaOk, Known16, Alike, FormatCb
  <2> QED BY <2>1, <2>2, <2>3, <2>4
<1>25. CASE n = "c_slli"
  <2>1. Insn(n, i) = InsnCSli(i) /\ Insn(n, j) = InsnCSli(j)
    BY <1>25, TableNames DEF Insn
  <2>2. InsnCSli(j).rs1_addr = InsnCSli(i).rs1_addr /\ InsnCSli(j).rs2_addr = InsnCSli(i).rs2_addr
    BY DEF InsnCSli, Default, Alike, FormatCiSli
  <2>3. Agree1(i, j, InsnCSli(i)) =>
          i.rs1_rdata = j.rs1_rdata \/ Field(i.insn, 11, 7) = 0
    BY <1>1 DEF Agree1, InsnCSli, Default, FormatCiSli
  <2>4. i.rs1_rdata = j.rs1_rdata => InsnCSli(j) = InsnCSli(i)
    BY <1>2 DEF InsnCSli, Default, MisaOk, Known16, Alike, FormatCiSli
  <2>5. Field(i.insn, 11, 7) = 0 => InsnCSli(j) = InsnCSli(i)
    BY <1>2 DEF InsnCSli, Default, MisaOk, Known16, Alike, FormatCiSli, RdWdata
  <2> QED BY <2>1, <2>2, <2>3, <2>4, <2>5
<1>26. CASE n \in DOMAIN CSpLoads \cup DOMAIN CSpLoads64
  <2>1. PICK row : Insn(n, i) = InsnCLsp(row, i) /\ Insn(n, j) = InsnCLsp(row, j)
    BY <1>26, TableNames DEF Insn
  <2>2. InsnCLsp(row, j).rs1_addr = InsnCLsp(row, i).rs1_addr /\ InsnCLsp(row, j).rs2_addr = InsnCLsp(row, i).rs2_addr
    BY DEF InsnCLsp, Default, Alike, FormatCiLsp, Loads
  <2>3. Agree1(i, j, InsnCLsp(row, i)) =>
          i.rs1_rdata = j.rs1_rdata
    BY <1>1 DEF Agree1, InsnCLsp, Default, FormatCiLsp, Loads
  <2>4. i.rs1_rdata = j.rs1_rdata => InsnCLsp(row, j) = InsnCLsp(row, i)
    BY <1>2 DEF InsnCLsp, Default, MisaOk, Known16, Alike, FormatCiLsp, Loads,
       AccessTraps, MemAddr, MemMask, Offset, Aligned
  <2> QED BY <2>1, <2>2, <2>3, <2>4
<1>27. CASE n \in DOMAIN CSpStores \cup DOMAIN CSpStores64
  <2>1. PICK row : Insn(n, i) = InsnCSsp(row, i) /\ Insn(n, j) = InsnCSsp(row, j)
    BY <1>27, TableNames DEF Insn
  <2>2. InsnCSsp(row, j).rs1_addr = InsnCSsp(row, i).rs1_addr /\ InsnCSsp(row, j).rs2_addr = InsnCSsp(row, i).rs2_addr
    BY DEF InsnCSsp, Default, Alike, FormatCss, Stores
  <2>3. Agree1(i, j, InsnCSsp(row, i)) =>
          i.rs1_rdata = j.rs1_rdata
    BY <1>1 DEF Agree1, InsnCSsp, Default, FormatCss, Stores
  <2>4. InsnCSsp(row, i).valid /\ Agree2(i, j, InsnCSsp(row, i)) =>
          i.rs2_rdata = j.rs2_rdata
    BY <1>1 DEF Agree2, InsnCSsp, Default, FormatCss, Stores, Known16
  <2>5. i.rs1_rdata = j.rs1_rdata /\ i.rs2_rdata = j.rs2_rdata => InsnCSsp(row, j) = InsnCSsp(row, i)
    BY <1>2 DEF InsnCSsp, Default, MisaOk, Known16, Alike, FormatCss, Stores,
       AccessTraps, MemAddr, MemMask, Offset, Aligned
  <2> QED BY <2>1, <2>2, <2>3, <2>4, <2>5
<1>28. CASE n \in DOMAIN CRegJumps
  <2>1. PICK row : Insn(n, i) = InsnCJalr(row, i) /\ Insn(n, j) = InsnCJalr(row, j)
    BY <1>28, TableNames DEF Insn
  <2>2. InsnCJalr(row, j).rs1_addr = InsnCJalr(row, i).rs1_addr /\ InsnCJalr(row, j).rs2_addr = InsnCJalr(row, i).rs2_addr
    BY DEF InsnCJalr, Default, Alike, FormatCr
  <2>3. InsnCJalr(row, i).valid /\ Agree1(i, j, InsnCJalr(row, i)) =>
          i.rs1_rdata = j.rs1_rdata
    BY <1>1 DEF Agree1, InsnCJalr, Default, FormatCr, Known16
  <2>4. i.rs1_rdata = j.rs1_rdata => InsnCJalr(row, j) = InsnCJalr(row, i)
    BY <1>2 DEF InsnCJalr, Default, MisaOk, Known16, Alike, FormatCr
  <2> QED BY <2>1, <2>2, <2>3, <2>4
<1>29. CASE n \in DOMAIN CMoves
  <2>1. PICK row : Insn(n, i) = InsnCMvadd(row, i) /\ Insn(n, j) = InsnCMvadd(row, j)
    BY <1>29, TableNames DEF Insn
  <2>2. InsnCMvadd(row, j).rs1_addr = InsnCMvadd(row, i).rs1_addr /\ InsnCMvadd(row, j).rs2_addr = InsnCMvadd(row, i).rs2_addr
    BY DEF InsnCMvadd, Default, Alike, FormatCr
  <2>3. Agree1(i, j, InsnCMvadd(row, i)) =>
          i.rs1_rdata = j.rs1_rdata \/ Field(i.insn, 11, 7) = 0 \/ ~row[2]
    BY <1>1 DEF Agree1, InsnCMvadd, Default, FormatCr
  <2>4. InsnCMvadd(row, i).valid /\ Agree2(i, j, InsnCMvadd(row, i)) =>
          i.rs2_rdata = j.rs2_rdata
    BY <1>1 DEF Agree2, InsnCMvadd, Default, FormatCr, Known16
  <2>5. i.rs1_rdata = j.rs1_rdata /\ i.rs2_rdata = j.rs2_rdata => InsnCMvadd(row, j) = InsnCMvadd(row, i)
    BY <1>2 DEF InsnCMvadd, Default, MisaOk, Known16, Alike, FormatCr
  <2>6. Field(i.insn, 11, 7) = 0 /\ i.rs2_rdata = j.rs2_rdata => InsnCMvadd(row, j) = InsnCMvadd(row, i)
    BY <1>2 DEF InsnCMvadd, Default, MisaOk, Known16, Alike, FormatCr, RdWdata
  <2>7. ~row[2] /\ i.rs2_rdata = j.rs2_rdata => InsnCMvadd(row, j) = InsnCMvadd(row, i)
    BY <1>2 DEF InsnCMvadd, Default, MisaOk, Known16, Alike, FormatCr
  <2> QED BY <2>1, <2>2, <2>3, <2>4, <2>5, <2>6, <2>7
<1>30. \/ n = "lui"
       \/ n = "auipc"
       \/ n = "jal"
       \/ n = "jalr"
       \/ n \in DOMAIN Branches
       \/ n \in DOMAIN LoadInsns \cup DOMAIN LoadInsns64
       \/ n \in DOMAIN StoreInsns \cup DOMAIN StoreInsns64
       \/ n \in DOMAIN ImmInsns \cup DOMAIN ImmInsns64
       \/ n \in DOMAIN ShiftInsns \cup DOMAIN ShiftInsns64
       \/ n \in DOMAIN AluInsns \cup DOMAIN AluInsns64 \cup DOMAIN MulInsns \cup DOMAIN
          MulInsns64
       \/ n = "c_addi4spn"
       \/ n \in DOMAIN CLoads \cup DOMAIN CLoads64
       \/ n \in DOMAIN CStores \cup DOMAIN CStores64
       \/ n \in {"c_addi", "c_addiw"}
       \/ n \in DOMAIN CJumps
       \/ n = "c_li"
       \/ n = "c_addi16sp"
       \/ n = "c_lui"
       \/ n \in DOMAIN CRightShifts
       \/ n = "c_andi"
       \/ n \in DOMAIN CAlus \cup DOMAIN CAlus64
       \/ n \in DOMAIN CBranches
       \/ n = "c_slli"
       \/ n \in DOMAIN CSpLoads \cup DOMAIN CSpLoads64
       \/ n \in DOMAIN CSpStores \cup DOMAIN CSpStores64
       \/ n \in DOMAIN CRegJumps
       \/ n \in DOMAIN CMoves
  BY TableNames DEF IsaOf, Adds32, Adds64
<1> QED BY <1>3, <1>4, <1>5, <1>6, <1>7, <1>8, <1>9, <1>10, <1>11, <1>12, <1>13,
           <1>14, <1>15, <1>16, <1>17, <1>18, <1>19, <1>20, <1>21, <1>22, <1>23,
           <1>24, <1>25, <1>26, <1>27, <1>28, <1>29, <1>30

\* A model that adds rs3_rdata although it does not name the register.
AddsZero(n, i) ==
  \/ n[1] = "mac16" /\ ~n[2].ac
  \/ n[1] = "dot" /\ Altops \in i.def
Agree3(i, j, n, s) ==
  s.rs3_addr /= 0 \/ Field(i.insn, 11, 7) = 0 \/ AddsZero(n, i) => i.rs3_rdata = j.rs3_rdata
Agree(i, j, n, s) == Agree1(i, j, s) /\ Agree2(i, j, s) /\ Agree3(i, j, n, s)

\* The helpers of the models look at the registers of i only through these.
LEMMA AccessAlike ==
  ASSUME NEW i, NEW j, Alike(i, j)
  PROVE  /\ \A out, addr, numbytes, signext :
              Loads(j, out, addr, numbytes, signext) = Loads(i, out, addr, numbytes, signext)
         /\ i.rs2_rdata = j.rs2_rdata =>
              \A out, addr, numbytes :
                Stores(j, out, addr, numbytes) = Stores(i, out, addr, numbytes)
<1>1. /\ \A addr, numbytes : AccessTraps(j, addr, numbytes) = AccessTraps(i, addr, numbytes)
      /\ \A addr : MemAddr(j, addr) = MemAddr(i, addr) /\ Offset(j, addr) = Offset(i, addr)
  BY Zenon DEF Alike, AccessTraps, MemAddr, Offset, Aligned
<1>2. \A addr, numbytes : MemMask(j, addr, numbytes) = MemMask(i, addr, numbytes)
  BY <1>1, Zenon DEF MemMask
<1>3. j.mem_rdata = i.mem_rdata
  BY DEF Alike
<1>4. ASSUME NEW out, NEW addr, NEW numbytes, NEW signext
      PROVE  Loads(j, out, addr, numbytes, signext) = Loads(i, out, addr, numbytes, signext)
  BY <1>1, <1>2, <1>3, Zenon DEF Loads
<1>5. ASSUME i.rs2_rdata = j.rs2_rdata, NEW out, NEW addr, NEW numbytes
      PROVE  Stores(j, out, addr, numbytes) = Stores(i, out, addr, numbytes)
  BY <1>1, <1>2, <1>5, Zenon DEF Stores
<1> QED BY <1>4, <1>5

LEMMA SimdAlike ==
  ASSUME NEW i, NEW j, Alike(i, j), PcWdata(j) = PcWdata(i), Blank(j) = Blank(i),
         i.rs1_rdata = j.rs1_rdata, NEW row \in SimdInsns,
         \A half, imms, k : Op2(j, row[2], half, imms, k) = Op2(i, row[2], half, imms, k)
  PROVE  InsnCvSimdAlu(row, j) = InsnCvSimdAlu(row, i)
<1> DEFINE op == row[1]
           half == row[3]
           Res(x) == [k \in LanesOf(half) |->
                        SimdLane(op, Width(half), Lane(x.rs1_rdata, half, k),
                                 Op2(x, row[2], half, SimdOps[op][3], k))]
<1>1. Res(j) = Res(i)
  OBVIOUS
<1>2. j.insn = i.insn
  BY DEF Alike
<1>3. \A f, k, s, v : Computes(j, f, k, s, v) = Computes(i, f, k, s, v)
  BY DEF Computes, Alike
<1> DEFINE Known(x) ==
             /\ SimdFlag(op, row[2], half, x.insn)
             /\ KnownCv3(FormatSimd(x.insn), SimdOps[op][1], SimdOps[op][2],
                         FormFunct3(row[2], half))
           sources == SimdSources(row[2])
<1>4. \A x : InsnCvSimdAlu(row, x) =
              Computes(x, FormatSimd(x.insn), Known(x), sources, Join(half, Res(x)))
  BY DEF InsnCvSimdAlu
<1>5. Known(j) = Known(i)
  BY <1>2
<1> HIDE DEF Res, Known, sources, op, half
<1>6. InsnCvSimdAlu(row, j) =
        Computes(j, FormatSimd(j.insn), Known(j), sources, Join(half, Res(j)))
  BY <1>4
<1>7. InsnCvSimdAlu(row, i) =
        Computes(i, FormatSimd(i.insn), Known(i), sources, Join(half, Res(i)))
  BY <1>4
<1> QED BY <1>1, <1>2, <1>3, <1>5, <1>6, <1>7

LEMMA DotAlike ==
  ASSUME NEW i, NEW j, Alike(i, j), NEW op, NEW form, NEW half,
         i.rs1_rdata = j.rs1_rdata,
         Dots[op][4] \/ Altops \in i.def => i.rs3_rdata = j.rs3_rdata,
         \A imms, k : Op2(j, form, half, imms, k) = Op2(i, form, half, imms, k)
  PROVE  Dot(op, j, form, half) = Dot(op, i, form, half)
<1> DEFINE Ops(x) == [k \in LanesOf(half) |-> Op2(x, form, half, Dots[op][2], k)]
           Terms(x) ==
             [k \in LanesOf(half) |->
                Factor(Dots[op][3], Lane(x.rs1_rdata, half, k), half)
                  * Factor(Dots[op][2], Op2(x, form, half, Dots[op][2], k), half)]
<1>1. Ops(j) = Ops(i) /\ Terms(j) = Terms(i)
  OBVIOUS
<1>2. j.def = i.def
  BY DEF Alike
<1>3. CASE Altops \in i.def
  <2>1. Dots[op][4] \/ Altops \in i.def
    BY <1>3
  <2> QED BY <1>1, <1>2, <1>3, <2>1 DEF Dot
<1>4. CASE Altops \notin i.def /\ Dots[op][4]
  BY <1>1, <1>2, <1>4 DEF Dot
<1>5. CASE Altops \notin i.def /\ ~Dots[op][4]
  BY <1>1, <1>2, <1>5 DEF Dot
<1> QED BY <1>3, <1>4, <1>5

LEMMA ShuffleAlike ==
  ASSUME NEW i, NEW j, Alike(i, j), PcWdata(j) = PcWdata(i), Blank(j) = Blank(i),
         i.rs1_rdata = j.rs1_rdata, NEW op \in DOMAIN Shuffles,
         ~Shuffles[op][4] => i.rs2_rdata = j.rs2_rdata,
         Shuffles[op][6] => i.rs3_rdata = j.rs3_rdata
  PROVE  InsnCvSimdShu(op, j) = InsnCvSimdShu(op, i)
<1> DEFINE r == Shuffles[op]
           n == IF r[3] THEN 2 ELSE 4
           Pos(x, k) ==
             IF ~r[4] THEN Lane(x.rs2_rdata, r[3], k) % n
             ELSE IF r[3] THEN (Imm6(x.insn) \div 2^k) % 2
             ELSE IF k = 3 THEN r[5] ELSE (Imm6(x.insn) \div 4^k) % 4
           From(x, k) ==
             IF r[6] /\ (Lane(x.rs2_rdata, r[3], k) \div n) % 2 = 0
             THEN x.rs3_rdata ELSE x.rs1_rdata
           Res(x) == [k \in LanesOf(r[3]) |-> Lane(From(x, k), r[3], Pos(x, k))]
<1>1. j.insn = i.insn
  BY DEF Alike
<1>2. r[6] => ~r[4]
  <2>1. op \in {"shuffle_h", "shuffle_sci_h", "shuffle_b", "shuffleI0_sci_b",
                "shuffleI1_sci_b", "shuffleI2_sci_b", "shuffleI3_sci_b", "shuffle2_h",
                "shuffle2_b"}
    BY DEF Shuffles
  <2>2. /\ Shuffles["shuffle_h"][6] = FALSE
        /\ Shuffles["shuffle_sci_h"][6] = FALSE
        /\ Shuffles["shuffle_b"][6] = FALSE
        /\ Shuffles["shuffleI0_sci_b"][6] = FALSE
        /\ Shuffles["shuffleI1_sci_b"][6] = FALSE
        /\ Shuffles["shuffleI2_sci_b"][6] = FALSE
        /\ Shuffles["shuffleI3_sci_b"][6] = FALSE
        /\ Shuffles["shuffle2_h"][4] = FALSE
        /\ Shuffles["shuffle2_b"][4] = FALSE
    BY DEF Shuffles
  <2> QED BY <2>1, <2>2
<1>3. Res(j) = Res(i)
  <2> HIDE DEF r, n
  <2>1. \A k : Pos(j, k) = Pos(i, k) /\ From(j, k) = From(i, k)
    BY <1>1, <1>2 DEF r
  <2> HIDE DEF Pos, From
  <2> QED BY <2>1
<1>4. \A f, k, s, v : Computes(j, f, k, s, v) = Computes(i, f, k, s, v)
  BY DEF Computes, Alike
<1> DEFINE Known(x) ==
             /\ IF r[4] THEN r[3] => Field(x.insn, 24, 21) = 0
                ELSE Field(x.insn, 25, 25) = 0
             /\ KnownCv3(FormatSimd(x.insn), r[1], 0, r[2])
           sources == (IF r[4] THEN {} ELSE {"rs2"}) \cup (IF r[6] THEN {"rs3"} ELSE {})
<1>5. \A x : InsnCvSimdShu(op, x) =
              Computes(x, FormatSimd(x.insn), Known(x), sources, Join(r[3], Res(x)))
  BY DEF InsnCvSimdShu
<1>6. Known(j) = Known(i)
  BY <1>1
<1> HIDE DEF Res, r, Known, sources
<1>7. InsnCvSimdShu(op, j) =
        Computes(j, FormatSimd(j.insn), Known(j), sources, Join(r[3], Res(j)))
  BY <1>5
<1>8. InsnCvSimdShu(op, i) =
        Computes(i, FormatSimd(i.insn), Known(i), sources, Join(r[3], Res(i)))
  BY <1>5
<1> QED BY <1>1, <1>3, <1>4, <1>6, <1>7, <1>8

\* The same for a model of CORE-V.
LEMMA CvSources ==
  ASSUME NEW n \in CvInsns, NEW i, NEW j, Alike(i, j), XInsn(n, i).valid
  PROVE  /\ XInsn(n, j).rs1_addr = XInsn(n, i).rs1_addr
         /\ XInsn(n, j).rs2_addr = XInsn(n, i).rs2_addr
         /\ XInsn(n, j).rs3_addr = XInsn(n, i).rs3_addr
         /\ Agree(i, j, n, XInsn(n, i)) => XInsn(n, j) = XInsn(n, i)
<1> DEFINE row == n[2]
<1>1. PcWdata(j) = PcWdata(i) /\ Blank(j) = Blank(i)
  BY DEF Alike, PcWdata, Next4, Blank, MisaOk
<1>2. i.rs1_rdata = j.rs1_rdata =>
        \A f, op2, out : /\ PostIncrements(j, f, op2, out) = PostIncrements(i, f, op2, out)
                         /\ Address(j, f, op2) = Address(i, f, op2)
  BY <1>1 DEF PostIncrements, Address, Increment
<1>3. /\ \A out, addr, numbytes, signext :
           Loads(j, out, addr, numbytes, signext) = Loads(i, out, addr, numbytes, signext)
      /\ i.rs2_rdata = j.rs2_rdata =>
           \A out, addr, numbytes :
             Stores(j, out, addr, numbytes) = Stores(i, out, addr, numbytes)
  BY AccessAlike
<1>4. ASSUME NEW form \in Forms, form /= "sci" => i.rs2_rdata = j.rs2_rdata
      PROVE  \A half, imms, k : Op2(j, form, half, imms, k) = Op2(i, form, half, imms, k)
  BY <1>4 DEF Alike, Op2, Forms
<1>5. CASE n \in Tagged("l", DOMAIN CvLoads)
  <2>1. n = <<"l", row>> /\ row \in DOMAIN CvLoads
    BY <1>5, InTagged
  <2> HIDE DEF row
  <2>2. XInsn(n, i) = InsnCvL(CvLoads[row], i) /\ XInsn(n, j) = InsnCvL(CvLoads[row], j)
    BY <2>1 DEF XInsn
  <2>3. /\ InsnCvL(CvLoads[row], j).rs1_addr = InsnCvL(CvLoads[row], i).rs1_addr
        /\ InsnCvL(CvLoads[row], j).rs2_addr = InsnCvL(CvLoads[row], i).rs2_addr
        /\ InsnCvL(CvLoads[row], j).rs3_addr = InsnCvL(CvLoads[row], i).rs3_addr
    BY DEF Alike, InsnCvL, Blank, PostIncrements, Loads
  <2>4. InsnCvL(CvLoads[row], i).valid /\ Agree1(i, j, InsnCvL(CvLoads[row], i)) =>
          i.rs1_rdata = j.rs1_rdata
    BY DEF Agree1, InsnCvL, Blank, PostIncrements, Loads, FormatPl
  <2>5. InsnCvL(CvLoads[row], i).valid /\ Agree2(i, j, InsnCvL(CvLoads[row], i)) /\ RegForm(FormatPl(i.insn)) =>
          i.rs2_rdata = j.rs2_rdata
    BY DEF Agree2, InsnCvL, Blank, PostIncrements, Loads, FormatPl
  <2>6. i.rs1_rdata = j.rs1_rdata /\ (RegForm(FormatPl(i.insn)) => i.rs2_rdata =
        j.rs2_rdata) =>
          InsnCvL(CvLoads[row], j) = InsnCvL(CvLoads[row], i)
    BY <1>1, <1>2, <1>3, <2>1 DEF Alike, InsnCvL
  <2> QED BY <2>2, <2>3, <2>4, <2>5, <2>6 DEF Agree
<1>6. CASE n \in Tagged("s", DOMAIN CvStores)
  <2>1. n = <<"s", row>> /\ row \in DOMAIN CvStores
    BY <1>6, InTagged
  <2> HIDE DEF row
  <2>2. XInsn(n, i) = InsnCvS(CvStores[row], i) /\ XInsn(n, j) = InsnCvS(CvStores[row], j)
    BY <2>1 DEF XInsn
  <2>3. /\ InsnCvS(CvStores[row], j).rs1_addr = InsnCvS(CvStores[row], i).rs1_addr
        /\ InsnCvS(CvStores[row], j).rs2_addr = InsnCvS(CvStores[row], i).rs2_addr
        /\ InsnCvS(CvStores[row], j).rs3_addr = InsnCvS(CvStores[row], i).rs3_addr
    BY DEF Alike, InsnCvS, Blank, PostIncrements, Stores
  <2>4. InsnCvS(CvStores[row], i).valid /\ Agree1(i, j, InsnCvS(CvStores[row], i)) =>
          i.rs1_rdata = j.rs1_rdata
    BY DEF Agree1, InsnCvS, Blank, PostIncrements, Stores, FormatPs
  <2>5. InsnCvS(CvStores[row], i).valid /\ Agree2(i, j, InsnCvS(CvStores[row], i)) =>
          i.rs2_rdata = j.rs2_rdata
    BY DEF Agree2, InsnCvS, Blank, PostIncrements, Stores, FormatPs
  <2>6. InsnCvS(CvStores[row], i).valid /\ Agree3(i, j, n, InsnCvS(CvStores[row], i)) /\ (RegForm(FormatPs(i.insn))) =>
          i.rs3_rdata = j.rs3_rdata
    BY DEF Agree3, InsnCvS, Blank, PostIncrements, Stores, FormatPs
  <2>7. i.rs1_rdata = j.rs1_rdata /\ i.rs2_rdata = j.rs2_rdata /\
        (RegForm(FormatPs(i.insn)) => i.rs3_rdata = j.rs3_rdata) =>
          InsnCvS(CvStores[row], j) = InsnCvS(CvStores[row], i)
    BY <1>1, <1>2, <1>3, <2>1 DEF Alike, InsnCvS
  <2> QED BY <2>2, <2>3, <2>4, <2>5, <2>6, <2>7 DEF Agree
<1>7. CASE n \in Tagged("bit_man_1", DOMAIN BitMan1)
  <2>1. n = <<"bit_man_1", row>> /\ row \in DOMAIN BitMan1
    BY <1>7, InTagged
  <2> HIDE DEF row
  <2>2. XInsn(n, i) = InsnCvBitMan1(row, i) /\ XInsn(n, j) = InsnCvBitMan1(row, j)
    BY <2>1 DEF XInsn
  <2>3. /\ InsnCvBitMan1(row, j).rs1_addr = InsnCvBitMan1(row, i).rs1_addr
        /\ InsnCvBitMan1(row, j).rs2_addr = InsnCvBitMan1(row, i).rs2_addr
        /\ InsnCvBitMan1(row, j).rs3_addr = InsnCvBitMan1(row, i).rs3_addr
    BY DEF Alike, InsnCvBitMan1, Computes, Blank
  <2>4. InsnCvBitMan1(row, i).valid /\ Agree1(i, j, InsnCvBitMan1(row, i)) =>
          i.rs1_rdata = j.rs1_rdata
    BY DEF Agree1, InsnCvBitMan1, Computes, Blank, FormatCvBitMan
  <2>5. InsnCvBitMan1(row, i).valid /\ Agree3(i, j, n, InsnCvBitMan1(row, i)) /\ (row = "insert") =>
          i.rs3_rdata = j.rs3_rdata
    BY DEF Agree3, InsnCvBitMan1, Computes, Blank, FormatCvBitMan, FieldSources
  <2>6. i.rs1_rdata = j.rs1_rdata /\ (row = "insert" => i.rs3_rdata = j.rs3_rdata) =>
          InsnCvBitMan1(row, j) = InsnCvBitMan1(row, i)
    BY <1>1, <2>1 DEF Alike, InsnCvBitMan1, Computes, BitField, FieldSources, BitMan1
  <2> QED BY <2>2, <2>3, <2>4, <2>5, <2>6 DEF Agree
<1>8. CASE n \in Tagged("bitrev", {"cv_bitrev"})
  <2>1. n = <<"bitrev", row>> /\ row \in {"cv_bitrev"}
    BY <1>8, InTagged
  <2> HIDE DEF row
  <2>2. XInsn(n, i) = InsnCvBitrev(i) /\ XInsn(n, j) = InsnCvBitrev(j)
    BY <2>1 DEF XInsn
  <2>3. /\ InsnCvBitrev(j).rs1_addr = InsnCvBitrev(i).rs1_addr
        /\ InsnCvBitrev(j).rs2_addr = InsnCvBitrev(i).rs2_addr
        /\ InsnCvBitrev(j).rs3_addr = InsnCvBitrev(i).rs3_addr
    BY DEF Alike, InsnCvBitrev, Computes, Blank
  <2>4. InsnCvBitrev(i).valid /\ Agree1(i, j, InsnCvBitrev(i)) =>
          i.rs1_rdata = j.rs1_rdata
    BY DEF Agree1, InsnCvBitrev, Computes, Blank, FormatCvBitMan
  <2>5. i.rs1_rdata = j.rs1_rdata =>
          InsnCvBitrev(j) = InsnCvBitrev(i)
    BY <1>1, <2>1 DEF Alike, InsnCvBitrev, Computes
  <2> QED BY <2>2, <2>3, <2>4, <2>5 DEF Agree
<1>9. CASE n \in Tagged("bit_man_2", DOMAIN BitMan2)
  <2>1. n = <<"bit_man_2", row>> /\ row \in DOMAIN BitMan2
    BY <1>9, InTagged
  <2> HIDE DEF row
  <2>2. XInsn(n, i) = InsnCvBitMan2(row, i) /\ XInsn(n, j) = InsnCvBitMan2(row, j)
    BY <2>1 DEF XInsn
  <2>3. /\ InsnCvBitMan2(row, j).rs1_addr = InsnCvBitMan2(row, i).rs1_addr
        /\ InsnCvBitMan2(row, j).rs2_addr = InsnCvBitMan2(row, i).rs2_addr
        /\ InsnCvBitMan2(row, j).rs3_addr = InsnCvBitMan2(row, i).rs3_addr
    BY DEF Alike, InsnCvBitMan2, Computes, Blank
  <2>4. InsnCvBitMan2(row, i).valid /\ Agree1(i, j, InsnCvBitMan2(row, i)) =>
          i.rs1_rdata = j.rs1_rdata
    BY DEF Agree1, InsnCvBitMan2, Computes, Blank, FormatR
  <2>5. InsnCvBitMan2(row, i).valid /\ Agree2(i, j, InsnCvBitMan2(row, i)) =>
          i.rs2_rdata = j.rs2_rdata
    BY DEF Agree2, InsnCvBitMan2, Computes, Blank, FormatR
  <2>6. InsnCvBitMan2(row, i).valid /\ Agree3(i, j, n, InsnCvBitMan2(row, i)) /\ (row = "insert") =>
          i.rs3_rdata = j.rs3_rdata
    BY DEF Agree3, InsnCvBitMan2, Computes, Blank, FormatR, FieldSources
  <2>7. i.rs1_rdata = j.rs1_rdata /\ i.rs2_rdata = j.rs2_rdata /\ (row = "insert" =>
        i.rs3_rdata = j.rs3_rdata) =>
          InsnCvBitMan2(row, j) = InsnCvBitMan2(row, i)
    BY <1>1, <2>1 DEF Alike, InsnCvBitMan2, Computes, BitField, FieldSources, Ls2,
       Ls3, BitMan2
  <2> QED BY <2>2, <2>3, <2>4, <2>5, <2>6, <2>7 DEF Agree
<1>10. CASE n \in Tagged("ror", {"cv_ror"})
  <2>1. n = <<"ror", row>> /\ row \in {"cv_ror"}
    BY <1>10, InTagged
  <2> HIDE DEF row
  <2>2. XInsn(n, i) = InsnCvRor(i) /\ XInsn(n, j) = InsnCvRor(j)
    BY <2>1 DEF XInsn
  <2>3. /\ InsnCvRor(j).rs1_addr = InsnCvRor(i).rs1_addr
        /\ InsnCvRor(j).rs2_addr = InsnCvRor(i).rs2_addr
        /\ InsnCvRor(j).rs3_addr = InsnCvRor(i).rs3_addr
    BY DEF Alike, InsnCvRor, Computes, Blank
  <2>4. InsnCvRor(i).valid /\ Agree1(i, j, InsnCvRor(i)) =>
          i.rs1_rdata = j.rs1_rdata
    BY DEF Agree1, InsnCvRor, Computes, Blank, FormatR
  <2>5. InsnCvRor(i).valid /\ Agree2(i, j, InsnCvRor(i)) =>
          i.rs2_rdata = j.rs2_rdata
    BY DEF Agree2, InsnCvRor, Computes, Blank, FormatR
  <2>6. i.rs1_rdata = j.rs1_rdata /\ i.rs2_rdata = j.rs2_rdata =>
          InsnCvRor(j) = InsnCvRor(i)
    BY <1>1, <2>1 DEF Alike, InsnCvRor, Computes, Ls2
  <2> QED BY <2>2, <2>3, <2>4, <2>5, <2>6 DEF Agree
<1>11. CASE n \in Tagged("bit_man_3", DOMAIN BitMan3)
  <2>1. n = <<"bit_man_3", row>> /\ row \in DOMAIN BitMan3
    BY <1>11, InTagged
  <2> HIDE DEF row
  <2>2. XInsn(n, i) = InsnCvBitMan3(row, i) /\ XInsn(n, j) = InsnCvBitMan3(row, j)
    BY <2>1 DEF XInsn
  <2>3. /\ InsnCvBitMan3(row, j).rs1_addr = InsnCvBitMan3(row, i).rs1_addr
        /\ InsnCvBitMan3(row, j).rs2_addr = InsnCvBitMan3(row, i).rs2_addr
        /\ InsnCvBitMan3(row, j).rs3_addr = InsnCvBitMan3(row, i).rs3_addr
    BY DEF Alike, InsnCvBitMan3, Computes, Blank
  <2>4. InsnCvBitMan3(row, i).valid /\ Agree1(i, j, InsnCvBitMan3(row, i)) =>
          i.rs1_rdata = j.rs1_rdata
    BY DEF Agree1, InsnCvBitMan3, Computes, Blank, FormatR
  <2>5. i.rs1_rdata = j.rs1_rdata =>
          InsnCvBitMan3(row, j) = InsnCvBitMan3(row, i)
    BY <1>1, <2>1 DEF Alike, InsnCvBitMan3, Computes
  <2> QED BY <2>2, <2>3, <2>4, <2>5 DEF Agree
<1>12. CASE n \in Tagged("gen_alu", DOMAIN GenAlu)
  <2>1. n = <<"gen_alu", row>> /\ row \in DOMAIN GenAlu
    BY <1>12, InTagged
  <2> HIDE DEF row
  <2>2. XInsn(n, i) = InsnCvGenAlu(row, i) /\ XInsn(n, j) = InsnCvGenAlu(row, j)
    BY <2>1 DEF XInsn
  <2>3. /\ InsnCvGenAlu(row, j).rs1_addr = InsnCvGenAlu(row, i).rs1_addr
        /\ InsnCvGenAlu(row, j).rs2_addr = InsnCvGenAlu(row, i).rs2_addr
        /\ InsnCvGenAlu(row, j).rs3_addr = InsnCvGenAlu(row, i).rs3_addr
    BY DEF Alike, InsnCvGenAlu, Computes, Blank
  <2>4. InsnCvGenAlu(row, i).valid /\ Agree1(i, j, InsnCvGenAlu(row, i)) =>
          i.rs1_rdata = j.rs1_rdata
    BY DEF Agree1, InsnCvGenAlu, Computes, Blank, FormatR
  <2>5. InsnCvGenAlu(row, i).valid /\ Agree2(i, j, InsnCvGenAlu(row, i)) /\ ~GenAlu[row][2] =>
          i.rs2_rdata = j.rs2_rdata
    BY DEF Agree2, InsnCvGenAlu, Computes, Blank, FormatR
  <2>6. i.rs1_rdata = j.rs1_rdata /\ (~GenAlu[row][2] => i.rs2_rdata = j.rs2_rdata)
        =>
          InsnCvGenAlu(row, j) = InsnCvGenAlu(row, i)
    BY <1>1, <2>1 DEF Alike, InsnCvGenAlu, Computes, GenAlu, GenAluResult
  <2> QED BY <2>2, <2>3, <2>4, <2>5, <2>6 DEF Agree
<1>13. CASE n \in Tagged("clip", DOMAIN Clips)
  <2>1. n = <<"clip", row>> /\ row \in DOMAIN Clips
    BY <1>13, InTagged
  <2> HIDE DEF row
  <2>2. XInsn(n, i) = InsnCvClip(row, i) /\ XInsn(n, j) = InsnCvClip(row, j)
    BY <2>1 DEF XInsn
  <2>3. /\ InsnCvClip(row, j).rs1_addr = InsnCvClip(row, i).rs1_addr
        /\ InsnCvClip(row, j).rs2_addr = InsnCvClip(row, i).rs2_addr
        /\ InsnCvClip(row, j).rs3_addr = InsnCvClip(row, i).rs3_addr
    BY DEF Alike, InsnCvClip, Computes, Blank
  <2>4. InsnCvClip(row, i).valid /\ Agree1(i, j, InsnCvClip(row, i)) =>
          i.rs1_rdata = j.rs1_rdata
    BY DEF Agree1, InsnCvClip, Computes, Blank, FormatR
  <2>5. InsnCvClip(row, i).valid /\ Agree2(i, j, InsnCvClip(row, i)) /\ Clips[row][3] =>
          i.rs2_rdata = j.rs2_rdata
    BY DEF Agree2, InsnCvClip, Computes, Blank, FormatR
  <2>6. i.rs1_rdata = j.rs1_rdata /\ (Clips[row][3] => i.rs2_rdata = j.rs2_rdata) =>
          InsnCvClip(row, j) = InsnCvClip(row, i)
    BY <1>1, <2>1 DEF Alike, InsnCvClip, Computes, Clipped, UpperBound
  <2> QED BY <2>2, <2>3, <2>4, <2>5, <2>6 DEF Agree
<1>14. CASE n \in Tagged("gen_alu_N", Norms)
  <2>1. n = <<"gen_alu_N", row>> /\ row \in Norms
    BY <1>14, InTagged
  <2> HIDE DEF row
  <2>2. XInsn(n, i) = InsnCvGenAluN(row, i) /\ XInsn(n, j) = InsnCvGenAluN(row, j)
    BY <2>1 DEF XInsn
  <2>3. /\ InsnCvGenAluN(row, j).rs1_addr = InsnCvGenAluN(row, i).rs1_addr
        /\ InsnCvGenAluN(row, j).rs2_addr = InsnCvGenAluN(row, i).rs2_addr
        /\ InsnCvGenAluN(row, j).rs3_addr = InsnCvGenAluN(row, i).rs3_addr
    BY DEF Alike, InsnCvGenAluN, Computes, Blank
  <2>4. InsnCvGenAluN(row, i).valid /\ Agree1(i, j, InsnCvGenAluN(row, i)) =>
          i.rs1_rdata = j.rs1_rdata
    BY DEF Agree1, InsnCvGenAluN, Computes, Blank, FormatGenAluN
  <2>5. InsnCvGenAluN(row, i).valid /\ Agree2(i, j, InsnCvGenAluN(row, i)) =>
          i.rs2_rdata = j.rs2_rdata
    BY DEF Agree2, InsnCvGenAluN, Computes, Blank, FormatGenAluN
  <2>6. i.rs1_rdata = j.rs1_rdata /\ i.rs2_rdata = j.rs2_rdata =>
          InsnCvGenAluN(row, j) = InsnCvGenAluN(row, i)
    BY <1>1, <2>1 DEF Alike, InsnCvGenAluN, Computes
  <2> QED BY <2>2, <2>3, <2>4, <2>5, <2>6 DEF Agree
<1>15. CASE n \in Tagged("gen_alu_Nr", Norms)
  <2>1. n = <<"gen_alu_Nr", row>> /\ row \in Norms
    BY <1>15, InTagged
  <2> HIDE DEF row
  <2>2. XInsn(n, i) = InsnCvGenAluNr(row, i) /\ XInsn(n, j) = InsnCvGenAluNr(row, j)
    BY <2>1 DEF XInsn
  <2>3. /\ InsnCvGenAluNr(row, j).rs1_addr = InsnCvGenAluNr(row, i).rs1_addr
        /\ InsnCvGenAluNr(row, j).rs2_addr = InsnCvGenAluNr(row, i).rs2_addr
        /\ InsnCvGenAluNr(row, j).rs3_addr = InsnCvGenAluNr(row, i).rs3_addr
    BY DEF Alike, InsnCvGenAluNr, Computes, Blank
  <2>4. InsnCvGenAluNr(row, i).valid /\ Agree1(i, j, InsnCvGenAluNr(row, i)) =>
          i.rs1_rdata = j.rs1_rdata
    BY DEF Agree1, InsnCvGenAluNr, Computes, Blank, FormatCvGenAluNr
  <2>5. InsnCvGenAluNr(row, i).valid /\ Agree2(i, j, InsnCvGenAluNr(row, i)) =>
          i.rs2_rdata = j.rs2_rdata
    BY DEF Agree2, InsnCvGenAluNr, Computes, Blank, FormatCvGenAluNr
  <2>6. InsnCvGenAluNr(row, i).valid /\ Agree3(i, j, n, InsnCvGenAluNr(row, i)) =>
          i.rs3_rdata = j.rs3_rdata
    BY DEF Agree3, InsnCvGenAluNr, Computes, Blank, FormatCvGenAluNr
  <2>7. i.rs1_rdata = j.rs1_rdata /\ i.rs2_rdata = j.rs2_rdata /\ i.rs3_rdata =
        j.rs3_rdata =>
          InsnCvGenAluNr(row, j) = InsnCvGenAluNr(row, i)
    BY <1>1, <2>1 DEF Alike, InsnCvGenAluNr, Computes, Ls2
  <2> QED BY <2>2, <2>3, <2>4, <2>5, <2>6, <2>7 DEF Agree
<1>16. CASE n \in Tagged("b", DOMAIN CvBranches)
  <2>1. n = <<"b", row>> /\ row \in DOMAIN CvBranches
    BY <1>16, InTagged
  <2> HIDE DEF row
  <2>2. XInsn(n, i) = InsnCvB(CvBranches[row], i) /\ XInsn(n, j) = InsnCvB(CvBranches[row], j)
    BY <2>1 DEF XInsn
  <2>3. /\ InsnCvB(CvBranches[row], j).rs1_addr = InsnCvB(CvBranches[row], i).rs1_addr
        /\ InsnCvB(CvBranches[row], j).rs2_addr = InsnCvB(CvBranches[row], i).rs2_addr
        /\ InsnCvB(CvBranches[row], j).rs3_addr = InsnCvB(CvBranches[row], i).rs3_addr
    BY DEF Alike, InsnCvB, Blank
  <2>4. InsnCvB(CvBranches[row], i).valid /\ Agree1(i, j, InsnCvB(CvBranches[row], i)) =>
          i.rs1_rdata = j.rs1_rdata
    BY DEF Agree1, InsnCvB, Blank, FormatPb
  <2>5. i.rs1_rdata = j.rs1_rdata =>
          InsnCvB(CvBranches[row], j) = InsnCvB(CvBranches[row], i)
    BY <1>1, <2>1 DEF Alike, InsnCvB, NextPc, JumpTraps, Ialign16
  <2> QED BY <2>2, <2>3, <2>4, <2>5 DEF Agree
<1>17. CASE n \in Tagged("mac16", Macs)
  <2>1. n = <<"mac16", row>> /\ row \in Macs
    BY <1>17, InTagged
  <2> HIDE DEF row
  <2>2. XInsn(n, i) = InsnCvMac16(row, i) /\ XInsn(n, j) = InsnCvMac16(row, j)
    BY <2>1 DEF XInsn
  <2>3. /\ InsnCvMac16(row, j).rs1_addr = InsnCvMac16(row, i).rs1_addr
        /\ InsnCvMac16(row, j).rs2_addr = InsnCvMac16(row, i).rs2_addr
        /\ InsnCvMac16(row, j).rs3_addr = InsnCvMac16(row, i).rs3_addr
    BY DEF Alike, InsnCvMac16, Computes, Blank
  <2>4. InsnCvMac16(row, i).valid /\ Agree1(i, j, InsnCvMac16(row, i)) =>
          i.rs1_rdata = j.rs1_rdata
    BY DEF Agree1, InsnCvMac16, Computes, Blank, FormatGenAluN
  <2>5. InsnCvMac16(row, i).valid /\ Agree2(i, j, InsnCvMac16(row, i)) =>
          i.rs2_rdata = j.rs2_rdata
    BY DEF Agree2, InsnCvMac16, Computes, Blank, FormatGenAluN
  <2>6. InsnCvMac16(row, i).valid /\ Agree3(i, j, n, InsnCvMac16(row, i)) =>
          i.rs3_rdata = j.rs3_rdata
    BY <2>1 DEF Agree3, InsnCvMac16, Computes, Blank, FormatGenAluN, AddsZero
  <2>7. i.rs1_rdata = j.rs1_rdata /\ i.rs2_rdata = j.rs2_rdata /\ i.rs3_rdata =
        j.rs3_rdata =>
          InsnCvMac16(row, j) = InsnCvMac16(row, i)
    BY <1>1, <2>1 DEF Alike, InsnCvMac16, Computes, Mac16
  <2> QED BY <2>2, <2>3, <2>4, <2>5, <2>6, <2>7 DEF Agree
<1>18. CASE n \in Tagged("mac32", DOMAIN Macs32)
  <2>1. n = <<"mac32", row>> /\ row \in DOMAIN Macs32
    BY <1>18, InTagged
  <2> HIDE DEF row
  <2>2. XInsn(n, i) = InsnCvMac32(row, i) /\ XInsn(n, j) = InsnCvMac32(row, j)
    BY <2>1 DEF XInsn
  <2>3. /\ InsnCvMac32(row, j).rs1_addr = InsnCvMac32(row, i).rs1_addr
        /\ InsnCvMac32(row, j).rs2_addr = InsnCvMac32(row, i).rs2_addr
        /\ InsnCvMac32(row, j).rs3_addr = InsnCvMac32(row, i).rs3_addr
    BY DEF Alike, InsnCvMac32, Computes, Blank
  <2>4. InsnCvMac32(row, i).valid /\ Agree1(i, j, InsnCvMac32(row, i)) =>
          i.rs1_rdata = j.rs1_rdata
    BY DEF Agree1, InsnCvMac32, Computes, Blank, FormatR
  <2>5. InsnCvMac32(row, i).valid /\ Agree2(i, j, InsnCvMac32(row, i)) =>
          i.rs2_rdata = j.rs2_rdata
    BY DEF Agree2, InsnCvMac32, Computes, Blank, FormatR
  <2>6. InsnCvMac32(row, i).valid /\ Agree3(i, j, n, InsnCvMac32(row, i)) =>
          i.rs3_rdata = j.rs3_rdata
    BY DEF Agree3, InsnCvMac32, Computes, Blank, FormatR
  <2>7. i.rs1_rdata = j.rs1_rdata /\ i.rs2_rdata = j.rs2_rdata /\ i.rs3_rdata =
        j.rs3_rdata =>
          InsnCvMac32(row, j) = InsnCvMac32(row, i)
    BY <1>1, <2>1 DEF Alike, InsnCvMac32, Computes
  <2> QED BY <2>2, <2>3, <2>4, <2>5, <2>6, <2>7 DEF Agree
<1>19. CASE n \in Tagged("simd_alu", SimdInsns)
  <2>1. n = <<"simd_alu", row>> /\ row \in SimdInsns
    BY <1>19, InTagged
  <2> HIDE DEF row
  <2>2. XInsn(n, i) = InsnCvSimdAlu(row, i) /\ XInsn(n, j) = InsnCvSimdAlu(row, j)
    BY <2>1 DEF XInsn
  <2>3. /\ InsnCvSimdAlu(row, j).rs1_addr = InsnCvSimdAlu(row, i).rs1_addr
        /\ InsnCvSimdAlu(row, j).rs2_addr = InsnCvSimdAlu(row, i).rs2_addr
        /\ InsnCvSimdAlu(row, j).rs3_addr = InsnCvSimdAlu(row, i).rs3_addr
    BY DEF Alike, InsnCvSimdAlu, Computes, Blank
  <2>4. InsnCvSimdAlu(row, i).valid /\ Agree1(i, j, InsnCvSimdAlu(row, i)) =>
          i.rs1_rdata = j.rs1_rdata
    BY DEF Agree1, InsnCvSimdAlu, Computes, Blank, FormatSimd
  <2>5. InsnCvSimdAlu(row, i).valid /\ Agree2(i, j, InsnCvSimdAlu(row, i)) /\ row[2] /= "sci" =>
          i.rs2_rdata = j.rs2_rdata
    BY DEF Agree2, InsnCvSimdAlu, Computes, Blank, FormatSimd, SimdSources
  <2>6. i.rs1_rdata = j.rs1_rdata /\ (row[2] /= "sci" => i.rs2_rdata = j.rs2_rdata)
        =>
          InsnCvSimdAlu(row, j) = InsnCvSimdAlu(row, i)
    <3> HAVE i.rs1_rdata = j.rs1_rdata /\ (row[2] /= "sci" => i.rs2_rdata = j.rs2_rdata)
    <3>1. row[2] \in Forms
      BY <2>1 DEF SimdInsns, Forms
    <3>2. \A half, imms, k : Op2(j, row[2], half, imms, k) = Op2(i, row[2], half, imms, k)
      BY <1>4, <3>1
    <3> QED BY <1>1, <2>1, <3>2, SimdAlike
  <2> QED BY <2>2, <2>3, <2>4, <2>5, <2>6 DEF Agree
<1>20. CASE n \in Tagged("ext_ins", (DOMAIN ExtIns) \X BOOLEAN)
  <2>1. n = <<"ext_ins", row>> /\ row \in (DOMAIN ExtIns) \X BOOLEAN
    BY <1>20, InTagged
  <2> HIDE DEF row
  <2>2. XInsn(n, i) = InsnCvSimdExtIns(row, i) /\ XInsn(n, j) = InsnCvSimdExtIns(row, j)
    BY <2>1 DEF XInsn
  <2>3. /\ InsnCvSimdExtIns(row, j).rs1_addr = InsnCvSimdExtIns(row, i).rs1_addr
        /\ InsnCvSimdExtIns(row, j).rs2_addr = InsnCvSimdExtIns(row, i).rs2_addr
        /\ InsnCvSimdExtIns(row, j).rs3_addr = InsnCvSimdExtIns(row, i).rs3_addr
    BY DEF Alike, InsnCvSimdExtIns, Computes, Blank
  <2>4. InsnCvSimdExtIns(row, i).valid /\ Agree1(i, j, InsnCvSimdExtIns(row, i)) =>
          i.rs1_rdata = j.rs1_rdata
    BY DEF Agree1, InsnCvSimdExtIns, Computes, Blank, FormatSimd
  <2>5. InsnCvSimdExtIns(row, i).valid /\ Agree3(i, j, n, InsnCvSimdExtIns(row, i)) /\ (row[1] = "insert") =>
          i.rs3_rdata = j.rs3_rdata
    BY DEF Agree3, InsnCvSimdExtIns, Computes, Blank, FormatSimd, FieldSources
  <2>6. i.rs1_rdata = j.rs1_rdata /\ (row[1] = "insert" => i.rs3_rdata = j.rs3_rdata)
        =>
          InsnCvSimdExtIns(row, j) = InsnCvSimdExtIns(row, i)
    BY <1>1, <2>1 DEF Alike, InsnCvSimdExtIns, Computes, FieldSources, ExtIns
  <2> QED BY <2>2, <2>3, <2>4, <2>5, <2>6 DEF Agree
<1>21. CASE n \in Tagged("dot", (DOMAIN Dots) \X Forms \X BOOLEAN)
  <2>1. n = <<"dot", row>> /\ row \in (DOMAIN Dots) \X Forms \X BOOLEAN
    BY <1>21, InTagged
  <2> HIDE DEF row
  <2>2. XInsn(n, i) = InsnCvSimdDot(row, i) /\ XInsn(n, j) = InsnCvSimdDot(row, j)
    BY <2>1 DEF XInsn
  <2>3. /\ InsnCvSimdDot(row, j).rs1_addr = InsnCvSimdDot(row, i).rs1_addr
        /\ InsnCvSimdDot(row, j).rs2_addr = InsnCvSimdDot(row, i).rs2_addr
        /\ InsnCvSimdDot(row, j).rs3_addr = InsnCvSimdDot(row, i).rs3_addr
    BY DEF Alike, InsnCvSimdDot, Computes, Blank
  <2>4. InsnCvSimdDot(row, i).valid /\ Agree1(i, j, InsnCvSimdDot(row, i)) =>
          i.rs1_rdata = j.rs1_rdata
    BY DEF Agree1, InsnCvSimdDot, Computes, Blank, FormatSimd
  <2>5. InsnCvSimdDot(row, i).valid /\ Agree2(i, j, InsnCvSimdDot(row, i)) /\ row[2] /= "sci" =>
          i.rs2_rdata = j.rs2_rdata
    BY DEF Agree2, InsnCvSimdDot, Computes, Blank, FormatSimd, SimdSources
  <2>6. InsnCvSimdDot(row, i).valid /\ Agree3(i, j, n, InsnCvSimdDot(row, i)) /\ (Dots[row[1]][4] \/ Altops \in i.def) =>
          i.rs3_rdata = j.rs3_rdata
    BY <2>1 DEF Agree3, InsnCvSimdDot, Computes, Blank, FormatSimd, AddsZero
  <2>7. i.rs1_rdata = j.rs1_rdata /\ (row[2] /= "sci" => i.rs2_rdata = j.rs2_rdata)
        /\ (Dots[row[1]][4] \/ Altops \in i.def => i.rs3_rdata = j.rs3_rdata) =>
          InsnCvSimdDot(row, j) = InsnCvSimdDot(row, i)
    <3> HAVE i.rs1_rdata = j.rs1_rdata /\ (row[2] /= "sci" => i.rs2_rdata = j.rs2_rdata)
              /\ (Dots[row[1]][4] \/ Altops \in i.def => i.rs3_rdata = j.rs3_rdata)
    <3>1. row[2] \in Forms
      BY <2>1 DEF Forms
    <3>2. \A half, imms, k : Op2(j, row[2], half, imms, k) = Op2(i, row[2], half, imms, k)
      BY <1>4, <3>1
    <3>3. Dot(row[1], j, row[2], row[3]) = Dot(row[1], i, row[2], row[3])
      BY <3>2, DotAlike
    <3> QED BY <1>1, <3>3 DEF Alike, InsnCvSimdDot, Computes
  <2> QED BY <2>2, <2>3, <2>4, <2>5, <2>6, <2>7 DEF Agree
<1>22. CASE n \in Tagged("shu", DOMAIN Shuffles)
  <2>1. n = <<"shu", row>> /\ row \in DOMAIN Shuffles
    BY <1>22, InTagged
  <2> HIDE DEF row
  <2>2. XInsn(n, i) = InsnCvSimdShu(row, i) /\ XInsn(n, j) = InsnCvSimdShu(row, j)
    BY <2>1 DEF XInsn
  <2>3. /\ InsnCvSimdShu(row, j).rs1_addr = InsnCvSimdShu(row, i).rs1_addr
        /\ InsnCvSimdShu(row, j).rs2_addr = InsnCvSimdShu(row, i).rs2_addr
        /\ InsnCvSimdShu(row, j).rs3_addr = InsnCvSimdShu(row, i).rs3_addr
    BY DEF Alike, InsnCvSimdShu, Computes, Blank
  <2>4. InsnCvSimdShu(row, i).valid /\ Agree1(i, j, InsnCvSimdShu(row, i)) =>
          i.rs1_rdata = j.rs1_rdata
    BY DEF Agree1, InsnCvSimdShu, Computes, Blank, FormatSimd
  <2>5. InsnCvSimdShu(row, i).valid /\ Agree2(i, j, InsnCvSimdShu(row, i)) /\ ~Shuffles[row][4] =>
          i.rs2_rdata = j.rs2_rdata
    BY DEF Agree2, InsnCvSimdShu, Computes, Blank, FormatSimd
  <2>6. InsnCvSimdShu(row, i).valid /\ Agree3(i, j, n, InsnCvSimdShu(row, i)) /\ (Shuffles[row][6]) =>
          i.rs3_rdata = j.rs3_rdata
    BY DEF Agree3, InsnCvSimdShu, Computes, Blank, FormatSimd
  <2>7. i.rs1_rdata = j.rs1_rdata /\ (~Shuffles[row][4] => i.rs2_rdata = j.rs2_rdata)
        /\ (Shuffles[row][6] => i.rs3_rdata = j.rs3_rdata) =>
          InsnCvSimdShu(row, j) = InsnCvSimdShu(row, i)
    BY <1>1, <2>1, ShuffleAlike
  <2> QED BY <2>2, <2>3, <2>4, <2>5, <2>6, <2>7 DEF Agree
<1>23. CASE n \in Tagged("pack", DOMAIN Packs)
  <2>1. n = <<"pack", row>> /\ row \in DOMAIN Packs
    BY <1>23, InTagged
  <2> HIDE DEF row
  <2>2. XInsn(n, i) = InsnCvSimdPack(row, i) /\ XInsn(n, j) = InsnCvSimdPack(row, j)
    BY <2>1 DEF XInsn
  <2>3. /\ InsnCvSimdPack(row, j).rs1_addr = InsnCvSimdPack(row, i).rs1_addr
        /\ InsnCvSimdPack(row, j).rs2_addr = InsnCvSimdPack(row, i).rs2_addr
        /\ InsnCvSimdPack(row, j).rs3_addr = InsnCvSimdPack(row, i).rs3_addr
    BY DEF Alike, InsnCvSimdPack, Computes, Blank
  <2>4. InsnCvSimdPack(row, i).valid /\ Agree1(i, j, InsnCvSimdPack(row, i)) =>
          i.rs1_rdata = j.rs1_rdata
    BY DEF Agree1, InsnCvSimdPack, Computes, Blank, FormatSimd
  <2>5. InsnCvSimdPack(row, i).valid /\ Agree2(i, j, InsnCvSimdPack(row, i)) =>
          i.rs2_rdata = j.rs2_rdata
    BY DEF Agree2, InsnCvSimdPack, Computes, Blank, FormatSimd
  <2>6. InsnCvSimdPack(row, i).valid /\ Agree3(i, j, n, InsnCvSimdPack(row, i)) /\ (~Packs[row][3]) =>
          i.rs3_rdata = j.rs3_rdata
    BY DEF Agree3, InsnCvSimdPack, Computes, Blank, FormatSimd
  <2>7. i.rs1_rdata = j.rs1_rdata /\ i.rs2_rdata = j.rs2_rdata /\ (~Packs[row][3] =>
        i.rs3_rdata = j.rs3_rdata) =>
          InsnCvSimdPack(row, j) = InsnCvSimdPack(row, i)
    BY <1>1, <2>1 DEF Alike, InsnCvSimdPack, Computes
  <2> QED BY <2>2, <2>3, <2>4, <2>5, <2>6, <2>7 DEF Agree
<1>24. CASE n \in Tagged("cplxmul", CplxMuls)
  <2>1. n = <<"cplxmul", row>> /\ row \in CplxMuls
    BY <1>24, InTagged
  <2> HIDE DEF row
  <2>2. XInsn(n, i) = InsnCvCplxmul(row, i) /\ XInsn(n, j) = InsnCvCplxmul(row, j)
    BY <2>1 DEF XInsn
  <2>3. /\ InsnCvCplxmul(row, j).rs1_addr = InsnCvCplxmul(row, i).rs1_addr
        /\ InsnCvCplxmul(row, j).rs2_addr = InsnCvCplxmul(row, i).rs2_addr
        /\ InsnCvCplxmul(row, j).rs3_addr = InsnCvCplxmul(row, i).rs3_addr
    BY DEF Alike, InsnCvCplxmul, Computes, Blank
  <2>4. InsnCvCplxmul(row, i).valid /\ Agree1(i, j, InsnCvCplxmul(row, i)) =>
          i.rs1_rdata = j.rs1_rdata
    BY DEF Agree1, InsnCvCplxmul, Computes, Blank, FormatSimd
  <2>5. InsnCvCplxmul(row, i).valid /\ Agree2(i, j, InsnCvCplxmul(row, i)) =>
          i.rs2_rdata = j.rs2_rdata
    BY DEF Agree2, InsnCvCplxmul, Computes, Blank, FormatSimd
  <2>6. InsnCvCplxmul(row, i).valid /\ Agree3(i, j, n, InsnCvCplxmul(row, i)) =>
          i.rs3_rdata = j.rs3_rdata
    BY DEF Agree3, InsnCvCplxmul, Computes, Blank, FormatSimd
  <2>7. i.rs1_rdata = j.rs1_rdata /\ i.rs2_rdata = j.rs2_rdata /\ i.rs3_rdata =
        j.rs3_rdata =>
          InsnCvCplxmul(row, j) = InsnCvCplxmul(row, i)
    BY <1>1, <2>1 DEF Alike, InsnCvCplxmul, Computes, CplxMul
  <2> QED BY <2>2, <2>3, <2>4, <2>5, <2>6, <2>7 DEF Agree
<1>25. CASE n \in Tagged("cplxconj", {"cv_cplxconj"})
  <2>1. n = <<"cplxconj", row>> /\ row \in {"cv_cplxconj"}
    BY <1>25, InTagged
  <2> HIDE DEF row
  <2>2. XInsn(n, i) = InsnCvCplxconj(i) /\ XInsn(n, j) = InsnCvCplxconj(j)
    BY <2>1 DEF XInsn
  <2>3. /\ InsnCvCplxconj(j).rs1_addr = InsnCvCplxconj(i).rs1_addr
        /\ InsnCvCplxconj(j).rs2_addr = InsnCvCplxconj(i).rs2_addr
        /\ InsnCvCplxconj(j).rs3_addr = InsnCvCplxconj(i).rs3_addr
    BY DEF Alike, InsnCvCplxconj, Computes, Blank
  <2>4. InsnCvCplxconj(i).valid /\ Agree1(i, j, InsnCvCplxconj(i)) =>
          i.rs1_rdata = j.rs1_rdata
    BY DEF Agree1, InsnCvCplxconj, Computes, Blank, FormatSimd
  <2>5. i.rs1_rdata = j.rs1_rdata =>
          InsnCvCplxconj(j) = InsnCvCplxconj(i)
    BY <1>1, <2>1 DEF Alike, InsnCvCplxconj, Computes
  <2> QED BY <2>2, <2>3, <2>4, <2>5 DEF Agree
<1>26. CASE n \in Tagged("cplxaddsub", CplxAdds)
  <2>1. n = <<"cplxaddsub", row>> /\ row \in CplxAdds
    BY <1>26, InTagged
  <2> HIDE DEF row
  <2>2. XInsn(n, i) = InsnCvCplxaddsub(row, i) /\ XInsn(n, j) = InsnCvCplxaddsub(row, j)
    BY <2>1 DEF XInsn
  <2>3. /\ InsnCvCplxaddsub(row, j).rs1_addr = InsnCvCplxaddsub(row, i).rs1_addr
        /\ InsnCvCplxaddsub(row, j).rs2_addr = InsnCvCplxaddsub(row, i).rs2_addr
        /\ InsnCvCplxaddsub(row, j).rs3_addr = InsnCvCplxaddsub(row, i).rs3_addr
    BY DEF Alike, InsnCvCplxaddsub, Computes, Blank
  <2>4. InsnCvCplxaddsub(row, i).valid /\ Agree1(i, j, InsnCvCplxaddsub(row, i)) =>
          i.rs1_rdata = j.rs1_rdata
    BY DEF Agree1, InsnCvCplxaddsub, Computes, Blank, FormatSimd
  <2>5. InsnCvCplxaddsub(row, i).valid /\ Agree2(i, j, InsnCvCplxaddsub(row, i)) =>
          i.rs2_rdata = j.rs2_rdata
    BY DEF Agree2, InsnCvCplxaddsub, Computes, Blank, FormatSimd
  <2>6. i.rs1_rdata = j.rs1_rdata /\ i.rs2_rdata = j.rs2_rdata =>
          InsnCvCplxaddsub(row, j) = InsnCvCplxaddsub(row, i)
    BY <1>1, <2>1 DEF Alike, InsnCvCplxaddsub, Computes
  <2> QED BY <2>2, <2>3, <2>4, <2>5, <2>6 DEF Agree
<1>27. \/ n \in Tagged("l", DOMAIN CvLoads)
       \/ n \in Tagged("s", DOMAIN CvStores)
       \/ n \in Tagged("bit_man_1", DOMAIN BitMan1)
       \/ n \in Tagged("bitrev", {"cv_bitrev"})
       \/ n \in Tagged("bit_man_2", DOMAIN BitMan2)
       \/ n \in Tagged("ror", {"cv_ror"})
       \/ n \in Tagged("bit_man_3", DOMAIN BitMan3)
       \/ n \in Tagged("gen_alu", DOMAIN GenAlu)
       \/ n \in Tagged("clip", DOMAIN Clips)
       \/ n \in Tagged("gen_alu_N", Norms)
       \/ n \in Tagged("gen_alu_Nr", Norms)
       \/ n \in Tagged("b", DOMAIN CvBranches)
       \/ n \in Tagged("mac16", Macs)
       \/ n \in Tagged("mac32", DOMAIN Macs32)
       \/ n \in Tagged("simd_alu", SimdInsns)
       \/ n \in Tagged("ext_ins", (DOMAIN ExtIns) \X BOOLEAN)
       \/ n \in Tagged("dot", (DOMAIN Dots) \X Forms \X BOOLEAN)
       \/ n \in Tagged("shu", DOMAIN Shuffles)
       \/ n \in Tagged("pack", DOMAIN Packs)
       \/ n \in Tagged("cplxmul", CplxMuls)
       \/ n \in Tagged("cplxconj", {"cv_cplxconj"})
       \/ n \in Tagged("cplxaddsub", CplxAdds)
  BY InTagged DEF CvInsns
<1> QED BY <1>5, <1>6, <1>7, <1>8, <1>9, <1>10, <1>11, <1>12, <1>13, <1>14, <1>15,
           <1>16, <1>17, <1>18, <1>19, <1>20, <1>21, <1>22, <1>23, <1>24, <1>25,
           <1>26, <1>27

\* A branch of the base ISA looks at the registers that it compares.
LEMMA TakenSources ==
  ASSUME NEW n, NEW i, NEW j, i.insn \in InsnWords, Alike(i, j),
         Agree1(i, j, Insn(n, i)), Agree2(i, j, Insn(n, i))
  PROVE  Taken(n, j) <=> Taken(n, i)
<1>1. /\ Prime(i.insn, 9, 7) /= 0 /\ Prime(i.insn, 4, 2) /= 0
  BY WordParts, SMT DEF Prime, Field, Padded16
<1>2. CASE n \in DOMAIN Branches
  <2>1. Insn(n, i) = InsnB(Branches[n], i)
    BY <1>2, TableNames DEF Insn
  <2>2. i.rs1_rdata = j.rs1_rdata
    BY <2>1 DEF Agree1, InsnB, Default, FormatSb
  <2>3. i.rs2_rdata = j.rs2_rdata
    BY <2>1 DEF Agree2, InsnB, Default, FormatSb
  <2> QED BY <1>2, <2>2, <2>3, TableNames DEF Taken
<1>3. CASE n \in DOMAIN CBranches
  <2>1. Insn(n, i) = InsnCB(CBranches[n], i)
    BY <1>3, TableNames DEF Insn
  <2>2. i.rs1_rdata = j.rs1_rdata
    BY <1>1, <2>1 DEF Agree1, InsnCB, Default, FormatCb
  <2> QED BY <1>3, <2>2, TableNames DEF Taken
<1>4. CASE n \notin DOMAIN Branches /\ n \notin DOMAIN CBranches
  BY <1>4 DEF Taken
<1> QED BY <1>2, <1>3, <1>4

\* The same for every model.
LEMMA XSources ==
  ASSUME NEW parts \in SUBSET {"I", "M", "C"}, NEW n \in XIsaOf(parts), NEW i, NEW j,
         i.insn \in InsnWords, Alike(i, j), XInsn(n, i).valid
  PROVE  /\ XInsn(n, j).rs1_addr = XInsn(n, i).rs1_addr
         /\ XInsn(n, j).rs2_addr = XInsn(n, i).rs2_addr
         /\ XInsn(n, j).rs3_addr = XInsn(n, i).rs3_addr
         /\ Agree(i, j, n, XInsn(n, i)) => XInsn(n, j) = XInsn(n, i)
<1>1. CASE n \in Tagged("base", IsaOf(parts))
  <2> DEFINE row == n[2]
  <2>1. n[1] = "base" /\ row \in IsaOf(parts)
    BY <1>1, InTagged
  <2> HIDE DEF row
  <2>2. \A x : XInsn(n, x) = Loops(row, x, Extended(Insn(row, x)))
    BY <2>1 DEF XInsn, InsnBase, row
  <2>3. ASSUME NEW x, NEW out
        PROVE  LET l == Loops(row, x, Extended(out))
               IN  /\ l.valid = out.valid /\ l.rs1_addr = out.rs1_addr
                   /\ l.rs2_addr = out.rs2_addr /\ l.rs3_addr = 0
    BY DEF Loops, Extended
  <2>4. /\ XInsn(n, i).rs1_addr = Insn(row, i).rs1_addr
        /\ XInsn(n, i).rs2_addr = Insn(row, i).rs2_addr
        /\ XInsn(n, i).rs3_addr = 0 /\ Insn(row, i).valid
        /\ XInsn(n, j).rs1_addr = Insn(row, j).rs1_addr
        /\ XInsn(n, j).rs2_addr = Insn(row, j).rs2_addr
        /\ XInsn(n, j).rs3_addr = 0
    BY <2>2, <2>3
  <2>5. /\ Insn(row, j).rs1_addr = Insn(row, i).rs1_addr
        /\ Insn(row, j).rs2_addr = Insn(row, i).rs2_addr
    BY <2>1, <2>4, BaseSources
  <2>6. ASSUME Agree(i, j, n, XInsn(n, i))
        PROVE  XInsn(n, j) = XInsn(n, i)
    <3>1. Agree1(i, j, Insn(row, i)) /\ Agree2(i, j, Insn(row, i))
      BY <2>4, <2>6 DEF Agree, Agree1, Agree2
    <3>2. Insn(row, j) = Insn(row, i)
      BY <2>1, <2>4, <3>1, BaseSources
    <3>3. Taken(row, j) <=> Taken(row, i)
      BY <3>1, TakenSources
    <3>4. ASSUME NEW out PROVE Loops(row, j, out) = Loops(row, i, out)
      <4>1. /\ j.is_hwlp = i.is_hwlp /\ j.hwlp_start = i.hwlp_start
            /\ \A mask : MisaOk(j, mask) <=> MisaOk(i, mask)
            /\ \A pc : JumpTraps(j, pc) <=> JumpTraps(i, pc)
        BY DEF Alike, MisaOk, JumpTraps, Ialign16
      <4> DEFINE Trap(y) ==
            CASE row \in DOMAIN Branches -> ~MisaOk(y, {}) \/ JumpTraps(y, y.hwlp_start)
              [] row \in DOMAIN CBranches -> ~MisaOk(y, C) \/ y.hwlp_start % 2 /= 0
              [] OTHER -> out.trap
      <4>2. \A y : Loops(row, y, out) =
              IF ~y.is_hwlp \/ Taken(row, y) THEN out
              ELSE [out EXCEPT !.pc_wdata = y.hwlp_start, !.trap = Trap(y)]
        BY DEF Loops
      <4>3. Trap(j) = Trap(i)
        BY <4>1
      <4> HIDE DEF Trap
      <4> QED BY <3>3, <4>1, <4>2, <4>3
    <3> QED BY <2>2, <3>2, <3>4
  <2> QED BY <2>4, <2>5, <2>6
<1>2. CASE n \in CvInsns
  BY <1>2, CvSources
<1> QED BY <1>1, <1>2 DEF XIsaOf

\* The inputs with nothing in one of the source registers.
ZeroedAt(i, r) ==
  CASE r = 0 -> i
    [] r = 1 -> [i EXCEPT !.rs1_rdata = 0]
    [] r = 2 -> [i EXCEPT !.rs2_rdata = 0]
    [] r = 3 -> [i EXCEPT !.rs3_rdata = 0]
NamedBy(s) == <<s.rs1_addr, s.rs2_addr, s.rs3_addr>>
InWordOf(w) == <<Field(w, 19, 15), Field(w, 24, 20), Field(w, 11, 7)>>

\* Neither zero nor the gates of the module touch anything but the registers.
LEMMA GatesAlike ==
  ASSUME NEW i, OnPorts(i)
  PROVE  /\ ZeroedAt(i, 0) = i
         /\ \A r \in 1 .. 3 :
              /\ Alike(i, ZeroedAt(i, r))
              /\ r /= 1 => ZeroedAt(i, r).rs1_rdata = i.rs1_rdata
              /\ r /= 2 => ZeroedAt(i, r).rs2_rdata = i.rs2_rdata
              /\ r /= 3 => ZeroedAt(i, r).rs3_rdata = i.rs3_rdata
         /\ \A s : Alike(i, Gate(i, s))
<1>1. i = XInputs(i.valid, i.insn, i, i.def)
  BY DEF OnPorts
<1>2. ZeroedAt(i, 0) = i
  BY DEF ZeroedAt
<1>3. ASSUME NEW r \in 1 .. 3
      PROVE  /\ Alike(i, ZeroedAt(i, r))
             /\ r /= 1 => ZeroedAt(i, r).rs1_rdata = i.rs1_rdata
             /\ r /= 2 => ZeroedAt(i, r).rs2_rdata = i.rs2_rdata
             /\ r /= 3 => ZeroedAt(i, r).rs3_rdata = i.rs3_rdata
  <2>1. CASE r = 1
    BY <1>1, <2>1 DEF ZeroedAt, Alike, XInputs
  <2>2. CASE r = 2
    BY <1>1, <2>2 DEF ZeroedAt, Alike, XInputs
  <2>3. CASE r = 3
    BY <1>1, <2>3 DEF ZeroedAt, Alike, XInputs
  <2> QED BY <2>1, <2>2, <2>3
<1>4. ASSUME NEW s PROVE Alike(i, Gate(i, s))
  BY <1>1 DEF Gate, Alike, XInputs
<1> QED BY <1>2, <1>3, <1>4

\* For every word and operands, and all macros: an instruction model of
\* insns/generate_xpulp.py computes the same with zero in a register that it
\* does not name in its spec_rs addresses, as checks/rvfi_insn_check.sv gives it;
\* but for rs3_rdata in products that do not accumulate (AddsZero).
THEOREM OperandsDeclaredAlways == ASSUME XInputsTyped PROVE XSpec => []OperandsDeclared
<1>1. XIsaInv => OperandsDeclared
  <2> SUFFICES ASSUME XIsaInv PROVE OperandsDeclared
    OBVIOUS
  <2>1. /\ OnPorts(xin) /\ XParts(xin.def) \in SUBSET {"I", "M", "C"}
        /\ xin.insn \in InsnWords
    BY DEF XIsaInv, OnPorts, XParts
  <2>2. ASSUME NEW n \in DOMAIN xspecs, NEW r \in 1 .. 3,
               NamedBy(xspecs[n])[r] = 0, InWordOf(xin.insn)[r] /= 0,
               ~(r = 3 /\ AddsZero(n, xin))
        PROVE  XInsn(n, ZeroedAt(xin, r)) = XInsn(n, ZeroedAt(xin, 0))
    <3> DEFINE s == XInsn(n, xin)
    <3>1. n \in XIsaOf(XParts(xin.def)) /\ s.valid /\ xspecs[n] = XInsn(n, Gate(xin, s))
      BY DEF XIsaInv, GatedOutputs
    <3>2. Alike(xin, Gate(xin, s))
      BY <2>1, GatesAlike
    <3>3. /\ xspecs[n].rs1_addr = s.rs1_addr /\ xspecs[n].rs2_addr = s.rs2_addr
          /\ xspecs[n].rs3_addr = s.rs3_addr
      BY <2>1, <3>1, <3>2, XSources
    <3> HIDE DEF s
    <3>4. ZeroedAt(xin, 0) = xin /\ Alike(xin, ZeroedAt(xin, r))
      BY <2>1, GatesAlike
    <3>5. Agree(xin, ZeroedAt(xin, r), n, s)
      <4>1. /\ r /= 1 => ZeroedAt(xin, r).rs1_rdata = xin.rs1_rdata
            /\ r /= 2 => ZeroedAt(xin, r).rs2_rdata = xin.rs2_rdata
            /\ r /= 3 => ZeroedAt(xin, r).rs3_rdata = xin.rs3_rdata
        BY <2>1, GatesAlike
      <4>2. /\ r = 1 => s.rs1_addr = 0 /\ Field(xin.insn, 19, 15) /= 0
            /\ r = 2 => s.rs2_addr = 0 /\ Field(xin.insn, 24, 20) /= 0
            /\ r = 3 => s.rs3_addr = 0 /\ Field(xin.insn, 11, 7) /= 0
        BY <2>2, <3>3 DEF NamedBy, InWordOf
      <4> QED BY <2>2, <4>1, <4>2 DEF Agree, Agree1, Agree2, Agree3
    <3> QED BY <2>1, <3>1, <3>4, <3>5, XSources DEF s
  <2> DEFINE Outputs(n) == [r \in 0 .. 3 |-> XInsn(n, ZeroedAt(xin, r))]
  <2>3. \A n \in DOMAIN xspecs : \A r \in 1 .. 3 :
          NamedBy(xspecs[n])[r] = 0 /\ InWordOf(xin.insn)[r] /= 0
            /\ ~(r = 3 /\ AddsZero(n, xin)) =>
            Outputs(n)[r] = Outputs(n)[0]
    BY <2>2
  <2> QED BY <2>3, Zenon DEF OperandsDeclared, NamedBy, InWordOf, AddsZero, ZeroedAt
<1> QED BY <1>1, XIsaInvariant, PTL

-----------------------------------------------------------------------------
(***************************************************************************)
(* Post-increment: the access after one is the indexed access.             *)
(***************************************************************************)
\* Bit 27 of a word is bit 2 of funct7 and nothing else.
WithBit27(w, b) == [w EXCEPT !.hi = @ - 2^11 * Field(w, 27, 27) + 2^11 * b]

LEMMA Bit27 ==
  ASSUME NEW w \in InsnWords, NEW b \in {0, 1}
  PROVE  LET v == WithBit27(w, b)
         IN  /\ Padded32(v) = Padded32(w) /\ Field(v, 24, 20) = Field(w, 24, 20)
             /\ Field(v, 19, 15) = Field(w, 19, 15) /\ Field(v, 14, 12) = Field(w, 14, 12)
             /\ Field(v, 11, 7) = Field(w, 11, 7) /\ Field(v, 6, 0) = Field(w, 6, 0)
             /\ Field(v, 31, 25) \div 8 = Field(w, 31, 25) \div 8
             /\ Field(v, 31, 25) % 4 = Field(w, 31, 25) % 4
             /\ (Field(v, 31, 25) \div 4) % 2 = b
<1> DEFINE v == WithBit27(w, b)
           h == w.hi
           c == (h \div 2048) % 2
           q == h \div 4096
           r == h % 2048
<1>1. v.up = w.up /\ v.lo = w.lo /\ v.hi = h - 2048 * Field(w, 27, 27) + 2048 * b
  BY DEF WithBit27, InsnWords
<1>2. Field(w, 27, 27) = c
  BY WordParts, SMT DEF Field
<1>3. /\ c \in {0, 1} /\ q \in Nat /\ q < 16 /\ r \in Nat /\ r < 2048
      /\ h = 4096 * q + 2048 * c + r
  BY WordParts
<1>4. v.hi = 4096 * q + 2048 * b + r
  BY <1>1, <1>2, <1>3
<1> HIDE DEF v, q, r, c, h
<1>5. /\ Field(v, 31, 25) = 8 * q + 4 * b + (r \div 512)
      /\ Field(w, 31, 25) = 8 * q + 4 * c + (r \div 512)
      /\ r \div 512 \in 0 .. 3
  <2>1. Field(v, 31, 25) = (v.hi \div 512) % 128 /\ Field(w, 31, 25) = (h \div 512) % 128
    BY SMT DEF Field, h
  <2> QED BY <1>3, <1>4, <2>1
<1>6. /\ Field(v, 24, 20) = (r \div 16) % 32 /\ Field(w, 24, 20) = (r \div 16) % 32
      /\ v.hi % 16 = r % 16 /\ h % 16 = r % 16
  <2>1. Field(v, 24, 20) = (v.hi \div 16) % 32 /\ Field(w, 24, 20) = (h \div 16) % 32
    BY SMT DEF Field, h
  <2> QED BY <1>3, <1>4, <2>1
<1>7. Field(v, 19, 15) = Field(w, 19, 15)
  BY <1>1, <1>6, SMT DEF Field, h
<1>8. /\ Padded32(v) = Padded32(w) /\ Field(v, 14, 12) = Field(w, 14, 12)
      /\ Field(v, 11, 7) = Field(w, 11, 7) /\ Field(v, 6, 0) = Field(w, 6, 0)
  BY <1>1, SMT DEF Field, Padded32
<1>9. /\ Field(v, 31, 25) \div 8 = q /\ Field(v, 31, 25) % 4 = r \div 512
      /\ (Field(v, 31, 25) \div 4) % 2 = b
  BY <1>3, <1>5
<1>10. Field(w, 31, 25) \div 8 = q /\ Field(w, 31, 25) % 4 = r \div 512
  BY <1>3, <1>5
<1> QED BY <1>6, <1>7, <1>8, <1>9, <1>10 DEF v

\* Two inputs, of a post-incrementing access with the base that an indexed access
\* computes, and of that one.
After(i, k) ==
  /\ i.valid = k.valid /\ i.def = k.def /\ i.misa = k.misa /\ i.mem_rdata = k.mem_rdata
  /\ i.rs2_rdata = k.rs2_rdata /\ i.rs3_rdata = k.rs3_rdata
SameButIndexed(f, g) ==
  /\ f.padding = g.padding /\ f.funct3 = g.funct3 /\ f.opcode = g.opcode
  /\ f.funct7 \div 8 = g.funct7 \div 8 /\ f.funct7 % 4 = g.funct7 % 4
  /\ RegForm(f) /\ ~Indexed(f) /\ Indexed(g)
SameEffect(s, x) ==
  /\ s.trap = x.trap /\ s.mem_addr = x.mem_addr /\ s.mem_rmask = x.mem_rmask
  /\ s.mem_wmask = x.mem_wmask /\ s.mem_wdata = x.mem_wdata /\ s.rd_wdata = x.rd_wdata
  /\ x.post_rd_wdata = 0

LEMMA LoadWalks ==
  ASSUME NEW row, NEW i, NEW k, After(i, k),
         SameButIndexed(FormatPl(i.insn), FormatPl(k.insn)),
         FormatPl(i.insn).rd = FormatPl(k.insn).rd,
         i.rs1_rdata = Wrap(k.rs1_rdata + k.rs2_rdata)
  PROVE  SameEffect(InsnCvL(row, i), InsnCvL(row, k))
<1> DEFINE f == FormatPl(i.insn)
           g == FormatPl(k.insn)
           high == IF row[3] THEN 0 ELSE 1
           Known(x, h) == /\ x.valid /\ ~h.padding
                          /\ \/ h.funct3 = 3 /\ h.opcode = CV1
                             \/ h.funct3 = row[1] /\ h.opcode = CV0
                          /\ RegFunct7(h, high, row[2])
           Out(x, h) == [Blank(x) EXCEPT !.valid = TRUE, !.rd_addr = h.rd, !.rs2_addr = h.rs2]
           Post(x, h) == PostIncrements(x, h, x.rs2_rdata, Out(x, h))
           addr == i.rs1_rdata
<1> USE DEF SameButIndexed
<1>1. RegForm(g)
  BY DEF RegForm
<1>2. Known(i, f) = Known(k, g)
  BY <1>1 DEF RegFunct7, After
<1>3. Address(i, f, i.rs2_rdata) = addr /\ Address(k, g, k.rs2_rdata) = addr
  BY DEF Address, Increment
<1>4. /\ InsnCvL(row, i) = IF ~Known(i, f) THEN Blank(i)
                           ELSE Loads(i, Post(i, f), addr, row[2], row[3])
      /\ InsnCvL(row, k) = IF ~Known(k, g) THEN Blank(k)
                           ELSE Loads(k, Post(k, g), addr, row[2], row[3])
  BY <1>1, <1>3 DEF InsnCvL
<1>5. /\ Blank(i) = Blank(k) /\ Blank(k).post_rd_wdata = 0
  BY DEF Blank, After, MisaOk
<1> HIDE DEF Known
<1>6. /\ Post(i, f).trap = Post(k, g).trap /\ Post(i, f).rd_addr = Post(k, g).rd_addr
      /\ Post(i, f).mem_wmask = Post(k, g).mem_wmask
      /\ Post(i, f).mem_wdata = Post(k, g).mem_wdata
      /\ Post(k, g).post_rd_wdata = 0
  BY DEF PostIncrements, Blank, After, MisaOk, RdWdata
<1>7. AccessTraps(i, addr, row[2]) = AccessTraps(k, addr, row[2])
  BY DEF AccessTraps, Aligned, After
<1>8. /\ MemAddr(i, addr) = MemAddr(k, addr) /\ Offset(i, addr) = Offset(k, addr)
      /\ MemMask(i, addr, row[2]) = MemMask(k, addr, row[2])
  BY DEF MemAddr, Offset, MemMask, Aligned, After
<1>9. DOMAIN Post(i, f) = DOMAIN Blank(i) /\ DOMAIN Post(k, g) = DOMAIN Blank(k)
  BY DEF PostIncrements
<1> HIDE DEF Post
<1>10. SameEffect(Loads(i, Post(i, f), addr, row[2], row[3]),
                  Loads(k, Post(k, g), addr, row[2], row[3]))
  BY <1>6, <1>7, <1>8, <1>9 DEF SameEffect, Loads, After, Blank
<1> QED BY <1>2, <1>4, <1>5, <1>10 DEF SameEffect

LEMMA StoreWalks ==
  ASSUME NEW row, NEW i, NEW k, After(i, k),
         SameButIndexed(FormatPs(i.insn), FormatPs(k.insn)),
         i.rs1_rdata = Wrap(k.rs1_rdata + k.rs3_rdata)
  PROVE  SameEffect(InsnCvS(row, i), InsnCvS(row, k))
<1> DEFINE f == FormatPs(i.insn)
           g == FormatPs(k.insn)
           Known(x, h) == /\ x.valid /\ ~h.padding
                          /\ h.funct3 \in {3, row[1]} /\ h.opcode = CV1
                          /\ RegFunct7(h, 2, row[2])
           Out(x, h) == [Blank(x) EXCEPT !.valid = TRUE, !.rs2_addr = h.rs2, !.rs3_addr = h.rs3]
           Post(x, h) == PostIncrements(x, h, x.rs3_rdata, Out(x, h))
           addr == i.rs1_rdata
<1> USE DEF SameButIndexed
<1>1. RegForm(g)
  BY DEF RegForm
<1>2. Known(i, f) = Known(k, g)
  BY <1>1 DEF RegFunct7, After
<1>3. Address(i, f, i.rs3_rdata) = addr /\ Address(k, g, k.rs3_rdata) = addr
  BY DEF Address, Increment
<1>4. /\ InsnCvS(row, i) = IF ~Known(i, f) THEN Blank(i) ELSE Stores(i, Post(i, f), addr, row[2])
      /\ InsnCvS(row, k) = IF ~Known(k, g) THEN Blank(k) ELSE Stores(k, Post(k, g), addr, row[2])
  BY <1>1, <1>3 DEF InsnCvS
<1>5. /\ Blank(i) = Blank(k) /\ Blank(k).post_rd_wdata = 0
  BY DEF Blank, After, MisaOk
<1> HIDE DEF Known
<1>6. /\ Post(i, f).trap = Post(k, g).trap /\ Post(i, f).rd_wdata = Post(k, g).rd_wdata
      /\ Post(i, f).mem_rmask = Post(k, g).mem_rmask
      /\ Post(k, g).post_rd_wdata = 0
  BY DEF PostIncrements, Blank, After, MisaOk, RdWdata
<1>7. AccessTraps(i, addr, row[2]) = AccessTraps(k, addr, row[2])
  BY DEF AccessTraps, Aligned, After
<1>8. /\ MemAddr(i, addr) = MemAddr(k, addr) /\ Offset(i, addr) = Offset(k, addr)
      /\ MemMask(i, addr, row[2]) = MemMask(k, addr, row[2])
  BY DEF MemAddr, Offset, MemMask, Aligned, After
<1>9. DOMAIN Post(i, f) = DOMAIN Blank(i) /\ DOMAIN Post(k, g) = DOMAIN Blank(k)
  BY DEF PostIncrements
<1> HIDE DEF Post
<1>10. SameEffect(Stores(i, Post(i, f), addr, row[2]), Stores(k, Post(k, g), addr, row[2]))
  BY <1>6, <1>7, <1>8, <1>9 DEF SameEffect, Stores, After, Blank
<1> QED BY <1>2, <1>4, <1>5, <1>10 DEF SameEffect

\* The inputs of PostIncrementWalks.
Reencoded(i, b) == [i EXCEPT !.insn = WithBit27(i.insn, b)]
From(i, base) == [Reencoded(i, 0) EXCEPT !.rs1_rdata = base]

LEMMA ReencodedFields ==
  ASSUME NEW i, OnPorts(i)
  PROVE  /\ \A b \in {0, 1} :
              /\ Reencoded(i, b).insn = WithBit27(i.insn, b)
              /\ Reencoded(i, b).valid = i.valid
              /\ Reencoded(i, b).rs1_rdata = i.rs1_rdata
              /\ Reencoded(i, b).rs2_rdata = i.rs2_rdata
              /\ Reencoded(i, b).rs3_rdata = i.rs3_rdata
         /\ \A base : /\ From(i, base).insn = WithBit27(i.insn, 0)
                      /\ From(i, base).rs1_rdata = base
                      /\ After(From(i, base), Reencoded(i, 1))
<1>1. i = XInputs(i.valid, i.insn, i, i.def)
  BY DEF OnPorts
<1>2. ASSUME NEW b
      PROVE  Reencoded(i, b) = XInputs(i.valid, WithBit27(i.insn, b), i, i.def)
  BY <1>1 DEF Reencoded, XInputs
<1>3. ASSUME NEW base
      PROVE  /\ From(i, base).insn = Reencoded(i, 0).insn
             /\ From(i, base).rs1_rdata = base
             /\ From(i, base).valid = Reencoded(i, 0).valid
             /\ From(i, base).def = Reencoded(i, 0).def
             /\ From(i, base).misa = Reencoded(i, 0).misa
             /\ From(i, base).mem_rdata = Reencoded(i, 0).mem_rdata
             /\ From(i, base).rs2_rdata = Reencoded(i, 0).rs2_rdata
             /\ From(i, base).rs3_rdata = Reencoded(i, 0).rs3_rdata
  BY <1>2 DEF From, XInputs
<1>4. ASSUME NEW b
      PROVE  /\ Reencoded(i, b).insn = WithBit27(i.insn, b)
             /\ Reencoded(i, b).valid = i.valid
             /\ Reencoded(i, b).rs1_rdata = i.rs1_rdata
             /\ Reencoded(i, b).rs2_rdata = i.rs2_rdata
             /\ Reencoded(i, b).rs3_rdata = i.rs3_rdata
             /\ Reencoded(i, b).def = i.def /\ Reencoded(i, b).misa = {}
             /\ Reencoded(i, b).mem_rdata = i.mem_rdata
  BY <1>2 DEF XInputs
<1>5. ASSUME NEW base PROVE After(From(i, base), Reencoded(i, 1))
  <2> DEFINE k == Reencoded(i, 0)
             l == Reencoded(i, 1)
  <2>1. /\ k.valid = l.valid /\ k.def = l.def /\ k.misa = l.misa
        /\ k.mem_rdata = l.mem_rdata /\ k.rs2_rdata = l.rs2_rdata
        /\ k.rs3_rdata = l.rs3_rdata
    BY <1>4, Zenon
  <2> HIDE DEF k, l
  <2>2. After(From(i, base), l)
    BY <1>3, <2>1 DEF After, k
  <2> QED BY <2>2 DEF l
<1> QED BY <1>3, <1>4, <1>5

\* What a post-incrementing access needs to be known, and what it leaves in the
\* base register.
LoadKnown(row, x) ==
  LET f == FormatPl(x.insn)
  IN  /\ x.valid /\ ~f.padding
      /\ \/ f.funct3 = 3 /\ f.opcode = CV1
         \/ f.funct3 = row[1] /\ f.opcode = CV0
      /\ RegFunct7(f, IF row[3] THEN 0 ELSE 1, row[2])
LEMMA LoadParts ==
  ASSUME NEW row, NEW x
  PROVE  LET f == FormatPl(x.insn)
             s == InsnCvL(row, x)
             op2 == IF RegForm(f) THEN x.rs2_rdata ELSE Wrap(f.imm)
         IN  /\ s.valid <=> LoadKnown(row, x)
             /\ s.valid => s.rs1_addr = f.rs1
             /\ s.valid /\ ~Indexed(f) =>
                  /\ s.post_rd_addr = f.rs1
                  /\ s.post_rd_wdata = RdWdata(f.rs1, Wrap(x.rs1_rdata + op2))
<1> DEFINE f == FormatPl(x.insn)
           op2 == IF RegForm(f) THEN x.rs2_rdata ELSE Wrap(f.imm)
           out == [Blank(x) EXCEPT !.valid = TRUE, !.rd_addr = f.rd,
                                   !.rs2_addr = IF RegForm(f) THEN f.rs2 ELSE 0]
           post == PostIncrements(x, f, op2, out)
           loads == Loads(x, post, Address(x, f, op2), row[2], row[3])
<1>1. InsnCvL(row, x) = IF ~LoadKnown(row, x) THEN Blank(x) ELSE loads
  BY DEF InsnCvL, LoadKnown
<1>2. Blank(x).valid = FALSE
  BY DEF Blank
<1>3. /\ post.valid = TRUE /\ post.rs1_addr = f.rs1
      /\ ~Indexed(f) => /\ post.post_rd_addr = f.rs1
                        /\ post.post_rd_wdata = RdWdata(f.rs1, Wrap(x.rs1_rdata + op2))
  BY DEF PostIncrements, Blank, Increment
<1>4. DOMAIN post = DOMAIN Blank(x)
  BY DEF PostIncrements
<1> HIDE DEF post, op2, f
<1>5. /\ loads.valid = TRUE /\ loads.rs1_addr = f.rs1
      /\ ~Indexed(f) => /\ loads.post_rd_addr = f.rs1
                        /\ loads.post_rd_wdata = RdWdata(f.rs1, Wrap(x.rs1_rdata + op2))
  BY <1>3, <1>4 DEF Loads, Blank
<1> HIDE DEF loads
<1> QED BY <1>1, <1>2, <1>5 DEF op2, f

StoreKnown(row, x) ==
  LET f == FormatPs(x.insn)
  IN  /\ x.valid /\ ~f.padding /\ f.funct3 \in {3, row[1]} /\ f.opcode = CV1
      /\ RegFunct7(f, 2, row[2])
LEMMA StoreParts ==
  ASSUME NEW row, NEW x
  PROVE  LET f == FormatPs(x.insn)
             s == InsnCvS(row, x)
             op2 == IF RegForm(f) THEN x.rs3_rdata ELSE Wrap(f.imm)
         IN  /\ s.valid <=> StoreKnown(row, x)
             /\ s.valid => s.rs1_addr = f.rs1
             /\ s.valid /\ ~Indexed(f) =>
                  /\ s.post_rd_addr = f.rs1
                  /\ s.post_rd_wdata = RdWdata(f.rs1, Wrap(x.rs1_rdata + op2))
<1> DEFINE f == FormatPs(x.insn)
           op2 == IF RegForm(f) THEN x.rs3_rdata ELSE Wrap(f.imm)
           out == [Blank(x) EXCEPT !.valid = TRUE, !.rs2_addr = f.rs2,
                                   !.rs3_addr = IF RegForm(f) THEN f.rs3 ELSE 0]
           post == PostIncrements(x, f, op2, out)
           stores == Stores(x, post, Address(x, f, op2), row[2])
<1>1. InsnCvS(row, x) = IF ~StoreKnown(row, x) THEN Blank(x) ELSE stores
  BY DEF InsnCvS, StoreKnown
<1>2. Blank(x).valid = FALSE
  BY DEF Blank
<1>3. /\ post.valid = TRUE /\ post.rs1_addr = f.rs1
      /\ ~Indexed(f) => /\ post.post_rd_addr = f.rs1
                        /\ post.post_rd_wdata = RdWdata(f.rs1, Wrap(x.rs1_rdata + op2))
  BY DEF PostIncrements, Blank, Increment
<1>4. DOMAIN post = DOMAIN Blank(x)
  BY DEF PostIncrements
<1> HIDE DEF post, op2, f
<1>5. /\ stores.valid = TRUE /\ stores.rs1_addr = f.rs1
      /\ ~Indexed(f) => /\ stores.post_rd_addr = f.rs1
                        /\ stores.post_rd_wdata = RdWdata(f.rs1, Wrap(x.rs1_rdata + op2))
  BY <1>3, <1>4 DEF Stores, Blank
<1> HIDE DEF stores
<1> QED BY <1>1, <1>2, <1>5 DEF op2, f

\* The second access of a walk does what the indexed one does.
LEMMA WalkFollows ==
  ASSUME NEW i, OnPorts(i), NEW n, XInsn(n, i).valid, RegForm(FormatPl(i.insn)),
         FormatPl(i.insn).rs1 /= 0,
         \/ n \in Tagged("l", DOMAIN CvLoads)
         \/ n \in Tagged("s", DOMAIN CvStores)
  PROVE  LET base == XInsn(n, Reencoded(i, 0)).post_rd_wdata
         IN  SameEffect(XInsn(n, From(i, base)), XInsn(n, Reencoded(i, 1)))
<1> DEFINE first == Reencoded(i, 0)
           indexed == Reencoded(i, 1)
           base == XInsn(n, first).post_rd_wdata
           second == From(i, base)
           row == n[2]
<1>1. i.insn \in InsnWords
  BY DEF OnPorts
<1>2. /\ first.insn = WithBit27(i.insn, 0) /\ indexed.insn = WithBit27(i.insn, 1)
      /\ first.valid = i.valid
      /\ first.rs1_rdata = i.rs1_rdata /\ indexed.rs1_rdata = i.rs1_rdata
      /\ first.rs2_rdata = i.rs2_rdata /\ indexed.rs2_rdata = i.rs2_rdata
      /\ first.rs3_rdata = i.rs3_rdata /\ indexed.rs3_rdata = i.rs3_rdata
      /\ second.insn = WithBit27(i.insn, 0) /\ second.rs1_rdata = base
      /\ After(second, indexed)
  BY ReencodedFields
<1> HIDE DEF first, indexed, second
<1>3. CASE n \in Tagged("l", DOMAIN CvLoads)
  <2>1. n[1] = "l"
    BY <1>3, InTagged
  <2>2. \A x : XInsn(n, x) = InsnCvL(CvLoads[row], x)
    BY <2>1 DEF XInsn
  <2> HIDE DEF row
  <2>3. \A b \in {0, 1} :
          LET f == FormatPl(i.insn)
              g == FormatPl(WithBit27(i.insn, b))
          IN  /\ g.padding = f.padding /\ g.funct3 = f.funct3 /\ g.opcode = f.opcode
              /\ g.rd = f.rd /\ g.rs1 = f.rs1
              /\ g.funct7 \div 8 = f.funct7 \div 8 /\ g.funct7 % 4 = f.funct7 % 4
              /\ (g.funct7 \div 4) % 2 = b
    BY <1>1, Bit27 DEF FormatPl
  <2>4. SameButIndexed(FormatPl(second.insn), FormatPl(indexed.insn))
    BY <1>2, <2>3 DEF SameButIndexed, RegForm, Indexed
  <2>5. InsnCvL(CvLoads[row], first).valid
    BY <1>2, <2>2, <2>3, LoadParts DEF LoadKnown, RegForm, RegFunct7
  <2>6. base = Wrap(i.rs1_rdata + i.rs2_rdata)
    BY <1>2, <2>2, <2>3, <2>5, LoadParts DEF RegForm, Indexed, RdWdata
  <2>7. SameEffect(InsnCvL(CvLoads[row], second), InsnCvL(CvLoads[row], indexed))
    BY <1>2, <2>3, <2>4, <2>6, LoadWalks
  <2> QED BY <2>2, <2>7 DEF second, indexed, first
<1>4. CASE n \in Tagged("s", DOMAIN CvStores)
  <2>1. n[1] = "s"
    BY <1>4, InTagged
  <2>2. \A x : XInsn(n, x) = InsnCvS(CvStores[row], x)
    BY <2>1 DEF XInsn
  <2> HIDE DEF row
  <2>3. \A b \in {0, 1} :
          LET f == FormatPs(i.insn)
              g == FormatPs(WithBit27(i.insn, b))
          IN  /\ g.padding = f.padding /\ g.funct3 = f.funct3 /\ g.opcode = f.opcode
              /\ g.rs1 = f.rs1
              /\ g.funct7 \div 8 = f.funct7 \div 8 /\ g.funct7 % 4 = f.funct7 % 4
              /\ (g.funct7 \div 4) % 2 = b
    BY <1>1, Bit27 DEF FormatPs
  <2>4. RegForm(FormatPs(i.insn)) /\ FormatPs(i.insn).rs1 /= 0
    BY DEF RegForm, FormatPl, FormatPs
  <2>5. SameButIndexed(FormatPs(second.insn), FormatPs(indexed.insn))
    BY <1>2, <2>3, <2>4 DEF SameButIndexed, RegForm, Indexed
  <2>6. InsnCvS(CvStores[row], first).valid
    BY <1>2, <2>2, <2>3, <2>4, StoreParts DEF StoreKnown, RegForm, RegFunct7
  <2>7. base = Wrap(i.rs1_rdata + i.rs3_rdata)
    BY <1>2, <2>2, <2>3, <2>4, <2>6, StoreParts DEF RegForm, Indexed, RdWdata
  <2>8. SameEffect(InsnCvS(CvStores[row], second), InsnCvS(CvStores[row], indexed))
    BY <1>2, <2>5, <2>7, StoreWalks
  <2> QED BY <2>2, <2>8 DEF second, indexed, first
<1> QED BY <1>3, <1>4

\* The immediate of a load or store of the CORE-V formats.
LEMMA PostImmediates ==
  ASSUME NEW w \in InsnWords
  PROVE  FormatPl(w).imm \in Int /\ FormatPs(w).imm \in Int
<1>1. /\ Field(w, 31, 20) \in Int /\ Field(w, 31, 25) \in Int /\ Field(w, 11, 7) \in Int
  BY WordParts, SMT DEF Field
<1>2. FormatPl(w).imm \in Int
  BY <1>1, SMT DEF FormatPl, SignedVec, SignedAt, Slice
<1>3. FormatPs(w).imm \in Int
  BY <1>1, SMT DEF FormatPs, SignedVec, SignedAt, Slice, ++
<1> QED BY <1>2, <1>3

\* A sum in a register does not depend on where it wraps.
LEMMA WrapSum ==
  ASSUME NEW a \in Int, NEW b \in Int
  PROVE  Wrap(a + Wrap(b)) = Wrap(a + b)
<1> DEFINE m == 2^XLEN
           q == b \div m
           r == b % m
<1>1. m \in Nat /\ m > 0
  BY WidthPositive, Halves
<1> HIDE DEF m
<1>2. q \in Int /\ r \in Int /\ b = m * q + r
  BY <1>1
<1> HIDE DEF q, r
<1> DEFINE x == a + r
<1>3. x \in Int /\ a + b = x + m * q
  BY <1>1, <1>2
<1> HIDE DEF x
<1>4. (x + m * q) % m = x % m
  BY <1>1, <1>2, <1>3, ModShift
<1> QED BY <1>3, <1>4 DEF Wrap, m, r, x

\* With an immediate, the base register of an access moves by it.
LEMMA ImmediateBase ==
  ASSUME NEW i, OnPorts(i), NEW n, NEW rows, NEW imm \in Int, XInsn(n, i).valid,
         ~RegForm(FormatPl(i.insn)),
         \/ n \in Tagged("l", DOMAIN CvLoads) /\ imm = FormatPl(i.insn).imm
         \/ n \in Tagged("s", DOMAIN CvStores) /\ imm = FormatPs(i.insn).imm
  PROVE  LET s == XInsn(n, Gate(i, XInsn(n, i)))
         IN  /\ s.rs1_addr = s.post_rd_addr
             /\ FormatPl(i.insn).rs1 /= 0 => s.post_rd_wdata = Wrap(i.rs1_rdata + imm)
<1> DEFINE x == Gate(i, XInsn(n, i))
           row == n[2]
           rs1 == FormatPl(i.insn).rs1
<1>1. i.insn \in InsnWords /\ i.rs1_rdata \in Int
  BY WrapSigned DEF OnPorts
<1>2. x.insn = i.insn /\ x.valid = i.valid
  BY GatesAlike DEF Alike
<1>3. XInsn(n, i).rs1_addr = rs1 /\ rs1 /= 0 => x.rs1_rdata = i.rs1_rdata
  <2>1. i = XInputs(i.valid, i.insn, i, i.def)
    BY DEF OnPorts
  <2> QED BY <2>1 DEF Gate, XInputs
<1> HIDE DEF x
<1>4. /\ ~RegForm(FormatPs(i.insn)) /\ FormatPs(i.insn).rs1 = rs1
      /\ ~Indexed(FormatPl(i.insn)) /\ ~Indexed(FormatPs(i.insn))
  BY DEF RegForm, Indexed, FormatPl, FormatPs
<1>5. Wrap(i.rs1_rdata + Wrap(imm)) = Wrap(i.rs1_rdata + imm)
  BY <1>1, WrapSum
<1>6. CASE n \in Tagged("l", DOMAIN CvLoads) /\ imm = FormatPl(i.insn).imm
  <2>1. n[1] = "l"
    BY <1>6, InTagged
  <2>2. \A y : XInsn(n, y) = InsnCvL(CvLoads[row], y)
    BY <2>1 DEF XInsn
  <2> HIDE DEF row
  <2>3. InsnCvL(CvLoads[row], x).valid /\ XInsn(n, i).rs1_addr = rs1
    BY <1>2, <2>2, LoadParts DEF LoadKnown
  <2>4. /\ XInsn(n, x).rs1_addr = rs1 /\ XInsn(n, x).post_rd_addr = rs1
        /\ XInsn(n, x).post_rd_wdata = RdWdata(rs1, Wrap(x.rs1_rdata + Wrap(imm)))
    BY <1>2, <1>4, <1>6, <2>2, <2>3, LoadParts
  <2> QED BY <1>3, <1>5, <2>3, <2>4 DEF RdWdata, x
<1>7. CASE n \in Tagged("s", DOMAIN CvStores) /\ imm = FormatPs(i.insn).imm
  <2>1. n[1] = "s"
    BY <1>7, InTagged
  <2>2. \A y : XInsn(n, y) = InsnCvS(CvStores[row], y)
    BY <2>1 DEF XInsn
  <2> HIDE DEF row
  <2>3. InsnCvS(CvStores[row], x).valid /\ XInsn(n, i).rs1_addr = rs1
    BY <1>2, <1>4, <2>2, StoreParts DEF StoreKnown
  <2>4. /\ XInsn(n, x).rs1_addr = rs1 /\ XInsn(n, x).post_rd_addr = rs1
        /\ XInsn(n, x).post_rd_wdata = RdWdata(rs1, Wrap(x.rs1_rdata + Wrap(imm)))
    BY <1>2, <1>4, <1>7, <2>2, <2>3, StoreParts
  <2> QED BY <1>3, <1>5, <2>3, <2>4 DEF RdWdata, x
<1> QED BY <1>6, <1>7

\* What PostIncrementWalks changes in the word, as Reencoded writes it.
LEMMA WalkInputs ==
  ASSUME NEW i, OnPorts(i)
  PROVE  LET bit27 == 2^11 * Field(i.insn, 27, 27)
         IN  /\ [i EXCEPT !.insn.hi = @ - bit27] = Reencoded(i, 0)
             /\ [i EXCEPT !.insn.hi = @ - bit27 + 2^11] = Reencoded(i, 1)
<1>1. i = XInputs(i.valid, i.insn, i, i.def)
  BY DEF OnPorts
<1> DEFINE bit27 == 2^11 * Field(i.insn, 27, 27)
<1>2. i.insn.hi \in Int /\ Field(i.insn, 27, 27) \in Int
  BY WordParts, SMT DEF OnPorts, Field
<1>3. /\ WithBit27(i.insn, 0) = [i.insn EXCEPT !.hi = @ - bit27]
      /\ WithBit27(i.insn, 1) = [i.insn EXCEPT !.hi = @ - bit27 + 2^11]
  <2>1. /\ i.insn.hi - bit27 + 2^11 * 0 = i.insn.hi - bit27
        /\ i.insn.hi - bit27 + 2^11 * 1 = i.insn.hi - bit27 + 2^11
    BY <1>2
  <2> QED BY <2>1 DEF WithBit27
<1> HIDE DEF bit27
<1>4. /\ [i EXCEPT !.insn.hi = @ - bit27]
           = [i EXCEPT !.insn = [i.insn EXCEPT !.hi = @ - bit27]]
      /\ [i EXCEPT !.insn.hi = @ - bit27 + 2^11]
           = [i EXCEPT !.insn = [i.insn EXCEPT !.hi = @ - bit27 + 2^11]]
  OBVIOUS
<1>5. /\ [i EXCEPT !.insn.hi = @ - bit27] = Reencoded(i, 0)
      /\ [i EXCEPT !.insn.hi = @ - bit27 + 2^11] = Reencoded(i, 1)
  BY <1>3, <1>4 DEF Reencoded
<1> QED BY <1>5 DEF bit27

\* For every word and operands, all macros and register widths: the access after
\* a post-incrementing load or store of insns/generate_xpulp.py touches, stores,
\* loads and traps as the indexed access of the same registers, and an immediate
\* moves the base register by its value.
THEOREM PostIncrementWalksAlways ==
  ASSUME XInputsTyped PROVE XSpec => []PostIncrementWalks
<1>1. XIsaInv => PostIncrementWalks
  <2> SUFFICES ASSUME XIsaInv PROVE PostIncrementWalks
    OBVIOUS
  <2> DEFINE f == FormatPl(xin.insn)
             bit27 == 2^11 * Field(xin.insn, 27, 27)
             Post == [xin EXCEPT !.insn.hi = @ - bit27]
             ByRegister == [xin EXCEPT !.insn.hi = @ - bit27 + 2^11]
             Imm(n) == IF n[1] = "l" THEN f.imm ELSE FormatPs(xin.insn).imm
             Walks(s, x) ==
               /\ s.trap = x.trap
               /\ XTouched(s.mem_addr, s.mem_rmask + s.mem_wmask)
                    = XTouched(x.mem_addr, x.mem_rmask + x.mem_wmask)
               /\ XStored(s) = XStored(x)
               /\ s.rd_wdata = x.rd_wdata /\ x.post_rd_wdata = 0
             Follows(n) ==
               \A first \in {Access(n, Post)}, indexed \in {Access(n, ByRegister)} :
               \A second \in {Access(n, [Post EXCEPT !.rs1_rdata = first.post_rd_wdata])} :
                 Walks(second, indexed)
  <2>1. OnPorts(xin) /\ xin.insn \in InsnWords
    BY DEF XIsaInv, OnPorts
  <2>2. ASSUME NEW n \in DOMAIN xspecs, n[1] \in {"l", "s"}
        PROVE  /\ XInsn(n, xin).valid /\ xspecs[n] = XInsn(n, Gate(xin, XInsn(n, xin)))
               /\ \/ n \in Tagged("l", DOMAIN CvLoads) /\ Imm(n) = f.imm
                  \/ n \in Tagged("s", DOMAIN CvStores) /\ Imm(n) = FormatPs(xin.insn).imm
    <3>1. n \in XIsaOf(XParts(xin.def)) /\ XInsn(n, xin).valid
      BY DEF XIsaInv
    <3>2. n = <<n[1], n[2]>> /\ n[1] = "l" => n[2] \in DOMAIN CvLoads
      BY <3>1, XIsaRows
    <3>3. n = <<n[1], n[2]>> /\ n[1] = "s" => n[2] \in DOMAIN CvStores
      BY <3>1, XIsaRows
    <3>4. n = <<n[1], n[2]>>
      BY <3>1, XIsaRows
    <3>5. CASE n[1] = "l"
      BY <3>1, <3>2, <3>4, <3>5, InTagged DEF XIsaInv, GatedOutputs
    <3>6. CASE n[1] = "s"
      BY <3>1, <3>3, <3>4, <3>6, InTagged DEF XIsaInv, GatedOutputs
    <3> QED BY <2>2, <3>5, <3>6
  <2>3. ASSUME NEW s, NEW x, SameEffect(s, x) PROVE Walks(s, x)
    <3>1. XStored(s) = XStored(x)
      BY <2>3 DEF SameEffect, XStored
    <3> QED BY <2>3, <3>1 DEF SameEffect
  <2>4. Post = Reencoded(xin, 0) /\ ByRegister = Reencoded(xin, 1)
    BY <2>1, WalkInputs
  <2> HIDE DEF Post, ByRegister, Walks
  <2>5. ASSUME NEW n \in DOMAIN xspecs, n[1] \in {"l", "s"}, RegForm(f), f.rs1 /= 0
        PROVE  Walks(Access(n, [Post EXCEPT !.rs1_rdata = Access(n, Post).post_rd_wdata]),
                     Access(n, ByRegister))
    <3>1. \A i : Access(n, i) = XInsn(n, i)
      BY <2>5 DEF Access, XInsn
    <3>2. Walks(XInsn(n, [Post EXCEPT !.rs1_rdata = XInsn(n, Post).post_rd_wdata]),
                XInsn(n, ByRegister))
      BY <2>1, <2>2, <2>3, <2>4, <2>5, WalkFollows DEF From
    <3> QED BY <3>1, <3>2
  <2>6. ASSUME NEW n \in DOMAIN xspecs, n[1] \in {"l", "s"}, ~RegForm(f)
        PROVE  /\ xspecs[n].rs1_addr = xspecs[n].post_rd_addr
               /\ f.rs1 /= 0 => xspecs[n].post_rd_wdata = Wrap(xin.rs1_rdata + Imm(n))
    <3>1. Imm(n) \in Int
      BY <2>1, PostImmediates
    <3> HIDE DEF Imm
    <3> QED BY <2>1, <2>2, <2>6, <3>1, ImmediateBase
  <2> HIDE DEF Imm
  <2>7. \A n \in {m \in DOMAIN xspecs : m[1] \in {"l", "s"}} :
          IF RegForm(f) THEN f.rs1 /= 0 => Follows(n)
          ELSE /\ xspecs[n].rs1_addr = xspecs[n].post_rd_addr
               /\ f.rs1 /= 0 => xspecs[n].post_rd_wdata = Wrap(xin.rs1_rdata + Imm(n))
    BY <2>5, <2>6, Zenon
  <2> QED BY <2>7, Zenon DEF PostIncrementWalks, Post, ByRegister, Walks, Imm
<1> QED BY <1>1, XIsaInvariant, PTL

=============================================================================
