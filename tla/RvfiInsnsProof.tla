--------------------------- MODULE RvfiInsnsProof ---------------------------
(***************************************************************************)
(* What holds of the instruction models by themselves, whatever module     *)
(* joins them: the word determines the instruction of the base ISA, and    *)
(* the M extension computes with numbers of any width what it should.      *)
(***************************************************************************)
EXTENDS RvfiInsns, TLAPS, RvfiOrderTheorems

\* The halves of a word are 16 bits wide.
LEMMA WordParts ==
  ASSUME NEW w \in InsnWords
  PROVE  /\ w.up \in Nat /\ w.hi \in Int /\ 0 <= w.hi /\ w.hi < 65536
         /\ w.lo \in Int /\ 0 <= w.lo /\ w.lo < 65536
<1>1. Ones(16) = 65535
  BY DEF Ones
<1> QED BY <1>1 DEF InsnWords, Vector

-----------------------------------------------------------------------------
(***************************************************************************)
(* Decoding.                                                               *)
(***************************************************************************)
\* The instructions of every table.
LEMMA TableNames ==
  /\ DOMAIN Branches = {"beq", "bne", "blt", "bge", "bltu", "bgeu"}
  /\ DOMAIN LoadInsns = {"lb", "lh", "lw", "lbu", "lhu"}
  /\ DOMAIN LoadInsns64 = {"lwu", "ld"}
  /\ DOMAIN StoreInsns = {"sb", "sh", "sw"}
  /\ DOMAIN StoreInsns64 = {"sd"}
  /\ DOMAIN ImmInsns = {"addi", "slti", "sltiu", "xori", "ori", "andi"}
  /\ DOMAIN ImmInsns64 = {"addiw"}
  /\ DOMAIN ShiftInsns = {"slli", "srli", "srai"}
  /\ DOMAIN ShiftInsns64 = {"slliw", "srliw", "sraiw"}
  /\ DOMAIN AluInsns = {"add", "sub", "sll", "slt", "sltu", "xor", "srl", "sra",
                        "or", "and"}
  /\ DOMAIN AluInsns64 = {"addw", "subw", "sllw", "srlw", "sraw"}
  /\ DOMAIN MulInsns = {"mul", "mulh", "mulhsu", "mulhu", "div", "divu", "rem", "remu"}
  /\ DOMAIN MulInsns64 = {"mulw", "divw", "divuw", "remw", "remuw"}
  /\ DOMAIN CLoads = {"c_lw"}
  /\ DOMAIN CLoads64 = {"c_ld"}
  /\ DOMAIN CStores = {"c_sw"}
  /\ DOMAIN CStores64 = {"c_sd"}
  /\ DOMAIN CJumps = {"c_jal", "c_j"}
  /\ DOMAIN CRightShifts = {"c_srli", "c_srai"}
  /\ DOMAIN CAlus = {"c_sub", "c_xor", "c_or", "c_and"}
  /\ DOMAIN CAlus64 = {"c_subw", "c_addw"}
  /\ DOMAIN CBranches = {"c_beqz", "c_bnez"}
  /\ DOMAIN CSpLoads = {"c_lwsp"}
  /\ DOMAIN CSpLoads64 = {"c_ldsp"}
  /\ DOMAIN CSpStores = {"c_swsp"}
  /\ DOMAIN CSpStores64 = {"c_sdsp"}
  /\ DOMAIN CRegJumps = {"c_jr", "c_jalr"}
  /\ DOMAIN CMoves = {"c_mv", "c_add"}
BY DEF Branches, LoadInsns, LoadInsns64, StoreInsns, StoreInsns64, ImmInsns,
       ImmInsns64, ShiftInsns, ShiftInsns64, AluInsns, AluInsns64, MulInsns,
       MulInsns64, CLoads, CLoads64, CStores, CStores64, CJumps, CRightShifts, CAlus,
       CAlus64, CBranches, CSpLoads, CSpLoads64, CSpStores, CSpStores64, CRegJumps,
       CMoves

\* The instructions that a word may be, by the fields in which the manual
\* encodes them: of a table, those whose rows have v in column c.
Having(table, c, v) == {n \in DOMAIN table : table[n][c] = v}
Base(w) ==
  LET op == Field(w, 6, 0)
      funct3 == Field(w, 14, 12)
      funct6 == Field(w, 31, 26)
      funct7 == Field(w, 31, 25)
  IN  CASE op = 55 -> {"lui"}
        [] op = 23 -> {"auipc"}
        [] op = 111 -> {"jal"}
        [] op = 103 -> {"jalr"}
        [] op = 99 -> Having(Branches, 1, funct3)
        [] op = 3 -> Having(LoadInsns, 1, funct3) \cup Having(LoadInsns64, 1, funct3)
        [] op = 35 -> Having(StoreInsns, 1, funct3) \cup Having(StoreInsns64, 1, funct3)
        [] op = 19 /\ funct3 \in {1, 5} ->
             Having(ShiftInsns, 1, funct6) \cap Having(ShiftInsns, 2, funct3)
        [] op = 19 /\ funct3 \notin {1, 5} -> Having(ImmInsns, 1, funct3)
        [] op = 27 /\ funct3 \in {1, 5} ->
             Having(ShiftInsns64, 1, funct6) \cap Having(ShiftInsns64, 2, funct3)
        [] op = 27 /\ funct3 \notin {1, 5} -> Having(ImmInsns64, 1, funct3)
        [] op = 51 /\ funct7 = 1 -> Having(MulInsns, 2, funct3)
        [] op = 51 /\ funct7 /= 1 ->
             Having(AluInsns, 1, funct7) \cap Having(AluInsns, 2, funct3)
        [] op = 59 /\ funct7 = 1 -> Having(MulInsns64, 2, funct3)
        [] op = 59 /\ funct7 /= 1 ->
             Having(AluInsns64, 1, funct7) \cap Having(AluInsns64, 2, funct3)
        [] OTHER -> {}
Compressed(w) ==
  LET q == Field(w, 1, 0)
      funct3 == Field(w, 15, 13)
      funct2 == Field(w, 11, 10)
      rd == Field(w, 11, 7)
      bit12 == Field(w, 12, 12)
      rs2 == Field(w, 6, 2)
  IN  CASE q = 0 /\ funct3 = 0 -> {"c_addi4spn"}
        [] q = 0 /\ funct3 = 2 -> DOMAIN CLoads
        [] q = 0 /\ funct3 = 3 -> DOMAIN CLoads64
        [] q = 0 /\ funct3 = 6 -> DOMAIN CStores
        [] q = 0 /\ funct3 = 7 -> DOMAIN CStores64
        [] q = 1 /\ funct3 = 0 -> {"c_addi"}
        [] q = 1 /\ funct3 = 1 -> IF LANES = 4 THEN {"c_jal"} ELSE {"c_addiw"}
        [] q = 1 /\ funct3 = 2 -> {"c_li"}
        [] q = 1 /\ funct3 = 3 -> IF rd = 2 THEN {"c_addi16sp"} ELSE {"c_lui"}
        [] q = 1 /\ funct3 = 4 /\ funct2 < 2 -> Having(CRightShifts, 1, funct2)
        [] q = 1 /\ funct3 = 4 /\ funct2 = 2 -> {"c_andi"}
        [] q = 1 /\ funct3 = 4 /\ funct2 = 3 ->
             Having(IF bit12 = 0 THEN CAlus ELSE CAlus64, 2, Field(w, 6, 5))
        [] q = 1 /\ funct3 = 5 -> {"c_j"}
        [] q = 1 /\ funct3 \in {6, 7} -> Having(CBranches, 1, funct3)
        [] q = 2 /\ funct3 = 0 -> {"c_slli"}
        [] q = 2 /\ funct3 = 2 -> DOMAIN CSpLoads
        [] q = 2 /\ funct3 = 3 -> DOMAIN CSpLoads64
        [] q = 2 /\ funct3 = 4 /\ rs2 = 0 -> Having(CRegJumps, 1, 8 + bit12)
        [] q = 2 /\ funct3 = 4 /\ rs2 /= 0 -> Having(CMoves, 1, 8 + bit12)
        [] q = 2 /\ funct3 = 6 -> DOMAIN CSpStores
        [] q = 2 /\ funct3 = 7 -> DOMAIN CSpStores64
        [] OTHER -> {}
Decoded(w) == IF Field(w, 1, 0) = 3 THEN Base(w) ELSE Compressed(w)

\* The fields of compressed words overlap: funct4 and funct6 hold funct3.
LEMMA SubFields ==
  ASSUME NEW w \in InsnWords
  PROVE  /\ Field(w, 1, 0) = Field(w, 6, 0) % 4
         /\ Field(w, 15, 12) = 2 * Field(w, 15, 13) + Field(w, 12, 12)
         /\ Field(w, 15, 10) = 8 * Field(w, 15, 13) + 4 * Field(w, 12, 12)
                               + Field(w, 11, 10)
         /\ Field(w, 15, 13) \in 0 .. 7 /\ Field(w, 12, 12) \in 0 .. 1
         /\ Field(w, 11, 10) \in 0 .. 3
<1>1. Field(w, 1, 0) = Field(w, 6, 0) % 4
  BY WordParts, SMT DEF Field
<1>2. /\ Field(w, 15, 13) = Field(w, 15, 12) \div 2
      /\ Field(w, 12, 12) = Field(w, 15, 12) % 2
  BY WordParts, SMT DEF Field
<1>3. Field(w, 15, 13) = Field(w, 15, 10) \div 8
  BY WordParts, SMT DEF Field
<1>4. Field(w, 12, 12) = (Field(w, 15, 10) \div 4) % 2
  BY WordParts, SMT DEF Field
<1>5. Field(w, 11, 10) = Field(w, 15, 10) % 4
  BY WordParts, SMT DEF Field
<1>6. /\ Field(w, 15, 12) \in Int /\ Field(w, 15, 10) \in Int
      /\ Field(w, 15, 13) \in 0 .. 7 /\ Field(w, 12, 12) \in 0 .. 1
      /\ Field(w, 11, 10) \in 0 .. 3
  BY WordParts, SMT DEF Field
<1>7. Field(w, 15, 12) = 2 * Field(w, 15, 13) + Field(w, 12, 12)
  BY <1>2, <1>6
<1>8. Field(w, 15, 10) = 8 * Field(w, 15, 13) + 4 * Field(w, 12, 12) + Field(w, 11, 10)
  <2> DEFINE x == Field(w, 15, 10)
             q == x \div 4
             r == x % 4
             s == q \div 2
             t == q % 2
  <2>1. x = 4 * q + r /\ q \in Int /\ r \in Int /\ x \div 8 = s
    BY <1>6
  <2> HIDE DEF q, r
  <2>2. q = 2 * s + t /\ s \in Int /\ t \in Int
    BY <2>1
  <2>3. Field(w, 15, 13) = s /\ Field(w, 12, 12) = t /\ Field(w, 11, 10) = r
    BY <1>3, <1>4, <1>5, <2>1, Zenon DEF q, r, s, t
  <2> HIDE DEF x, s, t
  <2>4. x = 8 * s + 4 * t + r
    BY <2>1, <2>2
  <2> QED BY <2>3, <2>4, Zenon DEF x
<1> QED BY <1>1, <1>6, <1>7, <1>8

\* A model that reports spec_valid is among the instructions of the word: the
\* guards of its generator fix the fields by which the manual tells them apart.
LEMMA Decoding ==
  ASSUME NEW i, NEW w \in InsnWords, w = i.insn, NEW parts \in SUBSET {"I", "M", "C"},
         NEW n \in IsaOf(parts), Insn(n, i).valid
  PROVE  n \in Decoded(w)
<1>1. CASE n = "lui"
  <2>1. InsnLui(i).valid
    BY <1>1, TableNames DEF Insn
  <2>2. Field(w, 6, 0) = 55
    BY <2>1 DEF InsnLui, Default, Known32, FormatU
  <2> QED BY <1>1, <2>2, SubFields DEF Decoded, Base
<1>2. CASE n = "auipc"
  <2>1. InsnAuipc(i).valid
    BY <1>2, TableNames DEF Insn
  <2>2. Field(w, 6, 0) = 23
    BY <2>1 DEF InsnAuipc, Default, Known32, FormatU
  <2> QED BY <1>2, <2>2, SubFields DEF Decoded, Base
<1>3. CASE n = "jal"
  <2>1. InsnJal(i).valid
    BY <1>3, TableNames DEF Insn
  <2>2. Field(w, 6, 0) = 111
    BY <2>1 DEF InsnJal, Default, Known32, FormatUj
  <2> QED BY <1>3, <2>2, SubFields DEF Decoded, Base
<1>4. CASE n = "jalr"
  <2>1. InsnJalr(i).valid
    BY <1>4, TableNames DEF Insn
  <2>2. Field(w, 6, 0) = 103
    BY <2>1 DEF InsnJalr, Default, Known32, FormatI
  <2> QED BY <1>4, <2>2, SubFields DEF Decoded, Base
<1>5. CASE n \in DOMAIN Branches
  <2> DEFINE row == Branches[n]
  <2>1. InsnB(row, i).valid
    BY <1>5, TableNames DEF Insn
  <2> HIDE DEF row
  <2>3. Field(w, 6, 0) = 99 /\ Field(w, 14, 12) = row[1]
    BY <2>1 DEF InsnB, Default, Known32, FormatSb
  <2> QED BY <1>5, <2>3, SubFields DEF Decoded, Base, Having, row
<1>6. CASE n \in DOMAIN LoadInsns
  <2> DEFINE row == LoadInsns[n]
  <2>1. InsnL(row, i).valid
    BY <1>6, TableNames DEF Insn
  <2> HIDE DEF row
  <2>3. Field(w, 6, 0) = 3 /\ Field(w, 14, 12) = row[1]
    BY <2>1 DEF InsnL, Default, Known32, Loads, FormatI
  <2> QED BY <1>6, <2>3, SubFields DEF Decoded, Base, Having, row
<1>7. CASE n \in DOMAIN LoadInsns64
  <2> DEFINE row == LoadInsns64[n]
  <2>1. InsnL(row, i).valid
    BY <1>7, TableNames DEF Insn
  <2> HIDE DEF row
  <2>3. Field(w, 6, 0) = 3 /\ Field(w, 14, 12) = row[1]
    BY <2>1 DEF InsnL, Default, Known32, Loads, FormatI
  <2> QED BY <1>7, <2>3, SubFields DEF Decoded, Base, Having, row
<1>8. CASE n \in DOMAIN StoreInsns
  <2> DEFINE row == StoreInsns[n]
  <2>1. InsnS(row, i).valid
    BY <1>8, TableNames DEF Insn
  <2> HIDE DEF row
  <2>3. Field(w, 6, 0) = 35 /\ Field(w, 14, 12) = row[1]
    BY <2>1 DEF InsnS, Default, Known32, Stores, FormatS
  <2> QED BY <1>8, <2>3, SubFields DEF Decoded, Base, Having, row
<1>9. CASE n \in DOMAIN StoreInsns64
  <2> DEFINE row == StoreInsns64[n]
  <2>1. InsnS(row, i).valid
    BY <1>9, TableNames DEF Insn
  <2> HIDE DEF row
  <2>3. Field(w, 6, 0) = 35 /\ Field(w, 14, 12) = row[1]
    BY <2>1 DEF InsnS, Default, Known32, Stores, FormatS
  <2> QED BY <1>9, <2>3, SubFields DEF Decoded, Base, Having, row
<1>10. CASE n \in DOMAIN ImmInsns
  <2> DEFINE row == ImmInsns[n]
  <2>1. InsnImm(row, FALSE, i).valid
    BY <1>10, TableNames DEF Insn
  <2>2. row[1] \notin {1, 5}
    BY <1>10 DEF ImmInsns
  <2> HIDE DEF row
  <2>3. Field(w, 6, 0) = 19 /\ Field(w, 14, 12) = row[1]
    BY <2>1 DEF InsnImm, Default, Known32, FormatI
  <2> QED BY <1>10, <2>2, <2>3, SubFields DEF Decoded, Base, Having, row
<1>11. CASE n \in DOMAIN ImmInsns64
  <2> DEFINE row == ImmInsns64[n]
  <2>1. InsnImm(row, TRUE, i).valid
    BY <1>11, TableNames DEF Insn
  <2>2. row[1] = 0
    BY <1>11 DEF ImmInsns64
  <2> HIDE DEF row
  <2>3. Field(w, 6, 0) = 27 /\ Field(w, 14, 12) = row[1]
    BY <2>1 DEF InsnImm, Default, Known32, FormatI
  <2> QED BY <1>11, <2>2, <2>3, SubFields DEF Decoded, Base, Having, row
<1>12. CASE n \in DOMAIN ShiftInsns
  <2> DEFINE row == ShiftInsns[n]
  <2>1. InsnShimm(row, FALSE, i).valid
    BY <1>12, TableNames DEF Insn
  <2>2. row[2] \in {1, 5}
    BY <1>12 DEF ShiftInsns
  <2> HIDE DEF row
  <2>3. Field(w, 6, 0) = 19 /\ Field(w, 31, 26) = row[1] /\ Field(w, 14, 12) = row[2]
    BY <2>1 DEF InsnShimm, Default, Known32, FormatIShift
  <2> QED BY <1>12, <2>2, <2>3, SubFields DEF Decoded, Base, Having, row
<1>13. CASE n \in DOMAIN ShiftInsns64
  <2> DEFINE row == ShiftInsns64[n]
  <2>1. InsnShimm(row, TRUE, i).valid
    BY <1>13, TableNames DEF Insn
  <2>2. row[2] \in {1, 5}
    BY <1>13 DEF ShiftInsns64
  <2> HIDE DEF row
  <2>3. Field(w, 6, 0) = 27 /\ Field(w, 31, 26) = row[1] /\ Field(w, 14, 12) = row[2]
    BY <2>1 DEF InsnShimm, Default, Known32, FormatIShift
  <2> QED BY <1>13, <2>2, <2>3, SubFields DEF Decoded, Base, Having, row
<1>14. CASE n \in DOMAIN AluInsns
  <2> DEFINE row == AluInsns[n]
  <2>1. InsnAlu(row, FALSE, i).valid
    BY <1>14, TableNames DEF Insn
  <2>2. row[1] /= 1
    BY <1>14 DEF AluInsns
  <2> HIDE DEF row
  <2>3. Field(w, 6, 0) = 51 /\ Field(w, 31, 25) = row[1] /\ Field(w, 14, 12) = row[2]
    BY <2>1 DEF InsnAlu, Default, Known32, FormatR
  <2> QED BY <1>14, <2>2, <2>3, SubFields DEF Decoded, Base, Having, row
<1>15. CASE n \in DOMAIN AluInsns64
  <2> DEFINE row == AluInsns64[n]
  <2>1. InsnAlu(row, TRUE, i).valid
    BY <1>15, TableNames DEF Insn
  <2>2. row[1] /= 1
    BY <1>15 DEF AluInsns64
  <2> HIDE DEF row
  <2>3. Field(w, 6, 0) = 59 /\ Field(w, 31, 25) = row[1] /\ Field(w, 14, 12) = row[2]
    BY <2>1 DEF InsnAlu, Default, Known32, FormatR
  <2> QED BY <1>15, <2>2, <2>3, SubFields DEF Decoded, Base, Having, row
<1>16. CASE n \in DOMAIN MulInsns
  <2> DEFINE row == MulInsns[n]
  <2>1. InsnAlu(row, FALSE, i).valid
    BY <1>16, TableNames DEF Insn
  <2>2. row[1] = 1
    BY <1>16 DEF MulInsns
  <2> HIDE DEF row
  <2>3. Field(w, 6, 0) = 51 /\ Field(w, 31, 25) = row[1] /\ Field(w, 14, 12) = row[2]
    BY <2>1 DEF InsnAlu, Default, Known32, FormatR
  <2> QED BY <1>16, <2>2, <2>3, SubFields DEF Decoded, Base, Having, row
<1>17. CASE n \in DOMAIN MulInsns64
  <2> DEFINE row == MulInsns64[n]
  <2>1. InsnAlu(row, TRUE, i).valid
    BY <1>17, TableNames DEF Insn
  <2>2. row[1] = 1
    BY <1>17 DEF MulInsns64
  <2> HIDE DEF row
  <2>3. Field(w, 6, 0) = 59 /\ Field(w, 31, 25) = row[1] /\ Field(w, 14, 12) = row[2]
    BY <2>1 DEF InsnAlu, Default, Known32, FormatR
  <2> QED BY <1>17, <2>2, <2>3, SubFields DEF Decoded, Base, Having, row
<1>18. CASE n = "c_addi4spn"
  <2>1. InsnCAddi4spn(i).valid
    BY <1>18, TableNames DEF Insn
  <2>2. Field(w, 1, 0) = 0 /\ Field(w, 15, 13) = 0
    BY <2>1 DEF InsnCAddi4spn, Default, Known16, FormatCiw
  <2> QED BY <1>18, <2>2, SubFields DEF Decoded, Compressed
<1>19. CASE n \in DOMAIN CLoads
  <2> DEFINE row == CLoads[n]
  <2>1. InsnCL(row, i).valid
    BY <1>19, TableNames DEF Insn
  <2>2. row[1] = 2
    BY <1>19 DEF CLoads
  <2> HIDE DEF row
  <2>3. Field(w, 1, 0) = 0 /\ Field(w, 15, 13) = row[1]
    BY <2>1 DEF InsnCL, Default, Known16, Loads, FormatCl
  <2> QED BY <1>19, <2>2, <2>3, SubFields DEF Decoded, Compressed, Having, row
<1>20. CASE n \in DOMAIN CLoads64
  <2> DEFINE row == CLoads64[n]
  <2>1. InsnCL(row, i).valid
    BY <1>20, TableNames DEF Insn
  <2>2. row[1] = 3
    BY <1>20 DEF CLoads64
  <2> HIDE DEF row
  <2>3. Field(w, 1, 0) = 0 /\ Field(w, 15, 13) = row[1]
    BY <2>1 DEF InsnCL, Default, Known16, Loads, FormatCl
  <2> QED BY <1>20, <2>2, <2>3, SubFields DEF Decoded, Compressed, Having, row
<1>21. CASE n \in DOMAIN CStores
  <2> DEFINE row == CStores[n]
  <2>1. InsnCS(row, i).valid
    BY <1>21, TableNames DEF Insn
  <2>2. row[1] = 6
    BY <1>21 DEF CStores
  <2> HIDE DEF row
  <2>3. Field(w, 1, 0) = 0 /\ Field(w, 15, 13) = row[1]
    BY <2>1 DEF InsnCS, Default, Known16, Stores, FormatCs
  <2> QED BY <1>21, <2>2, <2>3, SubFields DEF Decoded, Compressed, Having, row
<1>22. CASE n \in DOMAIN CStores64
  <2> DEFINE row == CStores64[n]
  <2>1. InsnCS(row, i).valid
    BY <1>22, TableNames DEF Insn
  <2>2. row[1] = 7
    BY <1>22 DEF CStores64
  <2> HIDE DEF row
  <2>3. Field(w, 1, 0) = 0 /\ Field(w, 15, 13) = row[1]
    BY <2>1 DEF InsnCS, Default, Known16, Stores, FormatCs
  <2> QED BY <1>22, <2>2, <2>3, SubFields DEF Decoded, Compressed, Having, row
<1>23. CASE n \in {"c_addi", "c_addiw"}
  <2> DEFINE wmode == n = "c_addiw"
  <2>1. InsnCAddi(wmode, i).valid
    BY <1>23, TableNames DEF Insn
  <2>2. n = "c_addiw" => LANES /= 4
    BY TableNames DEF IsaOf, Adds32
  <2>3. Field(w, 1, 0) = 1 /\ Field(w, 15, 13) = (IF wmode THEN 1 ELSE 0)
    BY <2>1 DEF InsnCAddi, Default, Known16, FormatCi
  <2> QED BY <1>23, <2>2, <2>3 DEF Decoded, Compressed
<1>24. CASE n \in DOMAIN CJumps
  <2> DEFINE row == CJumps[n]
  <2>1. InsnCJal(row, i).valid
    BY <1>24, TableNames DEF Insn
  <2>2. \/ n = "c_jal" /\ row[1] = 1
        \/ n = "c_j" /\ row[1] = 5
    BY <1>24 DEF CJumps
  <2> HIDE DEF row
  <2>3. Field(w, 1, 0) = 1 /\ Field(w, 15, 13) = row[1]
    BY <2>1 DEF InsnCJal, Default, Known16, FormatCj
  <2>4. n = "c_jal" => LANES = 4
    BY DEF IsaOf
  <2> QED BY <1>24, <2>2, <2>3, <2>4, SubFields DEF Decoded, Compressed, Having, row
<1>25. CASE n = "c_li"
  <2>1. InsnCLi(i).valid
    BY <1>25, TableNames DEF Insn
  <2>2. Field(w, 1, 0) = 1 /\ Field(w, 15, 13) = 2
    BY <2>1 DEF InsnCLi, Default, Known16, FormatCi
  <2> QED BY <1>25, <2>2, SubFields DEF Decoded, Compressed
<1>26. CASE n = "c_addi16sp"
  <2>1. InsnCAddi16sp(i).valid
    BY <1>26, TableNames DEF Insn
  <2>2. Field(w, 1, 0) = 1 /\ Field(w, 15, 13) = 3 /\ Field(w, 11, 7) = 2
    BY <2>1 DEF InsnCAddi16sp, Default, Known16, FormatCiSp, FormatCi
  <2> QED BY <1>26, <2>2, SubFields DEF Decoded, Compressed
<1>27. CASE n = "c_lui"
  <2>1. InsnCLui(i).valid
    BY <1>27, TableNames DEF Insn
  <2>2. Field(w, 1, 0) = 1 /\ Field(w, 15, 13) = 3 /\ Field(w, 11, 7) /= 2
    BY <2>1 DEF InsnCLui, Default, Known16, FormatCiLui, FormatCi
  <2> QED BY <1>27, <2>2, SubFields DEF Decoded, Compressed
<1>28. CASE n \in DOMAIN CRightShifts
  <2> DEFINE row == CRightShifts[n]
  <2>1. InsnCSri(row, i).valid
    BY <1>28, TableNames DEF Insn
  <2>2. row[1] = 0 \/ row[1] = 1
    BY <1>28 DEF CRightShifts
  <2> HIDE DEF row
  <2>3. Field(w, 1, 0) = 1 /\ Field(w, 15, 13) = 4 /\ Field(w, 11, 10) = row[1]
    BY <2>1 DEF InsnCSri, Default, Known16, FormatCiSri
  <2> QED BY <1>28, <2>2, <2>3, SubFields DEF Decoded, Compressed, Having, row
<1>29. CASE n = "c_andi"
  <2>1. InsnCAndi(i).valid
    BY <1>29, TableNames DEF Insn
  <2>2. Field(w, 1, 0) = 1 /\ Field(w, 15, 13) = 4 /\ Field(w, 11, 10) = 2
    BY <2>1 DEF InsnCAndi, Default, Known16, FormatCiAndi
  <2> QED BY <1>29, <2>2, SubFields DEF Decoded, Compressed
<1>30. CASE n \in DOMAIN CAlus
  <2> DEFINE row == CAlus[n]
  <2>1. InsnCAlu(row, FALSE, i).valid
    BY <1>30, TableNames DEF Insn
  <2>2. row[1] = 35
    BY <1>30 DEF CAlus
  <2> HIDE DEF row
  <2>3. Field(w, 1, 0) = 1 /\ Field(w, 15, 10) = row[1] /\ Field(w, 6, 5) = row[2]
    BY <2>1 DEF InsnCAlu, Default, Known16, FormatCsAlu
  <2> QED BY <1>30, <2>2, <2>3, SubFields DEF Decoded, Compressed, Having, row
<1>31. CASE n \in DOMAIN CAlus64
  <2> DEFINE row == CAlus64[n]
  <2>1. InsnCAlu(row, TRUE, i).valid
    BY <1>31, TableNames DEF Insn
  <2>2. row[1] = 39
    BY <1>31 DEF CAlus64
  <2> HIDE DEF row
  <2>3. Field(w, 1, 0) = 1 /\ Field(w, 15, 10) = row[1] /\ Field(w, 6, 5) = row[2]
    BY <2>1 DEF InsnCAlu, Default, Known16, FormatCsAlu
  <2> QED BY <1>31, <2>2, <2>3, SubFields DEF Decoded, Compressed, Having, row
<1>32. CASE n \in DOMAIN CBranches
  <2> DEFINE row == CBranches[n]
  <2>1. InsnCB(row, i).valid
    BY <1>32, TableNames DEF Insn
  <2>2. row[1] = 6 \/ row[1] = 7
    BY <1>32 DEF CBranches
  <2> HIDE DEF row
  <2>3. Field(w, 1, 0) = 1 /\ Field(w, 15, 13) = row[1]
    BY <2>1 DEF InsnCB, Default, Known16, FormatCb
  <2> QED BY <1>32, <2>2, <2>3, SubFields DEF Decoded, Compressed, Having, row
<1>33. CASE n = "c_slli"
  <2>1. InsnCSli(i).valid
    BY <1>33, TableNames DEF Insn
  <2>2. Field(w, 1, 0) = 2 /\ Field(w, 15, 13) = 0
    BY <2>1 DEF InsnCSli, Default, Known16, FormatCiSli
  <2> QED BY <1>33, <2>2, SubFields DEF Decoded, Compressed
<1>34. CASE n \in DOMAIN CSpLoads
  <2> DEFINE row == CSpLoads[n]
  <2>1. InsnCLsp(row, i).valid
    BY <1>34, TableNames DEF Insn
  <2>2. row[1] = 2
    BY <1>34 DEF CSpLoads
  <2> HIDE DEF row
  <2>3. Field(w, 1, 0) = 2 /\ Field(w, 15, 13) = row[1]
    BY <2>1 DEF InsnCLsp, Default, Known16, Loads, FormatCiLsp
  <2> QED BY <1>34, <2>2, <2>3, SubFields DEF Decoded, Compressed, Having, row
<1>35. CASE n \in DOMAIN CSpLoads64
  <2> DEFINE row == CSpLoads64[n]
  <2>1. InsnCLsp(row, i).valid
    BY <1>35, TableNames DEF Insn
  <2>2. row[1] = 3
    BY <1>35 DEF CSpLoads64
  <2> HIDE DEF row
  <2>3. Field(w, 1, 0) = 2 /\ Field(w, 15, 13) = row[1]
    BY <2>1 DEF InsnCLsp, Default, Known16, Loads, FormatCiLsp
  <2> QED BY <1>35, <2>2, <2>3, SubFields DEF Decoded, Compressed, Having, row
<1>36. CASE n \in DOMAIN CSpStores
  <2> DEFINE row == CSpStores[n]
  <2>1. InsnCSsp(row, i).valid
    BY <1>36, TableNames DEF Insn
  <2>2. row[1] = 6
    BY <1>36 DEF CSpStores
  <2> HIDE DEF row
  <2>3. Field(w, 1, 0) = 2 /\ Field(w, 15, 13) = row[1]
    BY <2>1 DEF InsnCSsp, Default, Known16, Stores, FormatCss
  <2> QED BY <1>36, <2>2, <2>3, SubFields DEF Decoded, Compressed, Having, row
<1>37. CASE n \in DOMAIN CSpStores64
  <2> DEFINE row == CSpStores64[n]
  <2>1. InsnCSsp(row, i).valid
    BY <1>37, TableNames DEF Insn
  <2>2. row[1] = 7
    BY <1>37 DEF CSpStores64
  <2> HIDE DEF row
  <2>3. Field(w, 1, 0) = 2 /\ Field(w, 15, 13) = row[1]
    BY <2>1 DEF InsnCSsp, Default, Known16, Stores, FormatCss
  <2> QED BY <1>37, <2>2, <2>3, SubFields DEF Decoded, Compressed, Having, row
<1>38. CASE n \in DOMAIN CRegJumps
  <2> DEFINE row == CRegJumps[n]
  <2>1. InsnCJalr(row, i).valid
    BY <1>38, TableNames DEF Insn
  <2>2. row[1] = 8 \/ row[1] = 9
    BY <1>38 DEF CRegJumps
  <2> HIDE DEF row
  <2>3. Field(w, 1, 0) = 2 /\ Field(w, 15, 12) = row[1] /\ Field(w, 6, 2) = 0
    BY <2>1 DEF InsnCJalr, Default, Known16, FormatCr
  <2> QED BY <1>38, <2>2, <2>3, SubFields DEF Decoded, Compressed, Having, row
<1>39. CASE n \in DOMAIN CMoves
  <2> DEFINE row == CMoves[n]
  <2>1. InsnCMvadd(row, i).valid
    BY <1>39, TableNames DEF Insn
  <2>2. row[1] = 8 \/ row[1] = 9
    BY <1>39 DEF CMoves
  <2> HIDE DEF row
  <2>3. Field(w, 1, 0) = 2 /\ Field(w, 15, 12) = row[1] /\ Field(w, 6, 2) /= 0
    BY <2>1 DEF InsnCMvadd, Default, Known16, FormatCr
  <2> QED BY <1>39, <2>2, <2>3, SubFields DEF Decoded, Compressed, Having, row
<1>40. \/ n = "lui"
       \/ n = "auipc"
       \/ n = "jal"
       \/ n = "jalr"
       \/ n \in DOMAIN Branches
       \/ n \in DOMAIN LoadInsns
       \/ n \in DOMAIN LoadInsns64
       \/ n \in DOMAIN StoreInsns
       \/ n \in DOMAIN StoreInsns64
       \/ n \in DOMAIN ImmInsns
       \/ n \in DOMAIN ImmInsns64
       \/ n \in DOMAIN ShiftInsns
       \/ n \in DOMAIN ShiftInsns64
       \/ n \in DOMAIN AluInsns
       \/ n \in DOMAIN AluInsns64
       \/ n \in DOMAIN MulInsns
       \/ n \in DOMAIN MulInsns64
       \/ n = "c_addi4spn"
       \/ n \in DOMAIN CLoads
       \/ n \in DOMAIN CLoads64
       \/ n \in DOMAIN CStores
       \/ n \in DOMAIN CStores64
       \/ n \in {"c_addi", "c_addiw"}
       \/ n \in DOMAIN CJumps
       \/ n = "c_li"
       \/ n = "c_addi16sp"
       \/ n = "c_lui"
       \/ n \in DOMAIN CRightShifts
       \/ n = "c_andi"
       \/ n \in DOMAIN CAlus
       \/ n \in DOMAIN CAlus64
       \/ n \in DOMAIN CBranches
       \/ n = "c_slli"
       \/ n \in DOMAIN CSpLoads
       \/ n \in DOMAIN CSpLoads64
       \/ n \in DOMAIN CSpStores
       \/ n \in DOMAIN CSpStores64
       \/ n \in DOMAIN CRegJumps
       \/ n \in DOMAIN CMoves
  BY DEF IsaOf, Adds32, Adds64
<1> QED BY <1>1, <1>2, <1>3, <1>4, <1>5, <1>6, <1>7, <1>8, <1>9, <1>10, <1>11, <1>12,
           <1>13, <1>14, <1>15, <1>16, <1>17, <1>18, <1>19, <1>20, <1>21, <1>22,
           <1>23, <1>24, <1>25, <1>26, <1>27, <1>28, <1>29, <1>30, <1>31, <1>32,
           <1>33, <1>34, <1>35, <1>36, <1>37, <1>38, <1>39, <1>40

\* S has at most one member.
Once(S) == \A n, m \in S : n = m

\* No two rows of a table agree in the columns that Decoded looks at.
LEMMA TablesOnce ==
  ASSUME NEW a, NEW b
  PROVE  /\ Once(Having(Branches, 1, a))
         /\ Once(Having(LoadInsns, 1, a) \cup Having(LoadInsns64, 1, a))
         /\ Once(Having(StoreInsns, 1, a) \cup Having(StoreInsns64, 1, a))
         /\ Once(Having(ShiftInsns, 1, a) \cap Having(ShiftInsns, 2, b))
         /\ Once(Having(ShiftInsns64, 1, a) \cap Having(ShiftInsns64, 2, b))
         /\ Once(Having(ImmInsns, 1, a)) /\ Once(Having(ImmInsns64, 1, a))
         /\ Once(Having(MulInsns, 2, a)) /\ Once(Having(MulInsns64, 2, a))
         /\ Once(Having(AluInsns, 1, a) \cap Having(AluInsns, 2, b))
         /\ Once(Having(AluInsns64, 1, a) \cap Having(AluInsns64, 2, b))
         /\ Once(DOMAIN CLoads) /\ Once(DOMAIN CLoads64)
         /\ Once(DOMAIN CStores) /\ Once(DOMAIN CStores64)
         /\ Once(Having(CRightShifts, 1, a)) /\ Once(Having(CBranches, 1, a))
         /\ Once(Having(CAlus, 2, a)) /\ Once(Having(CAlus64, 2, a))
         /\ Once(DOMAIN CSpLoads) /\ Once(DOMAIN CSpLoads64)
         /\ Once(DOMAIN CSpStores) /\ Once(DOMAIN CSpStores64)
         /\ Once(Having(CRegJumps, 1, a)) /\ Once(Having(CMoves, 1, a))
<1>1. Once(Having(Branches, 1, a))
  BY DEF Once, Having, Branches
<1>2. Once(Having(LoadInsns, 1, a) \cup Having(LoadInsns64, 1, a))
  BY DEF Once, Having, LoadInsns, LoadInsns64
<1>3. Once(Having(StoreInsns, 1, a) \cup Having(StoreInsns64, 1, a))
  BY DEF Once, Having, StoreInsns, StoreInsns64
<1>4. Once(Having(ShiftInsns, 1, a) \cap Having(ShiftInsns, 2, b))
  BY DEF Once, Having, ShiftInsns
<1>5. Once(Having(ShiftInsns64, 1, a) \cap Having(ShiftInsns64, 2, b))
  BY DEF Once, Having, ShiftInsns64
<1>6. Once(Having(ImmInsns, 1, a)) /\ Once(Having(ImmInsns64, 1, a))
  BY DEF Once, Having, ImmInsns, ImmInsns64
<1>7. Once(Having(MulInsns, 2, a)) /\ Once(Having(MulInsns64, 2, a))
  BY DEF Once, Having, MulInsns, MulInsns64
<1>8. Once(Having(AluInsns, 1, a) \cap Having(AluInsns, 2, b))
  BY DEF Once, Having, AluInsns
<1>9. Once(Having(AluInsns64, 1, a) \cap Having(AluInsns64, 2, b))
  BY DEF Once, Having, AluInsns64
<1>10. /\ Once(DOMAIN CLoads) /\ Once(DOMAIN CLoads64)
       /\ Once(DOMAIN CStores) /\ Once(DOMAIN CStores64)
       /\ Once(DOMAIN CSpLoads) /\ Once(DOMAIN CSpLoads64)
       /\ Once(DOMAIN CSpStores) /\ Once(DOMAIN CSpStores64)
  BY TableNames DEF Once
<1>11. Once(Having(CRightShifts, 1, a)) /\ Once(Having(CBranches, 1, a))
  BY DEF Once, Having, CRightShifts, CBranches
<1>12. Once(Having(CAlus, 2, a)) /\ Once(Having(CAlus64, 2, a))
  BY DEF Once, Having, CAlus, CAlus64
<1>13. Once(Having(CRegJumps, 1, a)) /\ Once(Having(CMoves, 1, a))
  BY DEF Once, Having, CRegJumps, CMoves
<1> QED BY <1>1, <1>2, <1>3, <1>4, <1>5, <1>6, <1>7, <1>8, <1>9, <1>10, <1>11, <1>12,
          <1>13

\* A word is at most one instruction, of any register width.
LEMMA DecodedOnce == ASSUME NEW w PROVE Once(Decoded(w))
<1>1. Once({}) /\ \A n : Once({n})
  BY DEF Once
<1>2. Once(Base(w))
  BY <1>1, TablesOnce, ZenonT(120) DEF Base
<1>3. Once(Compressed(w))
  BY <1>1, TablesOnce, ZenonT(120) DEF Compressed
<1> QED BY <1>2, <1>3 DEF Decoded

-----------------------------------------------------------------------------
\* Numbers and the halves of their product.

\* A number is its quotient and remainder, and only those.
LEMMA DivUnique ==
  ASSUME NEW m \in Nat, m > 0, NEW q \in Int, NEW r \in Int, 0 <= r, r < m,
         NEW x \in Int, x = m * q + r
  PROVE  x \div m = q /\ x % m = r
<1> DEFINE p == x \div m
           s == x % m
<1>1. p \in Int /\ s \in Int /\ 0 <= s /\ s < m /\ x = m * p + s
  OBVIOUS
<1> HIDE DEF p, s
<1>2. m * (q - p) = s - r
  BY <1>1
<1>3. CASE q - p >= 1
  <2>1. m * (q - p) >= m
    BY <1>1, <1>3
  <2> QED BY <2>1, <1>1, <1>2
<1>4. CASE q - p <= -1
  <2>1. m * (q - p) <= -m
    BY <1>1, <1>4
  <2> QED BY <2>1, <1>1, <1>2
<1>5. CASE q = p
  BY <1>1, <1>2, <1>5 DEF p, s
<1> QED BY <1>1, <1>3, <1>4, <1>5

\* Multiples of the modulus go to the quotient.
LEMMA ModShift ==
  ASSUME NEW m \in Nat, m > 0, NEW x \in Int, NEW k \in Int
  PROVE  (x + m * k) \div m = (x \div m) + k /\ (x + m * k) % m = x % m
<1> DEFINE q == x \div m
           r == x % m
<1>1. q \in Int /\ r \in Int /\ 0 <= r /\ r < m /\ x = m * q + r
  OBVIOUS
<1> HIDE DEF q, r
<1>2. x + m * k = m * (q + k) + r
  BY <1>1
<1>3. x + m * k \in Int /\ q + k \in Int
  BY <1>1
<1>4. (x + m * k) \div m = q + k /\ (x + m * k) % m = r
  BY <1>1, <1>2, <1>3, DivUnique
<1> QED BY <1>4 DEF q, r

\* Long multiplication: by the halves of two numbers, the product of which
\* has the upper half y and the lower one z.
LEMMA LongMultiplication ==
  ASSUME NEW h \in Nat, h > 0, NEW m \in Nat, m = h * h,
         NEW a \in Int, 0 <= a, a < m, NEW b \in Int, 0 <= b, b < m
  PROVE  LET low == (a % h) * (b % h)
             mid == (a \div h) * (b % h) + (low \div h)
             mid2 == (a % h) * (b \div h) + (mid % h)
         IN  /\ (a \div h) * (b \div h) + (mid \div h) + (mid2 \div h) = (a * b) \div m
             /\ (mid2 % h) * h + (low % h) = (a * b) % m
<1> DEFINE a1 == a \div h
           a0 == a % h
           b1 == b \div h
           b0 == b % h
           low == a0 * b0
           l1 == low \div h
           l0 == low % h
           mid == a1 * b0 + l1
           m1 == mid \div h
           m0 == mid % h
           mid2 == a0 * b1 + m0
           k1 == mid2 \div h
           k0 == mid2 % h
<1>1. /\ a1 \in Int /\ a0 \in Int /\ a = h * a1 + a0
      /\ b1 \in Int /\ b0 \in Int /\ b = h * b1 + b0
  OBVIOUS
<1> HIDE DEF a1, a0, b1, b0
<1>2. low \in Int
  BY <1>1
<1> HIDE DEF low
<1>3. l1 \in Int /\ l0 \in Int /\ 0 <= l0 /\ l0 < h /\ low = h * l1 + l0
  BY <1>2
<1> HIDE DEF l1, l0
<1>4. mid \in Int
  BY <1>1, <1>3
<1> HIDE DEF mid
<1>5. m1 \in Int /\ m0 \in Int /\ mid = h * m1 + m0
  BY <1>4
<1> HIDE DEF m1, m0
<1>6. mid2 \in Int
  BY <1>1, <1>5
<1> HIDE DEF mid2
<1>7. k1 \in Int /\ k0 \in Int /\ 0 <= k0 /\ k0 < h /\ mid2 = h * k1 + k0
  BY <1>6
<1> HIDE DEF k1, k0
<1> DEFINE q == a1 * b1 + m1 + k1
           r == k0 * h + l0
<1>8. q \in Int /\ r \in Int /\ 0 <= r /\ r < m
  <2>1. k0 * h <= (h - 1) * h
    BY <1>7
  <2>2. 0 <= k0 * h
    BY <1>7
  <2>3. (h - 1) * h = m - h
    OBVIOUS
  <2> QED BY <2>1, <2>2, <2>3, <1>1, <1>3, <1>5, <1>7
<1>9. a * b = m * q + r
  <2>1. a * b = (h * h) * (a1 * b1) + h * (a1 * b0) + h * (a0 * b1) + a0 * b0
    BY <1>1
  <2>2. a0 * b0 = h * l1 + l0
    BY <1>3 DEF low
  <2>3. a1 * b0 = h * m1 + m0 - l1
    BY <1>1, <1>3, <1>5 DEF mid
  <2>4. a0 * b1 = h * k1 + k0 - m0
    BY <1>1, <1>5, <1>7 DEF mid2
  <2>5. h * (a1 * b0) = (h * h) * m1 + h * m0 - h * l1
    BY <2>3, <1>3, <1>5
  <2>6. h * (a0 * b1) = (h * h) * k1 + h * k0 - h * m0
    BY <2>4, <1>7, <1>5
  <2>7. (h * h) * q = (h * h) * (a1 * b1) + (h * h) * m1 + (h * h) * k1
    BY <1>1, <1>5, <1>7
  <2> QED BY <2>1, <2>2, <2>5, <2>6, <2>7, <1>1, <1>3, <1>5, <1>7
<1>10. m > 0 /\ a * b \in Int
  OBVIOUS
<1> HIDE DEF q, r
<1>11. (a * b) \div m = q /\ (a * b) % m = r
  BY <1>8, <1>9, <1>10, DivUnique
<1> QED BY <1>11, Zenon DEF q, r, a1, a0, b1, b0, low, l1, l0, mid, m1, m0, mid2, k1, k0

\* The sign of a number of n bits, in what it adds to the unsigned value.
LEMMA SignedParts ==
  ASSUME NEW n \in Nat \ {0}, NEW a \in Int, 0 <= a, a < 2^n
  PROVE  SignedAt(a, n) = a - 2^n * Bool(a >= Msb(n))
BY PowerType DEF SignedAt, Msb, Bool

\* A factor counted with or without its sign: the lower half of a product stays,
\* the upper one is short of the other factor.
LEMMA ShiftedFactors ==
  ASSUME NEW m \in Nat, m > 0, NEW a \in Int, NEW b \in Int, NEW s \in Int, NEW t \in Int
  PROVE  LET hi == (a * b) \div m
         IN  /\ ((a - m * s) * (b - m * t)) % m = (a * b) % m
             /\ ((a - m * s) * (b - m * t)) \div m = hi + (m * (s * t) - (s * b + t * a))
             /\ ((a - m * s) * b) \div m = hi + (-(s * b))
<1> DEFINE p == a * b
           k == m * (s * t) - (s * b + t * a)
           j == -(s * b)
           x == (a - m * s) * (b - m * t)
           y == (a - m * s) * b
<1>1. p \in Int /\ k \in Int /\ j \in Int
  OBVIOUS
<1>2. x = p + m * k
  OBVIOUS
<1>3. y = p + m * j
  OBVIOUS
<1> HIDE DEF p, k, j, x, y
<1>4. x % m = p % m /\ x \div m = (p \div m) + k /\ y \div m = (p \div m) + j
  BY <1>1, <1>2, <1>3, ModShift
<1> QED BY <1>4, Zenon DEF p, k, j, x, y

\* The upper half of a product is below the modulus.
LEMMA UpperHalf ==
  ASSUME NEW m \in Nat, m > 0, NEW a \in Int, 0 <= a, a < m, NEW b \in Int, 0 <= b, b < m
  PROVE  LET hi == (a * b) \div m IN hi \in Int /\ 0 <= hi /\ hi < m /\ hi % m = hi
<1> DEFINE p == a * b
           hi == p \div m
<1>1. p \in Int /\ 0 <= p /\ p < m * m
  <2>1. p \in Int /\ 0 <= p
    OBVIOUS
  <2>2. CASE b = 0
    BY <2>2
  <2>3. CASE b > 0
    <3>1. a * b < m * b
      BY <2>3
    <3>2. m * b < m * m
      OBVIOUS
    <3>3. a * b \in Int /\ m * b \in Int /\ m * m \in Int
      OBVIOUS
    <3> QED BY <3>1, <3>2, <3>3, <2>1
  <2> QED BY <2>1, <2>2, <2>3
<1> HIDE DEF p
<1>2. hi \in Int /\ p = m * hi + (p % m) /\ p % m \in Int /\ 0 <= p % m /\ p % m < m
  BY <1>1
<1> HIDE DEF hi
<1>3. hi < m
  <2>1. SUFFICES ASSUME hi >= m PROVE FALSE
    BY <1>2
  <2>2. m * hi >= m * m
    BY <1>2, <2>1
  <2>3. m * hi \in Int /\ m * m \in Int
    BY <1>2
  <2> QED BY <1>1, <1>2, <2>2, <2>3
<1>4. 0 <= hi
  <2>1. SUFFICES ASSUME hi <= -1 PROVE FALSE
    BY <1>2
  <2>2. m * hi <= -m
    BY <1>2, <2>1
  <2>3. m * hi \in Int
    BY <1>2
  <2> QED BY <1>1, <1>2, <2>2, <2>3
<1>5. hi % m = hi
  BY <1>2, <1>3, <1>4
<1> QED BY <1>2, <1>3, <1>4, <1>5, Zenon DEF hi, p

\* The products of the M extension, from the product of the unsigned values.
LEMMA SignedProducts ==
  ASSUME NEW n \in Nat \ {0}, NEW m, m = 2^n,
         NEW a \in Int, 0 <= a, a < m, NEW b \in Int, 0 <= b, b < m
  PROVE  LET hi == (a * b) \div m
             sa == IF a >= Msb(n) THEN b ELSE 0
             sb == IF b >= Msb(n) THEN a ELSE 0
         IN  /\ (SignedAt(a, n) * SignedAt(b, n)) % m = (a * b) % m
             /\ MulHigh(n, SignedAt(a, n), SignedAt(b, n)) = (hi - (sa + sb)) % m
             /\ MulHigh(n, SignedAt(a, n), b) = (hi - sa) % m
             /\ MulHighU(n, a, b) = hi
<1> DEFINE s == Bool(a >= Msb(n))
           t == Bool(b >= Msb(n))
           hi == (a * b) \div m
           sa == IF a >= Msb(n) THEN b ELSE 0
           sb == IF b >= Msb(n) THEN a ELSE 0
           va == SignedAt(a, n)
           vb == SignedAt(b, n)
<1>1. m \in Nat /\ m > 0
  BY PowerType
<1>2. s \in Int /\ t \in Int
  BY DEF Bool
<1>3. sa = s * b /\ sb = t * a
  <2>1. (s = 1 \/ s = 0) /\ (t = 1 \/ t = 0)
    BY DEF Bool
  <2>2. (s = 1 => sa = b) /\ (s = 0 => sa = 0) /\ (t = 1 => sb = a) /\ (t = 0 => sb = 0)
    BY DEF Bool
  <2> HIDE DEF s, t, sa, sb
  <2>3. 1 * b = b /\ 0 * b = 0 /\ 1 * a = a /\ 0 * a = 0
    OBVIOUS
  <2> QED BY <2>1, <2>2, <2>3
<1>4. va = a - m * s /\ vb = b - m * t
  BY SignedParts
<1>5. hi \in Int /\ 0 <= hi /\ hi < m /\ hi % m = hi
  BY <1>1, UpperHalf
<1> HIDE DEF s, t, sa, sb, va, vb
<1> DEFINE k == m * (s * t) - (s * b + t * a)
           j == -(s * b)
<1>6. (va * vb) % m = (a * b) % m /\ (va * vb) \div m = hi + k /\ (va * b) \div m = hi + j
  BY <1>1, <1>2, <1>4, ShiftedFactors
<1> HIDE DEF hi
<1>7. sa \in Int /\ sb \in Int /\ s * t \in Int /\ j = -sa /\ k = m * (s * t) - (sa + sb)
  BY <1>2, <1>3
<1>8. (hi + k) % m = (hi - (sa + sb)) % m
  <2> DEFINE u == s * t
             d == hi - (sa + sb)
  <2>1. hi + k = d + m * u /\ d \in Int /\ u \in Int
    BY <1>1, <1>5, <1>7
  <2> HIDE DEF u, d, k
  <2>2. (d + m * u) % m = d % m
    BY <2>1, <1>1, ModShift
  <2> QED BY <2>1, <2>2, Zenon DEF d
<1>9. MulHigh(n, va, vb) = (hi - (sa + sb)) % m
  <2> HIDE DEF k
  <2> QED BY <1>6, <1>8 DEF MulHigh
<1>10. MulHigh(n, va, b) = (hi - sa) % m
  <2>1. hi + j = hi - sa
    BY <1>5, <1>7
  <2> HIDE DEF j
  <2> QED BY <1>6, <2>1 DEF MulHigh
<1>11. MulHighU(n, a, b) = hi
  <2> DEFINE d == hi - sa
             q == d \div m
             r == d % m
             z == -q
  <2>1. d \in Int
    BY <1>5, <1>7
  <2> HIDE DEF d
  <2>2. q \in Int /\ r \in Int /\ d = m * q + r
    BY <1>1, <2>1
  <2> HIDE DEF q, r
  <2>3. r + sa = hi + m * z /\ z \in Int
    <3>1. d + sa = hi
      BY <1>5, <1>7 DEF d
    <3>2. m * z = -(m * q) /\ z \in Int /\ m * q \in Int
      BY <1>1, <2>2
    <3> HIDE DEF z
    <3> QED BY <3>1, <3>2, <2>1, <2>2, <1>5, <1>7
  <2> HIDE DEF z
  <2>4. (hi + m * z) % m = hi % m
    BY <1>1, <1>5, <2>3, ModShift
  <2>5. MulHighU(n, a, b) = (r + sa) % m
    BY <1>10 DEF MulHighU, r, d, sa, va
  <2> QED BY <2>3, <2>4, <2>5, <1>5
<1> QED BY <1>6, <1>9, <1>10, <1>11, Zenon DEF hi, sa, sb, va, vb

\* What the tables have for a quotient and a remainder, signed and unsigned.
Divided(n, a, b, q, r) ==
  \/ q = Quotient(n, a, b) /\ r = Remainder(n, a, b)
  \/ q = (IF b = 0 THEN Ones(n) ELSE a \div b) /\ r = (IF b = 0 THEN a ELSE a % b)

\* Quotient and remainder give the dividend back, also in the corners.
LEMMA Division ==
  ASSUME NEW n \in Nat \ {0}, NEW m, m = 2^n,
         NEW a \in Int, 0 <= a, a < m, NEW b \in Int, 0 <= b, b < m,
         NEW q, NEW r, Divided(n, a, b, q, r)
  PROVE  /\ q \in Int /\ 0 <= q /\ q < m
         /\ (((q * b) % m) + r) % m = a
<1>1. m \in Nat /\ m > 0 /\ Ones(n) = m - 1
  BY PowerType DEF Ones
<1>2. Msb(n) \in Nat /\ m = 2 * Msb(n)
  <2>1. n - 1 \in Nat /\ n = (n - 1) + 1
    OBVIOUS
  <2> QED BY <2>1, PowerType, PowerSucc DEF Msb
<1>3. CASE b = 0
  <2>1. q = m - 1 /\ r = a
    BY <1>1, <1>3 DEF Divided, Quotient, Remainder
  <2>2. q * b = 0
    BY <2>1, <1>1, <1>3
  <2> QED BY <2>1, <2>2, <1>1
<1>4. CASE b /= 0 /\ q = a \div b /\ r = a % b
  <2>1. q \in Int /\ r \in Int /\ 0 <= r /\ r < b /\ a = b * q + r
    BY <1>4
  <2>2. 0 <= q
    BY <1>4
  <2>3. q <= a /\ q * b = a - r /\ q * b >= 0
    BY <2>1, <2>2, <1>4
  <2>4. q * b < m
    BY <2>1, <2>3
  <2>5. (q * b) % m = q * b
    BY <1>1, <2>1, <2>3, <2>4
  <2> QED BY <2>1, <2>2, <2>3, <2>5, <1>1
<1>5. CASE a = Msb(n) /\ b = Ones(n) /\ q = Msb(n) /\ r = 0
  <2> DEFINE k == Msb(n)
  <2> HIDE DEF k
  <2>0. k \in Int /\ m = 2 * k /\ q = k /\ b = m - 1
    BY <1>1, <1>2, <1>5 DEF k
  <2>1. q * b = k + m * (k - 1)
    BY <2>0
  <2>2. k \in Int /\ 0 <= k /\ k < m /\ k - 1 \in Int
    BY <1>1, <1>2 DEF k
  <2>3. (k + m * (k - 1)) % m = k % m
    BY <1>1, <2>2, ModShift
  <2>4. k % m = k
    BY <1>1, <2>2
  <2> QED BY <2>1, <2>2, <2>3, <2>4, <1>5 DEF k
<1> QED BY <1>3, <1>4, <1>5 DEF Divided, Quotient, Remainder

\* The two halves of a register.
LEMMA HalfWidth ==
  LET h == 2^(XLEN \div 2) IN h \in Nat /\ h > 0 /\ 2^XLEN = h * h
<1> DEFINE k == XLEN \div 2
<1>1. k \in Nat /\ XLEN = k + k
  <2>1. CASE LANES = 4
    BY <2>1, FormatsAssumption DEF XLEN
  <2>2. CASE LANES = 8
    BY <2>2, FormatsAssumption DEF XLEN
  <2> QED BY <2>1, <2>2, FormatsAssumption
<1> HIDE DEF k
<1>2. 2^k \in Nat /\ 2^k > 0 /\ 2^XLEN = 2^k * 2^k
  BY <1>1, PowerType, PowerSum
<1> QED BY <1>2, Zenon DEF k

\* An instruction of the M extension without `RISCV_FORMAL_ALTOPS.
LEMMA MulResult ==
  ASSUME NEW i, NEW row, row \in {MulInsns[n] : n \in DOMAIN MulInsns}, "ALTOPS" \notin i.def
  PROVE  AluResult(row, FALSE, i) = Alu(row[3], XLEN, i.rs1_rdata, i.rs2_rdata)
<1>1. row[3] \notin {"sll", "srl", "sra"}
  BY DEF MulInsns
<1> QED BY <1>1 DEF AluResult, Operate

\* What the M extension computes for two registers.
LEMMA MulTable ==
  ASSUME NEW i, "ALTOPS" \notin i.def
  PROVE  LET a == i.rs1_rdata
             b == i.rs2_rdata
             va == SignedAt(a, XLEN)
             vb == SignedAt(b, XLEN)
             Of(n) == AluResult(MulInsns[n], FALSE, i)
         IN  /\ Of("mul") = (va * vb) % 2^XLEN
             /\ Of("mulh") = MulHigh(XLEN, va, vb)
             /\ Of("mulhsu") = MulHigh(XLEN, va, b)
             /\ Of("mulhu") = MulHighU(XLEN, a, b)
             /\ Of("div") = Quotient(XLEN, a, b)
             /\ Of("divu") = (IF b = 0 THEN Ones(XLEN) ELSE a \div b)
             /\ Of("rem") = Remainder(XLEN, a, b)
             /\ Of("remu") = (IF b = 0 THEN a ELSE a % b)
<1> DEFINE a == i.rs1_rdata
           b == i.rs2_rdata
           va == SignedAt(a, XLEN)
           vb == SignedAt(b, XLEN)
<1>1. \A n \in DOMAIN MulInsns :
        AluResult(MulInsns[n], FALSE, i) = Alu(MulInsns[n][3], XLEN, a, b)
  BY MulResult
<1>2. /\ DOMAIN MulInsns = {"mul", "mulh", "mulhsu", "mulhu", "div", "divu", "rem", "remu"}
      /\ \A n \in DOMAIN MulInsns : MulInsns[n][3] = n
  BY DEF MulInsns
<1> HIDE DEF a, b
<1>3. \A n \in DOMAIN MulInsns : AluResult(MulInsns[n], FALSE, i) = Alu(n, XLEN, a, b)
  BY <1>1, <1>2
<1>4. Alu("mul", XLEN, a, b) = (va * vb) % 2^XLEN
  BY DEF Alu
<1>5. Alu("mulh", XLEN, a, b) = MulHigh(XLEN, va, vb)
  BY DEF Alu
<1>6. Alu("mulhsu", XLEN, a, b) = MulHigh(XLEN, va, b)
  BY DEF Alu
<1>7. Alu("mulhu", XLEN, a, b) = MulHighU(XLEN, a, b)
  BY DEF Alu
<1>8. Alu("div", XLEN, a, b) = Quotient(XLEN, a, b)
  BY DEF Alu
<1>9. Alu("divu", XLEN, a, b) = (IF b = 0 THEN Ones(XLEN) ELSE a \div b)
  BY DEF Alu
<1>10. Alu("rem", XLEN, a, b) = Remainder(XLEN, a, b)
  BY DEF Alu
<1>11. Alu("remu", XLEN, a, b) = (IF b = 0 THEN a ELSE a % b)
  BY DEF Alu
<1> QED BY <1>2, <1>3, <1>4, <1>5, <1>6, <1>7, <1>8, <1>9, <1>10, <1>11, Zenon DEF a, b

=============================================================================
