---------------------------- MODULE RvfiIsaProof ----------------------------
(***************************************************************************)
(* Proofs about the isa_<isa>.v modules, for every register width that the *)
(* code knows, every word and operands that fit the ports, and every set   *)
(* of macros: the word determines the instruction, every format reads the  *)
(* immediate of the manual, every model asks of a core only what           *)
(* docs/rvfi.md allows, and the M extension computes what it should.       *)
(***************************************************************************)
EXTENDS RvfiIsa, RvfiInsnsProof

-----------------------------------------------------------------------------
(***************************************************************************)
(* Immediates.  Of a format, a, b, ... are the fields from which its wires *)
(* put the immediate together; it is their weighted sum, and dividing the  *)
(* sum by a weight of the manual gives the field back.                     *)
(***************************************************************************)
\* An immediate is the manual's if the row of its format says so.
LEMMA ManualRow ==
  ASSUME NEW f, NEW imm, NEW w, NEW lo, NEW hi, NEW signed,
         ManualImm[f][1] = lo, ManualImm[f][2] = hi, (f \notin Unsigned) = signed,
         Spans(imm, lo, hi, signed),
         \A s \in ManualImm[f][3] : Placed(imm, w, s[1], s[2], s[3])
  PROVE  ByManual(f, imm, w)
BY Zenon DEF ByManual

\* Two neighbouring bits of a number, where the wires read the manual's one by
\* one.
LEMMA TwoBits ==
  ASSUME NEW x \in Int, NEW c, NEW d, c = (x \div 1024) % 2, d = (x \div 512) % 2
  PROVE  (x \div 512) % 4 = 2 * c + d
<1> DEFINE y == x \div 512
           q == y \div 4
           r == y % 4
           z == y \div 2
           m == z % 2
           n == y % 2
<1>1. y \in Int /\ x \div 1024 = z
  OBVIOUS
<1> HIDE DEF y
<1>2. y = 4 * q + r /\ q \in Int /\ r \in Int /\ 0 <= r /\ r < 4
  BY <1>1
<1> HIDE DEF q, r
<1>3. z = IF r < 2 THEN 2 * q ELSE 2 * q + 1
  BY <1>2
<1> HIDE DEF z
<1>4. m = IF r < 2 THEN 0 ELSE 1
  BY <1>2, <1>3
<1> HIDE DEF m, n
<1>5. n = IF r < 2 THEN r ELSE r - 2
  BY <1>2 DEF n
<1>6. m = c /\ n = d
  BY <1>1, Zenon DEF m, n, y
<1>7. r = 2 * c + d
  BY ONLY <1>2, <1>4, <1>5, <1>6
<1> QED BY <1>7, Zenon DEF r, y

\* The I format reads the immediate of the manual.
LEMMA ManualI ==
  ASSUME NEW w \in InsnWords
  PROVE  FormatI(w).imm \in Int /\ ByManual("I", FormatI(w).imm, w)
<1> DEFINE a == Field(w, 31, 20)
           imm == FormatI(w).imm
<1>1. a \in Int /\ 0 <= a /\ a < 4096
  BY WordParts, SMT DEF Field
<1>2. imm = SignedAt(a, 12)
  BY SMT DEF FormatI, SignedVec, Slice, ++
<1> HIDE DEF a, imm
<1>3. imm = a - (IF a >= 2048 THEN 4096 ELSE 0)
  BY <1>1, <1>2 DEF SignedAt
<1>4. imm \in Int
  BY <1>1, <1>3
<1>5. Spans(imm, 0, 11, TRUE)
  BY <1>1, <1>3 DEF Spans
<1>6. (imm \div 1) % 4096 = a
  BY <1>1, <1>3
<1>7. Placed(imm, w, 31, 20, 0)
  BY <1>6 DEF Placed, a
<1>8. \A s \in ManualImm["I"][3] : Placed(imm, w, s[1], s[2], s[3])
  BY <1>7 DEF ManualImm
<1>9. /\ ManualImm["I"][1] = 0 /\ ManualImm["I"][2] = 11
      /\ ("I" \notin Unsigned) = TRUE
  BY DEF ManualImm, Unsigned
<1> QED BY <1>4, <1>5, <1>8, <1>9, ManualRow DEF imm

\* The S format reads the immediate of the manual.
LEMMA ManualS ==
  ASSUME NEW w \in InsnWords
  PROVE  FormatS(w).imm \in Int /\ ByManual("S", FormatS(w).imm, w)
<1> DEFINE a == Field(w, 31, 25)
           b == Field(w, 11, 7)
           imm == FormatS(w).imm
<1>1. /\ a \in Int /\ 0 <= a /\ a < 128
      /\ b \in Int /\ 0 <= b /\ b < 32
  BY WordParts, SMT DEF Field
<1>2. imm = SignedAt(a * 32 + b, 12)
  BY SMT DEF FormatS, SignedVec, Slice, ++
<1> HIDE DEF a, b, imm
<1>3. imm = 32 * a + b - (IF a >= 64 THEN 4096 ELSE 0)
  BY <1>1, <1>2 DEF SignedAt
<1>4. imm \in Int
  BY <1>1, <1>3
<1>5. Spans(imm, 0, 11, TRUE)
  BY <1>1, <1>3 DEF Spans
<1>6. (imm \div 32) % 128 = a /\ (imm \div 1) % 32 = b
  BY <1>1, <1>3
<1>7. Placed(imm, w, 31, 25, 5) /\ Placed(imm, w, 11, 7, 0)
  BY <1>6 DEF Placed, a, b
<1>8. \A s \in ManualImm["S"][3] : Placed(imm, w, s[1], s[2], s[3])
  BY <1>7 DEF ManualImm
<1>9. /\ ManualImm["S"][1] = 0 /\ ManualImm["S"][2] = 11
      /\ ("S" \notin Unsigned) = TRUE
  BY DEF ManualImm, Unsigned
<1> QED BY <1>4, <1>5, <1>8, <1>9, ManualRow DEF imm

\* The SB format reads the immediate of the manual.
LEMMA ManualB ==
  ASSUME NEW w \in InsnWords
  PROVE  FormatSb(w).imm \in Int /\ ByManual("B", FormatSb(w).imm, w)
<1> DEFINE a == Field(w, 31, 31)
           b == Field(w, 7, 7)
           c == Field(w, 30, 25)
           d == Field(w, 11, 8)
           imm == FormatSb(w).imm
<1>1. /\ a \in Int /\ 0 <= a /\ a < 2
      /\ b \in Int /\ 0 <= b /\ b < 2
      /\ c \in Int /\ 0 <= c /\ c < 64
      /\ d \in Int /\ 0 <= d /\ d < 16
  BY WordParts, SMT DEF Field
<1>2. imm = 2 * SignedAt(((a * 2 + b) * 64 + c) * 16 + d, 12)
  BY SMT DEF FormatSb, SignedVec, Slice, ++
<1> HIDE DEF a, b, c, d, imm
<1>3. imm = 4096 * a + 2048 * b + 32 * c + 2 * d - (IF a >= 1 THEN 8192 ELSE 0)
  BY <1>1, <1>2 DEF SignedAt
<1>4. imm \in Int
  BY <1>1, <1>3
<1>5. Spans(imm, 1, 12, TRUE)
  BY <1>1, <1>3 DEF Spans
<1>6. /\ (imm \div 4096) % 2 = a /\ (imm \div 32) % 64 = c
      /\ (imm \div 2) % 16 = d /\ (imm \div 2048) % 2 = b
  BY <1>1, <1>3
<1>7. /\ Placed(imm, w, 31, 31, 12) /\ Placed(imm, w, 30, 25, 5)
      /\ Placed(imm, w, 11, 8, 1) /\ Placed(imm, w, 7, 7, 11)
  BY <1>6 DEF Placed, a, b, c, d
<1>8. \A s \in ManualImm["B"][3] : Placed(imm, w, s[1], s[2], s[3])
  BY <1>7 DEF ManualImm
<1>9. /\ ManualImm["B"][1] = 1 /\ ManualImm["B"][2] = 12
      /\ ("B" \notin Unsigned) = TRUE
  BY DEF ManualImm, Unsigned
<1> QED BY <1>4, <1>5, <1>8, <1>9, ManualRow DEF imm

\* The U format reads the immediate of the manual.
LEMMA ManualU ==
  ASSUME NEW w \in InsnWords
  PROVE  FormatU(w).imm \in Int /\ ByManual("U", FormatU(w).imm, w)
<1> DEFINE a == Field(w, 31, 12)
           imm == FormatU(w).imm
<1>1. a \in Int /\ 0 <= a /\ a < 1048576
  BY WordParts, SMT DEF Field
<1>2. imm = 4096 * SignedAt(a, 20)
  BY SMT DEF FormatU, SignedVec, Slice, ++
<1> HIDE DEF a, imm
<1>3. imm = 4096 * a - (IF a >= 524288 THEN 4294967296 ELSE 0)
  BY <1>1, <1>2 DEF SignedAt
<1>4. imm \in Int
  BY <1>1, <1>3
<1>5. Spans(imm, 12, 31, TRUE)
  BY <1>1, <1>3 DEF Spans
<1>6. (imm \div 4096) % 1048576 = a
  BY <1>1, <1>3
<1>7. Placed(imm, w, 31, 12, 12)
  BY <1>6 DEF Placed, a
<1>8. \A s \in ManualImm["U"][3] : Placed(imm, w, s[1], s[2], s[3])
  BY <1>7 DEF ManualImm
<1>9. /\ ManualImm["U"][1] = 12 /\ ManualImm["U"][2] = 31
      /\ ("U" \notin Unsigned) = TRUE
  BY DEF ManualImm, Unsigned
<1> QED BY <1>4, <1>5, <1>8, <1>9, ManualRow DEF imm

\* The UJ format reads the immediate of the manual.
LEMMA ManualJ ==
  ASSUME NEW w \in InsnWords
  PROVE  FormatUj(w).imm \in Int /\ ByManual("J", FormatUj(w).imm, w)
<1> DEFINE a == Field(w, 31, 31)
           b == Field(w, 19, 12)
           c == Field(w, 20, 20)
           d == Field(w, 30, 21)
           imm == FormatUj(w).imm
<1>1. /\ a \in Int /\ 0 <= a /\ a < 2
      /\ b \in Int /\ 0 <= b /\ b < 256
      /\ c \in Int /\ 0 <= c /\ c < 2
      /\ d \in Int /\ 0 <= d /\ d < 1024
  BY WordParts, SMT DEF Field
<1>2. imm = 2 * SignedAt(((a * 256 + b) * 2 + c) * 1024 + d, 20)
  BY SMT DEF FormatUj, SignedVec, Slice, ++
<1> HIDE DEF a, b, c, d, imm
<1>3. imm = 1048576 * a + 4096 * b + 2048 * c + 2 * d - (IF a >= 1 THEN 2097152 ELSE 0)
  BY <1>1, <1>2 DEF SignedAt
<1>4. imm \in Int
  BY <1>1, <1>3
<1>5. Spans(imm, 1, 20, TRUE)
  BY <1>1, <1>3 DEF Spans
<1>6. /\ (imm \div 1048576) % 2 = a /\ (imm \div 2) % 1024 = d
      /\ (imm \div 2048) % 2 = c /\ (imm \div 4096) % 256 = b
  BY <1>1, <1>3
<1>7. /\ Placed(imm, w, 31, 31, 20) /\ Placed(imm, w, 30, 21, 1)
      /\ Placed(imm, w, 20, 20, 11) /\ Placed(imm, w, 19, 12, 12)
  BY <1>6 DEF Placed, a, b, c, d
<1>8. \A s \in ManualImm["J"][3] : Placed(imm, w, s[1], s[2], s[3])
  BY <1>7 DEF ManualImm
<1>9. /\ ManualImm["J"][1] = 1 /\ ManualImm["J"][2] = 20
      /\ ("J" \notin Unsigned) = TRUE
  BY DEF ManualImm, Unsigned
<1> QED BY <1>4, <1>5, <1>8, <1>9, ManualRow DEF imm

\* The CI format reads the immediate of the manual.
LEMMA ManualCI ==
  ASSUME NEW w \in InsnWords
  PROVE  FormatCi(w).imm \in Int /\ ByManual("CI", FormatCi(w).imm, w)
<1> DEFINE a == Field(w, 12, 12)
           b == Field(w, 6, 2)
           imm == FormatCi(w).imm
<1>1. /\ a \in Int /\ 0 <= a /\ a < 2
      /\ b \in Int /\ 0 <= b /\ b < 32
  BY WordParts, SMT DEF Field
<1>2. imm = SignedAt(a * 32 + b, 6)
  BY SMT DEF FormatCi, SignedVec, Slice, ++
<1> HIDE DEF a, b, imm
<1>3. imm = 32 * a + b - (IF a >= 1 THEN 64 ELSE 0)
  BY <1>1, <1>2 DEF SignedAt
<1>4. imm \in Int
  BY <1>1, <1>3
<1>5. Spans(imm, 0, 5, TRUE)
  BY <1>1, <1>3 DEF Spans
<1>6. (imm \div 32) % 2 = a /\ (imm \div 1) % 32 = b
  BY <1>1, <1>3
<1>7. Placed(imm, w, 12, 12, 5) /\ Placed(imm, w, 6, 2, 0)
  BY <1>6 DEF Placed, a, b
<1>8. \A s \in ManualImm["CI"][3] : Placed(imm, w, s[1], s[2], s[3])
  BY <1>7 DEF ManualImm
<1>9. /\ ManualImm["CI"][1] = 0 /\ ManualImm["CI"][2] = 5
      /\ ("CI" \notin Unsigned) = TRUE
  BY DEF ManualImm, Unsigned
<1> QED BY <1>4, <1>5, <1>8, <1>9, ManualRow DEF imm

\* The format of c.addi16sp reads the immediate of the manual.
LEMMA ManualCISP ==
  ASSUME NEW w \in InsnWords
  PROVE  FormatCiSp(w).imm \in Int /\ ByManual("CISP", FormatCiSp(w).imm, w)
<1> DEFINE a == Field(w, 12, 12)
           b == Field(w, 4, 3)
           c == Field(w, 5, 5)
           d == Field(w, 2, 2)
           e == Field(w, 6, 6)
           imm == FormatCiSp(w).imm
<1>1. /\ a \in Int /\ 0 <= a /\ a < 2
      /\ b \in Int /\ 0 <= b /\ b < 4
      /\ c \in Int /\ 0 <= c /\ c < 2
      /\ d \in Int /\ 0 <= d /\ d < 2
      /\ e \in Int /\ 0 <= e /\ e < 2
  BY WordParts, SMT DEF Field
<1>2. imm = 16 * SignedAt((((a * 4 + b) * 2 + c) * 2 + d) * 2 + e, 6)
  BY SMT DEF FormatCiSp, FormatCi, SignedVec, Slice, ++
<1> HIDE DEF a, b, c, d, e, imm
<1>3. imm = 512 * a + 128 * b + 64 * c + 32 * d + 16 * e - (IF a >= 1 THEN 1024 ELSE 0)
  BY <1>1, <1>2 DEF SignedAt
<1>4. imm \in Int
  BY <1>1, <1>3
<1>5. Spans(imm, 4, 9, TRUE)
  BY <1>1, <1>3 DEF Spans
<1>6. /\ (imm \div 512) % 2 = a /\ (imm \div 16) % 2 = e
      /\ (imm \div 64) % 2 = c /\ (imm \div 128) % 4 = b
      /\ (imm \div 32) % 2 = d
  BY <1>1, <1>3
<1>7. /\ Placed(imm, w, 12, 12, 9) /\ Placed(imm, w, 6, 6, 4)
      /\ Placed(imm, w, 5, 5, 6) /\ Placed(imm, w, 4, 3, 7)
      /\ Placed(imm, w, 2, 2, 5)
  BY <1>6 DEF Placed, a, b, c, d, e
<1>8. \A s \in ManualImm["CISP"][3] : Placed(imm, w, s[1], s[2], s[3])
  BY <1>7 DEF ManualImm
<1>9. /\ ManualImm["CISP"][1] = 4 /\ ManualImm["CISP"][2] = 9
      /\ ("CISP" \notin Unsigned) = TRUE
  BY DEF ManualImm, Unsigned
<1> QED BY <1>4, <1>5, <1>8, <1>9, ManualRow DEF imm

\* The format of c.lui reads the immediate of the manual.
LEMMA ManualCILUI ==
  ASSUME NEW w \in InsnWords
  PROVE  FormatCiLui(w).imm \in Int /\ ByManual("CILUI", FormatCiLui(w).imm, w)
<1> DEFINE a == Field(w, 12, 12)
           b == Field(w, 6, 2)
           imm == FormatCiLui(w).imm
<1>1. /\ a \in Int /\ 0 <= a /\ a < 2
      /\ b \in Int /\ 0 <= b /\ b < 32
  BY WordParts, SMT DEF Field
<1>2. imm = 4096 * SignedAt(a * 32 + b, 6)
  BY SMT DEF FormatCiLui, FormatCi, SignedVec, Slice, ++
<1> HIDE DEF a, b, imm
<1>3. imm = 131072 * a + 4096 * b - (IF a >= 1 THEN 262144 ELSE 0)
  BY <1>1, <1>2 DEF SignedAt
<1>4. imm \in Int
  BY <1>1, <1>3
<1>5. Spans(imm, 12, 17, TRUE)
  BY <1>1, <1>3 DEF Spans
<1>6. (imm \div 131072) % 2 = a /\ (imm \div 4096) % 32 = b
  BY <1>1, <1>3
<1>7. Placed(imm, w, 12, 12, 17) /\ Placed(imm, w, 6, 2, 12)
  BY <1>6 DEF Placed, a, b
<1>8. \A s \in ManualImm["CILUI"][3] : Placed(imm, w, s[1], s[2], s[3])
  BY <1>7 DEF ManualImm
<1>9. /\ ManualImm["CILUI"][1] = 12 /\ ManualImm["CILUI"][2] = 17
      /\ ("CILUI" \notin Unsigned) = TRUE
  BY DEF ManualImm, Unsigned
<1> QED BY <1>4, <1>5, <1>8, <1>9, ManualRow DEF imm

\* The CJ format reads the immediate of the manual.
LEMMA ManualCJ ==
  ASSUME NEW w \in InsnWords
  PROVE  FormatCj(w).imm \in Int /\ ByManual("CJ", FormatCj(w).imm, w)
<1> DEFINE a == Field(w, 12, 12)
           b == Field(w, 8, 8)
           c == Field(w, 10, 10)
           d == Field(w, 9, 9)
           e == Field(w, 6, 6)
           m == Field(w, 7, 7)
           n == Field(w, 2, 2)
           o == Field(w, 11, 11)
           p == Field(w, 5, 3)
           top == Slice(w, 12, 12) ++ Slice(w, 8, 8) ++ Slice(w, 10, 10)
                  ++ Slice(w, 9, 9)
           high == ((a * 2 + b) * 2 + c) * 2 + d
           all == top ++ Slice(w, 6, 6) ++ Slice(w, 7, 7) ++ Slice(w, 2, 2)
                  ++ Slice(w, 11, 11) ++ Slice(w, 5, 3)
           imm == FormatCj(w).imm
<1>1. /\ a \in Int /\ 0 <= a /\ a < 2
      /\ b \in Int /\ 0 <= b /\ b < 2
      /\ c \in Int /\ 0 <= c /\ c < 2
      /\ d \in Int /\ 0 <= d /\ d < 2
      /\ e \in Int /\ 0 <= e /\ e < 2
      /\ m \in Int /\ 0 <= m /\ m < 2
      /\ n \in Int /\ 0 <= n /\ n < 2
      /\ o \in Int /\ 0 <= o /\ o < 2
      /\ p \in Int /\ 0 <= p /\ p < 8
  BY WordParts, SMT DEF Field
<1>2. imm = 2 * SignedAt(((((high * 2 + e) * 2 + m) * 2 + n) * 2 + o) * 8 + p, 11)
  <2>1. imm = 2 * SignedVec(all)
    BY DEF FormatCj
  <2>2. top = [v |-> high, n |-> 4]
    BY SMT DEF Slice, ++
  <2> HIDE DEF top, high, imm
  <2>3. all = [v |-> ((((high * 2 + e) * 2 + m) * 2 + n) * 2 + o) * 8 + p, n |-> 11]
    BY <2>2, SMT DEF Slice, ++
  <2> HIDE DEF all
  <2> QED BY <2>1, <2>3, SMT DEF SignedVec
<1> HIDE DEF a, b, c, d, e, m, n, o, p, imm
<1>3. imm = 2048 * a + 1024 * b + 512 * c + 256 * d + 128 * e + 64 * m
           + 32 * n + 16 * o + 2 * p - (IF a >= 1 THEN 4096 ELSE 0)
  BY <1>1, <1>2 DEF SignedAt, high
<1>4. imm \in Int
  BY <1>1, <1>3
<1>5. Spans(imm, 1, 11, TRUE)
  BY <1>1, <1>3 DEF Spans
<1>6. /\ (imm \div 2048) % 2 = a
      /\ (imm \div 16) % 2 = o
      /\ (imm \div 256) % 4 = 2 * c + d
      /\ (imm \div 1024) % 2 = b
      /\ (imm \div 64) % 2 = m
      /\ (imm \div 128) % 2 = e
      /\ (imm \div 2) % 8 = p
      /\ (imm \div 32) % 2 = n
  BY <1>1, <1>3
<1>7. Field(w, 10, 9) = 2 * c + d
  BY WordParts, TwoBits, SMT DEF Field, c, d
<1>8. /\ Placed(imm, w, 12, 12, 11) /\ Placed(imm, w, 11, 11, 4)
      /\ Placed(imm, w, 10, 9, 8) /\ Placed(imm, w, 8, 8, 10)
      /\ Placed(imm, w, 7, 7, 6) /\ Placed(imm, w, 6, 6, 7)
      /\ Placed(imm, w, 5, 3, 1) /\ Placed(imm, w, 2, 2, 5)
  BY <1>6, <1>7 DEF Placed, a, b, c, d, e, m, n, o, p
<1>9. \A s \in ManualImm["CJ"][3] : Placed(imm, w, s[1], s[2], s[3])
  BY <1>8 DEF ManualImm
<1>10. /\ ManualImm["CJ"][1] = 1 /\ ManualImm["CJ"][2] = 11
      /\ ("CJ" \notin Unsigned) = TRUE
  BY DEF ManualImm, Unsigned
<1> QED BY <1>4, <1>5, <1>9, <1>10, ManualRow DEF imm

\* The CB format reads the immediate of the manual.
LEMMA ManualCB ==
  ASSUME NEW w \in InsnWords
  PROVE  FormatCb(w).imm \in Int /\ ByManual("CB", FormatCb(w).imm, w)
<1> DEFINE a == Field(w, 12, 12)
           b == Field(w, 6, 5)
           c == Field(w, 2, 2)
           d == Field(w, 11, 10)
           e == Field(w, 4, 3)
           imm == FormatCb(w).imm
<1>1. /\ a \in Int /\ 0 <= a /\ a < 2
      /\ b \in Int /\ 0 <= b /\ b < 4
      /\ c \in Int /\ 0 <= c /\ c < 2
      /\ d \in Int /\ 0 <= d /\ d < 4
      /\ e \in Int /\ 0 <= e /\ e < 4
  BY WordParts, SMT DEF Field
<1>2. imm = 2 * SignedAt((((a * 4 + b) * 2 + c) * 4 + d) * 4 + e, 8)
  BY SMT DEF FormatCb, SignedVec, Slice, ++
<1> HIDE DEF a, b, c, d, e, imm
<1>3. imm = 256 * a + 64 * b + 32 * c + 8 * d + 2 * e - (IF a >= 1 THEN 512 ELSE 0)
  BY <1>1, <1>2 DEF SignedAt
<1>4. imm \in Int
  BY <1>1, <1>3
<1>5. Spans(imm, 1, 8, TRUE)
  BY <1>1, <1>3 DEF Spans
<1>6. /\ (imm \div 256) % 2 = a /\ (imm \div 8) % 4 = d
      /\ (imm \div 64) % 4 = b /\ (imm \div 2) % 4 = e
      /\ (imm \div 32) % 2 = c
  BY <1>1, <1>3
<1>7. /\ Placed(imm, w, 12, 12, 8) /\ Placed(imm, w, 11, 10, 3)
      /\ Placed(imm, w, 6, 5, 6) /\ Placed(imm, w, 4, 3, 1)
      /\ Placed(imm, w, 2, 2, 5)
  BY <1>6 DEF Placed, a, b, c, d, e
<1>8. \A s \in ManualImm["CB"][3] : Placed(imm, w, s[1], s[2], s[3])
  BY <1>7 DEF ManualImm
<1>9. /\ ManualImm["CB"][1] = 1 /\ ManualImm["CB"][2] = 8
      /\ ("CB" \notin Unsigned) = TRUE
  BY DEF ManualImm, Unsigned
<1> QED BY <1>4, <1>5, <1>8, <1>9, ManualRow DEF imm

\* The CIW format reads the immediate of the manual.
LEMMA ManualCIW ==
  ASSUME NEW w \in InsnWords
  PROVE  FormatCiw(w).imm \in Int /\ ByManual("CIW", FormatCiw(w).imm, w)
<1> DEFINE a == Field(w, 10, 7)
           b == Field(w, 12, 11)
           c == Field(w, 5, 5)
           d == Field(w, 6, 6)
           imm == FormatCiw(w).imm
<1>1. /\ a \in Int /\ 0 <= a /\ a < 16
      /\ b \in Int /\ 0 <= b /\ b < 4
      /\ c \in Int /\ 0 <= c /\ c < 2
      /\ d \in Int /\ 0 <= d /\ d < 2
  BY WordParts, SMT DEF Field
<1>2. imm = 4 * (((a * 4 + b) * 2 + c) * 2 + d)
  BY SMT DEF FormatCiw, Slice, ++
<1> HIDE DEF a, b, c, d, imm
<1>3. imm = 64 * a + 16 * b + 8 * c + 4 * d
  BY <1>1, <1>2
<1>4. imm \in Int
  BY <1>1, <1>3
<1>5. Spans(imm, 2, 9, FALSE)
  BY <1>1, <1>3 DEF Spans
<1>6. /\ (imm \div 16) % 4 = b /\ (imm \div 64) % 16 = a
      /\ (imm \div 4) % 2 = d /\ (imm \div 8) % 2 = c
  BY <1>1, <1>3
<1>7. /\ Placed(imm, w, 12, 11, 4) /\ Placed(imm, w, 10, 7, 6)
      /\ Placed(imm, w, 6, 6, 2) /\ Placed(imm, w, 5, 5, 3)
  BY <1>6 DEF Placed, a, b, c, d
<1>8. \A s \in ManualImm["CIW"][3] : Placed(imm, w, s[1], s[2], s[3])
  BY <1>7 DEF ManualImm
<1>9. /\ ManualImm["CIW"][1] = 2 /\ ManualImm["CIW"][2] = 9
      /\ ("CIW" \notin Unsigned) = FALSE
  BY DEF ManualImm, Unsigned
<1> QED BY <1>4, <1>5, <1>8, <1>9, ManualRow DEF imm

\* The format of c.lwsp reads the immediate of the manual.
LEMMA ManualCLSP4 ==
  ASSUME NEW w \in InsnWords
  PROVE  FormatCiLsp(w, 4).imm \in Int /\ ByManual("CLSP4", FormatCiLsp(w, 4).imm, w)
<1> DEFINE a == Field(w, 3, 2)
           b == Field(w, 12, 12)
           c == Field(w, 6, 4)
           imm == FormatCiLsp(w, 4).imm
<1>1. /\ a \in Int /\ 0 <= a /\ a < 4
      /\ b \in Int /\ 0 <= b /\ b < 2
      /\ c \in Int /\ 0 <= c /\ c < 8
  BY WordParts, SMT DEF Field
<1>2. imm = 4 * ((a * 2 + b) * 8 + c)
  BY SMT DEF FormatCiLsp, Slice, ++
<1> HIDE DEF a, b, c, imm
<1>3. imm = 64 * a + 32 * b + 4 * c
  BY <1>1, <1>2
<1>4. imm \in Int
  BY <1>1, <1>3
<1>5. Spans(imm, 2, 7, FALSE)
  BY <1>1, <1>3 DEF Spans
<1>6. /\ (imm \div 32) % 2 = b /\ (imm \div 4) % 8 = c
      /\ (imm \div 64) % 4 = a
  BY <1>1, <1>3
<1>7. /\ Placed(imm, w, 12, 12, 5) /\ Placed(imm, w, 6, 4, 2)
      /\ Placed(imm, w, 3, 2, 6)
  BY <1>6 DEF Placed, a, b, c
<1>8. \A s \in ManualImm["CLSP4"][3] : Placed(imm, w, s[1], s[2], s[3])
  BY <1>7 DEF ManualImm
<1>9. /\ ManualImm["CLSP4"][1] = 2 /\ ManualImm["CLSP4"][2] = 7
      /\ ("CLSP4" \notin Unsigned) = FALSE
  BY DEF ManualImm, Unsigned
<1> QED BY <1>4, <1>5, <1>8, <1>9, ManualRow DEF imm

\* The format of c.ldsp reads the immediate of the manual.
LEMMA ManualCLSP8 ==
  ASSUME NEW w \in InsnWords
  PROVE  FormatCiLsp(w, 8).imm \in Int /\ ByManual("CLSP8", FormatCiLsp(w, 8).imm, w)
<1> DEFINE a == Field(w, 4, 2)
           b == Field(w, 12, 12)
           c == Field(w, 6, 5)
           imm == FormatCiLsp(w, 8).imm
<1>1. /\ a \in Int /\ 0 <= a /\ a < 8
      /\ b \in Int /\ 0 <= b /\ b < 2
      /\ c \in Int /\ 0 <= c /\ c < 4
  BY WordParts, SMT DEF Field
<1>2. imm = 8 * ((a * 2 + b) * 4 + c)
  BY SMT DEF FormatCiLsp, Slice, ++
<1> HIDE DEF a, b, c, imm
<1>3. imm = 64 * a + 32 * b + 8 * c
  BY <1>1, <1>2
<1>4. imm \in Int
  BY <1>1, <1>3
<1>5. Spans(imm, 3, 8, FALSE)
  BY <1>1, <1>3 DEF Spans
<1>6. /\ (imm \div 32) % 2 = b /\ (imm \div 8) % 4 = c
      /\ (imm \div 64) % 8 = a
  BY <1>1, <1>3
<1>7. /\ Placed(imm, w, 12, 12, 5) /\ Placed(imm, w, 6, 5, 3)
      /\ Placed(imm, w, 4, 2, 6)
  BY <1>6 DEF Placed, a, b, c
<1>8. \A s \in ManualImm["CLSP8"][3] : Placed(imm, w, s[1], s[2], s[3])
  BY <1>7 DEF ManualImm
<1>9. /\ ManualImm["CLSP8"][1] = 3 /\ ManualImm["CLSP8"][2] = 8
      /\ ("CLSP8" \notin Unsigned) = FALSE
  BY DEF ManualImm, Unsigned
<1> QED BY <1>4, <1>5, <1>8, <1>9, ManualRow DEF imm

\* The format of c.swsp reads the immediate of the manual.
LEMMA ManualCSSP4 ==
  ASSUME NEW w \in InsnWords
  PROVE  FormatCss(w, 4).imm \in Int /\ ByManual("CSSP4", FormatCss(w, 4).imm, w)
<1> DEFINE a == Field(w, 8, 7)
           b == Field(w, 12, 9)
           imm == FormatCss(w, 4).imm
<1>1. /\ a \in Int /\ 0 <= a /\ a < 4
      /\ b \in Int /\ 0 <= b /\ b < 16
  BY WordParts, SMT DEF Field
<1>2. imm = 4 * (a * 16 + b)
  BY SMT DEF FormatCss, Slice, ++
<1> HIDE DEF a, b, imm
<1>3. imm = 64 * a + 4 * b
  BY <1>1, <1>2
<1>4. imm \in Int
  BY <1>1, <1>3
<1>5. Spans(imm, 2, 7, FALSE)
  BY <1>1, <1>3 DEF Spans
<1>6. (imm \div 4) % 16 = b /\ (imm \div 64) % 4 = a
  BY <1>1, <1>3
<1>7. Placed(imm, w, 12, 9, 2) /\ Placed(imm, w, 8, 7, 6)
  BY <1>6 DEF Placed, a, b
<1>8. \A s \in ManualImm["CSSP4"][3] : Placed(imm, w, s[1], s[2], s[3])
  BY <1>7 DEF ManualImm
<1>9. /\ ManualImm["CSSP4"][1] = 2 /\ ManualImm["CSSP4"][2] = 7
      /\ ("CSSP4" \notin Unsigned) = FALSE
  BY DEF ManualImm, Unsigned
<1> QED BY <1>4, <1>5, <1>8, <1>9, ManualRow DEF imm

\* The format of c.sdsp reads the immediate of the manual.
LEMMA ManualCSSP8 ==
  ASSUME NEW w \in InsnWords
  PROVE  FormatCss(w, 8).imm \in Int /\ ByManual("CSSP8", FormatCss(w, 8).imm, w)
<1> DEFINE a == Field(w, 9, 7)
           b == Field(w, 12, 10)
           imm == FormatCss(w, 8).imm
<1>1. /\ a \in Int /\ 0 <= a /\ a < 8
      /\ b \in Int /\ 0 <= b /\ b < 8
  BY WordParts, SMT DEF Field
<1>2. imm = 8 * (a * 8 + b)
  BY SMT DEF FormatCss, Slice, ++
<1> HIDE DEF a, b, imm
<1>3. imm = 64 * a + 8 * b
  BY <1>1, <1>2
<1>4. imm \in Int
  BY <1>1, <1>3
<1>5. Spans(imm, 3, 8, FALSE)
  BY <1>1, <1>3 DEF Spans
<1>6. (imm \div 8) % 8 = b /\ (imm \div 64) % 8 = a
  BY <1>1, <1>3
<1>7. Placed(imm, w, 12, 10, 3) /\ Placed(imm, w, 9, 7, 6)
  BY <1>6 DEF Placed, a, b
<1>8. \A s \in ManualImm["CSSP8"][3] : Placed(imm, w, s[1], s[2], s[3])
  BY <1>7 DEF ManualImm
<1>9. /\ ManualImm["CSSP8"][1] = 3 /\ ManualImm["CSSP8"][2] = 8
      /\ ("CSSP8" \notin Unsigned) = FALSE
  BY DEF ManualImm, Unsigned
<1> QED BY <1>4, <1>5, <1>8, <1>9, ManualRow DEF imm

\* The format of c.lw and c.sw reads the immediate of the manual.
LEMMA ManualCL4 ==
  ASSUME NEW w \in InsnWords
  PROVE  OffsetCl(w, 4) \in Int /\ ByManual("CL4", OffsetCl(w, 4), w)
<1> DEFINE a == Field(w, 5, 5)
           b == Field(w, 12, 10)
           c == Field(w, 6, 6)
           imm == OffsetCl(w, 4)
<1>1. /\ a \in Int /\ 0 <= a /\ a < 2
      /\ b \in Int /\ 0 <= b /\ b < 8
      /\ c \in Int /\ 0 <= c /\ c < 2
  BY WordParts, SMT DEF Field
<1>2. imm = 4 * ((a * 8 + b) * 2 + c)
  BY SMT DEF OffsetCl, Slice, ++
<1> HIDE DEF a, b, c, imm
<1>3. imm = 64 * a + 8 * b + 4 * c
  BY <1>1, <1>2
<1>4. imm \in Int
  BY <1>1, <1>3
<1>5. Spans(imm, 2, 6, FALSE)
  BY <1>1, <1>3 DEF Spans
<1>6. /\ (imm \div 8) % 8 = b /\ (imm \div 4) % 2 = c
      /\ (imm \div 64) % 2 = a
  BY <1>1, <1>3
<1>7. /\ Placed(imm, w, 12, 10, 3) /\ Placed(imm, w, 6, 6, 2)
      /\ Placed(imm, w, 5, 5, 6)
  BY <1>6 DEF Placed, a, b, c
<1>8. \A s \in ManualImm["CL4"][3] : Placed(imm, w, s[1], s[2], s[3])
  BY <1>7 DEF ManualImm
<1>9. /\ ManualImm["CL4"][1] = 2 /\ ManualImm["CL4"][2] = 6
      /\ ("CL4" \notin Unsigned) = FALSE
  BY DEF ManualImm, Unsigned
<1> QED BY <1>4, <1>5, <1>8, <1>9, ManualRow DEF imm

\* The format of c.ld and c.sd reads the immediate of the manual.
LEMMA ManualCL8 ==
  ASSUME NEW w \in InsnWords
  PROVE  OffsetCl(w, 8) \in Int /\ ByManual("CL8", OffsetCl(w, 8), w)
<1> DEFINE a == Field(w, 6, 5)
           b == Field(w, 12, 10)
           imm == OffsetCl(w, 8)
<1>1. /\ a \in Int /\ 0 <= a /\ a < 4
      /\ b \in Int /\ 0 <= b /\ b < 8
  BY WordParts, SMT DEF Field
<1>2. imm = 8 * (a * 8 + b)
  BY SMT DEF OffsetCl, Slice, ++
<1> HIDE DEF a, b, imm
<1>3. imm = 64 * a + 8 * b
  BY <1>1, <1>2
<1>4. imm \in Int
  BY <1>1, <1>3
<1>5. Spans(imm, 3, 7, FALSE)
  BY <1>1, <1>3 DEF Spans
<1>6. (imm \div 8) % 8 = b /\ (imm \div 64) % 4 = a
  BY <1>1, <1>3
<1>7. Placed(imm, w, 12, 10, 3) /\ Placed(imm, w, 6, 5, 6)
  BY <1>6 DEF Placed, a, b
<1>8. \A s \in ManualImm["CL8"][3] : Placed(imm, w, s[1], s[2], s[3])
  BY <1>7 DEF ManualImm
<1>9. /\ ManualImm["CL8"][1] = 3 /\ ManualImm["CL8"][2] = 7
      /\ ("CL8" \notin Unsigned) = FALSE
  BY DEF ManualImm, Unsigned
<1> QED BY <1>4, <1>5, <1>8, <1>9, ManualRow DEF imm

-----------------------------------------------------------------------------
(***************************************************************************)
(* Outputs.                                                                *)
(***************************************************************************)
\* A register is a multiple of four wide, so that wrapping an address keeps
\* its alignment.
LEMMA WrapAlign ==
  ASSUME NEW v \in Int
  PROVE  Wrap(v) \in Nat /\ Wrap(v) % 4 = v % 4 /\ Wrap(v) % 2 = v % 2
<1> DEFINE n == XLEN - 2
           q == 2^n
           m == 2^XLEN
           r == v % m
           d == v \div m
           z == q * d
<1>1. n \in Nat /\ XLEN = 2 + n
  <2>1. CASE LANES = 4
    BY <2>1, FormatsAssumption DEF XLEN
  <2>2. CASE LANES = 8
    BY <2>2, FormatsAssumption DEF XLEN
  <2> QED BY <2>1, <2>2, FormatsAssumption
<1>2. q \in Nat /\ q > 0
  BY <1>1, PowerType
<1>3. m = 4 * q
  <2>1. 2^(2 + n) = 2^2 * 2^n
    BY <1>1, PowerSum
  <2> QED BY <2>1, <1>1
<1> HIDE DEF n, q, m
<1>4. /\ r \in Nat /\ d \in Int /\ v = (4 * q) * d + r
  <2>1. m \in Nat /\ m > 0
    BY <1>2, <1>3
  <2>2. r \in Nat /\ d \in Int /\ v = m * d + r
    BY <2>1
  <2> QED BY <1>3, <2>2
<1>5. z \in Int /\ (4 * q) * d = 4 * z
  BY <1>2, <1>4
<1> HIDE DEF r, d, z
<1>6. v = 4 * z + r /\ z \in Int /\ r \in Int
  BY <1>4, <1>5
<1>7. r % 4 = v % 4
  BY ONLY <1>6
<1>8. r % 2 = v % 2
  BY ONLY <1>6
<1> QED BY <1>4, <1>7, <1>8 DEF r, m, Wrap

\* The parts of Legal: the register, the next pc and the memory access.
RdLegal(s) == s.rd_addr = 0 => s.rd_wdata = 0
Align(i) == IF Ialign16(i) THEN 2 ELSE 4
PcLegal(i, s) ==
  ~s.trap /\ i.pc_rdata % Align(i) = 0 => s.pc_wdata % Align(i) = 0
MaskLegal(s) ==
  LET mask == s.mem_rmask + s.mem_wmask
  IN  mask /= 0 /\ ~s.trap => Cardinality(Selected(mask)) \in {1, 2, 4, 8}
MemLegal(i, s) ==
  /\ s.mem_rmask = 0 \/ s.mem_wmask = 0
  /\ MaskLegal(s)
  /\ Aligned(i) => s.mem_addr % LANES = 0

\* Legal is the conjunction of its parts.
LEMMA LegalParts ==
  ASSUME NEW i, NEW s, RdLegal(s), PcLegal(i, s), MemLegal(i, s)
  PROVE  Legal(i, s)
BY Zenon DEF Legal, RdLegal, PcLegal, MemLegal, MaskLegal, Align

\* Without an access to memory.
Quiet(s) == s.mem_addr = 0 /\ s.mem_rmask = 0 /\ s.mem_wmask = 0
\* No access to memory is a legal one.
LEMMA QuietLegal ==
  ASSUME NEW i, NEW s, Quiet(s)
  PROVE  MemLegal(i, s)
<1>1. s.mem_rmask + s.mem_wmask = 0
  BY DEF Quiet
<1>2. MaskLegal(s)
  BY <1>1 DEF MaskLegal
<1>3. 0 % LANES = 0
  BY FormatsAssumption
<1> QED BY <1>2, <1>3 DEF MemLegal, Quiet

\* Going on to the next instruction.
LEMMA NextLegal ==
  ASSUME NEW i, NEW s, i.pc_rdata \in Int, s.pc_wdata = Next4(i)
  PROVE  PcLegal(i, s)
BY WrapAlign DEF PcLegal, Align, Next4

\* Where a compressed instruction does not trap for want of C, a pc may be a
\* halfword.
HasC(i) == MisaOk(i, C) => Ialign16(i)
\* A compressed instruction is only in an ISA for which COMPRESSED is defined.
LEMMA HasCLegal ==
  ASSUME NEW i, NEW n \in IsaOf(Parts(i.def)), n \notin IsaOf({"I", "M"})
  PROVE  HasC(i)
<1>1. "COMPRESSED" \in i.def
  BY DEF Parts
<1> QED BY <1>1 DEF HasC, MisaOk, Ialign16, C

\* Going on after a compressed instruction: that the ISA has C is what makes
\* its halfword aligned.
LEMMA Next2Legal ==
  ASSUME NEW i, NEW s, i.pc_rdata \in Int, HasC(i), ~MisaOk(i, C) => s.trap,
         s.pc_wdata = Next2(i)
  PROVE  PcLegal(i, s)
<1>1. Wrap(i.pc_rdata + 2) % 2 = (i.pc_rdata + 2) % 2
  BY WrapAlign
<1>2. i.pc_rdata % 2 = 0 => (i.pc_rdata + 2) % 2 = 0
  OBVIOUS
<1>3. ~s.trap => Align(i) = 2
  BY DEF HasC, Align
<1> QED BY <1>1, <1>2, <1>3, Zenon DEF PcLegal, Next2

-----------------------------------------------------------------------------
\* The lanes of an access: numbytes of them from an offset on.
P2(k) == 2^k
\* Powers of two up to a register of lanes.
LEMMA P2Values ==
  /\ P2(0) = 1 /\ P2(1) = 2 /\ P2(2) = 4 /\ P2(3) = 8 /\ P2(4) = 16
  /\ P2(5) = 32 /\ P2(6) = 64 /\ P2(7) = 128 /\ P2(8) = 256
BY DEF P2

\* The lanes of a mask of 1, 2, 4 or 8 ones, shifted.
LEMMA MaskBits ==
  ASSUME NEW numbytes \in {1, 2, 4, 8}, NEW off \in Int, 0 <= off, off + numbytes <= 8,
         NEW k \in Int, 0 <= k, k < 8
  PROVE  Bit(Ones(numbytes) * 2^off, k) <=> off <= k /\ k < off + numbytes
<1> DEFINE m == (P2(numbytes) - 1) * P2(off)
<1>1. Bit(Ones(numbytes) * 2^off, k) <=> (m \div P2(k)) % 2 = 1
  BY Zenon DEF Bit, Ones, P2
<1>2. (m \div P2(k)) % 2 = 1 <=> off <= k /\ k < off + numbytes
  <2>1. CASE numbytes = 1
    BY <2>1, P2Values
  <2>2. CASE numbytes = 2
    BY <2>2, P2Values
  <2>3. CASE numbytes = 4
    BY <2>3, P2Values
  <2>4. CASE numbytes = 8
    BY <2>4, P2Values
  <2> QED BY <2>1, <2>2, <2>3, <2>4
<1> QED BY <1>1, <1>2

\* They are as many as the access has bytes, none of them beyond the register.
LEMMA MaskLanes ==
  ASSUME NEW numbytes \in {1, 2, 4, 8}, NEW off \in Int, 0 <= off, off + numbytes <= LANES
  PROVE  LET mask == (Ones(numbytes) * 2^off) % 2^LANES
         IN  Cardinality(Selected(mask)) = numbytes
<1> DEFINE m == Ones(numbytes) * 2^off
           mask == m % 2^LANES
<1>1. mask = m
  <2>1. m = (P2(numbytes) - 1) * P2(off) /\ 2^LANES = P2(LANES)
    BY Zenon DEF Ones, P2
  <2>2. CASE LANES = 4
    <3>1. (P2(numbytes) - 1) * P2(off) \in Nat /\ (P2(numbytes) - 1) * P2(off) < 16
      BY <2>2, P2Values
    <3> QED BY <2>1, <2>2, <3>1, P2Values
  <2>3. CASE LANES = 8
    <3>1. (P2(numbytes) - 1) * P2(off) \in Nat /\ (P2(numbytes) - 1) * P2(off) < 256
      BY <2>3, P2Values
    <3> QED BY <2>1, <2>3, <3>1, P2Values
  <2> QED BY <2>2, <2>3, FormatsAssumption
<1>2. \A k \in 0 .. LANES - 1 : Bit(m, k) <=> off <= k /\ k < off + numbytes
  BY MaskBits, FormatsAssumption
<1> HIDE DEF m
<1>3. Selected(mask) = off .. off + numbytes - 1
  BY <1>1, <1>2, FormatsAssumption DEF Selected
<1>4. off + numbytes - 1 \in Int /\ off <= off + numbytes - 1
  OBVIOUS
<1>5. Cardinality(off .. off + numbytes - 1) = off + numbytes - 1 - off + 1
  BY <1>4, FS_Interval
<1> QED BY <1>3, <1>5 DEF m

\* What Loads and Stores leave of an access that does not trap: an address
\* within one register width, and all of the bytes of the access.
LEMMA AccessLegal ==
  ASSUME NEW i, NEW s, NEW addr \in Int, NEW numbytes \in {1, 2, 4, 8},
         numbytes <= LANES, s.mem_addr = MemAddr(i, addr),
         AccessTraps(i, addr, numbytes) => s.trap,
         \/ s.mem_rmask = MemMask(i, addr, numbytes) /\ s.mem_wmask = 0
         \/ s.mem_wmask = MemMask(i, addr, numbytes) /\ s.mem_rmask = 0
  PROVE  MemLegal(i, s)
<1> DEFINE off == Offset(i, addr)
           mask == MemMask(i, addr, numbytes)
<1>1. Aligned(i) => s.mem_addr % LANES = 0
  BY FormatsAssumption DEF MemAddr
<1>2. ASSUME ~s.trap PROVE Cardinality(Selected(mask)) = numbytes
  <2>1. off \in Int /\ 0 <= off /\ off + numbytes <= LANES
    <3>1. CASE Aligned(i)
      <4>1. addr % numbytes = 0 /\ off = addr % LANES
        BY <1>2, <3>1 DEF AccessTraps, Offset
      <4> HIDE DEF off
      <4>2. CASE LANES = 4
        BY <4>1, <4>2
      <4>3. CASE LANES = 8
        BY <4>1, <4>3
      <4> QED BY <4>2, <4>3, FormatsAssumption
    <3>2. CASE ~Aligned(i)
      BY <3>2, FormatsAssumption DEF Offset
    <3> QED BY <3>1, <3>2
  <2> HIDE DEF off
  <2>2. mask = (Ones(numbytes) * 2^off) % 2^LANES
    BY Zenon DEF MemMask, off
  <2> QED BY <2>1, <2>2, MaskLanes
<1>3. mask \in Int
  <2>1. 2^LANES \in Nat /\ 2^LANES > 0 /\ LANES \in Nat
    BY PowerType, FormatsAssumption
  <2>2. Ones(numbytes) \in Int
    BY PowerType DEF Ones
  <2>3. off \in Nat
    BY FormatsAssumption DEF Offset
  <2>4. 2^off \in Nat
    BY <2>3, PowerType
  <2> HIDE DEF off
  <2>5. mask = (Ones(numbytes) * 2^off) % 2^LANES
    BY Zenon DEF MemMask, off
  <2>6. Ones(numbytes) * 2^off \in Int
    BY <2>2, <2>4
  <2> QED BY <2>1, <2>5, <2>6
<1> HIDE DEF mask
<1>4. s.mem_rmask + s.mem_wmask = mask
  BY <1>3 DEF mask
<1>5. MaskLegal(s)
  BY <1>2, <1>4 DEF MaskLegal
<1> QED BY <1>1, <1>5 DEF MemLegal

\* The base instructions that go on to the next one.
LEMMA BaseLegal ==
  ASSUME NEW i, NEW row, NEW wmode, i.pc_rdata \in Int
  PROVE  /\ Legal(i, InsnLui(i))
         /\ Legal(i, InsnAuipc(i))
         /\ Legal(i, InsnImm(row, wmode, i))
         /\ Legal(i, InsnShimm(row, wmode, i))
         /\ Legal(i, InsnAlu(row, wmode, i))
<1>1. Legal(i, InsnLui(i))
  <2> DEFINE s == InsnLui(i)
  <2>1. RdLegal(s) /\ Quiet(s) /\ s.pc_wdata = Next4(i)
    BY DEF InsnLui, Default, RdWdata, RdLegal, Quiet
  <2> HIDE DEF s
  <2>2. PcLegal(i, s)
    BY <2>1, NextLegal
  <2> QED BY <2>1, <2>2, QuietLegal, LegalParts DEF s
<1>2. Legal(i, InsnAuipc(i))
  <2> DEFINE s == InsnAuipc(i)
  <2>1. RdLegal(s) /\ Quiet(s) /\ s.pc_wdata = Next4(i)
    BY DEF InsnAuipc, Default, RdWdata, RdLegal, Quiet
  <2> HIDE DEF s
  <2>2. PcLegal(i, s)
    BY <2>1, NextLegal
  <2> QED BY <2>1, <2>2, QuietLegal, LegalParts DEF s
<1>3. Legal(i, InsnImm(row, wmode, i))
  <2> DEFINE s == InsnImm(row, wmode, i)
  <2>1. RdLegal(s) /\ Quiet(s) /\ s.pc_wdata = Next4(i)
    BY DEF InsnImm, Default, RdWdata, RdLegal, Quiet
  <2> HIDE DEF s
  <2>2. PcLegal(i, s)
    BY <2>1, NextLegal
  <2> QED BY <2>1, <2>2, QuietLegal, LegalParts DEF s
<1>4. Legal(i, InsnShimm(row, wmode, i))
  <2> DEFINE s == InsnShimm(row, wmode, i)
  <2>1. RdLegal(s) /\ Quiet(s) /\ s.pc_wdata = Next4(i)
    BY DEF InsnShimm, Default, RdWdata, RdLegal, Quiet
  <2> HIDE DEF s
  <2>2. PcLegal(i, s)
    BY <2>1, NextLegal
  <2> QED BY <2>1, <2>2, QuietLegal, LegalParts DEF s
<1>5. Legal(i, InsnAlu(row, wmode, i))
  <2> DEFINE s == InsnAlu(row, wmode, i)
  <2>1. RdLegal(s) /\ Quiet(s) /\ s.pc_wdata = Next4(i)
    BY DEF InsnAlu, Default, RdWdata, RdLegal, Quiet
  <2> HIDE DEF s
  <2>2. PcLegal(i, s)
    BY <2>1, NextLegal
  <2> QED BY <2>1, <2>2, QuietLegal, LegalParts DEF s
<1> QED BY <1>1, <1>2, <1>3, <1>4, <1>5

\* The compressed instructions that go on to the next one.
LEMMA CompressedLegal ==
  ASSUME NEW i, NEW row, NEW wmode, i.pc_rdata \in Int, HasC(i)
  PROVE  /\ Legal(i, InsnCAddi4spn(i))
         /\ Legal(i, InsnCAddi(wmode, i))
         /\ Legal(i, InsnCLi(i))
         /\ Legal(i, InsnCAddi16sp(i))
         /\ Legal(i, InsnCLui(i))
         /\ Legal(i, InsnCSri(row, i))
         /\ Legal(i, InsnCAndi(i))
         /\ Legal(i, InsnCAlu(row, wmode, i))
         /\ Legal(i, InsnCSli(i))
         /\ Legal(i, InsnCMvadd(row, i))
<1>1. Legal(i, InsnCAddi4spn(i))
  <2> DEFINE s == InsnCAddi4spn(i)
  <2>1. RdLegal(s) /\ Quiet(s) /\ s.pc_wdata = Next2(i) /\ (~MisaOk(i, C) => s.trap)
    BY DEF InsnCAddi4spn, Default, RdWdata, RdLegal, Quiet
  <2> HIDE DEF s
  <2>2. PcLegal(i, s)
    BY <2>1, Next2Legal
  <2> QED BY <2>1, <2>2, QuietLegal, LegalParts DEF s
<1>2. Legal(i, InsnCAddi(wmode, i))
  <2> DEFINE s == InsnCAddi(wmode, i)
  <2>1. RdLegal(s) /\ Quiet(s) /\ s.pc_wdata = Next2(i) /\ (~MisaOk(i, C) => s.trap)
    BY DEF InsnCAddi, Default, RdWdata, RdLegal, Quiet
  <2> HIDE DEF s
  <2>2. PcLegal(i, s)
    BY <2>1, Next2Legal
  <2> QED BY <2>1, <2>2, QuietLegal, LegalParts DEF s
<1>3. Legal(i, InsnCLi(i))
  <2> DEFINE s == InsnCLi(i)
  <2>1. RdLegal(s) /\ Quiet(s) /\ s.pc_wdata = Next2(i) /\ (~MisaOk(i, C) => s.trap)
    BY DEF InsnCLi, Default, RdWdata, RdLegal, Quiet
  <2> HIDE DEF s
  <2>2. PcLegal(i, s)
    BY <2>1, Next2Legal
  <2> QED BY <2>1, <2>2, QuietLegal, LegalParts DEF s
<1>4. Legal(i, InsnCAddi16sp(i))
  <2> DEFINE s == InsnCAddi16sp(i)
  <2>1. RdLegal(s) /\ Quiet(s) /\ s.pc_wdata = Next2(i) /\ (~MisaOk(i, C) => s.trap)
    BY DEF InsnCAddi16sp, Default, RdWdata, RdLegal, Quiet
  <2> HIDE DEF s
  <2>2. PcLegal(i, s)
    BY <2>1, Next2Legal
  <2> QED BY <2>1, <2>2, QuietLegal, LegalParts DEF s
<1>5. Legal(i, InsnCLui(i))
  <2> DEFINE s == InsnCLui(i)
  <2>1. RdLegal(s) /\ Quiet(s) /\ s.pc_wdata = Next2(i) /\ (~MisaOk(i, C) => s.trap)
    BY DEF InsnCLui, Default, RdWdata, RdLegal, Quiet
  <2> HIDE DEF s
  <2>2. PcLegal(i, s)
    BY <2>1, Next2Legal
  <2> QED BY <2>1, <2>2, QuietLegal, LegalParts DEF s
<1>6. Legal(i, InsnCSri(row, i))
  <2> DEFINE s == InsnCSri(row, i)
  <2>1. RdLegal(s) /\ Quiet(s) /\ s.pc_wdata = Next2(i) /\ (~MisaOk(i, C) => s.trap)
    BY DEF InsnCSri, Default, RdWdata, RdLegal, Quiet
  <2> HIDE DEF s
  <2>2. PcLegal(i, s)
    BY <2>1, Next2Legal
  <2> QED BY <2>1, <2>2, QuietLegal, LegalParts DEF s
<1>7. Legal(i, InsnCAndi(i))
  <2> DEFINE s == InsnCAndi(i)
  <2>1. RdLegal(s) /\ Quiet(s) /\ s.pc_wdata = Next2(i) /\ (~MisaOk(i, C) => s.trap)
    BY DEF InsnCAndi, Default, RdWdata, RdLegal, Quiet
  <2> HIDE DEF s
  <2>2. PcLegal(i, s)
    BY <2>1, Next2Legal
  <2> QED BY <2>1, <2>2, QuietLegal, LegalParts DEF s
<1>8. Legal(i, InsnCAlu(row, wmode, i))
  <2> DEFINE s == InsnCAlu(row, wmode, i)
  <2>1. RdLegal(s) /\ Quiet(s) /\ s.pc_wdata = Next2(i) /\ (~MisaOk(i, C) => s.trap)
    BY DEF InsnCAlu, Default, RdWdata, RdLegal, Quiet
  <2> HIDE DEF s
  <2>2. PcLegal(i, s)
    BY <2>1, Next2Legal
  <2> QED BY <2>1, <2>2, QuietLegal, LegalParts DEF s
<1>9. Legal(i, InsnCSli(i))
  <2> DEFINE s == InsnCSli(i)
  <2>1. RdLegal(s) /\ Quiet(s) /\ s.pc_wdata = Next2(i) /\ (~MisaOk(i, C) => s.trap)
    BY DEF InsnCSli, Default, RdWdata, RdLegal, Quiet
  <2> HIDE DEF s
  <2>2. PcLegal(i, s)
    BY <2>1, Next2Legal
  <2> QED BY <2>1, <2>2, QuietLegal, LegalParts DEF s
<1>10. Legal(i, InsnCMvadd(row, i))
  <2> DEFINE s == InsnCMvadd(row, i)
  <2>1. RdLegal(s) /\ Quiet(s) /\ s.pc_wdata = Next2(i) /\ (~MisaOk(i, C) => s.trap)
    BY DEF InsnCMvadd, Default, RdWdata, RdLegal, Quiet
  <2> HIDE DEF s
  <2>2. PcLegal(i, s)
    BY <2>1, Next2Legal
  <2> QED BY <2>1, <2>2, QuietLegal, LegalParts DEF s
<1> QED BY <1>1, <1>2, <1>3, <1>4, <1>5, <1>6, <1>7, <1>8, <1>9, <1>10

\* A jump or branch whose target is not aligned traps.
LEMMA JumpsLegal ==
  ASSUME NEW i, NEW row
  PROVE  /\ Legal(i, InsnJal(i))
         /\ Legal(i, InsnJalr(i))
         /\ Legal(i, InsnB(row, i))
<1>1. Legal(i, InsnJal(i))
  <2> DEFINE s == InsnJal(i)
  <2>1. RdLegal(s) /\ Quiet(s)
    BY DEF InsnJal, Default, RdWdata, RdLegal, Quiet
  <2>2. JumpTraps(i, s.pc_wdata) => s.trap
    BY DEF InsnJal, Default
  <2> HIDE DEF s
  <2>3. PcLegal(i, s)
    BY <2>2 DEF PcLegal, Align, JumpTraps
  <2> QED BY <2>1, <2>3, QuietLegal, LegalParts DEF s
<1>2. Legal(i, InsnJalr(i))
  <2> DEFINE s == InsnJalr(i)
  <2>1. RdLegal(s) /\ Quiet(s)
    BY DEF InsnJalr, Default, RdWdata, RdLegal, Quiet
  <2>2. JumpTraps(i, s.pc_wdata) => s.trap
    BY DEF InsnJalr, Default
  <2> HIDE DEF s
  <2>3. PcLegal(i, s)
    BY <2>2 DEF PcLegal, Align, JumpTraps
  <2> QED BY <2>1, <2>3, QuietLegal, LegalParts DEF s
<1>3. Legal(i, InsnB(row, i))
  <2> DEFINE s == InsnB(row, i)
  <2>1. RdLegal(s) /\ Quiet(s)
    BY DEF InsnB, Default, RdWdata, RdLegal, Quiet
  <2>2. JumpTraps(i, s.pc_wdata) => s.trap
    BY DEF InsnB, Default
  <2> HIDE DEF s
  <2>3. PcLegal(i, s)
    BY <2>2 DEF PcLegal, Align, JumpTraps
  <2> QED BY <2>1, <2>3, QuietLegal, LegalParts DEF s
<1> QED BY <1>1, <1>2, <1>3

\* So do the compressed ones; the offset of c.j and c.jal is even.
LEMMA CompressedJumpsLegal ==
  ASSUME NEW i, NEW row, HasC(i)
  PROVE  /\ Legal(i, InsnCB(row, i))
         /\ Legal(i, InsnCJalr(row, i))
<1>1. Legal(i, InsnCB(row, i))
  <2> DEFINE s == InsnCB(row, i)
  <2>1. RdLegal(s) /\ Quiet(s)
    BY DEF InsnCB, Default, RdWdata, RdLegal, Quiet
  <2>2. s.pc_wdata % 2 /= 0 => s.trap
    BY DEF InsnCB, Default
  <2>3. ~MisaOk(i, C) => s.trap
    BY DEF InsnCB, Default
  <2> HIDE DEF s
  <2>4. PcLegal(i, s)
    BY <2>2, <2>3 DEF PcLegal, Align, HasC
  <2> QED BY <2>1, <2>4, QuietLegal, LegalParts DEF s
<1>2. Legal(i, InsnCJalr(row, i))
  <2> DEFINE s == InsnCJalr(row, i)
  <2>1. RdLegal(s) /\ Quiet(s)
    BY DEF InsnCJalr, Default, RdWdata, RdLegal, Quiet
  <2>2. s.pc_wdata % 2 /= 0 => s.trap
    BY DEF InsnCJalr, Default
  <2>3. ~MisaOk(i, C) => s.trap
    BY DEF InsnCJalr, Default
  <2> HIDE DEF s
  <2>4. PcLegal(i, s)
    BY <2>2, <2>3 DEF PcLegal, Align, HasC
  <2> QED BY <2>1, <2>4, QuietLegal, LegalParts DEF s
<1> QED BY <1>1, <1>2

\* c.jal and c.j, the offset of which is even.
LEMMA CJalLegal ==
  ASSUME NEW i, NEW row, i.pc_rdata \in Int, i.insn \in InsnWords, HasC(i)
  PROVE  Legal(i, InsnCJal(row, i))
<1> DEFINE s == InsnCJal(row, i)
           imm == FormatCj(i.insn).imm
<1>1. RdLegal(s) /\ Quiet(s)
  BY DEF InsnCJal, Default, RdLegal, Quiet
<1>2. s.pc_wdata = Wrap(i.pc_rdata + imm) /\ (~MisaOk(i, C) => s.trap)
  BY DEF InsnCJal, Default
<1>3. imm \in Int /\ ByManual("CJ", imm, i.insn)
  BY ManualCJ
<1> HIDE DEF s, imm
<1>4. Spans(imm, 1, 11, "CJ" \notin Unsigned)
  <2>1. ManualImm["CJ"][1] = 1 /\ ManualImm["CJ"][2] = 11
    BY DEF ManualImm
  <2> QED BY <1>3, <2>1, Zenon DEF ByManual
<1>5. imm % 2 = 0
  BY <1>3, <1>4 DEF Spans
<1>6. Wrap(i.pc_rdata + imm) % 2 = (i.pc_rdata + imm) % 2
  BY <1>3, WrapAlign
<1>7. i.pc_rdata % 2 = 0 => (i.pc_rdata + imm) % 2 = 0
  BY <1>3, <1>5
<1>8. PcLegal(i, s)
  <2>1. ~s.trap => Align(i) = 2
    BY <1>2 DEF HasC, Align
  <2> QED BY <1>2, <1>6, <1>7, <2>1, Zenon DEF PcLegal
<1> QED BY <1>1, <1>8, QuietLegal, LegalParts DEF s

\* The loads and stores.
LEMMA AccessInsnsLegal ==
  ASSUME NEW i, NEW row, i.pc_rdata \in Int, i.rs1_rdata \in Int, i.insn \in InsnWords,
         row[2] \in {1, 2, 4, 8}, row[2] <= LANES
  PROVE  /\ Legal(i, InsnL(row, i))
         /\ Legal(i, InsnS(row, i))
<1>1. Legal(i, InsnL(row, i))
  <2> DEFINE s == InsnL(row, i)
             addr == Wrap(i.rs1_rdata + FormatI(i.insn).imm)
  <2>1. /\ s.mem_addr = MemAddr(i, addr) /\ s.mem_wmask = 0
        /\ s.mem_rmask = MemMask(i, addr, row[2])
        /\ AccessTraps(i, addr, row[2]) => s.trap
    BY DEF InsnL, Loads, Default
  <2>2. RdLegal(s) /\ s.pc_wdata = Next4(i)
    BY DEF InsnL, Loads, Default, RdWdata, RdLegal
  <2>3. FormatI(i.insn).imm \in Int
    BY ManualI
  <2>4. addr \in Int
    BY <2>3, WrapAlign
  <2> HIDE DEF s, addr
  <2>5. MemLegal(i, s)
    BY <2>1, <2>4, AccessLegal
  <2>6. PcLegal(i, s)
    BY <2>2, NextLegal
  <2> QED BY <2>2, <2>5, <2>6, LegalParts DEF s
<1>2. Legal(i, InsnS(row, i))
  <2> DEFINE s == InsnS(row, i)
             addr == Wrap(i.rs1_rdata + FormatS(i.insn).imm)
  <2>1. /\ s.mem_addr = MemAddr(i, addr) /\ s.mem_rmask = 0
        /\ s.mem_wmask = MemMask(i, addr, row[2])
        /\ AccessTraps(i, addr, row[2]) => s.trap
    BY DEF InsnS, Stores, Default
  <2>2. RdLegal(s) /\ s.pc_wdata = Next4(i)
    BY DEF InsnS, Stores, Default, RdWdata, RdLegal
  <2>3. FormatS(i.insn).imm \in Int
    BY ManualS
  <2>4. addr \in Int
    BY <2>3, WrapAlign
  <2> HIDE DEF s, addr
  <2>5. MemLegal(i, s)
    BY <2>1, <2>4, AccessLegal
  <2>6. PcLegal(i, s)
    BY <2>2, NextLegal
  <2> QED BY <2>2, <2>5, <2>6, LegalParts DEF s
<1> QED BY <1>1, <1>2

\* The compressed loads and stores.
LEMMA CompressedAccessLegal ==
  ASSUME NEW i, NEW row, i.pc_rdata \in Int, i.rs1_rdata \in Int, i.insn \in InsnWords,
         row[2] \in {4, 8}, row[2] <= LANES, HasC(i)
  PROVE  /\ Legal(i, InsnCL(row, i))
         /\ Legal(i, InsnCS(row, i))
         /\ Legal(i, InsnCLsp(row, i))
         /\ Legal(i, InsnCSsp(row, i))
<1>1. Legal(i, InsnCL(row, i))
  <2> DEFINE s == InsnCL(row, i)
             addr == Wrap(i.rs1_rdata + FormatCl(i.insn, row[2]).imm)
  <2>1. /\ s.mem_addr = MemAddr(i, addr) /\ s.mem_wmask = 0
        /\ s.mem_rmask = MemMask(i, addr, row[2])
        /\ AccessTraps(i, addr, row[2]) => s.trap
    BY DEF InsnCL, Loads, Default
  <2>2. RdLegal(s) /\ s.pc_wdata = Next2(i) /\ (~MisaOk(i, C) => s.trap)
    BY DEF InsnCL, Loads, Default, RdWdata, RdLegal
  <2>3. FormatCl(i.insn, row[2]).imm \in Int
    <3>1. FormatCl(i.insn, 4).imm \in Int /\ FormatCl(i.insn, 8).imm \in Int
      BY ManualCL4, ManualCL8 DEF FormatCl
    <3>2. CASE row[2] = 4
      BY <3>1, <3>2, Zenon
    <3>3. CASE row[2] = 8
      BY <3>1, <3>3, Zenon
    <3> QED BY <3>2, <3>3
  <2>4. addr \in Int
    BY <2>3, WrapAlign
  <2> HIDE DEF s, addr
  <2>5. MemLegal(i, s)
    BY <2>1, <2>4, AccessLegal
  <2>6. PcLegal(i, s)
    BY <2>2, Next2Legal
  <2> QED BY <2>2, <2>5, <2>6, LegalParts DEF s
<1>2. Legal(i, InsnCS(row, i))
  <2> DEFINE s == InsnCS(row, i)
             addr == Wrap(i.rs1_rdata + FormatCs(i.insn, row[2]).imm)
  <2>1. /\ s.mem_addr = MemAddr(i, addr) /\ s.mem_rmask = 0
        /\ s.mem_wmask = MemMask(i, addr, row[2])
        /\ AccessTraps(i, addr, row[2]) => s.trap
    BY DEF InsnCS, Stores, Default
  <2>2. RdLegal(s) /\ s.pc_wdata = Next2(i) /\ (~MisaOk(i, C) => s.trap)
    BY DEF InsnCS, Stores, Default, RdWdata, RdLegal
  <2>3. FormatCs(i.insn, row[2]).imm \in Int
    <3>1. FormatCs(i.insn, 4).imm \in Int /\ FormatCs(i.insn, 8).imm \in Int
      BY ManualCL4, ManualCL8 DEF FormatCs
    <3>2. CASE row[2] = 4
      BY <3>1, <3>2, Zenon
    <3>3. CASE row[2] = 8
      BY <3>1, <3>3, Zenon
    <3> QED BY <3>2, <3>3
  <2>4. addr \in Int
    BY <2>3, WrapAlign
  <2> HIDE DEF s, addr
  <2>5. MemLegal(i, s)
    BY <2>1, <2>4, AccessLegal
  <2>6. PcLegal(i, s)
    BY <2>2, Next2Legal
  <2> QED BY <2>2, <2>5, <2>6, LegalParts DEF s
<1>3. Legal(i, InsnCLsp(row, i))
  <2> DEFINE s == InsnCLsp(row, i)
             addr == Wrap(i.rs1_rdata + FormatCiLsp(i.insn, row[2]).imm)
  <2>1. /\ s.mem_addr = MemAddr(i, addr) /\ s.mem_wmask = 0
        /\ s.mem_rmask = MemMask(i, addr, row[2])
        /\ AccessTraps(i, addr, row[2]) => s.trap
    BY DEF InsnCLsp, Loads, Default
  <2>2. RdLegal(s) /\ s.pc_wdata = Next2(i) /\ (~MisaOk(i, C) => s.trap)
    BY DEF InsnCLsp, Loads, Default, RdWdata, RdLegal
  <2>3. FormatCiLsp(i.insn, row[2]).imm \in Int
    <3>1. FormatCiLsp(i.insn, 4).imm \in Int /\ FormatCiLsp(i.insn, 8).imm \in Int
      BY ManualCLSP4, ManualCLSP8 DEF FormatCiLsp
    <3>2. CASE row[2] = 4
      BY <3>1, <3>2, Zenon
    <3>3. CASE row[2] = 8
      BY <3>1, <3>3, Zenon
    <3> QED BY <3>2, <3>3
  <2>4. addr \in Int
    BY <2>3, WrapAlign
  <2> HIDE DEF s, addr
  <2>5. MemLegal(i, s)
    BY <2>1, <2>4, AccessLegal
  <2>6. PcLegal(i, s)
    BY <2>2, Next2Legal
  <2> QED BY <2>2, <2>5, <2>6, LegalParts DEF s
<1>4. Legal(i, InsnCSsp(row, i))
  <2> DEFINE s == InsnCSsp(row, i)
             addr == Wrap(i.rs1_rdata + FormatCss(i.insn, row[2]).imm)
  <2>1. /\ s.mem_addr = MemAddr(i, addr) /\ s.mem_rmask = 0
        /\ s.mem_wmask = MemMask(i, addr, row[2])
        /\ AccessTraps(i, addr, row[2]) => s.trap
    BY DEF InsnCSsp, Stores, Default
  <2>2. RdLegal(s) /\ s.pc_wdata = Next2(i) /\ (~MisaOk(i, C) => s.trap)
    BY DEF InsnCSsp, Stores, Default, RdWdata, RdLegal
  <2>3. FormatCss(i.insn, row[2]).imm \in Int
    <3>1. FormatCss(i.insn, 4).imm \in Int /\ FormatCss(i.insn, 8).imm \in Int
      BY ManualCSSP4, ManualCSSP8
    <3>2. CASE row[2] = 4
      BY <3>1, <3>2, Zenon
    <3>3. CASE row[2] = 8
      BY <3>1, <3>3, Zenon
    <3> QED BY <3>2, <3>3
  <2>4. addr \in Int
    BY <2>3, WrapAlign
  <2> HIDE DEF s, addr
  <2>5. MemLegal(i, s)
    BY <2>1, <2>4, AccessLegal
  <2>6. PcLegal(i, s)
    BY <2>2, Next2Legal
  <2> QED BY <2>2, <2>5, <2>6, LegalParts DEF s
<1> QED BY <1>1, <1>2, <1>3, <1>4

\* The compressed instructions, which only an ISA with C has.
CInsns ==
  {"c_addi4spn", "c_li", "c_addi16sp", "c_lui", "c_andi", "c_slli"} \cup
  DOMAIN CLoads \cup DOMAIN CLoads64 \cup DOMAIN CStores \cup DOMAIN CStores64 \cup
  {"c_addi", "c_addiw"} \cup DOMAIN CJumps \cup DOMAIN CRightShifts \cup
  DOMAIN CAlus \cup DOMAIN CAlus64 \cup DOMAIN CBranches \cup DOMAIN CSpLoads \cup
  DOMAIN CSpLoads64 \cup DOMAIN CSpStores \cup DOMAIN CSpStores64 \cup
  DOMAIN CRegJumps \cup DOMAIN CMoves
\* Where a compressed instruction is a model of the ISA, COMPRESSED is defined.
LEMMA CInsnsHaveC ==
  ASSUME NEW i, NEW n \in CInsns, n \in IsaOf(Parts(i.def))
  PROVE  HasC(i)
<1>1. n \notin IsaOf({"I", "M"})
  BY TableNames DEF CInsns, IsaOf, Adds32, Adds64
<1> QED BY <1>1, HasCLegal

\* Every model of an ISA has legal outputs.
LEMMA InsnLegal ==
  ASSUME NEW i, i.pc_rdata \in Int, i.rs1_rdata \in Int, i.insn \in InsnWords,
         NEW n \in IsaOf(Parts(i.def))
  PROVE  Legal(i, Insn(n, i))
<1>1. n \in CInsns => HasC(i)
  BY CInsnsHaveC
<1>2. CASE n = "lui"
  <2>1. Insn(n, i) = InsnLui(i)
    BY <1>2, TableNames DEF Insn
  <2> QED BY <2>1, BaseLegal
<1>3. CASE n = "auipc"
  <2>1. Insn(n, i) = InsnAuipc(i)
    BY <1>3, TableNames DEF Insn
  <2> QED BY <2>1, BaseLegal
<1>4. CASE n = "jal"
  <2>1. Insn(n, i) = InsnJal(i)
    BY <1>4, TableNames DEF Insn
  <2> QED BY <2>1, JumpsLegal
<1>5. CASE n = "jalr"
  <2>1. Insn(n, i) = InsnJalr(i)
    BY <1>5, TableNames DEF Insn
  <2> QED BY <2>1, JumpsLegal
<1>6. CASE n \in DOMAIN Branches
  <2>1. Insn(n, i) = InsnB(Branches[n], i)
    BY <1>6, TableNames DEF Insn
  <2> QED BY <2>1, JumpsLegal
<1>7. CASE n \in DOMAIN LoadInsns
  <2>1. Insn(n, i) = InsnL(LoadInsns[n], i)
    BY <1>7, TableNames DEF Insn
  <2>3. LoadInsns[n][2] \in {1, 2, 4}
    BY <1>7 DEF LoadInsns
  <2> QED BY <2>1, <2>3, FormatsAssumption, AccessInsnsLegal
<1>8. CASE n \in DOMAIN LoadInsns64
  <2>1. Insn(n, i) = InsnL(LoadInsns64[n], i)
    BY <1>8, TableNames DEF Insn
  <2>3. LANES = 8
    BY <1>8, TableNames, FormatsAssumption DEF IsaOf, Adds32, Parts
  <2>4. LoadInsns64[n][2] \in {4, 8}
    BY <1>8 DEF LoadInsns64
  <2> QED BY <2>1, <2>3, <2>4, AccessInsnsLegal
<1>9. CASE n \in DOMAIN StoreInsns
  <2>1. Insn(n, i) = InsnS(StoreInsns[n], i)
    BY <1>9, TableNames DEF Insn
  <2>3. StoreInsns[n][2] \in {1, 2, 4}
    BY <1>9 DEF StoreInsns
  <2> QED BY <2>1, <2>3, FormatsAssumption, AccessInsnsLegal
<1>10. CASE n \in DOMAIN StoreInsns64
  <2>1. Insn(n, i) = InsnS(StoreInsns64[n], i)
    BY <1>10, TableNames DEF Insn
  <2>3. LANES = 8
    BY <1>10, TableNames, FormatsAssumption DEF IsaOf, Adds32, Parts
  <2>4. StoreInsns64[n][2] \in {4, 8}
    BY <1>10 DEF StoreInsns64
  <2> QED BY <2>1, <2>3, <2>4, AccessInsnsLegal
<1>11. CASE n \in DOMAIN ImmInsns
  <2>1. Insn(n, i) = InsnImm(ImmInsns[n], FALSE, i)
    BY <1>11, TableNames DEF Insn
  <2> QED BY <2>1, BaseLegal
<1>12. CASE n \in DOMAIN ImmInsns64
  <2>1. Insn(n, i) = InsnImm(ImmInsns64[n], TRUE, i)
    BY <1>12, TableNames DEF Insn
  <2> QED BY <2>1, BaseLegal
<1>13. CASE n \in DOMAIN ShiftInsns
  <2>1. Insn(n, i) = InsnShimm(ShiftInsns[n], FALSE, i)
    BY <1>13, TableNames DEF Insn
  <2> QED BY <2>1, BaseLegal
<1>14. CASE n \in DOMAIN ShiftInsns64
  <2>1. Insn(n, i) = InsnShimm(ShiftInsns64[n], TRUE, i)
    BY <1>14, TableNames DEF Insn
  <2> QED BY <2>1, BaseLegal
<1>15. CASE n \in DOMAIN AluInsns
  <2>1. Insn(n, i) = InsnAlu(AluInsns[n], FALSE, i)
    BY <1>15, TableNames DEF Insn
  <2> QED BY <2>1, BaseLegal
<1>16. CASE n \in DOMAIN AluInsns64
  <2>1. Insn(n, i) = InsnAlu(AluInsns64[n], TRUE, i)
    BY <1>16, TableNames DEF Insn
  <2> QED BY <2>1, BaseLegal
<1>17. CASE n \in DOMAIN MulInsns
  <2>1. Insn(n, i) = InsnAlu(MulInsns[n], FALSE, i)
    BY <1>17, TableNames DEF Insn
  <2> QED BY <2>1, BaseLegal
<1>18. CASE n \in DOMAIN MulInsns64
  <2>1. Insn(n, i) = InsnAlu(MulInsns64[n], TRUE, i)
    BY <1>18, TableNames DEF Insn
  <2> QED BY <2>1, BaseLegal
<1>19. CASE n = "c_addi4spn"
  <2>1. Insn(n, i) = InsnCAddi4spn(i)
    BY <1>19, TableNames DEF Insn
  <2>2. HasC(i)
    BY <1>1, <1>19, Zenon DEF CInsns
  <2> QED BY <2>1, <2>2, CompressedLegal
<1>20. CASE n \in DOMAIN CLoads
  <2>1. Insn(n, i) = InsnCL(CLoads[n], i)
    BY <1>20, TableNames DEF Insn
  <2>2. HasC(i)
    BY <1>1, <1>20 DEF CInsns
  <2>3. CLoads[n][2] \in {4}
    BY <1>20 DEF CLoads
  <2> QED BY <2>1, <2>2, <2>3, FormatsAssumption, CompressedAccessLegal
<1>21. CASE n \in DOMAIN CLoads64
  <2>1. Insn(n, i) = InsnCL(CLoads64[n], i)
    BY <1>21, TableNames DEF Insn
  <2>2. HasC(i)
    BY <1>1, <1>21 DEF CInsns
  <2>3. LANES = 8
    BY <1>21, TableNames, FormatsAssumption DEF IsaOf, Adds32, Parts
  <2>4. CLoads64[n][2] \in {4, 8}
    BY <1>21 DEF CLoads64
  <2> QED BY <2>1, <2>2, <2>3, <2>4, CompressedAccessLegal
<1>22. CASE n \in DOMAIN CStores
  <2>1. Insn(n, i) = InsnCS(CStores[n], i)
    BY <1>22, TableNames DEF Insn
  <2>2. HasC(i)
    BY <1>1, <1>22 DEF CInsns
  <2>3. CStores[n][2] \in {4}
    BY <1>22 DEF CStores
  <2> QED BY <2>1, <2>2, <2>3, FormatsAssumption, CompressedAccessLegal
<1>23. CASE n \in DOMAIN CStores64
  <2>1. Insn(n, i) = InsnCS(CStores64[n], i)
    BY <1>23, TableNames DEF Insn
  <2>2. HasC(i)
    BY <1>1, <1>23 DEF CInsns
  <2>3. LANES = 8
    BY <1>23, TableNames, FormatsAssumption DEF IsaOf, Adds32, Parts
  <2>4. CStores64[n][2] \in {4, 8}
    BY <1>23 DEF CStores64
  <2> QED BY <2>1, <2>2, <2>3, <2>4, CompressedAccessLegal
<1>24. CASE n \in {"c_addi", "c_addiw"}
  <2>1. Insn(n, i) = InsnCAddi(n = "c_addiw", i)
    BY <1>24, TableNames DEF Insn
  <2>2. HasC(i)
    BY <1>1, <1>24 DEF CInsns
  <2> QED BY <2>1, <2>2, CompressedLegal
<1>25. CASE n \in DOMAIN CJumps
  <2>1. Insn(n, i) = InsnCJal(CJumps[n], i)
    BY <1>25, TableNames DEF Insn
  <2>2. HasC(i)
    BY <1>1, <1>25 DEF CInsns
  <2> QED BY <2>1, <2>2, CJalLegal
<1>26. CASE n = "c_li"
  <2>1. Insn(n, i) = InsnCLi(i)
    BY <1>26, TableNames DEF Insn
  <2>2. HasC(i)
    BY <1>1, <1>26, Zenon DEF CInsns
  <2> QED BY <2>1, <2>2, CompressedLegal
<1>27. CASE n = "c_addi16sp"
  <2>1. Insn(n, i) = InsnCAddi16sp(i)
    BY <1>27, TableNames DEF Insn
  <2>2. HasC(i)
    BY <1>1, <1>27, Zenon DEF CInsns
  <2> QED BY <2>1, <2>2, CompressedLegal
<1>28. CASE n = "c_lui"
  <2>1. Insn(n, i) = InsnCLui(i)
    BY <1>28, TableNames DEF Insn
  <2>2. HasC(i)
    BY <1>1, <1>28, Zenon DEF CInsns
  <2> QED BY <2>1, <2>2, CompressedLegal
<1>29. CASE n \in DOMAIN CRightShifts
  <2>1. Insn(n, i) = InsnCSri(CRightShifts[n], i)
    BY <1>29, TableNames DEF Insn
  <2>2. HasC(i)
    BY <1>1, <1>29 DEF CInsns
  <2> QED BY <2>1, <2>2, CompressedLegal
<1>30. CASE n = "c_andi"
  <2>1. Insn(n, i) = InsnCAndi(i)
    BY <1>30, TableNames DEF Insn
  <2>2. HasC(i)
    BY <1>1, <1>30, Zenon DEF CInsns
  <2> QED BY <2>1, <2>2, CompressedLegal
<1>31. CASE n \in DOMAIN CAlus
  <2>1. Insn(n, i) = InsnCAlu(CAlus[n], FALSE, i)
    BY <1>31, TableNames DEF Insn
  <2>2. HasC(i)
    BY <1>1, <1>31 DEF CInsns
  <2> QED BY <2>1, <2>2, CompressedLegal
<1>32. CASE n \in DOMAIN CAlus64
  <2>1. Insn(n, i) = InsnCAlu(CAlus64[n], TRUE, i)
    BY <1>32, TableNames DEF Insn
  <2>2. HasC(i)
    BY <1>1, <1>32 DEF CInsns
  <2> QED BY <2>1, <2>2, CompressedLegal
<1>33. CASE n \in DOMAIN CBranches
  <2>1. Insn(n, i) = InsnCB(CBranches[n], i)
    BY <1>33, TableNames DEF Insn
  <2>2. HasC(i)
    BY <1>1, <1>33 DEF CInsns
  <2> QED BY <2>1, <2>2, CompressedJumpsLegal
<1>34. CASE n = "c_slli"
  <2>1. Insn(n, i) = InsnCSli(i)
    BY <1>34, TableNames DEF Insn
  <2>2. HasC(i)
    BY <1>1, <1>34, Zenon DEF CInsns
  <2> QED BY <2>1, <2>2, CompressedLegal
<1>35. CASE n \in DOMAIN CSpLoads
  <2>1. Insn(n, i) = InsnCLsp(CSpLoads[n], i)
    BY <1>35, TableNames DEF Insn
  <2>2. HasC(i)
    BY <1>1, <1>35 DEF CInsns
  <2>3. CSpLoads[n][2] \in {4}
    BY <1>35 DEF CSpLoads
  <2> QED BY <2>1, <2>2, <2>3, FormatsAssumption, CompressedAccessLegal
<1>36. CASE n \in DOMAIN CSpLoads64
  <2>1. Insn(n, i) = InsnCLsp(CSpLoads64[n], i)
    BY <1>36, TableNames DEF Insn
  <2>2. HasC(i)
    BY <1>1, <1>36 DEF CInsns
  <2>3. LANES = 8
    BY <1>36, TableNames, FormatsAssumption DEF IsaOf, Adds32, Parts
  <2>4. CSpLoads64[n][2] \in {4, 8}
    BY <1>36 DEF CSpLoads64
  <2> QED BY <2>1, <2>2, <2>3, <2>4, CompressedAccessLegal
<1>37. CASE n \in DOMAIN CSpStores
  <2>1. Insn(n, i) = InsnCSsp(CSpStores[n], i)
    BY <1>37, TableNames DEF Insn
  <2>2. HasC(i)
    BY <1>1, <1>37 DEF CInsns
  <2>3. CSpStores[n][2] \in {4}
    BY <1>37 DEF CSpStores
  <2> QED BY <2>1, <2>2, <2>3, FormatsAssumption, CompressedAccessLegal
<1>38. CASE n \in DOMAIN CSpStores64
  <2>1. Insn(n, i) = InsnCSsp(CSpStores64[n], i)
    BY <1>38, TableNames DEF Insn
  <2>2. HasC(i)
    BY <1>1, <1>38 DEF CInsns
  <2>3. LANES = 8
    BY <1>38, TableNames, FormatsAssumption DEF IsaOf, Adds32, Parts
  <2>4. CSpStores64[n][2] \in {4, 8}
    BY <1>38 DEF CSpStores64
  <2> QED BY <2>1, <2>2, <2>3, <2>4, CompressedAccessLegal
<1>39. CASE n \in DOMAIN CRegJumps
  <2>1. Insn(n, i) = InsnCJalr(CRegJumps[n], i)
    BY <1>39, TableNames DEF Insn
  <2>2. HasC(i)
    BY <1>1, <1>39 DEF CInsns
  <2> QED BY <2>1, <2>2, CompressedJumpsLegal
<1>40. CASE n \in DOMAIN CMoves
  <2>1. Insn(n, i) = InsnCMvadd(CMoves[n], i)
    BY <1>40, TableNames DEF Insn
  <2>2. HasC(i)
    BY <1>1, <1>40 DEF CInsns
  <2> QED BY <2>1, <2>2, CompressedLegal
<1>41. \/ n = "lui"
       \/ n = "auipc"
       \/ n = "jal"
       \/ n = "jalr"
       \/ n \in DOMAIN Branches
       \/ n \in DOMAIN LoadInsns
       \/ n \in DOMAIN LoadInsns64
       \/ n \in DOMAIN StoreInsns
       \/ n \in DOMAIN StoreInsns64
       \/ n \in DOMAIN ImmInsns
       \/ n \in DOMAIN ImmInsns64
       \/ n \in DOMAIN ShiftInsns
       \/ n \in DOMAIN ShiftInsns64
       \/ n \in DOMAIN AluInsns
       \/ n \in DOMAIN AluInsns64
       \/ n \in DOMAIN MulInsns
       \/ n \in DOMAIN MulInsns64
       \/ n = "c_addi4spn"
       \/ n \in DOMAIN CLoads
       \/ n \in DOMAIN CLoads64
       \/ n \in DOMAIN CStores
       \/ n \in DOMAIN CStores64
       \/ n \in {"c_addi", "c_addiw"}
       \/ n \in DOMAIN CJumps
       \/ n = "c_li"
       \/ n = "c_addi16sp"
       \/ n = "c_lui"
       \/ n \in DOMAIN CRightShifts
       \/ n = "c_andi"
       \/ n \in DOMAIN CAlus
       \/ n \in DOMAIN CAlus64
       \/ n \in DOMAIN CBranches
       \/ n = "c_slli"
       \/ n \in DOMAIN CSpLoads
       \/ n \in DOMAIN CSpLoads64
       \/ n \in DOMAIN CSpStores
       \/ n \in DOMAIN CSpStores64
       \/ n \in DOMAIN CRegJumps
       \/ n \in DOMAIN CMoves
  BY DEF IsaOf, Adds32, Adds64, Parts
<1> QED BY <1>2, <1>3, <1>4, <1>5, <1>6, <1>7, <1>8, <1>9, <1>10, <1>11, <1>12,
           <1>13, <1>14, <1>15, <1>16, <1>17, <1>18, <1>19, <1>20, <1>21, <1>22,
           <1>23, <1>24, <1>25, <1>26, <1>27, <1>28, <1>29, <1>30, <1>31, <1>32,
           <1>33, <1>34, <1>35, <1>36, <1>37, <1>38, <1>39, <1>40, <1>41

-----------------------------------------------------------------------------
\* The M extension and the halves of a product.

\* Product, by halves, is the product.
LEMMA ProductIs ==
  ASSUME NEW a \in Data, NEW b \in Data
  PROVE  Product(a, b) = <<(a * b) \div 2^XLEN, (a * b) % 2^XLEN>>
<1> DEFINE h == 2^(XLEN \div 2)
           m == 2^XLEN
<1>1. h \in Nat /\ h > 0 /\ m \in Nat /\ m = h * h
  BY HalfWidth
<1>2. a \in Int /\ 0 <= a /\ a < m /\ b \in Int /\ 0 <= b /\ b < m
  BY <1>1 DEF Data, Vector, Ones
<1> HIDE DEF h, m
<1> DEFINE low == (a % h) * (b % h)
           mid == (a \div h) * (b % h) + (low \div h)
           mid2 == (a % h) * (b \div h) + (mid % h)
<1>3. /\ (a \div h) * (b \div h) + (mid \div h) + (mid2 \div h) = (a * b) \div m
      /\ (mid2 % h) * h + (low % h) = (a * b) % m
  BY <1>1, <1>2, LongMultiplication, ZenonT(120)
<1>4. Product(a, b) = <<(a \div h) * (b \div h) + (mid \div h) + (mid2 \div h),
                        (mid2 % h) * h + (low % h)>>
  BY Zenon DEF Product, h
<1> HIDE DEF low, mid, mid2
<1> QED BY <1>3, <1>4, Zenon DEF m

\* Quotient and remainder, put together by Product.
LEMMA DivisionBack ==
  ASSUME NEW a \in Data, NEW b \in Data, NEW q, NEW r, Divided(XLEN, a, b, q, r)
  PROVE  Wrap(Product(q, b)[2] + r) = a
<1> DEFINE m == 2^XLEN
<1>1. XLEN \in Nat \ {0} /\ m \in Nat
  BY PowerType, FormatsAssumption DEF XLEN
<1>2. a \in Int /\ 0 <= a /\ a < m /\ b \in Int /\ 0 <= b /\ b < m
  BY <1>1 DEF Data, Vector, Ones
<1> HIDE DEF m
<1>3. m = 2^XLEN
  BY DEF m
<1>4. q \in Int /\ 0 <= q /\ q < m /\ (((q * b) % m) + r) % m = a
  <2>1. /\ XLEN \in Nat \ {0} /\ a < 2^XLEN /\ b < 2^XLEN
        /\ a \in Int /\ b \in Int /\ 0 <= a /\ 0 <= b /\ Divided(XLEN, a, b, q, r)
    BY <1>1, <1>2, <1>3
  <2>2. q \in Int /\ 0 <= q /\ q < 2^XLEN /\ (((q * b) % 2^XLEN) + r) % 2^XLEN = a
    BY <2>1, Division, SMT
  <2> QED BY <1>3, <2>2
<1>5. q \in Data
  BY <1>1, <1>3, <1>4 DEF Data, Vector, Ones
<1>6. Product(q, b)[2] = (q * b) % m
  BY <1>3, <1>5, ProductIs
<1> QED BY <1>3, <1>4, <1>6 DEF Wrap

\* The M extension on any two registers.
LEMMA MulExact ==
  ASSUME NEW a \in Data, NEW b \in Data
  PROVE  LET va == SignedAt(a, XLEN)
             vb == SignedAt(b, XLEN)
             sa == IF a >= Msb(XLEN) THEN b ELSE 0
             sb == IF b >= Msb(XLEN) THEN a ELSE 0
         IN  /\ (va * vb) % 2^XLEN = Product(a, b)[2]
             /\ MulHigh(XLEN, va, vb) = Wrap(Product(a, b)[1] - (sa + sb))
             /\ MulHigh(XLEN, va, b) = Wrap(Product(a, b)[1] - sa)
             /\ MulHighU(XLEN, a, b) = Product(a, b)[1]
<1> DEFINE m == 2^XLEN
           va == SignedAt(a, XLEN)
           vb == SignedAt(b, XLEN)
           sa == IF a >= Msb(XLEN) THEN b ELSE 0
           sb == IF b >= Msb(XLEN) THEN a ELSE 0
           hi == (a * b) \div m
<1>1. XLEN \in Nat \ {0} /\ m \in Nat
  BY PowerType, FormatsAssumption DEF XLEN
<1>2. a \in Int /\ 0 <= a /\ a < m /\ b \in Int /\ 0 <= b /\ b < m
  BY <1>1 DEF Data, Vector, Ones
<1>3. Product(a, b)[1] = hi /\ Product(a, b)[2] = (a * b) % m
  BY ProductIs
<1> HIDE DEF m
<1>4. m = 2^XLEN
  BY DEF m
<1>5. /\ (va * vb) % m = (a * b) % m
      /\ MulHigh(XLEN, va, vb) = (hi - (sa + sb)) % m
      /\ MulHigh(XLEN, va, b) = (hi - sa) % m
      /\ MulHighU(XLEN, a, b) = hi
  BY <1>1, <1>2, <1>4, SignedProducts, ZenonT(120)
<1> HIDE DEF va, vb, sa, sb, hi
<1>6. Wrap(hi - (sa + sb)) = (hi - (sa + sb)) % m /\ Wrap(hi - sa) = (hi - sa) % m
  BY <1>4 DEF Wrap
<1> QED BY <1>3, <1>4, <1>5, <1>6, Zenon DEF va, vb, sa, sb

-----------------------------------------------------------------------------
\* What the module holds: a word and registers on its ports, and of every model
\* that reports spec_valid its outputs for them.
OnPorts(i) ==
  /\ i = Inputs(i.valid, i.insn, i, i.def, i.misa)
  /\ i.insn \in InsnWords
  /\ i.pc_rdata \in Data /\ i.rs1_rdata \in Data /\ i.rs2_rdata \in Data
IsaInv ==
  /\ OnPorts(in)
  /\ \A n \in DOMAIN specs : /\ n \in IsaOf(Parts(in.def))
                             /\ Insn(n, in).valid /\ specs[n] = Insn(n, in)

\* The models that the module takes into account are those with spec_valid.
LEMMA SpecsHit ==
  ASSUME NEW i
  PROVE  \A n \in DOMAIN Specs(i) : /\ n \in IsaOf(Parts(i.def))
                                    /\ Insn(n, i).valid /\ Specs(i)[n] = Insn(n, i)
<1> DEFINE all == [n \in IsaOf(Parts(i.def)) |-> Insn(n, i)]
<1>1. Specs(i) = [n \in {m \in DOMAIN all : all[m].valid} |-> all[n]]
  BY DEF Specs, Hits
<1>2. /\ DOMAIN all = IsaOf(Parts(i.def))
      /\ \A n \in IsaOf(Parts(i.def)) : all[n] = Insn(n, i)
  OBVIOUS
<1> HIDE DEF all
<1>3. DOMAIN Specs(i) = {m \in DOMAIN all : all[m].valid}
  BY <1>1
<1>4. \A n \in DOMAIN Specs(i) : Specs(i)[n] = all[n]
  BY <1>1, <1>3
<1> QED BY <1>2, <1>3, <1>4

\* A register holds a number.
LEMMA DataNumbers == Data \subseteq Int
BY DEF Data, Vector

\* What the module sees fits its ports.
LEMMA InputsOf ==
  ASSUME InputsTyped, NEW w \in Words, NEW o \in Operands, NEW valid, NEW def, NEW misa
  PROVE  OnPorts(Inputs(valid, w, o, def, misa))
<1>1. w \in InsnWords
  BY DEF InputsTyped
<1>2. o.pc_rdata \in Data /\ o.rs1_rdata \in Data /\ o.rs2_rdata \in Data
  BY DEF InputsTyped
<1> QED BY <1>1, <1>2 DEF OnPorts, Inputs

\* The invariant holds of every ISA: isa_<isa>.v, generated by isa_check and
\* the loop over its instructions in insns/generate.py, keeps no state of its own.
THEOREM IsaInvariant == ASSUME InputsTyped PROVE Spec => []IsaInv
<1>1. Init => IsaInv
  <2> SUFFICES ASSUME Init PROVE IsaInv
    OBVIOUS
  <2>1. PICK w \in Words, o \in Operands, def \in Configs :
          in = Inputs(FALSE, w, o, def, {})
    BY DEF Init
  <2>2. DOMAIN specs = {}
    BY DEF Init
  <2> QED BY <2>1, <2>2, InputsOf DEF IsaInv
<1>2. IsaInv /\ [Next]_vars => IsaInv'
  <2> SUFFICES ASSUME IsaInv, [Next]_vars PROVE IsaInv'
    OBVIOUS
  <2>1. CASE UNCHANGED vars
    BY <2>1 DEF IsaInv, vars
  <2>2. CASE Next
    <3>1. PICK valid \in BOOLEAN, w \in Words, o \in Operands, misa \in MisasOf(in.def) :
            Drive(Inputs(valid, w, o, in.def, misa))
      BY <2>2 DEF Next
    <3> DEFINE i == Inputs(valid, w, o, in.def, misa)
    <3>2. OnPorts(i)
      BY InputsOf
    <3> HIDE DEF i
    <3>3. in' = i /\ specs' = Specs(i)
      BY <3>1 DEF Drive, i
    <3> QED BY <3>2, <3>3, SpecsHit DEF IsaInv
  <2> QED BY <2>1, <2>2
<1> QED BY <1>1, <1>2, PTL DEF Spec

\* No word is known to two instruction models of an ISA, so that the order in
\* which isa_<isa>.v asks them does not matter: for every word, RV32 and RV64,
\* with and without M and C, and whatever misa disables.
THEOREM UniqueDecodeAlways == ASSUME InputsTyped PROVE Spec => []UniqueDecode
<1>1. IsaInv => UniqueDecode
  <2> SUFFICES ASSUME IsaInv PROVE UniqueDecode
    OBVIOUS
  <2>1. \A n \in DOMAIN specs : n \in Decoded(in.insn)
    <3>1. Parts(in.def) \in SUBSET {"I", "M", "C"}
      BY DEF Parts
    <3> QED BY <3>1, Decoding DEF IsaInv, OnPorts
  <2>2. \A n, m \in DOMAIN specs : n = m
    BY <2>1, DecodedOnce DEF Once
  <2>3. CASE DOMAIN specs = {}
    BY <2>3, FS_EmptySet DEF UniqueDecode
  <2>4. CASE DOMAIN specs /= {}
    <3>1. PICK n : DOMAIN specs = {n}
      BY <2>2, <2>4
    <3>2. Cardinality({n}) = 1
      BY FS_Singleton
    <3> QED BY <3>1, <3>2 DEF UniqueDecode
  <2> QED BY <2>3, <2>4
<1> QED BY <1>1, IsaInvariant, PTL

\* Every format of insns/generate.py, for every word, reads the number that the
\* manual scatters over it: each bit at its place, the sign, the scale.
THEOREM ImmediatesAlways == ASSUME InputsTyped PROVE Spec => []Immediates
<1>1. IsaInv => Immediates
  <2> SUFFICES ASSUME IsaInv PROVE Immediates
    OBVIOUS
  <2> DEFINE w == in.insn
  <2>1. w \in InsnWords
    BY DEF IsaInv, OnPorts
  <2>2. /\ FormatCl(w, 4).imm = OffsetCl(w, 4) /\ FormatCl(w, 8).imm = OffsetCl(w, 8)
        /\ FormatCs(w, 4).imm = OffsetCl(w, 4) /\ FormatCs(w, 8).imm = OffsetCl(w, 8)
        /\ FormatCiAndi(w).imm = FormatCi(w).imm
    BY DEF FormatCl, FormatCs, FormatCi, FormatCiAndi
  <2> HIDE DEF w
  <2>3. /\ ByManual("CL4", FormatCl(w, 4).imm, w)
        /\ ByManual("CL8", FormatCl(w, 8).imm, w)
        /\ ByManual("CL4", FormatCs(w, 4).imm, w)
        /\ ByManual("CL8", FormatCs(w, 8).imm, w)
        /\ ByManual("CI", FormatCi(w).imm, w) /\ ByManual("CI", FormatCiAndi(w).imm, w)
    BY <2>1, <2>2, ManualCL4, ManualCL8, ManualCI
  <2> QED BY <2>1, <2>3, ManualI, ManualS, ManualB, ManualU, ManualJ, ManualCISP,
             ManualCILUI, ManualCJ, ManualCB, ManualCIW, ManualCLSP4, ManualCLSP8,
             ManualCSSP4, ManualCSSP8, Zenon DEF Immediates, w
<1> QED BY <1>1, IsaInvariant, PTL

\* Every model, whatever word it knows and whatever the registers and macros
\* are, has outputs that docs/rvfi.md allows a core to have: x0 stays zero, a pc
\* stays aligned, an access is a read or a write, whole and within its register.
THEOREM SpecLegalAlways == ASSUME InputsTyped PROVE Spec => []SpecLegal
<1>1. IsaInv => SpecLegal
  BY InsnLegal, DataNumbers DEF IsaInv, OnPorts, SpecLegal
<1> QED BY <1>1, IsaInvariant, PTL

\* What Arithmetic states holds of the inputs the module can have.
LEMMA ArithmeticOf == ASSUME IsaInv PROVE Arithmetic
<1> DEFINE i == [in EXCEPT !.def = @ \ {"ALTOPS"}]
           a == in.rs1_rdata
           b == in.rs2_rdata
           Of(n) == AluResult(MulInsns[n], FALSE, i)
           va == SignedAt(a, XLEN)
           vb == SignedAt(b, XLEN)
           sa == IF a >= Msb(XLEN) THEN b ELSE 0
           sb == IF b >= Msb(XLEN) THEN a ELSE 0
<1>1. a \in Data /\ b \in Data /\ i.rs1_rdata = a /\ i.rs2_rdata = b /\ "ALTOPS" \notin i.def
  <2>1. in = Inputs(in.valid, in.insn, in, in.def, in.misa)
    BY DEF IsaInv, OnPorts
  <2>2. /\ i.rs1_rdata = in.rs1_rdata /\ i.rs2_rdata = in.rs2_rdata
        /\ i.def = in.def \ {"ALTOPS"}
    BY <2>1 DEF Inputs
  <2> QED BY <2>2 DEF IsaInv, OnPorts
<1> HIDE DEF i, a, b
<1>2. /\ Of("mul") = (va * vb) % 2^XLEN
      /\ Of("mulh") = MulHigh(XLEN, va, vb)
      /\ Of("mulhsu") = MulHigh(XLEN, va, b)
      /\ Of("mulhu") = MulHighU(XLEN, a, b)
      /\ Of("div") = Quotient(XLEN, a, b)
      /\ Of("divu") = (IF b = 0 THEN Ones(XLEN) ELSE a \div b)
      /\ Of("rem") = Remainder(XLEN, a, b)
      /\ Of("remu") = (IF b = 0 THEN a ELSE a % b)
  BY <1>1, MulTable, Zenon
<1>3. /\ (va * vb) % 2^XLEN = Product(a, b)[2]
      /\ MulHigh(XLEN, va, vb) = Wrap(Product(a, b)[1] - (sa + sb))
      /\ MulHigh(XLEN, va, b) = Wrap(Product(a, b)[1] - sa)
      /\ MulHighU(XLEN, a, b) = Product(a, b)[1]
  BY <1>1, MulExact, Zenon
<1>4. /\ Wrap(Product(Of("div"), b)[2] + Of("rem")) = a
      /\ Wrap(Product(Of("divu"), b)[2] + Of("remu")) = a
  <2> HIDE DEF Of
  <2>1. /\ Divided(XLEN, a, b, Of("div"), Of("rem"))
        /\ Divided(XLEN, a, b, Of("divu"), Of("remu"))
    BY <1>2, Zenon DEF Divided
  <2> QED BY <1>1, <2>1, DivisionBack, Zenon
<1>5. b /= 0 => Of("remu") < b
  <2>1. a \in Int /\ b \in Int /\ 0 <= b
    <3>1. 2^XLEN \in Nat
      BY PowerType, FormatsAssumption DEF XLEN
    <3> QED BY <1>1, <3>1 DEF Data, Vector, Ones
  <2>2. b /= 0 => a % b < b
    BY <2>1
  <2> QED BY <1>2, <2>2
<1> HIDE DEF Of, va, vb
<1>6. /\ Of("mul") = Product(a, b)[2]
      /\ Of("mulhu") = Product(a, b)[1]
      /\ Of("mulhsu") = Wrap(Product(a, b)[1] - sa)
      /\ Of("mulh") = Wrap(Product(a, b)[1] - (sa + sb))
  BY <1>2, <1>3, Zenon
<1>7. \A d \in {<<"div", "rem">>, <<"divu", "remu">>} :
        Wrap(Product(Of(d[1]), b)[2] + Of(d[2])) = a
  BY <1>4
<1> QED BY <1>5, <1>6, <1>7, Zenon DEF Arithmetic, Of, i, a, b

\* The M extension, as rvfi_insn_<name> of insn_alu computes it for every two
\* registers and every width: the halves of a product belong together whatever
\* the signs, and quotient and remainder give the dividend back, also when
\* dividing by zero and the most negative number by -1.
THEOREM ArithmeticAlways == ASSUME InputsTyped PROVE Spec => []Arithmetic
<1>1. IsaInv => Arithmetic
  BY ArithmeticOf
<1> QED BY <1>1, IsaInvariant, PTL

=============================================================================
