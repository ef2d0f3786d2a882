------------------------- MODULE PTrieContentProofs --------------------------
(***************************************************************************)
(* What the buckets hold, for any number of bits and any keys.  First the  *)
(* data: bytes and the slots that spell them, the order of keys and of     *)
(* their items, the search in a bucket, and what inserts, erases, splits   *)
(* and merges do to a bucket's items.  Then the trie: between any two      *)
(* steps of an operation the items are the rests of their keys, sorted,    *)
(* where the path of the key leads; all recomputed sizes are right, and    *)
(* the trie implements a set of keys.                                      *)
(***************************************************************************)
EXTENDS PTrieTreeProofs

-----------------------------------------------------------------------------
(* Bits *)

\* One more element doubles the number of subsets.
LEMMA Subsets ==
  ASSUME NEW A, IsFiniteSet(A), NEW e, e \notin A
  PROVE  Cardinality(SUBSET (A \cup {e})) = 2 * Cardinality(SUBSET A)
<1> DEFINE S == SUBSET A
           T == {x \in SUBSET (A \cup {e}) : e \in x}
           add == [x \in S |-> x \cup {e}]
<1>1. IsFiniteSet(S) /\ Cardinality(S) \in Nat
  BY FS_SUBSET, FS_CardinalityType
<1>2. ExistsBijection(S, T)
  <2>1. add \in [S -> T]
    OBVIOUS
  <2>2. ASSUME NEW x \in S, NEW y \in S, add[x] = add[y] PROVE x = y
    <3>1. e \notin x /\ e \notin y
      OBVIOUS
    <3>2. x \cup {e} = y \cup {e}
      BY <2>2
    <3>3. \A z : z \in x <=> z \in y
      BY <3>1, <3>2
    <3>4. QED
      BY <3>3, Zenon
  <2>3. ASSUME NEW y \in T PROVE \E x \in S : add[x] = y
    <3>1. y \ {e} \in S
      OBVIOUS
    <3>2. (y \ {e}) \cup {e} = y
      OBVIOUS
    <3>3. add[y \ {e}] = y
      BY <3>1, <3>2
    <3>4. QED
      BY <3>1, <3>3
  <2> HIDE DEF S, T, add
  <2>4. add \in Bijection(S, T)
    <3>1. \A x \in S, y \in S : add[x] = add[y] => x = y
      BY <2>2
    <3>2. \A y \in T : \E x \in S : add[x] = y
      BY <2>3
    <3>3. QED
      BY <2>1, <3>1, <3>2 DEF Bijection, Injection, Surjection, IsInjective
  <2>5. QED
    BY <2>4 DEF ExistsBijection
<1>3. SUBSET (A \cup {e}) = S \cup T
  <2>1. ASSUME NEW x PROVE x \in SUBSET (A \cup {e}) <=> x \in S \cup T
    OBVIOUS
  <2>2. QED
    BY <2>1, Zenon
<1>4. S \cap T = {}
  OBVIOUS
<1> HIDE DEF S, T
<1>5. IsFiniteSet(T) /\ Cardinality(T) = Cardinality(S)
  BY <1>1, <1>2, FS_Bijection
<1>6. Cardinality(S \cup T) = Cardinality(S) + Cardinality(T) - Cardinality(S \cap T)
  BY <1>1, <1>5, FS_Union
<1>7. Cardinality(S \cap T) = 0
  BY <1>4, FS_EmptySet
<1>8. Cardinality(S \cup T) = 2 * Cardinality(S)
  BY <1>1, <1>5, <1>6, <1>7
<1>9. QED
  BY <1>3, <1>8 DEF S

\* Powers of two.
LEMMA Powers ==
  /\ 2 ^ 0 = 1
  /\ \A i \in Nat : 2 ^ i \in Nat /\ 2 ^ i > 0 /\ 2 ^ (i + 1) = 2 * 2 ^ i
<1> DEFINE N(i) == Cardinality(SUBSET (1 .. i))
<1>1. ASSUME NEW i \in Nat
      PROVE  N(i) = 2 ^ i /\ N(i) \in Nat /\ N(i) > 0
  <2>1. IsFiniteSet(1 .. i) /\ Cardinality(1 .. i) = i
    BY FS_Interval
  <2>2. IsFiniteSet(SUBSET (1 .. i)) /\ Cardinality(SUBSET (1 .. i)) = 2 ^ Cardinality(1 .. i)
    BY <2>1, FS_SUBSET
  <2>3. Cardinality(SUBSET (1 .. i)) \in Nat
    BY <2>2, FS_CardinalityType
  <2>4. SUBSET (1 .. i) # {}
    OBVIOUS
  <2>5. Cardinality(SUBSET (1 .. i)) # 0
    BY <2>2, <2>4, FS_EmptySet
  <2>6. QED
    BY <2>1, <2>2, <2>3, <2>5
<1>2. ASSUME NEW i \in Nat PROVE N(i + 1) = 2 * N(i)
  <2>1. IsFiniteSet(1 .. i) /\ i + 1 \notin 1 .. i
    BY FS_Interval
  <2>2. 1 .. i + 1 = (1 .. i) \cup {i + 1}
    OBVIOUS
  <2>3. QED
    BY <2>1, <2>2, Subsets
<1>3. N(0) = 1
  <2>1. SUBSET {} = {{}}
    OBVIOUS
  <2>2. 1 .. 0 = {}
    OBVIOUS
  <2>3. QED
    BY <2>1, <2>2, FS_Singleton
<1> HIDE DEF N
<1>4. 2 ^ 0 = 1
  BY <1>1, <1>3
<1>5. ASSUME NEW i \in Nat PROVE 2 ^ i \in Nat /\ 2 ^ i > 0 /\ 2 ^ (i + 1) = 2 * 2 ^ i
  <2>1. i + 1 \in Nat
    OBVIOUS
  <2>2. N(i) = 2 ^ i /\ N(i + 1) = 2 ^ (i + 1) /\ N(i + 1) = 2 * N(i) /\ N(i) \in Nat /\ N(i) > 0
    BY <1>1, <1>2, <2>1
  <2>3. QED
    BY <2>2
<1>6. QED
  BY <1>4, <1>5

\* Quotients are unique.
LEMMA Quotient ==
  ASSUME NEW x \in Nat, NEW d \in Nat \ {0}, NEW q \in Nat, NEW r \in 0 .. d - 1, x = d * q + r
  PROVE  x \div d = q /\ x % d = r
OBVIOUS

\* A number is made of its quotient and its remainder.
LEMMA Division ==
  ASSUME NEW x \in Nat, NEW d \in Nat \ {0}
  PROVE  /\ x \div d \in Nat /\ x % d \in 0 .. d - 1
         /\ x = d * (x \div d) + (x % d)
OBVIOUS

\* The half of a quotient by a power of two is that by the next one.
LEMMA HalfQuotient ==
  ASSUME NEW x \in Nat, NEW e \in Nat
  PROVE  /\ x \div 2 ^ e \in Nat /\ x \div 2 ^ (e + 1) \in Nat
         /\ (x \div 2 ^ e) % 2 \in {0, 1}
         /\ x \div 2 ^ e = 2 * (x \div 2 ^ (e + 1)) + ((x \div 2 ^ e) % 2)
<1>1. PICK P \in Nat \ {0} : P = 2 ^ e /\ 2 ^ (e + 1) = 2 * P
  BY Powers
<1>2. PICK q \in Nat, r \in 0 .. P - 1 : q = x \div P /\ x = P * q + r
  BY Division
<1>3. PICK h \in Nat, s \in 0 .. 1 : h = q \div 2 /\ s = q % 2 /\ q = 2 * h + s
  BY Division
<1>4. x \div (2 * P) = h
  <2>1. PICK t \in Nat : t = P * s + r
    OBVIOUS
  <2>2. t \in 0 .. 2 * P - 1
    <3>1. CASE s = 0
      BY <2>1, <3>1
    <3>2. CASE s = 1
      BY <2>1, <3>2
    <3>3. QED
      BY <3>1, <3>2
  <2>3. x = (2 * P) * h + t
    <3>1. P * q = P * (2 * h) + P * s
      BY <1>3
    <3>2. P * (2 * h) = (2 * P) * h
      OBVIOUS
    <3>3. P * q \in Nat /\ P * (2 * h) \in Nat /\ P * s \in Nat
      OBVIOUS
    <3>4. QED
      BY <1>2, <2>1, <3>1, <3>2, <3>3
  <2>4. 2 * P \in Nat \ {0}
    OBVIOUS
  <2>5. QED
    BY <2>2, <2>3, <2>4, Quotient
<1>5. x \div 2 ^ e = q /\ x \div 2 ^ (e + 1) = h
  BY <1>1, <1>2, <1>4
<1>6. s \in {0, 1}
  OBVIOUS
<1>7. QED
  BY <1>3, <1>5, <1>6

\* The number of bits of a byte.
Width == BSIZE * BDIV

\* Bytes are the numbers of that many bits.
LEMMA WidthType == Width \in Nat /\ Base = 2 ^ Width /\ Byte \subseteq Nat
BY EncodingAssumption DEF Width, Base, Byte

\* Bytes that agree in their leading bits.
LEMMA LeadingBits ==
  ASSUME NEW c \in Byte, NEW d \in Byte, NEW e \in 0 .. Width,
         \A i \in e .. Width - 1 : (c \div 2 ^ i) % 2 = (d \div 2 ^ i) % 2
  PROVE  c \div 2 ^ e = d \div 2 ^ e
<1> DEFINE S == {m \in Nat : m <= Width - e => c \div 2 ^ (Width - m) = d \div 2 ^ (Width - m)}
<1>1. c \in Nat /\ d \in Nat /\ Width \in Nat /\ c < 2 ^ Width /\ d < 2 ^ Width
  BY WidthType DEF Byte
<1>2. 0 \in S
  <2>1. 2 ^ Width \in Nat \ {0} /\ Width - 0 = Width
    BY <1>1, Powers
  <2>2. ASSUME NEW x \in Nat, x < 2 ^ Width PROVE x \div 2 ^ Width = 0
    <3>1. x = (2 ^ Width) * 0 + x /\ x \in 0 .. 2 ^ Width - 1
      BY <2>1, <2>2
    <3>2. QED
      BY <2>1, <3>1, Quotient
  <2>3. QED
    BY <1>1, <2>1, <2>2
<1>3. ASSUME NEW m \in Nat, m \in S PROVE m + 1 \in S
  <2>1. SUFFICES ASSUME m + 1 <= Width - e
                 PROVE  c \div 2 ^ (Width - (m + 1)) = d \div 2 ^ (Width - (m + 1))
    OBVIOUS
  <2>2. PICK i \in Nat : i = Width - (m + 1) /\ i + 1 = Width - m /\ i \in e .. Width - 1
    BY <1>1, <2>1
  <2>3. c \div 2 ^ (i + 1) = d \div 2 ^ (i + 1)
    BY <1>1, <1>3, <2>1, <2>2
  <2>4. (c \div 2 ^ i) % 2 = (d \div 2 ^ i) % 2
    BY <2>2
  <2>5. /\ c \div 2 ^ i = 2 * (c \div 2 ^ (i + 1)) + ((c \div 2 ^ i) % 2)
        /\ d \div 2 ^ i = 2 * (d \div 2 ^ (i + 1)) + ((d \div 2 ^ i) % 2)
    BY <1>1, <2>2, HalfQuotient
  <2>6. c \div 2 ^ i = d \div 2 ^ i
    BY <2>3, <2>4, <2>5
  <2>7. QED
    BY <2>2, <2>6
<1> HIDE DEF S
<1>4. \A m \in Nat : m \in S
  BY <1>2, <1>3, Induct
<1>5. PICK m \in Nat : m = Width - e /\ Width - m = e
  BY <1>1
<1>6. m \in S
  BY <1>4
<1>7. QED
  BY <1>5, <1>6 DEF S

\* A byte with a 0 where the other one has a 1 is the smaller one, if they agree before.
LEMMA BitOrder ==
  ASSUME NEW c \in Byte, NEW d \in Byte, NEW e \in 0 .. Width - 1,
         \A i \in e + 1 .. Width - 1 : (c \div 2 ^ i) % 2 = (d \div 2 ^ i) % 2,
         (c \div 2 ^ e) % 2 = 0, (d \div 2 ^ e) % 2 = 1
  PROVE  c < d
<1>1. c \in Nat /\ d \in Nat /\ Width \in Nat /\ e \in Nat /\ e + 1 \in 0 .. Width
  BY WidthType
<1>2. c \div 2 ^ (e + 1) = d \div 2 ^ (e + 1)
  BY <1>1, LeadingBits
<1>3. PICK P \in Nat \ {0} : P = 2 ^ e
  BY <1>1, Powers
<1>4. PICK q \in Nat : c \div P = q /\ d \div P = q + 1
  <2>1. /\ c \div P = 2 * (c \div 2 ^ (e + 1)) + ((c \div P) % 2)
        /\ d \div P = 2 * (d \div 2 ^ (e + 1)) + ((d \div P) % 2)
        /\ c \div P \in Nat /\ d \div P \in Nat /\ c \div 2 ^ (e + 1) \in Nat
    BY <1>1, <1>3, HalfQuotient
  <2>2. QED
    BY <1>2, <1>3, <2>1
<1>5. PICK r \in 0 .. P - 1 : c = P * q + r
  BY ZenonT(60), <1>1, <1>3, <1>4, Division
<1>6. PICK s \in 0 .. P - 1 : d = P * (q + 1) + s
  <2>1. d % P \in 0 .. P - 1 /\ d = P * (d \div P) + (d % P)
    BY <1>1, Division
  <2>2. QED
    BY <1>4, <2>1
<1>7. P * (q + 1) = P * q + P /\ P * q \in Nat
  OBVIOUS
<1>8. QED
  BY <1>5, <1>6, <1>7

\* Which bit of a byte is bit i of its slot r.
LEMMA SlotBit ==
  ASSUME NEW r \in 0 .. BDIV - 1, NEW i \in 1 .. BSIZE
  PROVE  LET e == BSIZE * (BDIV - r) - i
         IN  /\ e \in 0 .. Width - 1
             /\ \A y \in Byte : SlotTable[y][r][i] = (y \div 2 ^ e) % 2
<1> DEFINE e == BSIZE * (BDIV - r) - i
<1>1. BSIZE \in Nat \ {0} /\ BDIV \in Nat \ {0}
  BY EncodingAssumption
<1>2. e \in 0 .. Width - 1
  <2>1. PICK m \in Nat : BDIV - r = m + 1
    BY <1>1
  <2>2. BSIZE * (m + 1) = BSIZE * m + BSIZE /\ BSIZE * m \in Nat
    BY <1>1
  <2>3. BSIZE * (m + 1) <= BSIZE * BDIV
    <3>1. BDIV = (m + 1) + r /\ r \in Nat
      BY <1>1, <2>1
    <3>2. BSIZE * BDIV = BSIZE * (m + 1) + BSIZE * r /\ BSIZE * r \in Nat
      BY <1>1, <3>1
    <3>3. QED
      BY <1>1, <2>2, <3>2
  <2>4. QED
    BY <1>1, <2>1, <2>2, <2>3 DEF Width
<1>3. \A y \in Byte : SlotTable[y][r][i] = IF (y \div 2 ^ e) % 2 = 1 THEN 1 ELSE 0
  BY DEF SlotTable
<1> HIDE DEF e
<1>4. \A y \in Byte : (y \div 2 ^ e) % 2 \in {0, 1}
  BY <1>2, WidthType, HalfQuotient
<1>5. QED
  BY <1>2, <1>3, <1>4 DEF e

\* Every bit is in a slot.
LEMMA BitSlot ==
  ASSUME NEW e \in 0 .. Width - 1
  PROVE  \E r \in 0 .. BDIV - 1, i \in 1 .. BSIZE : e = BSIZE * (BDIV - r) - i
<1>1. BSIZE \in Nat \ {0} /\ BDIV \in Nat \ {0} /\ e \in Nat /\ e < BSIZE * BDIV
  BY EncodingAssumption, WidthType DEF Width
<1>2. PICK q \in Nat, m \in 0 .. BSIZE - 1 : e = BSIZE * q + m
  BY <1>1, Division
<1>3. q < BDIV
  <2>1. SUFFICES ASSUME q >= BDIV PROVE FALSE
    BY <1>1
  <2>2. PICK z \in Nat : q = BDIV + z
    BY <1>1, <2>1
  <2>3. BSIZE * q = BSIZE * BDIV + BSIZE * z /\ BSIZE * z \in Nat /\ BSIZE * BDIV \in Nat
    BY <1>1, <2>2
  <2>4. QED
    BY <1>1, <1>2, <2>3
<1>4. PICK r \in 0 .. BDIV - 1 : r = BDIV - 1 - q /\ BDIV - r = q + 1
  BY <1>1, <1>3
<1>5. PICK i \in 1 .. BSIZE : i = BSIZE - m
  BY <1>1
<1>6. BSIZE * (q + 1) = BSIZE * q + BSIZE /\ BSIZE * q \in Nat
  BY <1>1
<1>7. BSIZE * (BDIV - r) - i = (BSIZE * q + BSIZE) - (BSIZE - m)
  BY <1>4, <1>5, <1>6
<1>8. e = BSIZE * (BDIV - r) - i
  BY <1>1, <1>2, <1>6, <1>7
<1>9. QED
  BY <1>8

\* The slots of a byte tell which it is.
LEMMA SlotsTell ==
  ASSUME NEW c \in Byte, NEW d \in Byte,
         \A r \in 0 .. BDIV - 1 : SlotTable[c][r] = SlotTable[d][r]
  PROVE  c = d
<1>1. c \in Nat /\ d \in Nat /\ Width \in Nat
  BY WidthType
<1>2. ASSUME NEW e \in 0 .. Width - 1 PROVE (c \div 2 ^ e) % 2 = (d \div 2 ^ e) % 2
  <2>1. PICK r \in 0 .. BDIV - 1, i \in 1 .. BSIZE : e = BSIZE * (BDIV - r) - i
    BY BitSlot
  <2>2. SlotTable[c][r][i] = (c \div 2 ^ e) % 2 /\ SlotTable[d][r][i] = (d \div 2 ^ e) % 2
    BY <2>1, SlotBit
  <2>3. QED
    BY <2>2
<1>3. c \div 2 ^ 0 = d \div 2 ^ 0
  <2>1. 0 \in 0 .. Width
    BY <1>1
  <2>2. \A i \in 0 .. Width - 1 : (c \div 2 ^ i) % 2 = (d \div 2 ^ i) % 2
    BY <1>2
  <2>3. QED
    BY <2>1, <2>2, LeadingBits
<1>4. QED
  BY <1>1, <1>3, Powers

\* The order of bytes is that of the first bit of a slot in which they differ.
LEMMA SlotOrder ==
  ASSUME NEW c \in Byte, NEW d \in Byte, NEW r \in 0 .. BDIV - 1, NEW i \in 1 .. BSIZE,
         \A t \in 0 .. r - 1 : SlotTable[c][t] = SlotTable[d][t],
         \A j \in 1 .. i - 1 : SlotTable[c][r][j] = SlotTable[d][r][j],
         SlotTable[c][r][i] = 0, SlotTable[d][r][i] = 1
  PROVE  c < d
<1>1. PICK e \in 0 .. Width - 1 :
        /\ e = BSIZE * (BDIV - r) - i
        /\ \A y \in Byte : SlotTable[y][r][i] = (y \div 2 ^ e) % 2
  BY SlotBit
<1>2. BSIZE \in Nat \ {0} /\ BDIV \in Nat \ {0} /\ Width \in Nat
  BY EncodingAssumption, WidthType
<1>3. ASSUME NEW f \in e + 1 .. Width - 1 PROVE (c \div 2 ^ f) % 2 = (d \div 2 ^ f) % 2
  <2>1. f \in 0 .. Width - 1
    BY <1>2
  <2>2. PICK t \in 0 .. BDIV - 1, j \in 1 .. BSIZE : f = BSIZE * (BDIV - t) - j
    BY <2>1, BitSlot
  <2>3. SlotTable[c][t][j] = (c \div 2 ^ f) % 2 /\ SlotTable[d][t][j] = (d \div 2 ^ f) % 2
    BY <2>2, SlotBit
  <2>4. t <= r
    <3>1. SUFFICES ASSUME t > r PROVE FALSE
      BY <1>2
    <3>2. PICK z \in Nat : t = r + 1 + z
      BY <1>2, <3>1
    <3>3. PICK x \in Nat : BDIV - t = x
      BY <1>2
    <3>4. BDIV - r = x + 1 + z
      BY <1>2, <3>2, <3>3
    <3>5. BSIZE * (x + 1 + z) = BSIZE * x + BSIZE + BSIZE * z
      BY <1>2
    <3>6. BSIZE * x \in Nat /\ BSIZE * z \in Nat
      BY <1>2
    <3>7. QED
      BY <1>1, <1>2, <2>2, <3>3, <3>4, <3>5, <3>6
  <2>5. t < r \/ (t = r /\ j < i)
    BY <1>1, <1>2, <2>2, <2>4
  <2>6. SlotTable[c][t][j] = SlotTable[d][t][j]
    <3>1. CASE t < r
      <4>1. t \in 0 .. r - 1
        BY <1>2, <3>1
      <4>2. QED
        BY <4>1
    <3>2. CASE t = r /\ j < i
      <4>1. j \in 1 .. i - 1
        BY <1>2, <3>2
      <4>2. QED
        BY <3>2, <4>1
    <3>3. QED
      BY <2>5, <3>1, <3>2
  <2>7. QED
    BY <2>3, <2>6
<1>4. QED
  BY <1>1, <1>3, BitOrder

-----------------------------------------------------------------------------
(* The bytes of a key *)

\* What is assumed of bytes and keys.
LEMMA BaseFacts ==
  /\ Base \in Nat \ {0} /\ Byte = 0 .. Base - 1 /\ BDIV \in Nat \ {0} /\ BSIZE \in Nat
  /\ BSIZE >= 2 /\ \A k \in Keys : k \in Seq(Byte) /\ Len(k) \in Nat /\ Len(k) < Base * Base
BY EncodingAssumption DEF Byte

\* The bytes of the encoding of a key.
LEMMA EncBytes ==
  ASSUME NEW k \in Keys
  PROVE  /\ EncByte(k, 0) = Len(k) \div Base /\ EncByte(k, 1) = Len(k) % Base
         /\ EncByte(k, 0) \in Nat /\ EncByte(k, 1) \in 0 .. Base - 1
         /\ Len(k) = Base * EncByte(k, 0) + EncByte(k, 1)
         /\ \A i \in Nat : /\ EncByte(k, i) \in Byte /\ EncByte(k, i) \in Nat
                           /\ i > 1 /\ i <= Len(k) + 1 => EncByte(k, i) = k[i - 1]
                           /\ i > Len(k) + 1 => EncByte(k, i) = 0
<1>1. /\ Base \in Nat \ {0} /\ Byte = 0 .. Base - 1
      /\ k \in Seq(Byte) /\ Len(k) \in Nat /\ Len(k) < Base * Base
  BY BaseFacts
<1>2. PICK q \in Nat, r \in 0 .. Base - 1 :
        q = Len(k) \div Base /\ r = Len(k) % Base /\ Len(k) = Base * q + r
  BY <1>1, Division
<1>3. q < Base
  <2>1. SUFFICES ASSUME q >= Base PROVE FALSE
    BY <1>1
  <2>2. PICK z \in Nat : q = Base + z
    BY <1>1, <2>1
  <2>3. Base * q = Base * Base + Base * z /\ Base * z \in Nat /\ Base * Base \in Nat
    BY <1>1, <2>2
  <2>4. QED
    BY <1>1, <1>2, <2>3
<1>4. q % Base = q
  <2>1. q = Base * 0 + q /\ q \in 0 .. Base - 1
    BY <1>1, <1>3
  <2>2. QED
    BY <1>1, <2>1, Quotient
<1>5. EncByte(k, 0) = q /\ EncByte(k, 1) = r
  BY <1>2, <1>4 DEF EncByte
<1>6. ASSUME NEW i \in Nat
      PROVE  /\ EncByte(k, i) \in Byte /\ EncByte(k, i) \in Nat
             /\ i > 1 /\ i <= Len(k) + 1 => EncByte(k, i) = k[i - 1]
             /\ i > Len(k) + 1 => EncByte(k, i) = 0
  <2>1. EncByte(k, i) \in Byte
    BY EncByteType
  <2>2. i > 1 /\ i <= Len(k) + 1 => EncByte(k, i) = k[i - 1]
    BY <1>1 DEF EncByte
  <2>3. i > Len(k) + 1 => EncByte(k, i) = 0
    BY <1>1 DEF EncByte
  <2>4. QED
    BY <1>1, <2>1, <2>2, <2>3
<1>7. QED
  BY <1>2, <1>5, <1>6

\* A byte of a key, in its encoding.
LEMMA ByteAt ==
  ASSUME NEW k \in Keys, NEW i \in 1 .. Len(k) PROVE EncByte(k, i + 1) = k[i]
<1>1. Len(k) \in Nat
  BY BaseFacts
<1>2. PICK j \in Nat : j = i + 1 /\ j > 1 /\ j <= Len(k) + 1 /\ j - 1 = i
  BY <1>1
<1>3. EncByte(k, j) = k[j - 1]
  BY <1>2, EncBytes
<1>4. QED
  BY <1>2, <1>3

\* Two length bytes are the length.
LEMMA AgreeLen ==
  ASSUME NEW k \in Keys, NEW l \in Keys, NEW b \in Nat, Agree(k, l, b)
  PROVE  /\ b >= 1 => Len(k) \div Base = Len(l) \div Base
         /\ b >= 2 => Len(k) = Len(l)
<1>1. b >= 1 => EncByte(k, 0) = EncByte(l, 0)
  BY DEF Agree
<1>2. b >= 2 => EncByte(k, 1) = EncByte(l, 1)
  BY DEF Agree
<1>3. b >= 1 => Len(k) \div Base = Len(l) \div Base
  BY <1>1, EncBytes
<1>4. b >= 2 => Len(k) = Len(l)
  <2>1. /\ Len(k) = Base * EncByte(k, 0) + EncByte(k, 1)
        /\ Len(l) = Base * EncByte(l, 0) + EncByte(l, 1)
    BY EncBytes
  <2>2. QED
    BY <1>1, <1>2, <2>1
<1>5. QED
  BY <1>3, <1>4

\* Agreement is symmetric, and holds on fewer bytes too.
LEMMA AgreeLess ==
  ASSUME NEW k, NEW l, NEW b \in Nat, NEW c \in Nat, c <= b, Agree(k, l, b)
  PROVE  Agree(k, l, c) /\ Agree(l, k, c)
BY DEF Agree

\* Keys with the same bytes are the same.
LEMMA AgreeAll ==
  ASSUME NEW k \in Keys, NEW l \in Keys, Agree(k, l, Len(k) + 2)
  PROVE  k = l
<1>1. k \in Seq(Byte) /\ l \in Seq(Byte) /\ Len(k) \in Nat
  BY BaseFacts
<1>2. Len(k) = Len(l)
  BY <1>1, AgreeLen
<1>3. ASSUME NEW i \in 1 .. Len(k) PROVE k[i] = l[i]
  <2>1. i + 1 \in 0 .. Len(k) + 2 - 1
    BY <1>1
  <2>2. EncByte(k, i + 1) = k[i] /\ EncByte(l, i + 1) = l[i]
    BY <1>2, ByteAt
  <2>3. EncByte(k, i + 1) = EncByte(l, i + 1)
    BY <2>1 DEF Agree
  <2>4. QED
    BY <2>2, <2>3
<1>4. QED
  BY <1>1, <1>2, <1>3

\* The cut at zero.
LEMMA PositiveIs ==
  ASSUME NEW x \in Int
  PROVE  /\ Positive(x) \in Nat
         /\ x >= 0 => Positive(x) = x
         /\ x <= 0 => Positive(x) = 0
BY DEF Positive

\* The rest of a key behind b of its bytes.
LEMMA ResidualFacts ==
  ASSUME NEW k \in Keys, NEW b \in Nat
  PROVE  /\ Residual(k, b) \in Seq(Byte)
         /\ Len(Residual(k, b)) = Positive(Len(k) - b) /\ Len(Residual(k, b)) \in Nat
         /\ \A i \in 1 .. Len(Residual(k, b)) : /\ b + i \in 1 .. Len(k)
                                                /\ Residual(k, b)[i] = k[b + i]
                                                /\ Residual(k, b)[i] = EncByte(k, b + i + 1)
<1>1. k \in Seq(Byte) /\ Len(k) \in Nat
  BY BaseFacts
<1>2. Residual(k, b) \in Seq(Byte)
  BY <1>1 DEF Residual
<1>3. Len(Residual(k, b)) = Positive(Len(k) - b)
  BY <1>1 DEF Residual, Positive
<1>4. ASSUME NEW i \in 1 .. Len(Residual(k, b))
      PROVE  /\ b + i \in 1 .. Len(k) /\ Residual(k, b)[i] = k[b + i]
             /\ Residual(k, b)[i] = EncByte(k, b + i + 1)
  <2>1. b + i \in 1 .. Len(k)
    BY <1>1, <1>3 DEF Positive
  <2>2. Residual(k, b)[i] = k[b + i]
    BY <1>1, <2>1 DEF Residual
  <2>3. EncByte(k, b + i + 1) = k[b + i]
    BY <2>1, ByteAt
  <2>4. QED
    BY <2>1, <2>2, <2>3
<1>5. QED
  BY <1>1, <1>2, <1>3, <1>4 DEF Positive

\* The size that is at hand serves for the key k, below b bytes.
Fits(size, b, k) ==
  /\ size \in Int
  /\ b = 1 => size \div Base = Len(k) \div Base /\ Len(k) > 0
  /\ b >= 2 => Positive(size - b) = Positive(Len(k) - b)

\* Then the length that is computed is that of the rest of the key.
LEMMA LengthIs ==
  ASSUME NEW k \in Keys, NEW b \in Nat, NEW size, Fits(size, b, k)
  PROVE  ResidualLen(b, size, First(k, b)) = Len(Residual(k, b))
<1>1. Len(Residual(k, b)) = Positive(Len(k) - b) /\ Len(k) \in Nat
  BY ResidualFacts, BaseFacts
<1>2. PICK x \in Nat, y \in 0 .. Base - 1 :
        x = EncByte(k, 0) /\ y = EncByte(k, 1) /\ Len(k) = Base * x + y /\ x = Len(k) \div Base
  BY EncBytes
<1>3. CASE b = 0
  <2>1. First(k, 0) = <<x, y>>
    BY <1>2 DEF First
  <2>2. ResidualLen(0, size, <<x, y>>) = x * Base + y
    BY DEF ResidualLen
  <2>3. x * Base = Base * x
    BY BaseFacts
  <2>4. QED
    BY <1>1, <1>2, <1>3, <2>1, <2>2, <2>3 DEF Positive
<1>4. CASE b = 1
  <2>1. First(k, 1)[1] = y
    BY <1>2 DEF First
  <2>2. ResidualLen(1, size, First(k, 1)) = ((size \div Base) * Base + y - 1) % (Base * Base)
    BY <2>1 DEF ResidualLen
  <2>3. size \div Base = x /\ Len(k) > 0
    BY <1>2, <1>4 DEF Fits
  <2>4. x * Base + y - 1 = Len(k) - 1
    BY <1>2, BaseFacts
  <2>5. (Len(k) - 1) % (Base * Base) = Len(k) - 1
    <3>1. Len(k) - 1 \in 0 .. Base * Base - 1 /\ Base * Base \in Nat \ {0} /\ Len(k) - 1 \in Nat
      BY <1>1, <2>3, BaseFacts
    <3>2. Len(k) - 1 = (Base * Base) * 0 + (Len(k) - 1)
      BY <3>1
    <3>3. QED
      BY <3>1, <3>2, Quotient
  <2>6. QED
    BY <1>1, <1>4, <2>2, <2>3, <2>4, <2>5 DEF Positive
<1>5. CASE b >= 2
  BY <1>1, <1>5 DEF ResidualLen, Fits
<1>6. QED
  BY <1>3, <1>4, <1>5

\* The size of a key that agrees with k, down to the level of the items, serves for k.
LEMMA SizeFits ==
  ASSUME NEW k \in Keys, NEW l \in Keys, NEW b \in Nat, Agree(k, l, b), Len(k) > 0, Len(l) > 0,
         NEW size \in Int,
         size = Len(l) \/ size = Positive(Len(l) - b) + b
  PROVE  Fits(size, b, k)
<1>1. Len(k) \in Nat /\ Len(l) \in Nat
  BY BaseFacts
<1>2. CASE b = 0
  BY <1>2 DEF Fits
<1>3. CASE b = 1
  <2>1. Len(k) \div Base = Len(l) \div Base /\ Len(l) > 0
    BY <1>3, AgreeLen
  <2>2. size = Len(l)
    BY <1>1, <1>3, <2>1 DEF Positive
  <2>3. QED
    BY <1>3, <2>1, <2>2 DEF Fits
<1>4. CASE b >= 2
  <2>1. Len(k) = Len(l)
    BY <1>4, AgreeLen
  <2>2. Positive(size - b) = Positive(Len(l) - b)
    BY <1>1 DEF Positive
  <2>3. QED
    BY <1>4, <2>1, <2>2 DEF Fits
<1>5. QED
  BY <1>2, <1>3, <1>4

-----------------------------------------------------------------------------
(* The order of keys *)

\* The bound on the byte that decides is no restriction.
LEMMA LessIs ==
  ASSUME NEW k \in Keys, NEW l \in Keys
  PROVE  EncLess(k, l) <=> \E i \in Nat : EncByte(k, i) < EncByte(l, i) /\ Agree(k, l, i)
<1>1. Len(l) \in Nat /\ \A i \in Nat : EncByte(k, i) \in Nat /\ EncByte(l, i) \in Nat
  BY EncBytes, BaseFacts
<1>2. \A i \in Nat : i > Len(l) + 1 => EncByte(l, i) = 0
  BY EncBytes
<1>3. ASSUME NEW i \in Nat, EncByte(k, i) < EncByte(l, i) PROVE i \in 0 .. Len(l) + 1
  <2>1. EncByte(k, i) \in Nat /\ EncByte(l, i) \in Nat
    BY <1>1
  <2>2. EncByte(l, i) # 0
    BY <1>3, <2>1
  <2>3. ~ (i > Len(l) + 1)
    BY <1>2, <2>2
  <2>4. QED
    BY <1>1, <2>3
<1>4. \A i \in 0 .. Len(l) + 1 : i \in Nat
  BY <1>1
<1>5. QED
  BY <1>3, <1>4 DEF EncLess

\* The order is strict, and keys that differ are ordered.
LEMMA LessAsym ==
  ASSUME NEW k \in Keys, NEW l \in Keys, EncLess(k, l)
  PROVE  ~ EncLess(l, k) /\ k # l
<1>1. PICK i \in Nat : EncByte(k, i) < EncByte(l, i) /\ Agree(k, l, i)
  BY LessIs
<1>2. EncByte(k, i) \in Nat /\ EncByte(l, i) \in Nat
  BY EncBytes
<1>3. k # l
  BY <1>1, <1>2
<1>4. ASSUME EncLess(l, k) PROVE FALSE
  <2>1. PICK j \in Nat : EncByte(l, j) < EncByte(k, j) /\ Agree(l, k, j)
    BY <1>4, LessIs
  <2>2. EncByte(k, j) \in Nat /\ EncByte(l, j) \in Nat
    BY EncBytes
  <2>3. CASE i < j
    <3>1. i \in 0 .. j - 1
      BY <2>3
    <3>2. QED
      BY <1>1, <1>2, <2>1, <3>1 DEF Agree
  <2>4. CASE j < i
    <3>1. j \in 0 .. i - 1
      BY <2>4
    <3>2. QED
      BY <1>1, <2>1, <2>2, <3>1 DEF Agree
  <2>5. CASE i = j
    BY <1>1, <1>2, <2>1, <2>5
  <2>6. QED
    BY <2>3, <2>4, <2>5
<1>5. QED
  BY <1>3, <1>4

\* And it is transitive.
LEMMA LessTrans ==
  ASSUME NEW k \in Keys, NEW l \in Keys, NEW m \in Keys, EncLess(k, l), EncLess(l, m)
  PROVE  EncLess(k, m)
<1>1. PICK i \in Nat : EncByte(k, i) < EncByte(l, i) /\ Agree(k, l, i)
  BY LessIs
<1>2. PICK j \in Nat : EncByte(l, j) < EncByte(m, j) /\ Agree(l, m, j)
  BY LessIs
<1>3. \A x \in Nat : EncByte(k, x) \in Nat /\ EncByte(l, x) \in Nat /\ EncByte(m, x) \in Nat
  BY EncBytes
<1>4. CASE i < j
  <2>1. i \in 0 .. j - 1 /\ \A x \in 0 .. i - 1 : x \in 0 .. j - 1
    BY <1>4
  <2>2. EncByte(k, i) < EncByte(m, i) /\ Agree(k, m, i)
    BY <1>1, <1>2, <2>1 DEF Agree
  <2>3. QED
    BY <2>2, LessIs
<1>5. CASE j < i
  <2>1. j \in 0 .. i - 1 /\ \A x \in 0 .. j - 1 : x \in 0 .. i - 1
    BY <1>5
  <2>2. EncByte(k, j) < EncByte(m, j) /\ Agree(k, m, j)
    BY <1>1, <1>2, <2>1 DEF Agree
  <2>3. QED
    BY <2>2, LessIs
<1>6. CASE i = j
  <2>1. EncByte(k, i) < EncByte(m, i) /\ Agree(k, m, i)
    BY <1>1, <1>2, <1>3, <1>6 DEF Agree
  <2>2. QED
    BY <2>1, LessIs
<1>7. QED
  BY <1>4, <1>5, <1>6

\* Any two keys are ordered.
LEMMA LessTotal ==
  ASSUME NEW k \in Keys, NEW l \in Keys, k # l
  PROVE  EncLess(k, l) \/ EncLess(l, k)
<1> DEFINE T == {i \in Nat : EncByte(k, i) # EncByte(l, i)}
<1>1. \A x \in Nat : EncByte(k, x) \in Nat /\ EncByte(l, x) \in Nat
  BY EncBytes
<1>2. T # {}
  <2>1. SUFFICES ASSUME T = {} PROVE FALSE
    OBVIOUS
  <2>2. Len(k) \in Nat
    BY BaseFacts
  <2>3. Agree(k, l, Len(k) + 2)
    BY <2>1, <2>2 DEF Agree
  <2>4. QED
    BY <2>3, AgreeAll
<1>3. PICK m \in T : \A x \in T : m <= x
  <2>1. T \subseteq Nat
    OBVIOUS
  <2> HIDE DEF T
  <2>2. QED
    BY <1>2, <2>1, Least
<1>4. Agree(k, l, m) /\ Agree(l, k, m)
  <2>1. ASSUME NEW x \in 0 .. m - 1 PROVE EncByte(k, x) = EncByte(l, x)
    <3>1. x \in Nat /\ ~ (m <= x)
      OBVIOUS
    <3>2. QED
      BY <1>3, <3>1
  <2>2. QED
    BY <2>1 DEF Agree
<1>5. EncByte(k, m) < EncByte(l, m) \/ EncByte(l, m) < EncByte(k, m)
  BY <1>1
<1>6. m \in Nat
  OBVIOUS
<1> HIDE DEF T
<1>7. QED
  BY <1>4, <1>5, <1>6, LessIs

\* What keys with the same `first' have in common.
LEMMA SameFirst ==
  ASSUME NEW k \in Keys, NEW l \in Keys, NEW b \in Nat, Agree(k, l, b), First(k, b) = First(l, b)
  PROVE  Agree(k, l, b + 2) /\ Len(k) = Len(l) /\ Len(Residual(k, b)) = Len(Residual(l, b))
<1>1. EncByte(k, b) = EncByte(l, b) /\ EncByte(k, b + 1) = EncByte(l, b + 1)
  BY DEF First
<1>2. ASSUME NEW i \in 0 .. b + 2 - 1 PROVE EncByte(k, i) = EncByte(l, i)
  <2>1. i \in 0 .. b - 1 \/ i = b \/ i = b + 1
    OBVIOUS
  <2>2. QED
    BY <1>1, <2>1 DEF Agree
<1>3. Agree(k, l, b + 2)
  BY <1>2 DEF Agree
<1>4. b + 2 \in Nat /\ b + 2 >= 2
  OBVIOUS
<1>5. Len(k) = Len(l)
  BY <1>3, <1>4, AgreeLen
<1>6. QED
  BY <1>3, <1>5, ResidualFacts

\* An item tells its key.
LEMMA ItemTells ==
  ASSUME NEW k \in Keys, NEW l \in Keys, NEW b \in Nat, Agree(k, l, b),
         First(k, b) = First(l, b), Residual(k, b) = Residual(l, b)
  PROVE  k = l
<1>1. Agree(k, l, b + 2) /\ Len(k) = Len(l) /\ Len(k) \in Nat
  BY SameFirst, BaseFacts
<1>2. ASSUME NEW i \in 0 .. Len(k) + 2 - 1 PROVE EncByte(k, i) = EncByte(l, i)
  <2>1. CASE i < b + 2
    <3>1. i \in 0 .. b + 2 - 1
      BY <2>1
    <3>2. QED
      BY <1>1, <3>1 DEF Agree
  <2>2. CASE i >= b + 2
    <3>1. PICK j \in Nat : j = i - (b + 1) /\ j >= 1 /\ b + j + 1 = i
      BY <2>2
    <3>2. Len(Residual(k, b)) = Positive(Len(k) - b) /\ Len(k) - b >= j
      BY <1>1, <2>2, <3>1, ResidualFacts
    <3>3. j \in 1 .. Len(Residual(k, b)) /\ j \in 1 .. Len(Residual(l, b))
      BY <1>1, <3>1, <3>2 DEF Positive
    <3>4. Residual(k, b)[j] = EncByte(k, b + j + 1) /\ Residual(l, b)[j] = EncByte(l, b + j + 1)
      BY <3>3, ResidualFacts
    <3>5. QED
      BY <3>1, <3>4
  <2>3. QED
    BY <2>1, <2>2
<1>3. QED
  BY <1>2, AgreeAll DEF Agree

\* The items of keys that agree above a bucket are in the order of the keys.
LEMMA ItemOrder ==
  ASSUME NEW k \in Keys, NEW l \in Keys, NEW b \in Nat, Agree(k, l, b)
  PROVE  ItemLess(First(k, b), Residual(k, b), First(l, b), Residual(l, b)) <=> EncLess(k, l)
<1> DEFINE f == First(k, b)
           g == First(l, b)
           r == Residual(k, b)
           s == Residual(l, b)
<1>1. /\ f[1] = EncByte(k, b) /\ f[2] = EncByte(k, b + 1)
      /\ g[1] = EncByte(l, b) /\ g[2] = EncByte(l, b + 1)
      /\ (f = g <=> f[1] = g[1] /\ f[2] = g[2])
  BY DEF First
<1>2. /\ \A x \in Nat : EncByte(k, x) \in Nat /\ EncByte(l, x) \in Nat
      /\ Len(k) \in Nat /\ Len(l) \in Nat
  BY EncBytes, BaseFacts
<1>3. PICK c \in Nat : c = b + 1
  OBVIOUS
<1>4. f[1] = g[1] => Agree(k, l, c)
  <2>1. \A i \in 0 .. c - 1 : i \in 0 .. b - 1 \/ i = b
    BY <1>3
  <2>2. QED
    BY <1>1, <2>1 DEF Agree
<1>5. ASSUME f = g PROVE BytesLess(r, s) <=> EncLess(k, l)
  <2>1. Agree(k, l, b + 2) /\ Len(k) = Len(l) /\ Len(r) = Len(s)
    BY <1>5, SameFirst
  <2>2. /\ Len(s) = Positive(Len(l) - b) /\ Len(s) \in Nat
        /\ \A i \in 1 .. Len(r) : r[i] = EncByte(k, b + i + 1)
        /\ \A i \in 1 .. Len(s) : s[i] = EncByte(l, b + i + 1)
    BY ResidualFacts
  <2> HIDE DEF f, g, r, s
  <2>3. ASSUME NEW i \in 1 .. Len(s), NEW x \in Nat, x = b + i + 1
        PROVE  (\A j \in 1 .. i - 1 : r[j] = s[j]) <=> Agree(k, l, x)
    <3>1. ASSUME \A j \in 1 .. i - 1 : r[j] = s[j], NEW y \in 0 .. x - 1
          PROVE  EncByte(k, y) = EncByte(l, y)
      <4>1. CASE y < b + 2
        <5>1. y \in 0 .. b + 2 - 1
          BY <4>1
        <5>2. QED
          BY <2>1, <5>1 DEF Agree
      <4>2. CASE y >= b + 2
        <5>1. PICK j \in 1 .. i - 1 : y = b + j + 1
          <6>1. y - (b + 1) \in 1 .. i - 1 /\ y = b + (y - (b + 1)) + 1
            BY <2>3, <4>2
          <6>2. QED
            BY <6>1
        <5>2. j \in 1 .. Len(s) /\ j \in 1 .. Len(r)
          BY <2>1, <2>2
        <5>3. QED
          BY <2>2, <3>1, <5>1, <5>2
      <4>3. QED
        BY <4>1, <4>2
    <3>2. ASSUME Agree(k, l, x), NEW j \in 1 .. i - 1 PROVE r[j] = s[j]
      <4>1. b + j + 1 \in 0 .. x - 1
        BY <2>3
      <4>2. EncByte(k, b + j + 1) = EncByte(l, b + j + 1)
        BY <3>2, <4>1 DEF Agree
      <4>3. j \in 1 .. Len(s) /\ j \in 1 .. Len(r)
        BY <2>1, <2>2
      <4>4. QED
        BY <2>2, <4>2, <4>3
    <3>3. QED
      BY <3>1, <3>2 DEF Agree
  <2>4. ASSUME BytesLess(r, s) PROVE EncLess(k, l)
    <3>1. PICK i \in 1 .. Len(s) : /\ i <= Len(r) => r[i] < s[i]
                                   /\ \A j \in 1 .. i - 1 : j <= Len(r) /\ r[j] = s[j]
      BY <2>4 DEF BytesLess
    <3>2. PICK x \in Nat : x = b + i + 1
      OBVIOUS
    <3>3. Agree(k, l, x)
      BY <2>3, <3>1, <3>2
    <3>4. r[i] < s[i] /\ r[i] = EncByte(k, x) /\ s[i] = EncByte(l, x)
      <4>1. i \in 1 .. Len(r) /\ i <= Len(r)
        BY <2>1, <2>2
      <4>2. QED
        BY <2>2, <3>1, <3>2, <4>1
    <3>5. EncByte(k, x) < EncByte(l, x)
      BY <3>4
    <3>6. QED
      BY <3>3, <3>5, LessIs
  <2>5. ASSUME EncLess(k, l) PROVE BytesLess(r, s)
    <3>1. PICK x \in 0 .. Len(l) + 1 : EncByte(k, x) < EncByte(l, x) /\ Agree(k, l, x)
      BY <2>5 DEF EncLess
    <3>2. x >= b + 2
      <4>1. SUFFICES ASSUME x < b + 2 PROVE FALSE
        BY <1>2
      <4>2. x \in 0 .. b + 2 - 1 /\ x \in Nat
        BY <1>2, <4>1
      <4>3. EncByte(k, x) = EncByte(l, x)
        BY <2>1, <4>2 DEF Agree
      <4>4. QED
        BY <1>2, <3>1, <4>2, <4>3
    <3>3. PICK i \in 1 .. Len(s) : x = b + i + 1 /\ x \in Nat
      <4>1. x - (b + 1) \in 1 .. Len(s) /\ x = b + (x - (b + 1)) + 1 /\ x \in Nat
        BY <1>2, <2>2, <3>2 DEF Positive
      <4>2. QED
        BY <4>1
    <3>4. \A j \in 1 .. i - 1 : r[j] = s[j]
      BY <2>3, <3>1, <3>3
    <3>5. r[i] < s[i]
      <4>1. i \in 1 .. Len(r)
        BY <2>1
      <4>2. r[i] = EncByte(k, x) /\ s[i] = EncByte(l, x)
        BY <2>2, <3>3, <4>1
      <4>3. QED
        BY <3>1, <4>2
    <3>6. \A j \in 1 .. i - 1 : j <= Len(r)
      BY <2>1, <2>2
    <3>7. QED
      BY <3>4, <3>5, <3>6 DEF BytesLess
  <2>6. QED
    BY <2>4, <2>5
<1>6. FirstLess(f, g) => EncLess(k, l)
  <2>1. CASE f[1] < g[1]
    BY <1>1, <2>1, LessIs
  <2>2. CASE f[1] = g[1] /\ f[2] < g[2]
    BY <1>1, <1>3, <1>4, <2>2, LessIs
  <2>3. QED
    BY <2>1, <2>2 DEF FirstLess
<1>7. FirstLess(g, f) => EncLess(l, k)
  <2>1. Agree(l, k, b) /\ (f[1] = g[1] => Agree(l, k, c))
    BY <1>4 DEF Agree
  <2>2. CASE g[1] < f[1]
    BY <1>1, <2>1, <2>2, LessIs
  <2>3. CASE g[1] = f[1] /\ g[2] < f[2]
    BY <1>1, <1>3, <2>1, <2>3, LessIs
  <2>4. QED
    BY <2>2, <2>3 DEF FirstLess
<1>8. f = g \/ FirstLess(f, g) \/ FirstLess(g, f)
  <2>1. f[1] \in Nat /\ f[2] \in Nat /\ g[1] \in Nat /\ g[2] \in Nat
    BY <1>1, <1>2, <1>3
  <2>2. QED
    BY <1>1, <2>1 DEF FirstLess
<1>9. FirstLess(g, f) => ~ FirstLess(f, g) /\ f # g
  <2>1. f[1] \in Nat /\ f[2] \in Nat /\ g[1] \in Nat /\ g[2] \in Nat
    BY <1>1, <1>2, <1>3
  <2>2. QED
    BY <1>1, <2>1 DEF FirstLess
<1>10. f = g => ~ FirstLess(f, g)
  <2>1. f[1] \in Nat /\ f[2] \in Nat
    BY <1>1, <1>2, <1>3
  <2>2. QED
    BY <2>1 DEF FirstLess
<1> HIDE DEF f, g, r, s
<1>11. ItemLess(f, r, g, s) <=> EncLess(k, l)
  BY <1>5, <1>6, <1>7, <1>8, <1>9, <1>10, LessAsym DEF ItemLess
<1>12. QED
  BY <1>11 DEF f, g, r, s

-----------------------------------------------------------------------------
(* Keys below a path *)

\* A part of a sequence's positions that has with one all before it.
LEMMA Segment ==
  ASSUME NEW n \in Nat, NEW S \in SUBSET (1 .. n), \A x \in S : \A y \in 1 .. x : y \in S
  PROVE  Cardinality(S) \in 0 .. n /\ S = 1 .. Cardinality(S)
<1> DEFINE T == {m \in Nat : m + 1 \notin S}
<1>1. T \subseteq Nat /\ n \in T
  OBVIOUS
<1>2. PICK m \in T : \A x \in T : m <= x
  <2> HIDE DEF T
  <2>1. QED
    BY <1>1, Least
<1>3. m \in 0 .. n /\ m + 1 \notin S
  BY <1>1, <1>2
<1>4. ASSUME NEW x \in 1 .. m PROVE x \in S
  <2>1. x - 1 \in Nat /\ ~ (m <= x - 1) /\ x - 1 + 1 = x
    OBVIOUS
  <2>2. x - 1 \notin T
    BY <1>2, <2>1
  <2>3. QED
    BY <2>1, <2>2
<1>5. ASSUME NEW x \in S PROVE x \in 1 .. m
  <2>1. SUFFICES ASSUME x > m PROVE FALSE
    BY <1>3
  <2>2. m + 1 \in 1 .. x
    BY <1>3, <2>1
  <2>3. QED
    BY <1>3, <2>2
<1>6. S = 1 .. m
  BY <1>4, <1>5
<1>7. Cardinality(1 .. m) = m
  BY <1>3, FS_Interval
<1>8. QED
  BY <1>3, <1>6, <1>7

\* Levels and bytes.
LEMMA LevelByte ==
  /\ \A b \in Nat : \A r \in 0 .. BDIV - 1 :
       b * BDIV + r \in Nat /\ (b * BDIV + r) \div BDIV = b /\ (b * BDIV + r) % BDIV = r
  /\ \A p \in Nat : /\ p \div BDIV \in Nat /\ p % BDIV \in 0 .. BDIV - 1
                    /\ p = (p \div BDIV) * BDIV + (p % BDIV)
<1>1. BDIV \in Nat \ {0}
  BY BaseFacts
<1>2. ASSUME NEW b \in Nat, NEW r \in 0 .. BDIV - 1
      PROVE  b * BDIV + r \in Nat /\ (b * BDIV + r) \div BDIV = b /\ (b * BDIV + r) % BDIV = r
  <2>1. b * BDIV = BDIV * b /\ BDIV * b \in Nat
    BY <1>1
  <2>2. PICK x \in Nat : x = BDIV * b + r
    BY <1>1, <2>1
  <2>3. x \div BDIV = b /\ x % BDIV = r
    BY <1>1, <2>2, Quotient
  <2>4. QED
    BY <2>1, <2>2, <2>3
<1>3. ASSUME NEW p \in Nat
      PROVE  /\ p \div BDIV \in Nat /\ p % BDIV \in 0 .. BDIV - 1
             /\ p = (p \div BDIV) * BDIV + (p % BDIV)
  <2>1. PICK q \in Nat : q = p \div BDIV /\ p % BDIV \in 0 .. BDIV - 1 /\ p = BDIV * q + (p % BDIV)
    BY <1>1, Division
  <2>2. BDIV * q = q * BDIV
    BY <1>1
  <2>3. QED
    BY <2>1, <2>2
<1>4. QED
  BY <1>2, <1>3

\* One level down: the next byte begins where all slots of this one are in the path.
LEMMA NextLevel ==
  ASSUME NEW p \in Nat, NEW r \in Nat, r = p + 1
  PROVE  /\ r % BDIV = 0 => /\ r \div BDIV = (p \div BDIV) + 1
                            /\ p % BDIV = BDIV - 1
         /\ r % BDIV # 0 => /\ r \div BDIV = p \div BDIV
                            /\ r % BDIV = (p % BDIV) + 1
<1>1. BDIV \in Nat \ {0}
  BY BaseFacts
<1>2. PICK q \in Nat, m \in 0 .. BDIV - 1 : q = p \div BDIV /\ m = p % BDIV /\ p = BDIV * q + m
  BY <1>1, Division
<1>3. CASE m = BDIV - 1
  <2>1. BDIV * (q + 1) = BDIV * q + BDIV /\ BDIV * q \in Nat
    BY <1>1
  <2>2. PICK x \in Nat, z \in 0 .. BDIV - 1 : x = q + 1 /\ z = 0
    BY <1>1
  <2>3. r = BDIV * x + z
    BY <1>1, <1>2, <1>3, <2>1, <2>2
  <2>4. r \div BDIV = x /\ r % BDIV = z
    BY <1>1, <2>3, Quotient
  <2>5. QED
    BY <1>2, <1>3, <2>2, <2>4
<1>4. CASE m < BDIV - 1
  <2>1. PICK z \in 0 .. BDIV - 1 : z = m + 1
    BY <1>1, <1>4
  <2>2. r = BDIV * q + z
    <3>1. BDIV * q \in Nat
      BY <1>1
    <3>2. QED
      BY <1>1, <1>2, <2>1, <3>1
  <2>3. r \div BDIV = q /\ r % BDIV = z
    BY <1>1, <2>2, Quotient
  <2>4. QED
    BY <1>1, <1>2, <2>1, <2>3
<1>5. QED
  BY <1>1, <1>2, <1>3, <1>4

\* What the slots of a path say of the bytes of a key.
LEMMA StartsBytes ==
  ASSUME NEW k \in Keys, NEW path \in Seq(Slots), Starts(k, path)
  PROVE  \A i \in Nat : \A r \in 0 .. BDIV - 1 : (i * BDIV) + r < Len(path) =>
            path[i * BDIV + r + 1] = SlotTable[EncByte(k, i)][r]
<1> SUFFICES ASSUME NEW i \in Nat, NEW r \in 0 .. BDIV - 1, (i * BDIV) + r < Len(path)
             PROVE  path[i * BDIV + r + 1] = SlotTable[EncByte(k, i)][r]
  OBVIOUS
<1>1. PICK p \in Nat : p = i * BDIV + r /\ p \div BDIV = i /\ p % BDIV = r
  BY LevelByte
<1>2. PICK j \in DOMAIN path : j = p + 1 /\ j - 1 = p
  <2>1. p + 1 \in DOMAIN path
    BY <1>1
  <2>2. QED
    BY <2>1
<1>3. path[j] = Slot(k, p)
  BY <1>2 DEF Starts
<1>4. QED
  BY <1>1, <1>2, <1>3 DEF Slot

\* Keys below the same path agree in its complete bytes and in its last slots.
LEMMA StartsAgree ==
  ASSUME NEW k \in Keys, NEW l \in Keys, NEW path \in Seq(Slots), Starts(k, path), Starts(l, path),
         NEW b, b = Len(path) \div BDIV
  PROVE  /\ b \in Nat /\ Agree(k, l, b)
         /\ \A t \in 0 .. (Len(path) % BDIV) - 1 :
              SlotTable[EncByte(k, b)][t] = SlotTable[EncByte(l, b)][t]
<1>1. /\ BDIV \in Nat \ {0} /\ Len(path) \in Nat /\ b \in Nat
      /\ Len(path) % BDIV \in 0 .. BDIV - 1 /\ Len(path) = b * BDIV + (Len(path) % BDIV)
  <2>1. Len(path) \in Nat
    OBVIOUS
  <2>2. QED
    BY <2>1, LevelByte, BaseFacts
<1>2. ASSUME NEW i \in Nat, NEW r \in 0 .. BDIV - 1, (i * BDIV) + r < Len(path)
      PROVE  SlotTable[EncByte(k, i)][r] = SlotTable[EncByte(l, i)][r]
  BY <1>2, StartsBytes
<1>3. ASSUME NEW i \in 0 .. b - 1 PROVE EncByte(k, i) = EncByte(l, i)
  <2>1. ASSUME NEW r \in 0 .. BDIV - 1 PROVE (i * BDIV) + r < Len(path)
    <3>1. PICK z \in Nat : b = i + 1 + z /\ i \in Nat
      <4>1. b - (i + 1) \in Nat /\ b = i + 1 + (b - (i + 1)) /\ i \in Nat
        BY <1>1
      <4>2. QED
        BY <4>1
    <3>2. b * BDIV = i * BDIV + BDIV + z * BDIV /\ z * BDIV \in Nat /\ i * BDIV \in Nat
      BY <1>1, <3>1
    <3>3. QED
      BY <1>1, <3>2
  <2>2. \A r \in 0 .. BDIV - 1 : SlotTable[EncByte(k, i)][r] = SlotTable[EncByte(l, i)][r]
    BY <1>2, <2>1
  <2>3. EncByte(k, i) \in Byte /\ EncByte(l, i) \in Byte
    BY EncBytes
  <2>4. QED
    BY <2>2, <2>3, SlotsTell
<1>4. ASSUME NEW t \in 0 .. (Len(path) % BDIV) - 1
      PROVE  SlotTable[EncByte(k, b)][t] = SlotTable[EncByte(l, b)][t]
  <2>1. t \in 0 .. BDIV - 1 /\ b * BDIV + t < Len(path)
    <3>1. b * BDIV \in Nat
      BY <1>1
    <3>2. QED
      BY <1>1, <3>1
  <2>2. QED
    BY <1>1, <1>2, <2>1
<1>5. QED
  BY <1>1, <1>3, <1>4 DEF Agree

\* The next bit orders the keys below a path.
LEMMA BranchOrder ==
  ASSUME NEW k \in Keys, NEW l \in Keys, NEW path \in Seq(Slots),
         NEW q \in SlotPrefixes, Len(q) < BSIZE,
         Belongs(k, path, Append(q, 0)), Belongs(l, path, Append(q, 1))
  PROVE  EncLess(k, l)
<1>1. PICK b : b = Len(path) \div BDIV
  OBVIOUS
<1>2. PICK r : r = Len(path) % BDIV
  OBVIOUS
<1>3. b \in Nat /\ r \in 0 .. BDIV - 1 /\ Len(path) \in Nat
  BY <1>1, <1>2, LevelByte
<1>4. Starts(k, path) /\ Starts(l, path)
  BY DEF Belongs
<1>5. Agree(k, l, b) /\ \A t \in 0 .. r - 1 : SlotTable[EncByte(k, b)][t] = SlotTable[EncByte(l, b)][t]
  BY <1>1, <1>2, <1>4, StartsAgree
<1>6. /\ Slot(k, Len(path)) = SlotTable[EncByte(k, b)][r]
      /\ Slot(l, Len(path)) = SlotTable[EncByte(l, b)][r]
  BY <1>1, <1>2 DEF Slot
<1>7. PICK i \in 1 .. BSIZE : i = Len(q) + 1 /\ Len(q) \in Nat /\ q \in Seq({0, 1})
  BY PrefixFacts
<1>8. /\ Len(Append(q, 0)) = i /\ Len(Append(q, 1)) = i
      /\ Append(q, 0)[i] = 0 /\ Append(q, 1)[i] = 1
      /\ \A j \in 1 .. i - 1 : Append(q, 0)[j] = q[j] /\ Append(q, 1)[j] = q[j]
  BY <1>7
<1>9. /\ \A j \in 1 .. i : Slot(k, Len(path))[j] = Append(q, 0)[j]
      /\ \A j \in 1 .. i : Slot(l, Len(path))[j] = Append(q, 1)[j]
  BY <1>8 DEF Belongs, Covers
<1>10. /\ SlotTable[EncByte(k, b)][r][i] = 0 /\ SlotTable[EncByte(l, b)][r][i] = 1
       /\ \A j \in 1 .. i - 1 : SlotTable[EncByte(k, b)][r][j] = SlotTable[EncByte(l, b)][r][j]
  BY <1>6, <1>8, <1>9
<1>11. EncByte(k, b) \in Byte /\ EncByte(l, b) \in Byte
  BY <1>3, EncBytes
<1>12. EncByte(k, b) < EncByte(l, b)
  BY <1>3, <1>5, <1>10, <1>11, SlotOrder
<1>13. QED
  BY <1>3, <1>5, <1>12, LessIs

\* A longer path is that of fewer keys.
LEMMA StartsAppend ==
  ASSUME NEW k \in Keys, NEW path \in Seq(Slots), NEW s \in Slots
  PROVE  Starts(k, Append(path, s)) <=> Starts(k, path) /\ Slot(k, Len(path)) = s
<1>1. /\ DOMAIN path = 1 .. Len(path) /\ Len(path) \in Nat
      /\ DOMAIN Append(path, s) = 1 .. Len(path) + 1
      /\ Append(path, s)[Len(path) + 1] = s
      /\ \A j \in 1 .. Len(path) : Append(path, s)[j] = path[j]
  OBVIOUS
<1>2. \A j \in 1 .. Len(path) + 1 : j \in 1 .. Len(path) \/ (j = Len(path) + 1 /\ j - 1 = Len(path))
  BY <1>1
<1>3. Len(path) + 1 \in 1 .. Len(path) + 1 /\ Len(path) + 1 - 1 = Len(path)
  BY <1>1
<1>4. ASSUME Starts(k, Append(path, s)) PROVE Starts(k, path) /\ Slot(k, Len(path)) = s
  <2>1. \A j \in 1 .. Len(path) + 1 : Append(path, s)[j] = Slot(k, j - 1)
    BY <1>1, <1>4 DEF Starts
  <2>2. Append(path, s)[Len(path) + 1] = Slot(k, Len(path) + 1 - 1)
    BY <1>3, <2>1
  <2>3. \A j \in 1 .. Len(path) : path[j] = Slot(k, j - 1)
    BY <1>1, <2>1
  <2>4. QED
    BY <1>1, <1>3, <2>2, <2>3 DEF Starts
<1>5. ASSUME Starts(k, path), Slot(k, Len(path)) = s PROVE Starts(k, Append(path, s))
  <2>1. \A j \in 1 .. Len(path) : path[j] = Slot(k, j - 1)
    BY <1>1, <1>5 DEF Starts
  <2>2. ASSUME NEW j \in 1 .. Len(path) + 1 PROVE Append(path, s)[j] = Slot(k, j - 1)
    <3>1. CASE j \in 1 .. Len(path)
      BY <1>1, <2>1, <3>1
    <3>2. CASE j = Len(path) + 1 /\ j - 1 = Len(path)
      BY <1>1, <1>5, <3>2
    <3>3. QED
      BY <1>2, <3>1, <3>2
  <2>3. QED
    BY <1>1, <2>2 DEF Starts
<1>6. QED
  BY <1>4, <1>5

-----------------------------------------------------------------------------
(* The items of a bucket *)

\* The items of a bucket with prefix q, below the path.
Lists(items, path, q) ==
  items \in Seq(Items) /\ path \in Seq(Slots) /\ q \in SlotPrefixes /\ Listing(items, path, q)

\* What is known of them, b being the bytes of the path.
LEMMA ListsFacts ==
  ASSUME NEW items, NEW path, NEW q, Lists(items, path, q), NEW b, b = Len(path) \div BDIV
  PROVE  /\ b \in Nat /\ DOMAIN items = 1 .. Len(items) /\ Len(items) \in Nat
         /\ \A i \in DOMAIN items :
              LET k == items[i].ent
              IN  /\ k \in Keys /\ items[i] = Item(k, b) /\ items[i] \in Items
                  /\ items[i].first = First(k, b) /\ items[i].res = Residual(k, b)
                  /\ Belongs(k, path, q) /\ Starts(k, path)
         /\ \A i, j \in DOMAIN items : i < j => EncLess(items[i].ent, items[j].ent)
         /\ \A i, j \in DOMAIN items : items[i].ent = items[j].ent => i = j
<1>1. items \in Seq(Items) /\ path \in Seq(Slots) /\ Listing(items, path, q)
  BY DEF Lists
<1>2. Len(path) \in Nat /\ b \in Nat
  BY <1>1, LevelByte
<1>3. /\ DOMAIN items = 1 .. Len(items) /\ Len(items) \in Nat
      /\ \A i \in DOMAIN items : items[i] \in Items
  BY <1>1
<1>4. \A i \in DOMAIN items : items[i].ent \in Keys
  BY <1>3 DEF Items
<1>5. \A i \in DOMAIN items : /\ items[i] = Item(items[i].ent, b)
                              /\ Belongs(items[i].ent, path, q)
  BY <1>1 DEF Listing
<1>6. \A i \in DOMAIN items : /\ items[i].first = First(items[i].ent, b)
                              /\ items[i].res = Residual(items[i].ent, b)
  BY <1>5 DEF Item
<1>7. \A i, j \in DOMAIN items : i < j => EncLess(items[i].ent, items[j].ent)
  BY <1>1 DEF Listing
<1>8. ASSUME NEW i \in DOMAIN items, NEW j \in DOMAIN items, items[i].ent = items[j].ent
      PROVE  i = j
  <2>1. i \in Nat /\ j \in Nat
    BY <1>3
  <2>2. ~ (i < j) /\ ~ (j < i)
    BY <1>4, <1>7, <1>8, LessAsym
  <2>3. QED
    BY <2>1, <2>2
<1>9. \A i \in DOMAIN items : Starts(items[i].ent, path)
  BY <1>5 DEF Belongs
<1>10. QED
  BY <1>2, <1>3, <1>4, <1>5, <1>6, <1>7, <1>8, <1>9

\* The keys of items.
LEMMA EntsAre ==
  ASSUME NEW items, NEW k PROVE k \in Ents(items) <=> \E i \in DOMAIN items : items[i].ent = k
BY DEF Ents

\* The keys of a bucket, and any other key that its path is that of, agree.
LEMMA ListsAgree ==
  ASSUME NEW items, NEW path, NEW q, Lists(items, path, q), NEW b, b = Len(path) \div BDIV,
         NEW k \in Keys, Starts(k, path)
  PROVE  \A i \in DOMAIN items : Agree(items[i].ent, k, b) /\ Agree(k, items[i].ent, b)
<1> SUFFICES ASSUME NEW i \in DOMAIN items
             PROVE  Agree(items[i].ent, k, b) /\ Agree(k, items[i].ent, b)
  OBVIOUS
<1>1. PICK l \in Keys : l = items[i].ent /\ Starts(l, path)
  BY ListsFacts
<1>2. path \in Seq(Slots)
  BY DEF Lists
<1>3. QED
  BY <1>1, <1>2, StartsAgree

\* The size of a key at hand serves for every item of the bucket.
SizeFor(size, b, path) ==
  /\ size \in Int
  /\ \E l \in Keys : /\ Starts(l, path)
                     /\ size = Len(l) \/ size = Positive(Len(l) - b) + b

\* Then the lengths that are computed are those of the items (split_node, insert, erase).
LEMMA ListsLengths ==
  ASSUME <<>> \notin Keys,
         NEW items, NEW path, NEW q, Lists(items, path, q), NEW b, b = Len(path) \div BDIV,
         NEW size, SizeFor(size, b, path)
  PROVE  /\ \A i \in DOMAIN items : ResidualLen(b, size, items[i].first) = Len(items[i].res)
         /\ Aligned(items, b, size)
<1>1. PICK l \in Keys : Starts(l, path) /\ (size = Len(l) \/ size = Positive(Len(l) - b) + b)
  BY DEF SizeFor
<1>2. ASSUME NEW i \in DOMAIN items PROVE ResidualLen(b, size, items[i].first) = Len(items[i].res)
  <2>1. PICK k \in Keys : /\ k = items[i].ent /\ items[i].first = First(k, b)
                          /\ items[i].res = Residual(k, b)
    BY ListsFacts
  <2>2. Agree(k, l, b) /\ b \in Nat
    BY <1>1, <2>1, ListsAgree, ListsFacts
  <2>3. Len(k) > 0 /\ Len(l) > 0
    <3>1. \A x \in Keys : x # <<>> /\ x \in Seq(Byte)
      BY BaseFacts
    <3>2. QED
      BY <3>1
  <2>4. size \in Int
    BY DEF SizeFor
  <2>5. Fits(size, b, k)
    BY <1>1, <2>2, <2>3, <2>4, SizeFits
  <2>6. QED
    BY <2>1, <2>2, <2>5, LengthIs
<1>3. QED
  BY <1>2 DEF Aligned

\* i is where k belongs among the items.
IsPlace(items, k, i) ==
  /\ i \in 1 .. Len(items) + 1
  /\ \A j \in DOMAIN items : j < i => EncLess(items[j].ent, k)
  /\ \A j \in DOMAIN items : j >= i => EncLess(k, items[j].ent)

\* bucket_search finds a key that is there, or its place, and computes no wrong length.
LEMMA Search ==
  ASSUME <<>> \notin Keys,
         NEW items, NEW path, NEW q, Lists(items, path, q), NEW b, b = Len(path) \div BDIV,
         NEW k \in Keys, Starts(k, path)
  PROVE  LET m == BucketSearch(k, items, b)
         IN  /\ m.index \in 1 .. Len(items) + 1
             /\ m.found <=> k \in Ents(items)
             /\ m.found => m.index \in DOMAIN items /\ items[m.index].ent = k
             /\ ~ m.found => IsPlace(items, k, m.index)
             /\ m.ok
<1> DEFINE f == First(k, b)
           r == Residual(k, b)
           Passed(i) == ItemLess(items[i].first, items[i].res, f, r)
           P == {i \in DOMAIN items : \A j \in 1 .. i : Passed(j)}
           size(i) == IF items[i].first = f THEN Positive(Len(k) - b)
                      ELSE ResidualLen(b, Len(k), items[i].first)
           m == BucketSearch(k, items, b)
<1>1. PICK n \in Nat : n = Len(items) /\ DOMAIN items = 1 .. n
  BY ListsFacts
<1>2. PICK idx : idx = 1 + Cardinality(P)
  OBVIOUS
<1>3. /\ m.index = idx
      /\ m.found <=> idx <= n /\ items[idx].first = f /\ items[idx].res = r
      /\ m.ok <=> \A i \in DOMAIN items :
                    i <= idx /\ ~ FirstLess(f, items[i].first) => size(i) = Len(items[i].res)
  BY <1>1, <1>2 DEF BucketSearch
<1>4. ASSUME NEW i \in DOMAIN items
      PROVE  /\ Passed(i) <=> EncLess(items[i].ent, k)
             /\ items[i].first = f /\ items[i].res = r <=> items[i].ent = k
             /\ size(i) = Len(items[i].res)
  <2>1. PICK l \in Keys : /\ l = items[i].ent /\ items[i].first = First(l, b)
                          /\ items[i].res = Residual(l, b)
    BY ListsFacts
  <2>2. Agree(l, k, b) /\ b \in Nat
    BY <2>1, ListsAgree, ListsFacts
  <2>3. Passed(i) <=> EncLess(items[i].ent, k)
    BY <2>1, <2>2, ItemOrder
  <2>4. items[i].first = f /\ items[i].res = r <=> items[i].ent = k
    BY <2>1, <2>2, ItemTells
  <2>5. CASE items[i].first = f
    <3>1. Len(Residual(l, b)) = Len(Residual(k, b))
      BY <2>1, <2>2, <2>5, SameFirst
    <3>2. Len(Residual(k, b)) = Positive(Len(k) - b)
      BY <2>2, ResidualFacts
    <3>3. size(i) = Len(items[i].res)
      BY <2>1, <2>5, <3>1, <3>2
    <3>4. QED
      BY <2>3, <2>4, <3>3
  <2>6. CASE items[i].first # f
    <3>1. SizeFor(Len(k), b, path)
      BY BaseFacts DEF SizeFor
    <3>2. ResidualLen(b, Len(k), items[i].first) = Len(items[i].res)
      BY <3>1, ListsLengths
    <3>3. QED
      BY <2>3, <2>4, <2>6, <3>2
  <2>7. QED
    BY <2>5, <2>6
<1>5. Cardinality(P) \in 0 .. n /\ P = 1 .. Cardinality(P)
  <2>1. P \in SUBSET (1 .. n)
    BY <1>1
  <2>2. ASSUME NEW x \in P, NEW y \in 1 .. x PROVE y \in P
    <3>1. y \in DOMAIN items /\ \A j \in 1 .. y : j \in 1 .. x
      BY <1>1
    <3>2. QED
      BY <3>1
  <2> HIDE DEF P
  <2>3. QED
    BY <2>1, <2>2, Segment
<1>6. idx \in 1 .. n + 1
  BY <1>2, <1>5
<1>7. ASSUME NEW j \in DOMAIN items, j < idx PROVE EncLess(items[j].ent, k)
  <2>1. j \in P
    <3> HIDE DEF P
    <3>1. QED
      BY <1>1, <1>2, <1>5, <1>7
  <2>2. j \in 1 .. j
    BY <1>1
  <2>3. Passed(j)
    BY <2>1, <2>2
  <2>4. QED
    BY <1>4, <2>3
<1>8. idx <= n => idx \in DOMAIN items /\ ~ EncLess(items[idx].ent, k)
  <2>1. SUFFICES ASSUME idx <= n, idx \in DOMAIN items, EncLess(items[idx].ent, k) PROVE FALSE
    BY <1>1, <1>6
  <2>2. ASSUME NEW j \in 1 .. idx PROVE Passed(j)
    <3>1. j \in DOMAIN items /\ (j < idx \/ j = idx)
      BY <1>1, <2>1
    <3>2. EncLess(items[j].ent, k)
      BY <1>7, <2>1, <3>1
    <3>3. QED
      BY <1>4, <3>1, <3>2
  <2>3. idx \in P
    BY <2>1, <2>2
  <2> HIDE DEF P
  <2>4. QED
    BY <1>2, <1>5, <2>3
<1> HIDE DEF Passed, P, m
<1>9. m.ok
  BY <1>3, <1>4
<1> HIDE DEF size
<1>10. m.found => idx \in DOMAIN items /\ items[idx].ent = k
  <2>1. ASSUME m.found PROVE idx \in DOMAIN items /\ items[idx].ent = k
    <3>1. idx <= n /\ items[idx].first = f /\ items[idx].res = r
      BY <1>3, <2>1
    <3>2. idx \in DOMAIN items
      BY <1>8, <3>1
    <3>3. QED
      BY <1>4, <3>1, <3>2
  <2>2. QED
    BY <2>1
<1>11. ASSUME k \in Ents(items) PROVE m.found
  <2>1. PICK i \in DOMAIN items : items[i].ent = k
    BY <1>11, EntsAre
  <2>2. ~ (i < idx)
    BY <1>7, <2>1, LessAsym
  <2>3. idx <= n /\ idx <= i
    BY <1>1, <1>6, <2>1, <2>2
  <2>4. idx \in DOMAIN items /\ ~ EncLess(items[idx].ent, k)
    BY <1>8, <2>3
  <2>5. ~ (idx < i)
    BY <2>1, <2>4, ListsFacts
  <2>6. i = idx
    BY <1>1, <1>6, <2>1, <2>3, <2>5
  <2>7. items[idx].first = f /\ items[idx].res = r
    BY <1>4, <2>1, <2>6
  <2>8. QED
    BY <1>3, <2>3, <2>7
<1>12. m.found => k \in Ents(items)
  BY <1>10, EntsAre
<1>13. ASSUME ~ m.found PROVE IsPlace(items, k, idx)
  <2>1. ASSUME NEW j \in DOMAIN items, j >= idx PROVE EncLess(k, items[j].ent)
    <3>1. j \in Nat /\ idx <= n
      BY <1>1, <1>6, <2>1
    <3>2. PICK x \in DOMAIN items : x = idx /\ ~ EncLess(items[x].ent, k)
      BY <1>8, <3>1
    <3>3. items[x].ent \in Keys /\ items[j].ent \in Keys
      BY ListsFacts
    <3>4. items[x].ent # k
      BY <1>11, <1>13, EntsAre
    <3>5. EncLess(k, items[x].ent)
      BY <3>2, <3>3, <3>4, LessTotal
    <3>6. CASE j = x
      BY <3>5, <3>6
    <3>7. CASE j > x
      <4>1. EncLess(items[x].ent, items[j].ent)
        BY <3>7, ListsFacts
      <4>2. QED
        BY <3>3, <3>5, <4>1, LessTrans
    <3>8. QED
      BY <1>6, <2>1, <3>1, <3>2, <3>6, <3>7
  <2>2. QED
    BY <1>1, <1>6, <1>7, <2>1 DEF IsPlace
<1>14. QED
  BY <1>1, <1>3, <1>6, <1>9, <1>10, <1>11, <1>12, <1>13 DEF m

-----------------------------------------------------------------------------
(* What operations do to the items of a bucket *)

\* The sequence t is s with e put in as element i.
Inserted(s, i, e, t) ==
  /\ t \in Seq(Items) /\ Len(t) = Len(s) + 1 /\ DOMAIN t = 1 .. Len(s) + 1
  /\ \A j \in 1 .. Len(s) + 1 : /\ j < i => t[j] = s[j] /\ j \in DOMAIN s
                                /\ j = i => t[j] = e
                                /\ j > i => t[j] = s[j - 1] /\ j - 1 \in DOMAIN s

\* InsertAt puts the element there.
LEMMA InsertAtIs ==
  ASSUME NEW s \in Seq(Items), NEW i \in 1 .. Len(s) + 1, NEW e \in Items
  PROVE  Inserted(s, i, e, InsertAt(s, i, e))
<1>1. PICK t : t = InsertAt(s, i, e)
  OBVIOUS
<1> DEFINE u == SubSeq(s, 1, i - 1)
           v == SubSeq(s, i, Len(s))
<1>2. Len(s) \in Nat /\ DOMAIN s = 1 .. Len(s) /\ i \in Nat
  OBVIOUS
<1>3. /\ u \in Seq(Items) /\ Len(u) = i - 1 /\ \A j \in 1 .. i - 1 : u[j] = s[j]
      /\ v \in Seq(Items) /\ Len(v) = Len(s) - i + 1
      /\ \A j \in 1 .. Len(s) - i + 1 : v[j] = s[i + j - 1]
  BY <1>2
<1>4. t = u \o << e >> \o v
  BY <1>1 DEF InsertAt
<1> HIDE DEF u, v
<1>5. PICK w : w = u \o << e >>
  OBVIOUS
<1>6. w \in Seq(Items) /\ Len(w) = i /\ w[i] = e /\ \A j \in 1 .. i - 1 : w[j] = u[j]
  BY <1>2, <1>3, <1>5
<1>7. t = w \o v
  BY <1>4, <1>5
<1>8. /\ t \in Seq(Items) /\ Len(t) = Len(s) + 1
      /\ \A j \in 1 .. i : t[j] = w[j]
      /\ \A j \in 1 .. Len(s) - i + 1 : t[i + j] = v[j]
  BY <1>2, <1>3, <1>6, <1>7
<1>9. ASSUME NEW j \in 1 .. Len(s) + 1, j > i PROVE t[j] = s[j - 1] /\ j - 1 \in DOMAIN s
  <2>1. PICK x \in 1 .. Len(s) - i + 1 : x = j - i /\ i + x = j /\ i + x - 1 = j - 1
    BY <1>2, <1>9
  <2>2. t[j] = v[x]
    BY <1>8, <2>1
  <2>3. v[x] = s[j - 1]
    BY <1>3, <2>1
  <2>4. QED
    BY <1>2, <1>9, <2>2, <2>3
<1>10. /\ DOMAIN t = 1 .. Len(s) + 1
       /\ \A j \in 1 .. Len(s) + 1 : /\ j < i => t[j] = s[j] /\ j \in DOMAIN s
                                     /\ j = i => t[j] = e
  BY <1>2, <1>3, <1>6, <1>8
<1>11. Inserted(s, i, e, t)
  BY <1>8, <1>9, <1>10 DEF Inserted
<1>12. QED
  BY <1>1, <1>11

\* The leading elements of a sequence, and the others.
Parts(s, count, u, v) ==
  /\ u \in Seq(Items) /\ Len(u) = count /\ DOMAIN u = 1 .. count
  /\ v \in Seq(Items) /\ Len(v) = Len(s) - count /\ DOMAIN v = 1 .. Len(s) - count
  /\ \A j \in 1 .. count : u[j] = s[j]
  /\ \A j \in 1 .. Len(s) - count : v[j] = s[count + j]

\* SubSeq gives them.
LEMMA PartsIs ==
  ASSUME NEW s \in Seq(Items), NEW count \in 0 .. Len(s)
  PROVE  Parts(s, count, SubSeq(s, 1, count), SubSeq(s, count + 1, Len(s)))
<1>1. Len(s) \in Nat
  OBVIOUS
<1>2. /\ SubSeq(s, 1, count) \in Seq(Items) /\ Len(SubSeq(s, 1, count)) = count
      /\ \A j \in 1 .. count : SubSeq(s, 1, count)[j] = s[j]
  BY <1>1
<1>3. /\ SubSeq(s, count + 1, Len(s)) \in Seq(Items)
      /\ Len(SubSeq(s, count + 1, Len(s))) = Len(s) - count
  BY <1>1
<1>4. ASSUME NEW j \in 1 .. Len(s) - count PROVE SubSeq(s, count + 1, Len(s))[j] = s[count + j]
  <2>1. SubSeq(s, count + 1, Len(s))[j] = s[count + 1 + j - 1]
    BY <1>1
  <2>2. count + 1 + j - 1 = count + j
    OBVIOUS
  <2>3. QED
    BY <2>1, <2>2
<1>5. QED
  BY <1>2, <1>3, <1>4 DEF Parts

\* The elements of two sequences that are put together.
LEMMA ConcatIs ==
  ASSUME NEW u \in Seq(Items), NEW v \in Seq(Items)
  PROVE  LET t == u \o v
         IN  /\ t \in Seq(Items) /\ Len(t) = Len(u) + Len(v) /\ \A j \in 1 .. Len(u) : t[j] = u[j]
             /\ \A j \in 1 .. Len(v) : t[Len(u) + j] = v[j]
OBVIOUS

\* RemoveAt moves the elements behind the one that goes.
LEMMA RemoveAtIs ==
  ASSUME NEW s \in Seq(Items), NEW i \in 1 .. Len(s)
  PROVE  LET t == RemoveAt(s, i)
         IN  /\ t \in Seq(Items) /\ Len(t) = Len(s) - 1 /\ DOMAIN t = 1 .. Len(s) - 1
             /\ \A j \in 1 .. Len(s) - 1 : /\ j < i => t[j] = s[j] /\ j \in DOMAIN s
                                           /\ j >= i => t[j] = s[j + 1] /\ j + 1 \in DOMAIN s
<1>1. PICK t : t = RemoveAt(s, i)
  OBVIOUS
<1> DEFINE u == SubSeq(s, 1, i - 1)
           v == SubSeq(s, i + 1, Len(s))
<1>2. Len(s) \in Nat /\ DOMAIN s = 1 .. Len(s) /\ i \in 0 .. Len(s) /\ i - 1 \in 0 .. Len(s)
  OBVIOUS
<1>3. /\ u \in Seq(Items) /\ Len(u) = i - 1 /\ \A j \in 1 .. i - 1 : u[j] = s[j]
      /\ v \in Seq(Items) /\ Len(v) = Len(s) - i
      /\ \A j \in 1 .. Len(s) - i : v[j] = s[i + j]
  <2>1. /\ Parts(s, i, SubSeq(s, 1, i), v)
        /\ Parts(s, i - 1, u, SubSeq(s, i - 1 + 1, Len(s)))
    BY <1>2, PartsIs
  <2>2. QED
    BY <2>1 DEF Parts
<1>4. t = u \o v
  BY <1>1 DEF RemoveAt
<1> HIDE DEF u, v
<1>5. /\ t \in Seq(Items) /\ Len(t) = Len(s) - 1
      /\ \A j \in 1 .. i - 1 : t[j] = u[j]
      /\ \A j \in 1 .. Len(s) - i : t[(i - 1) + j] = v[j]
  <2>1. /\ t \in Seq(Items) /\ Len(t) = Len(u) + Len(v) /\ \A j \in 1 .. Len(u) : t[j] = u[j]
        /\ \A j \in 1 .. Len(v) : t[Len(u) + j] = v[j]
    BY <1>3, <1>4, ConcatIs
  <2>2. Len(s) - 1 = Len(u) + Len(v)
    BY <1>2, <1>3
  <2>3. QED
    BY <1>3, <2>1, <2>2
<1>6. ASSUME NEW j \in 1 .. Len(s) - 1, j >= i PROVE t[j] = s[j + 1] /\ j + 1 \in DOMAIN s
  <2>1. PICK x \in 1 .. Len(s) - i : x = j - i + 1 /\ (i - 1) + x = j /\ i + x = j + 1
    BY <1>2, <1>6
  <2>2. t[j] = v[x]
    BY <1>5, <2>1
  <2>3. v[x] = s[j + 1]
    BY <1>3, <2>1
  <2>4. QED
    BY <1>2, <1>6, <2>2, <2>3
<1>7. /\ DOMAIN t = 1 .. Len(s) - 1
      /\ \A j \in 1 .. Len(s) - 1 : j < i => t[j] = s[j] /\ j \in DOMAIN s
  BY <1>2, <1>3, <1>5
<1>8. QED
  BY <1>1, <1>5, <1>6, <1>7

\* What makes items those of a bucket.
LEMMA ListsIf ==
  ASSUME NEW items \in Seq(Items), NEW path \in Seq(Slots), NEW q \in SlotPrefixes,
         \A i \in DOMAIN items : /\ items[i] = Item(items[i].ent, Len(path) \div BDIV)
                                 /\ Belongs(items[i].ent, path, q),
         \A i, j \in DOMAIN items : i < j => EncLess(items[i].ent, items[j].ent)
  PROVE  Lists(items, path, q)
BY DEF Lists, Listing

\* The item of a key is an item, and names the key.
LEMMA ItemIs ==
  ASSUME NEW k \in Keys, NEW b \in Nat
  PROVE  Item(k, b) \in Items /\ Item(k, b).ent = k
BY ItemType DEF Item

\* An empty bucket.
LEMMA ListsNone ==
  ASSUME NEW path \in Seq(Slots), NEW q \in SlotPrefixes
  PROVE  Lists(<<>>, path, q) /\ Ents(<<>>) = {}
<1>1. <<>> \in Seq(Items) /\ DOMAIN <<>> = {}
  OBVIOUS
<1>2. QED
  BY <1>1, ListsIf DEF Ents

\* An item that goes to its place.
LEMMA ListsInsert ==
  ASSUME NEW items, NEW path, NEW q, Lists(items, path, q), NEW b, b = Len(path) \div BDIV,
         NEW k \in Keys, Belongs(k, path, q), NEW i, IsPlace(items, k, i),
         NEW new, new = InsertAt(items, i, Item(k, b))
  PROVE  /\ Lists(new, path, q) /\ Len(new) = Len(items) + 1
         /\ Ents(new) = Ents(items) \cup {k}
<1>1. /\ b \in Nat /\ items \in Seq(Items) /\ path \in Seq(Slots) /\ q \in SlotPrefixes
      /\ DOMAIN items = 1 .. Len(items) /\ Len(items) \in Nat
  BY ListsFacts DEF Lists
<1>2. /\ i \in 1 .. Len(items) + 1
      /\ \A j \in DOMAIN items : j < i => EncLess(items[j].ent, k)
      /\ \A j \in DOMAIN items : j >= i => EncLess(k, items[j].ent)
  BY DEF IsPlace
<1>3. PICK e \in Items : e = Item(k, b) /\ e.ent = k
  BY <1>1, ItemIs
<1>4. PICK t : t = InsertAt(items, i, e) /\ t = new
  BY <1>3
<1>5. /\ new \in Seq(Items) /\ Len(new) = Len(items) + 1 /\ DOMAIN new = 1 .. Len(items) + 1
      /\ \A j \in 1 .. Len(items) + 1 : /\ j < i => new[j] = items[j] /\ j \in DOMAIN items
                                        /\ j = i => new[j] = e
                                        /\ j > i => new[j] = items[j - 1] /\ j - 1 \in DOMAIN items
  <2>1. Inserted(items, i, e, InsertAt(items, i, e))
    BY <1>1, <1>2, InsertAtIs
  <2>2. Inserted(items, i, e, new)
    BY <1>4, <2>1
  <2>3. QED
    BY <2>2 DEF Inserted
<1>6. ASSUME NEW x \in DOMAIN new
      PROVE  new[x] = Item(new[x].ent, b) /\ Belongs(new[x].ent, path, q)
  <2>1. x < i \/ x = i \/ x > i
    BY <1>2, <1>5
  <2>2. CASE x = i
    BY <1>3, <1>5, <2>2
  <2>3. CASE x < i
    <3>1. new[x] = items[x] /\ x \in DOMAIN items
      BY <1>5, <2>3
    <3>2. QED
      BY <3>1, ListsFacts
  <2>4. CASE x > i
    <3>1. PICK y \in DOMAIN items : new[x] = items[y]
      BY <1>5, <2>4
    <3>2. QED
      BY <3>1, ListsFacts
  <2>5. QED
    BY <2>1, <2>2, <2>3, <2>4
<1>7. ASSUME NEW x \in DOMAIN new, NEW y \in DOMAIN new, x < y
      PROVE  EncLess(new[x].ent, new[y].ent)
  <2>1. x \in Nat /\ y \in Nat
    BY <1>5
  <2>2. CASE y < i
    <3>1. new[x] = items[x] /\ x \in DOMAIN items /\ new[y] = items[y] /\ y \in DOMAIN items
      BY <1>2, <1>5, <1>7, <2>1, <2>2
    <3>2. QED
      BY <1>7, <3>1, ListsFacts
  <2>3. CASE y = i
    <3>1. new[x] = items[x] /\ x \in DOMAIN items /\ new[y] = e /\ x < i
      BY <1>2, <1>5, <1>7, <2>1, <2>3
    <3>2. QED
      BY <1>2, <1>3, <3>1
  <2>4. CASE y > i
    <3>1. PICK z \in DOMAIN items : new[y] = items[z] /\ z = y - 1
      BY <1>5, <2>4
    <3>2. CASE x < i
      <4>1. new[x] = items[x] /\ x \in DOMAIN items /\ x < z
        BY <1>2, <1>5, <2>1, <2>4, <3>1, <3>2
      <4>2. QED
        BY <3>1, <4>1, ListsFacts
    <3>3. CASE x = i
      <4>1. new[x] = e /\ z >= i
        BY <1>2, <1>5, <2>1, <2>4, <3>1, <3>3
      <4>2. QED
        BY <1>2, <1>3, <3>1, <4>1
    <3>4. CASE x > i
      <4>1. PICK w \in DOMAIN items : new[x] = items[w] /\ w = x - 1
        BY <1>5, <3>4
      <4>2. w < z
        BY <1>7, <2>1, <3>1, <4>1
      <4>3. QED
        BY <3>1, <4>1, <4>2, ListsFacts
    <3>5. QED
      BY <1>2, <2>1, <3>2, <3>3, <3>4
  <2>5. QED
    BY <1>2, <2>1, <2>2, <2>3, <2>4
<1>8. Lists(new, path, q)
  BY <1>1, <1>5, <1>6, <1>7, ListsIf
<1>9. ASSUME NEW x PROVE x \in Ents(new) <=> x \in Ents(items) \cup {k}
  <2>1. ASSUME x \in Ents(new) PROVE x \in Ents(items) \cup {k}
    <3>1. PICK j \in DOMAIN new : new[j].ent = x
      BY <2>1, EntsAre
    <3>2. j < i \/ j = i \/ j > i
      BY <1>2, <1>5
    <3>3. (\E y \in DOMAIN items : new[j] = items[y]) \/ new[j] = e
      BY <1>5, <3>2
    <3>4. QED
      BY <1>3, <3>1, <3>3, EntsAre
  <2>2. ASSUME x \in Ents(items) PROVE x \in Ents(new)
    <3>1. PICK j \in DOMAIN items : items[j].ent = x
      BY <2>2, EntsAre
    <3>2. PICK y \in DOMAIN new : new[y] = items[j]
      <4>1. CASE j < i
        <5>1. j \in DOMAIN new
          BY <1>1, <1>5
        <5>2. QED
          BY <1>5, <4>1, <5>1
      <4>2. CASE j >= i
        <5>1. PICK y \in DOMAIN new : y = j + 1 /\ y > i /\ y - 1 = j
          BY <1>1, <1>2, <1>5, <4>2
        <5>2. QED
          BY <1>5, <5>1
      <4>3. QED
        BY <1>1, <1>2, <4>1, <4>2
    <3>3. QED
      BY <3>1, <3>2, EntsAre
  <2>3. k \in Ents(new)
    <3>1. i \in DOMAIN new /\ new[i] = e
      BY <1>2, <1>5
    <3>2. QED
      BY <1>3, <3>1, EntsAre
  <2>4. QED
    BY <2>1, <2>2, <2>3
<1>10. Ents(new) = Ents(items) \cup {k}
  BY <1>9, Zenon
<1>11. QED
  BY <1>5, <1>8, <1>10

\* An item that is taken out.
LEMMA ListsRemove ==
  ASSUME NEW items, NEW path, NEW q, Lists(items, path, q), NEW i \in DOMAIN items,
         NEW new, new = RemoveAt(items, i)
  PROVE  /\ Lists(new, path, q) /\ Len(new) = Len(items) - 1
         /\ Ents(new) = Ents(items) \ {items[i].ent}
<1>1. /\ items \in Seq(Items) /\ path \in Seq(Slots) /\ q \in SlotPrefixes
      /\ DOMAIN items = 1 .. Len(items) /\ Len(items) \in Nat /\ i \in 1 .. Len(items)
  BY ListsFacts DEF Lists
<1>2. /\ new \in Seq(Items) /\ Len(new) = Len(items) - 1 /\ DOMAIN new = 1 .. Len(items) - 1
      /\ \A j \in 1 .. Len(items) - 1 :
           /\ j < i => new[j] = items[j] /\ j \in DOMAIN items
           /\ j >= i => new[j] = items[j + 1] /\ j + 1 \in DOMAIN items
  BY <1>1, RemoveAtIs
<1> DEFINE old(j) == IF j < i THEN j ELSE j + 1
<1>3. ASSUME NEW j \in DOMAIN new
      PROVE  old(j) \in DOMAIN items /\ old(j) # i /\ new[j] = items[old(j)]
  BY <1>1, <1>2
<1>4. ASSUME NEW x \in DOMAIN new, NEW y \in DOMAIN new, x < y PROVE old(x) < old(y)
  BY <1>1, <1>2, <1>4
<1>5. ASSUME NEW j \in DOMAIN items, j # i PROVE \E x \in DOMAIN new : old(x) = j
  <2>1. CASE j < i
    <3>1. j \in DOMAIN new /\ old(j) = j
      BY <1>1, <1>2, <2>1
    <3>2. QED
      BY <3>1
  <2>2. CASE j > i
    <3>1. j - 1 \in DOMAIN new /\ old(j - 1) = j
      BY <1>1, <1>2, <2>2
    <3>2. QED
      BY <3>1
  <2>3. QED
    BY <1>1, <1>5, <2>1, <2>2
<1> HIDE DEF old
<1>6. Lists(new, path, q)
  <2>1. \A x \in DOMAIN new : /\ new[x] = Item(new[x].ent, Len(path) \div BDIV)
                              /\ Belongs(new[x].ent, path, q)
    BY <1>3, ListsFacts
  <2>2. \A x, y \in DOMAIN new : x < y => EncLess(new[x].ent, new[y].ent)
    BY <1>3, <1>4, ListsFacts
  <2>3. QED
    BY <1>1, <1>2, <2>1, <2>2, ListsIf
<1>7. ASSUME NEW x PROVE x \in Ents(new) <=> x \in Ents(items) \ {items[i].ent}
  <2>1. ASSUME x \in Ents(new) PROVE x \in Ents(items) /\ x # items[i].ent
    <3>1. PICK j \in DOMAIN new : new[j].ent = x
      BY <2>1, EntsAre
    <3>2. old(j) \in DOMAIN items /\ old(j) # i /\ items[old(j)].ent = x
      BY <1>3, <3>1
    <3>3. QED
      BY <3>2, EntsAre, ListsFacts
  <2>2. ASSUME x \in Ents(items), x # items[i].ent PROVE x \in Ents(new)
    <3>1. PICK j \in DOMAIN items : items[j].ent = x /\ j # i
      BY <2>2, EntsAre
    <3>2. PICK y \in DOMAIN new : old(y) = j
      BY <1>5, <3>1
    <3>3. new[y].ent = x
      BY <1>3, <3>1, <3>2
    <3>4. QED
      BY <3>3, EntsAre
  <2>3. QED
    BY <2>1, <2>2
<1>8. Ents(new) = Ents(items) \ {items[i].ent}
  BY <1>7, Zenon
<1>9. QED
  BY <1>2, <1>6, <1>8

\* The leading items and the others.
LEMMA ListsParts ==
  ASSUME NEW items, NEW path, NEW q, Lists(items, path, q), NEW count \in 0 .. Len(items),
         NEW lows, NEW highs, Parts(items, count, lows, highs)
  PROVE  /\ Lists(lows, path, q) /\ Lists(highs, path, q)
         /\ Ents(items) = Ents(lows) \cup Ents(highs) /\ Ents(lows) \cap Ents(highs) = {}
         /\ lows = <<>> => highs = items
         /\ highs = <<>> => lows = items
<1>1. /\ items \in Seq(Items) /\ path \in Seq(Slots) /\ q \in SlotPrefixes
      /\ DOMAIN items = 1 .. Len(items) /\ Len(items) \in Nat
  BY ListsFacts DEF Lists
<1>2. /\ lows \in Seq(Items) /\ Len(lows) = count /\ DOMAIN lows = 1 .. count
      /\ \A j \in 1 .. count : lows[j] = items[j]
      /\ highs \in Seq(Items) /\ Len(highs) = Len(items) - count
      /\ DOMAIN highs = 1 .. Len(items) - count
      /\ \A j \in 1 .. Len(items) - count : highs[j] = items[count + j]
  BY DEF Parts
<1>3. \A j \in 1 .. count : j \in DOMAIN items
  BY <1>1
<1>4. \A j \in 1 .. Len(items) - count : count + j \in DOMAIN items
  BY <1>1
<1>5. Lists(lows, path, q)
  <2>1. \A x \in DOMAIN lows : /\ lows[x] = Item(lows[x].ent, Len(path) \div BDIV)
                               /\ Belongs(lows[x].ent, path, q)
    BY <1>2, <1>3, ListsFacts
  <2>2. \A x, y \in DOMAIN lows : x < y => EncLess(lows[x].ent, lows[y].ent)
    BY <1>2, <1>3, ListsFacts
  <2>3. QED
    BY <1>1, <1>2, <2>1, <2>2, ListsIf
<1>6. Lists(highs, path, q)
  <2>1. ASSUME NEW x \in DOMAIN highs
        PROVE  /\ highs[x] = Item(highs[x].ent, Len(path) \div BDIV)
               /\ Belongs(highs[x].ent, path, q)
    <3>1. PICK u \in DOMAIN items : highs[x] = items[u]
      BY <1>2, <1>4
    <3>2. QED
      BY <3>1, ListsFacts
  <2>2. ASSUME NEW x \in DOMAIN highs, NEW y \in DOMAIN highs, x < y
        PROVE  EncLess(highs[x].ent, highs[y].ent)
    <3>1. PICK u \in DOMAIN items, v \in DOMAIN items : u = count + x /\ v = count + y
      BY <1>2, <1>4
    <3>2. u < v /\ highs[x] = items[u] /\ highs[y] = items[v]
      BY <1>1, <1>2, <2>2, <3>1
    <3>3. QED
      BY <3>2, ListsFacts
  <2>3. QED
    BY <1>1, <1>2, <2>1, <2>2, ListsIf
<1>7. ASSUME NEW j \in DOMAIN items
      PROVE  \/ j \in DOMAIN lows /\ lows[j] = items[j]
             \/ \E x \in DOMAIN highs : highs[x] = items[j]
  <2>1. CASE j <= count
    BY <1>1, <1>2, <2>1
  <2>2. CASE j > count
    <3>1. PICK x \in DOMAIN highs : x = j - count /\ count + x = j
      BY <1>1, <1>2, <2>2
    <3>2. QED
      BY <1>2, <3>1
  <2>3. QED
    BY <1>1, <2>1, <2>2
<1>8. ASSUME NEW x PROVE x \in Ents(items) <=> x \in Ents(lows) \cup Ents(highs)
  <2>1. ASSUME x \in Ents(items) PROVE x \in Ents(lows) \cup Ents(highs)
    BY <1>7, <2>1, EntsAre
  <2>2. ASSUME x \in Ents(lows) PROVE x \in Ents(items)
    BY <1>2, <1>3, <2>2, EntsAre
  <2>3. ASSUME x \in Ents(highs) PROVE x \in Ents(items)
    BY <1>2, <1>4, <2>3, EntsAre
  <2>4. QED
    BY <2>1, <2>2, <2>3
<1>9. ASSUME NEW x, x \in Ents(lows), x \in Ents(highs) PROVE FALSE
  <2>1. PICK u \in 1 .. count : lows[u].ent = x
    BY <1>2, <1>9, EntsAre
  <2>2. PICK v \in 1 .. Len(items) - count : highs[v].ent = x
    BY <1>2, <1>9, EntsAre
  <2>3. PICK w \in DOMAIN items : w = count + v
    BY <1>4
  <2>4. u \in DOMAIN items /\ items[u].ent = x /\ items[w].ent = x
    BY <1>2, <1>3, <2>1, <2>2, <2>3
  <2>5. u = w
    BY <2>4, ListsFacts
  <2>6. QED
    BY <1>1, <2>3, <2>5
<1>10. Ents(items) = Ents(lows) \cup Ents(highs)
  BY <1>8, Zenon
<1>11. lows = <<>> => highs = items
  BY <1>1, <1>2
<1>12. highs = <<>> => lows = items
  BY <1>1, <1>2
<1>13. QED
  BY <1>2, <1>5, <1>6, <1>9, <1>10, <1>11, <1>12

\* Another range of slots to which the keys of all items belong.
LEMMA ListsIn ==
  ASSUME NEW items, NEW path, NEW q, Lists(items, path, q), NEW r \in SlotPrefixes,
         \A i \in DOMAIN items : Belongs(items[i].ent, path, r)
  PROVE  Lists(items, path, r)
BY ListsFacts DEF Lists, Listing

\* A bucket that grows.
LEMMA ListsGrow ==
  ASSUME NEW items, NEW path, NEW q, Lists(items, path, q), q # <<>>
  PROVE  Lists(items, path, Front(q))
<1>1. q \in SlotPrefixes /\ path \in Seq(Slots) /\ Len(path) \in Nat
  BY DEF Lists
<1>2. ASSUME NEW i \in DOMAIN items PROVE Belongs(items[i].ent, path, Front(q))
  <2>1. PICK k \in Keys : k = items[i].ent /\ Belongs(k, path, q)
    BY ListsFacts
  <2>2. Slot(k, Len(path)) \in Slots
    BY <1>1, SlotType
  <2>3. Covers(Front(q), Slot(k, Len(path)))
    BY <1>1, <2>1, <2>2, BuddyRange DEF Belongs
  <2>4. QED
    BY <2>1, <2>3 DEF Belongs
<1>3. Front(q) \in SlotPrefixes
  BY <1>1, BuddyRange
<1>4. QED
  BY <1>2, <1>3, ListsIn

-----------------------------------------------------------------------------
(* Splits *)

\* Of n items, the first count ones have a 0 in a bit, and the one after them has not.
Leading(items, n, h, r, i, count) ==
  /\ count \in 0 .. n
  /\ \A x \in 1 .. n : x <= count => SlotTable[items[x].first[h]][r][i] = 0
  /\ \A x \in 1 .. n : x = count + 1 => SlotTable[items[x].first[h]][r][i] # 0

\* LowCount is the length of the part of the items that goes to the lower half.
LEMMA Lows ==
  ASSUME NEW items, NEW n \in Nat, DOMAIN items = 1 .. n, NEW h, NEW r, NEW i
  PROVE  Leading(items, n, h, r, i, LowCount(items, h, r, i))
<1>1. PICK count : count = LowCount(items, h, r, i)
  OBVIOUS
<1> DEFINE Low(x) == SlotTable[items[x].first[h]][r][i] = 0
           S == {x \in DOMAIN items : \A y \in 1 .. x : Low(y)}
<1>2. count = Cardinality(S)
  BY <1>1 DEF LowCount
<1>3. S \in SUBSET (1 .. n)
  OBVIOUS
<1>4. ASSUME NEW x \in S, NEW y \in 1 .. x PROVE y \in S
  <2>1. y \in DOMAIN items /\ \A j \in 1 .. y : j \in 1 .. x
    OBVIOUS
  <2>2. QED
    BY <2>1
<1>5. count \in 0 .. n /\ S = 1 .. count
  <2> HIDE DEF S
  <2>1. QED
    BY <1>2, <1>3, <1>4, Segment
<1>6. ASSUME NEW x \in 1 .. n, x <= count PROVE Low(x)
  <2>1. x \in S /\ x \in 1 .. x
    BY <1>5, <1>6
  <2>2. QED
    BY <2>1
<1>7. ASSUME NEW x \in 1 .. n, x = count + 1 PROVE ~ Low(x)
  <2>1. SUFFICES ASSUME Low(x) PROVE FALSE
    OBVIOUS
  <2>2. ASSUME NEW y \in 1 .. x PROVE Low(y)
    <3>1. y \in 1 .. n /\ (y <= count \/ y = x)
      BY <1>5, <1>7
    <3>2. QED
      BY <1>6, <2>1, <3>1
  <2>3. x \in S
    BY <2>2
  <2> HIDE DEF S
  <2>4. QED
    BY <1>5, <1>7, <2>3
<1>8. Leading(items, n, h, r, i, count)
  BY <1>5, <1>6, <1>7 DEF Leading
<1>9. QED
  BY <1>1, <1>8

\* The next bit of a key says in which half it belongs.
LEMMA HalfOf ==
  ASSUME NEW k \in Keys, NEW path \in Seq(Slots), NEW q \in SlotPrefixes, Len(q) < BSIZE,
         Belongs(k, path, q),
         NEW v, v = SlotTable[EncByte(k, Len(path) \div BDIV)][Len(path) % BDIV][Len(q) + 1]
  PROVE  v \in {0, 1} /\ Belongs(k, path, Append(q, v))
<1>1. PICK s \in Slots : s = Slot(k, Len(path)) /\ Covers(q, s) /\ v = s[Len(q) + 1]
  <2>1. Slot(k, Len(path)) \in Slots
    BY SlotType
  <2>2. QED
    BY <2>1 DEF Belongs, Slot
<1>2. Len(q) \in Nat /\ q \in Seq({0, 1}) /\ BSIZE \in Nat /\ Len(q) + 1 \in 1 .. BSIZE
  BY PrefixFacts
<1>3. v \in {0, 1}
  BY <1>1, <1>2 DEF Slots
<1>4. /\ Len(Append(q, v)) = Len(q) + 1
      /\ \A i \in 1 .. Len(q) + 1 : i = Len(q) + 1 => Append(q, v)[i] = v
      /\ \A i \in 1 .. Len(q) : Append(q, v)[i] = q[i]
  BY <1>2, <1>3
<1>5. \A i \in 1 .. Len(q) + 1 : i \in 1 .. Len(q) \/ i = Len(q) + 1
  BY <1>2
<1>6. Covers(Append(q, v), s)
  BY <1>1, <1>4, <1>5 DEF Covers
<1>7. QED
  BY <1>1, <1>3, <1>6 DEF Belongs

\* The items of a bucket whose range is split.
LEMMA ListsHalves ==
  ASSUME NEW items, NEW path, NEW q, Lists(items, path, q), Len(q) < BSIZE,
         NEW bit, bit = Len(q) + 1, NEW r, r = Len(path) % BDIV,
         NEW count, count = LowCount(items, 1, r, bit),
         NEW lows, NEW highs, Parts(items, count, lows, highs)
  PROVE  Lists(lows, path, Append(q, 0)) /\ Lists(highs, path, Append(q, 1))
<1>1. PICK b : b = Len(path) \div BDIV
  OBVIOUS
<1>2. PICK n \in Nat : n = Len(items) /\ DOMAIN items = 1 .. n
  BY <1>1, ListsFacts
<1>3. /\ count \in 0 .. n
      /\ \A x \in 1 .. n : x <= count => SlotTable[items[x].first[1]][r][bit] = 0
      /\ \A x \in 1 .. n : x = count + 1 => SlotTable[items[x].first[1]][r][bit] # 0
  <2>1. Leading(items, n, 1, r, bit, LowCount(items, 1, r, bit))
    BY <1>2, Lows
  <2>2. QED
    BY <2>1 DEF Leading
<1>4. path \in Seq(Slots) /\ q \in SlotPrefixes
  BY DEF Lists
<1>5. ASSUME NEW x \in DOMAIN items
      PROVE  LET v == SlotTable[items[x].first[1]][r][bit]
             IN  v \in {0, 1} /\ Belongs(items[x].ent, path, Append(q, v))
  <2>1. PICK k \in Keys : /\ k = items[x].ent /\ items[x].first = First(k, b)
                          /\ Belongs(k, path, q)
    BY <1>1, ListsFacts
  <2>2. items[x].first[1] = EncByte(k, b)
    BY <2>1 DEF First
  <2>3. QED
    BY <1>1, <1>4, <2>1, <2>2, HalfOf
<1>6. ASSUME NEW x \in DOMAIN items, x > count PROVE Belongs(items[x].ent, path, Append(q, 1))
  <2>1. PICK y \in DOMAIN items : y = count + 1 /\ y <= x
    BY <1>2, <1>3, <1>6
  <2>2. Belongs(items[y].ent, path, Append(q, 1))
    BY <1>2, <1>3, <1>5, <2>1
  <2>3. SUFFICES ASSUME Belongs(items[x].ent, path, Append(q, 0)), y # x PROVE FALSE
    BY <1>5, <2>2
  <2>4. items[x].ent \in Keys /\ items[y].ent \in Keys
    BY <1>1, ListsFacts
  <2>5. EncLess(items[x].ent, items[y].ent)
    BY <1>4, <2>2, <2>3, <2>4, BranchOrder
  <2>6. EncLess(items[y].ent, items[x].ent)
    <3>1. y < x
      BY <1>2, <2>1, <2>3
    <3>2. QED
      BY <1>1, <3>1, ListsFacts
  <2>7. QED
    BY <2>4, <2>5, <2>6, LessAsym
<1>7. Lists(lows, path, q) /\ Lists(highs, path, q)
  BY <1>2, <1>3, ListsParts
<1>8. Append(q, 0) \in SlotPrefixes /\ Append(q, 1) \in SlotPrefixes
  BY <1>4, PrefixTypes
<1>9. /\ DOMAIN lows = 1 .. count /\ \A j \in 1 .. count : lows[j] = items[j]
      /\ DOMAIN highs = 1 .. n - count /\ \A j \in 1 .. n - count : highs[j] = items[count + j]
  BY <1>2 DEF Parts
<1>10. ASSUME NEW j \in DOMAIN lows PROVE Belongs(lows[j].ent, path, Append(q, 0))
  <2>1. j \in DOMAIN items /\ j <= count /\ lows[j] = items[j]
    BY <1>2, <1>3, <1>9
  <2>2. QED
    BY <1>2, <1>3, <1>5, <2>1
<1>11. ASSUME NEW j \in DOMAIN highs PROVE Belongs(highs[j].ent, path, Append(q, 1))
  <2>1. PICK x \in DOMAIN items : x = count + j
    BY <1>2, <1>3, <1>9
  <2>2. x > count /\ highs[j] = items[x]
    BY <1>3, <1>9, <2>1
  <2>3. QED
    BY <1>6, <2>2
<1>12. QED
  BY <1>7, <1>8, <1>10, <1>11, ListsIn

-----------------------------------------------------------------------------
(* Levels down and up *)

\* The sequence t is u and then v.
Concat(S, u, v, t) ==
  /\ t \in Seq(S) /\ Len(t) = Len(u) + Len(v)
  /\ \A i \in 1 .. Len(u) : t[i] = u[i]
  /\ \A i \in 1 .. Len(v) : t[Len(u) + i] = v[i]

\* Concatenation gives it.
LEMMA ConcatAny ==
  ASSUME NEW S, NEW u \in Seq(S), NEW v \in Seq(S) PROVE Concat(S, u, v, u \o v)
BY DEF Concat

\* The rest r of a key is s when its first byte y is gone.
Sheds(r, s, y) ==
  /\ r \in Seq(Byte) /\ s \in Seq(Byte)
  /\ r # <<>> => /\ Len(r) > 0 /\ r[1] = y /\ r = << y >> \o s
                 /\ SubSeq(r, 2, Len(r)) = s /\ Len(s) = Len(r) - 1
  /\ r = <<>> => Len(r) = 0 /\ s = <<>> /\ y = 0 /\ SubSeq(r, 2, Len(r)) = s

\* What is left of a key when one more byte goes into the path.
LEMMA ResidualNext ==
  ASSUME NEW k \in Keys, NEW b \in Nat, NEW c \in Nat, c = b + 1, NEW d \in Nat, d = b + 2
  PROVE  Sheds(Residual(k, b), Residual(k, c), EncByte(k, d))
<1>1. PICK r, s : r = Residual(k, b) /\ s = Residual(k, c)
  OBVIOUS
<1>2. /\ r \in Seq(Byte) /\ Len(r) = Positive(Len(k) - b) /\ Len(r) \in Nat
      /\ \A i \in 1 .. Len(r) : r[i] = k[b + i]
  BY <1>1, ResidualFacts
<1>3. /\ s \in Seq(Byte) /\ Len(s) = Positive(Len(k) - c) /\ Len(s) \in Nat
      /\ \A i \in 1 .. Len(s) : s[i] = k[c + i]
  BY <1>1, ResidualFacts
<1>4. Len(k) \in Nat /\ \A i \in Nat : EncByte(k, i) \in Byte
  BY BaseFacts, EncBytes
<1>5. CASE r = <<>>
  <2>1. Len(r) = 0 /\ Len(k) <= b
    BY <1>2, <1>4, <1>5 DEF Positive
  <2>2. Len(s) = 0
    BY <1>3, <1>4, <2>1 DEF Positive
  <2>3. s = <<>>
    BY <1>3, <2>2
  <2>4. EncByte(k, d) = 0
    <3>1. d \in Nat /\ d > Len(k) + 1
      BY <1>4, <2>1
    <3>2. QED
      BY <3>1, EncBytes
  <2>5. SubSeq(r, 2, Len(r)) = <<>>
    BY <1>5
  <2>6. Sheds(r, s, EncByte(k, d))
    BY <1>2, <1>3, <1>5, <2>1, <2>3, <2>4, <2>5 DEF Sheds
  <2>7. QED
    BY <1>1, <2>6
<1>6. CASE r # <<>>
  <2>1. Len(r) > 0
    BY <1>2, <1>6
  <2>2. Len(r) = Len(k) - b /\ Len(s) = Len(r) - 1
    BY <1>2, <1>3, <1>4, <2>1 DEF Positive
  <2>3. r[1] = EncByte(k, d)
    <3>1. d \in Nat /\ d > 1 /\ d <= Len(k) + 1 /\ d - 1 = b + 1 /\ 1 \in 1 .. Len(r)
      BY <1>4, <2>1, <2>2
    <3>2. EncByte(k, d) = k[d - 1]
      BY <3>1, EncBytes
    <3>3. QED
      BY <1>2, <3>1, <3>2
  <2>4. ASSUME NEW i \in 1 .. Len(s), NEW j, j = i + 1 PROVE s[i] = r[j]
    <3>1. j \in 1 .. Len(r) /\ c + i = b + j
      BY <1>3, <2>2, <2>4
    <3>2. QED
      BY <1>2, <1>3, <3>1
  <2>5. SubSeq(r, 2, Len(r)) = s
    <3>1. PICK t : t = SubSeq(r, 2, Len(r))
      OBVIOUS
    <3>2. /\ t \in Seq(Byte) /\ Len(t) = Len(r) - 1
          /\ \A i \in 1 .. Len(r) - 1 : t[i] = r[2 + i - 1]
      BY <1>2, <2>1, <3>1
    <3>3. ASSUME NEW i \in 1 .. Len(s) PROVE t[i] = s[i]
      <4>1. PICK j : j = i + 1 /\ 2 + i - 1 = j
        BY <1>3
      <4>2. QED
        BY <2>2, <2>4, <3>2, <4>1
    <3>4. t = s
      BY <1>3, <2>2, <3>2, <3>3
    <3>5. QED
      BY <3>1, <3>4
  <2>6. r = << EncByte(k, d) >> \o s
    <3>1. PICK u : u = << EncByte(k, d) >>
      OBVIOUS
    <3>2. u \in Seq(Byte) /\ Len(u) = 1 /\ u[1] = EncByte(k, d)
      BY <1>4, <3>1
    <3>3. PICK t : t = u \o s
      OBVIOUS
    <3>4. /\ t \in Seq(Byte) /\ Len(t) = Len(u) + Len(s)
          /\ \A i \in 1 .. Len(u) : t[i] = u[i]
          /\ \A i \in 1 .. Len(s) : t[Len(u) + i] = s[i]
      <4>1. Concat(Byte, u, s, u \o s)
        BY <1>3, <3>2, ConcatAny
      <4>2. Concat(Byte, u, s, t)
        BY <3>3, <4>1
      <4>3. QED
        BY <4>2 DEF Concat
    <3>5. ASSUME NEW i \in 1 .. Len(r) PROVE t[i] = r[i]
      <4>1. CASE i = 1
        BY <2>3, <3>2, <3>4, <4>1
      <4>2. CASE i > 1
        <5>1. PICK j \in 1 .. Len(s) : i = j + 1 /\ Len(u) + j = i
          <6>1. i - 1 \in 1 .. Len(s) /\ i = (i - 1) + 1 /\ Len(u) + (i - 1) = i
            BY <1>2, <2>2, <3>2, <4>2
          <6>2. QED
            BY <6>1
        <5>2. QED
          BY <2>4, <3>4, <5>1
      <4>3. QED
        BY <1>2, <4>1, <4>2
    <3>6. t = r
      <4>1. Len(t) = Len(r)
        BY <1>2, <1>3, <2>2, <3>2, <3>4
      <4>2. QED
        BY <1>2, <3>4, <3>5, <4>1
    <3>7. QED
      BY <3>1, <3>3, <3>6
  <2>7. Sheds(r, s, EncByte(k, d))
    BY <1>2, <1>3, <1>6, <2>1, <2>2, <2>3, <2>5, <2>6 DEF Sheds
  <2>8. QED
    BY <1>1, <2>7
<1>7. QED
  BY <1>5, <1>6

\* The path below a bucket that has one slot is the path of its keys.
LEMMA PathDown ==
  ASSUME NEW path \in Seq(Slots), NEW q \in SlotPrefixes, Len(q) = BSIZE,
         NEW k \in Keys, Belongs(k, path, q), NEW down, down = Append(path, Pad(q))
  PROVE  /\ Starts(k, down) /\ Belongs(k, down, <<>>)
         /\ down \in Seq(Slots) /\ Len(down) = Len(path) + 1
<1>1. Pad(q) \in Slots /\ Slot(k, Len(path)) \in Slots
  BY PrefixTypes, SlotType
<1>2. Slot(k, Len(path)) = Pad(q)
  BY <1>1, FullRange DEF Belongs
<1>3. Starts(k, down)
  BY <1>1, <1>2, StartsAppend DEF Belongs
<1>4. down \in Seq(Slots) /\ Len(down) = Len(path) + 1
  BY <1>1
<1>5. Covers(<<>>, Slot(k, Len(down)))
  BY DEF Covers
<1>6. QED
  BY <1>3, <1>4, <1>5 DEF Belongs

\* The item `it' when its first byte goes into the path and y moves in.
Cut(it, y) == [it EXCEPT !.first = << it.first[2], y >>,
                         !.res = SubSeq(it.res, 2, Len(it.res))]

\* Then it is the item of its key one byte further down.
LEMMA ItemNext ==
  ASSUME NEW k \in Keys, NEW b \in Nat, NEW c \in Nat, c = b + 1, NEW d \in Nat, d = b + 2
  PROVE  Cut(Item(k, b), EncByte(k, d)) = Item(k, c)
<1>1. PICK r, s : r = Residual(k, b) /\ s = Residual(k, c) /\ SubSeq(r, 2, Len(r)) = s
  <2>1. Sheds(Residual(k, b), Residual(k, c), EncByte(k, d))
    BY ResidualNext
  <2>2. QED
    BY <2>1 DEF Sheds
<1>2. PICK x, y, z : x = EncByte(k, b) /\ y = EncByte(k, c) /\ z = EncByte(k, d)
  OBVIOUS
<1>3. c + 1 = d /\ b + 1 = c
  OBVIOUS
<1>4. First(k, b) = << x, y >> /\ First(k, c) = << y, z >>
  BY <1>2, <1>3 DEF First
<1>5. /\ Item(k, b) = [first |-> << x, y >>, res |-> r, ent |-> k]
      /\ Item(k, c) = [first |-> << y, z >>, res |-> s, ent |-> k]
  BY <1>1, <1>4 DEF Item
<1>6. PICK it : it = Item(k, b)
  OBVIOUS
<1>7. it.first = << x, y >> /\ it.first[2] = y /\ it.res = r
  BY <1>5, <1>6
<1>8. Cut(it, z) = [it EXCEPT !.first = << y, z >>, !.res = s]
  BY <1>1, <1>7 DEF Cut
<1>9. [it EXCEPT !.first = << y, z >>, !.res = s] = [first |-> << y, z >>, res |-> s, ent |-> k]
  <2>1. PICK w : w = [it EXCEPT !.first = << y, z >>, !.res = s]
    OBVIOUS
  <2>2. w.first = << y, z >> /\ w.res = s /\ w.ent = k
    BY <1>5, <1>6, <2>1
  <2>3. w = [first |-> w.first, res |-> w.res, ent |-> w.ent]
    BY <1>5, <1>6, <2>1
  <2>4. QED
    BY <2>1, <2>2, <2>3
<1>10. QED
  BY <1>2, <1>5, <1>6, <1>8, <1>9

\* What split_fwd makes of an item.
LEMMA CutIs ==
  ASSUME <<>> \notin Keys,
         NEW items, NEW path, NEW q, Lists(items, path, q), Len(q) = BSIZE,
         NEW b, b = Len(path) \div BDIV, NEW c, c = b + 1,
         NEW p, p = Len(path) + 1, p % BDIV = 0,
         NEW size, SizeFor(size, b, path), NEW count \in 0 .. Len(items),
         NEW i \in DOMAIN items
  PROVE  CutItem(items, i, count, b, size) = Item(items[i].ent, c)
<1>1. /\ b \in Nat /\ c \in Nat /\ DOMAIN items = 1 .. Len(items) /\ Len(items) \in Nat
      /\ \A x \in DOMAIN items : ResidualLen(b, size, items[x].first) = Len(items[x].res)
  BY ListsFacts, ListsLengths
<1>2. PICK d \in Nat : d = b + 2
  BY <1>1
<1>3. PICK k \in Keys : k = items[i].ent /\ items[i] = Item(k, b) /\ Belongs(k, path, q)
  BY ListsFacts
<1>4. PICK j \in DOMAIN items : j = IF i <= count THEN i ELSE i - count
  BY <1>1
<1>5. PICK l \in Keys : l = items[j].ent /\ items[j] = Item(l, b) /\ Belongs(l, path, q)
  BY ListsFacts
<1>6. PICK it : it = items[i]
  OBVIOUS
<1>7. PICK r : r = Residual(k, b) /\ it.res = r
  BY <1>3, <1>6 DEF Item
<1>8. r \in Seq(Byte) /\ (r # <<>> => Len(r) > 0 /\ r[1] = EncByte(k, d))
      /\ (r = <<>> => Len(r) = 0 /\ EncByte(k, d) = 0)
  <2>1. Sheds(Residual(k, b), Residual(k, c), EncByte(k, d))
    BY <1>1, <1>2, ResidualNext
  <2>2. QED
    BY <1>7, <2>1 DEF Sheds
<1>9. r # <<>> => Len(items[j].res) > 0
  <2>1. SUFFICES ASSUME r # <<>> PROVE Len(items[j].res) > 0
    OBVIOUS
  <2>2. items[j].res = Residual(l, b)
    BY <1>5 DEF Item
  <2>3. Len(r) = Positive(Len(k) - b) /\ Len(items[j].res) = Positive(Len(l) - b)
    BY SMTT(60), <1>1, <1>7, <2>2, ResidualFacts
  <2>4. Len(k) \in Nat /\ Len(l) \in Nat /\ Len(l) > 0
    <3>1. \A x \in Keys : x # <<>> /\ x \in Seq(Byte)
      BY BaseFacts
    <3>2. QED
      BY <3>1
  <2>5. CASE b = 0
    BY <2>3, <2>4, <2>5 DEF Positive
  <2>6. CASE b >= 1
    <3>1. PICK down : down = Append(path, Pad(q))
      OBVIOUS
    <3>2. path \in Seq(Slots) /\ q \in SlotPrefixes /\ Len(path) \in Nat
      BY DEF Lists
    <3>3. /\ Starts(k, down) /\ Starts(l, down) /\ down \in Seq(Slots) /\ Len(down) = p
      BY <1>3, <1>5, <3>1, <3>2, PathDown
    <3>4. Len(down) \div BDIV = c
      BY <3>2, <3>3, NextLevel
    <3>5. Agree(k, l, c)
      BY <3>3, <3>4, StartsAgree
    <3>6. c \in Nat /\ c >= 2
      BY <1>1, <2>6
    <3>7. Len(k) = Len(l)
      BY <3>5, <3>6, AgreeLen
    <3>8. QED
      BY <1>8, <2>1, <2>3, <3>7
  <2>7. QED
    BY <1>1, <2>5, <2>6
<1>10. PICK next : next = IF ResidualLen(b, size, it.first) > 0
                              /\ ResidualLen(b, size, items[j].first) > 0 /\ it.res # <<>>
                          THEN it.res[1] ELSE 0
  OBVIOUS
<1>11. next = EncByte(k, d)
  <2>1. ResidualLen(b, size, it.first) = Len(r) /\ ResidualLen(b, size, items[j].first) = Len(items[j].res)
    BY <1>1, <1>6, <1>7
  <2>2. QED
    BY <1>7, <1>8, <1>9, <1>10, <2>1
<1>12. CutItem(items, i, count, b, size) = Cut(it, next)
  BY <1>4, <1>6, <1>10 DEF CutItem, Cut
<1>13. Cut(Item(k, b), EncByte(k, d)) = Item(k, c)
  BY <1>1, <1>2, ItemNext
<1>14. QED
  BY <1>3, <1>6, <1>11, <1>12, <1>13

\* The items of a bucket that gets a forwarding node above it.
LEMMA ListsDown ==
  ASSUME <<>> \notin Keys,
         NEW items, NEW path, NEW q, Lists(items, path, q), Len(q) = BSIZE,
         NEW b, b = Len(path) \div BDIV,
         NEW p, p = Len(path) + 1, NEW cut, cut = IF p % BDIV = 0 THEN 1 ELSE 0,
         NEW size, SizeFor(size, b, path), NEW count \in 0 .. Len(items),
         NEW moved, moved = [i \in DOMAIN items |->
                               IF cut = 1 THEN CutItem(items, i, count, b, size) ELSE items[i]]
  PROVE  /\ Lists(moved, Append(path, Pad(q)), <<>>)
         /\ Len(moved) = Len(items) /\ DOMAIN moved = DOMAIN items
         /\ Ents(moved) = Ents(items)
         /\ \A i \in DOMAIN items : moved[i].first[1] = items[i].first[1 + cut]
<1>1. /\ b \in Nat /\ DOMAIN items = 1 .. Len(items) /\ Len(items) \in Nat
      /\ path \in Seq(Slots) /\ q \in SlotPrefixes /\ Len(path) \in Nat
  BY ListsFacts DEF Lists
<1>2. PICK c \in Nat : c = b + cut
  BY <1>1
<1>3. PICK down : down = Append(path, Pad(q))
  OBVIOUS
<1>4. down \in Seq(Slots) /\ Len(down) = p
  <2>1. Pad(q) \in Slots
    BY <1>1, PrefixTypes
  <2>2. QED
    BY <1>1, <1>3, <2>1
<1>5. Len(down) \div BDIV = c
  BY <1>1, <1>2, <1>4, NextLevel
<1>6. ASSUME NEW i \in DOMAIN items
      PROVE  /\ items[i].ent \in Keys /\ moved[i] = Item(items[i].ent, c) /\ moved[i] \in Items
             /\ moved[i].ent = items[i].ent /\ Belongs(items[i].ent, down, <<>>)
             /\ moved[i].first[1] = items[i].first[1 + cut]
  <2>1. PICK k \in Keys : k = items[i].ent /\ items[i] = Item(k, b) /\ Belongs(k, path, q)
    BY ListsFacts
  <2>2. moved[i] = Item(k, c)
    <3>1. CASE cut = 1
      <4>1. moved[i] = CutItem(items, i, count, b, size) /\ p % BDIV = 0 /\ c = b + 1
        BY <1>2, <3>1
      <4>2. CutItem(items, i, count, b, size) = Item(items[i].ent, c)
        BY <4>1, CutIs
      <4>3. QED
        BY <2>1, <4>1, <4>2
    <3>2. CASE cut = 0
      <4>1. moved[i] = items[i] /\ c = b
        BY <1>1, <1>2, <3>2
      <4>2. QED
        BY <2>1, <4>1
    <3>3. QED
      BY <3>1, <3>2
  <2>3. moved[i] \in Items /\ moved[i].ent = k
    BY <1>2, <2>2, ItemIs
  <2>4. Belongs(k, down, <<>>)
    BY <1>1, <1>3, <2>1, PathDown
  <2>5. moved[i].first[1] = items[i].first[1 + cut]
    <3>1. moved[i].first[1] = EncByte(k, c)
      BY <1>2, <2>2 DEF Item, First
    <3>2. CASE cut = 1
      <4>1. 1 + cut = 2 /\ c = b + 1
        BY <1>2, <3>2
      <4>2. items[i].first[2] = EncByte(k, b + 1)
        BY <2>1 DEF Item, First
      <4>3. QED
        BY <3>1, <4>1, <4>2
    <3>3. CASE cut = 0
      <4>1. 1 + cut = 1 /\ c = b
        BY <1>1, <1>2, <3>3
      <4>2. items[i].first[1] = EncByte(k, b)
        BY <2>1 DEF Item, First
      <4>3. QED
        BY <3>1, <4>1, <4>2
    <3>4. QED
      BY <3>2, <3>3
  <2>6. QED
    BY <2>1, <2>2, <2>3, <2>4, <2>5
<1>7. DOMAIN moved = DOMAIN items
  OBVIOUS
<1>8. moved \in Seq(Items) /\ Len(moved) = Len(items)
  <2>1. moved = [i \in 1 .. Len(items) |-> moved[i]]
    BY <1>1, <1>7
  <2>2. \A i \in 1 .. Len(items) : moved[i] \in Items
    BY <1>1, <1>6
  <2>3. QED
    BY <1>1, <2>1, <2>2
<1>9. Lists(moved, down, <<>>)
  <2>1. \A i \in DOMAIN moved : /\ moved[i] = Item(moved[i].ent, Len(down) \div BDIV)
                                /\ Belongs(moved[i].ent, down, <<>>)
    BY <1>5, <1>6, <1>7
  <2>2. \A i, j \in DOMAIN moved : i < j => EncLess(moved[i].ent, moved[j].ent)
    BY <1>6, <1>7, ListsFacts
  <2>3. <<>> \in SlotPrefixes
    BY PrefixTypes
  <2>4. QED
    BY <1>4, <1>8, <2>1, <2>2, <2>3, ListsIf
<1>10. Ents(moved) = Ents(items)
  <2>1. ASSUME NEW x PROVE x \in Ents(moved) <=> x \in Ents(items)
    BY <1>6, <1>7, EntsAre
  <2>2. QED
    BY <2>1, Zenon
<1>11. QED
  BY <1>3, <1>6, <1>7, <1>8, <1>9, <1>10

\* The count is that of the moved items.
LEMMA SameCount ==
  ASSUME NEW items, NEW moved, DOMAIN moved = DOMAIN items, NEW h, NEW r, NEW i,
         \A x \in DOMAIN items : moved[x].first[1] = items[x].first[h],
         NEW n \in Nat, DOMAIN items = 1 .. n
  PROVE  LowCount(items, h, r, i) = LowCount(moved, 1, r, i)
<1>1. \A x \in DOMAIN items : \A y \in 1 .. x : moved[y].first[1] = items[y].first[h]
  OBVIOUS
<1> DEFINE S == {x \in DOMAIN items : \A y \in 1 .. x : SlotTable[items[y].first[h]][r][i] = 0}
           T == {x \in DOMAIN moved : \A y \in 1 .. x : SlotTable[moved[y].first[1]][r][i] = 0}
<1>2. S = T
  BY <1>1
<1>3. LowCount(items, h, r, i) = Cardinality(S) /\ LowCount(moved, 1, r, i) = Cardinality(T)
  BY DEF LowCount
<1>4. QED
  BY <1>2, <1>3

-----------------------------------------------------------------------------
(* The byte that readd_byte puts back *)

\* The sequence u leads from f to the forwarding node m levels above it.
Above(f, u, m) ==
  /\ u \in [0 .. m -> FwdIds] /\ u[0] = f
  /\ \A i \in 1 .. m : u[i] = fwd[u[i - 1]].parent
  /\ Level(u[m]) = Level(f) - m

\* There is such a sequence for every level above f.
LEMMA AboveExists ==
  ASSUME PathInv, NEW f \in FwdIds, NEW m \in Nat, m <= Level(f) PROVE \E u : Above(f, u, m)
<1> DEFINE S == {x \in Nat : x <= Level(f) => \E u : Above(f, u, x)}
<1>1. Level(f) \in Nat
  BY PathFacts
<1>2. 0 \in S
  <2>1. PICK u : u = [i \in 0 .. 0 |-> f]
    OBVIOUS
  <2>2. u \in [0 .. 0 -> FwdIds] /\ u[0] = f
    BY <2>1
  <2>3. Above(f, u, 0)
    BY <1>1, <2>2 DEF Above
  <2>4. QED
    BY <2>3
<1>3. ASSUME NEW x \in Nat, x \in S PROVE x + 1 \in S
  <2>1. PICK y \in Nat : y = x + 1
    OBVIOUS
  <2>2. SUFFICES ASSUME y <= Level(f) PROVE \E u : Above(f, u, y)
    BY <2>1
  <2>3. PICK u : Above(f, u, x)
    BY <1>1, <1>3, <2>1, <2>2
  <2>4. /\ u \in [0 .. x -> FwdIds] /\ u[0] = f /\ Level(u[x]) = Level(f) - x
        /\ \A i \in 1 .. x : u[i] = fwd[u[i - 1]].parent
    BY <2>3 DEF Above
  <2>5. PICK g \in FwdIds : g = u[x]
    BY <2>4
  <2>6. g # Root
    <3>1. Level(Root) = 0
      BY PathFacts DEF Level
    <3>2. QED
      BY <1>1, <2>1, <2>2, <2>4, <2>5, <3>1
  <2>7. PICK up \in FwdIds : up = fwd[g].parent /\ Level(g) = Level(up) + 1 /\ Level(up) \in Nat
    BY <2>6, PathFacts
  <2>8. PICK v : v = [i \in 0 .. y |-> IF i = y THEN up ELSE u[i]]
    OBVIOUS
  <2>9. v \in [0 .. y -> FwdIds] /\ v[0] = f /\ v[y] = up /\ \A i \in 0 .. x : v[i] = u[i]
    <3>1. \A i \in 0 .. y : i = y \/ i \in 0 .. x
      BY <2>1
    <3>2. \A i \in 0 .. x : i \in 0 .. y /\ i # y
      BY <2>1
    <3>3. \A i \in 0 .. y : (IF i = y THEN up ELSE u[i]) \in FwdIds
      BY <2>4, <2>7, <3>1
    <3>4. 0 \in 0 .. x /\ y \in 0 .. y
      BY <2>1
    <3>5. QED
      BY <2>4, <2>8, <3>2, <3>3, <3>4
  <2>10. ASSUME NEW i \in 1 .. y PROVE v[i] = fwd[v[i - 1]].parent
    <3>1. PICK j \in 0 .. x : j = i - 1 /\ v[j] = u[j]
      BY <2>1, <2>9
    <3>2. CASE i = y
      BY <2>1, <2>5, <2>7, <2>9, <3>1, <3>2
    <3>3. CASE i # y
      <4>1. i \in 1 .. x /\ i \in 0 .. x
        BY <2>1, <3>3
      <4>2. QED
        BY <2>4, <2>9, <3>1, <4>1
    <3>4. QED
      BY <3>2, <3>3
  <2>11. Level(v[y]) = Level(f) - y
    BY <1>1, <2>1, <2>4, <2>5, <2>7, <2>9
  <2>12. QED
    BY <2>9, <2>10, <2>11 DEF Above
<1>4. \A x \in Nat : x \in S
  <2> HIDE DEF S
  <2>1. QED
    BY <1>2, <1>3, Induct
<1>5. QED
  BY <1>4

\* The byte is that of the keys below f.
LEMMA GetByteIs ==
  ASSUME PathInv, NEW f \in FwdIds, f # Root, NEW k \in Keys, Spells(k, f),
         Level(f) % BDIV = 0, NEW b \in Nat, b + 1 = Level(f) \div BDIV,
         NEW y \in GetByte(f)
  PROVE  y \in Byte /\ y = EncByte(k, b)
<1> DEFINE Step(w) == [i \in 0 .. BDIV - 1 |-> IF i = 0 THEN f ELSE fwd[w[i - 1]].parent]
           up == CHOOSE w : w = Step(w)
<1>1. /\ BDIV \in Nat \ {0} /\ Level(f) \in Nat /\ Level(Root) = 0
      /\ Level(f) = b * BDIV + BDIV /\ b * BDIV \in Nat
  <2>1. BDIV \in Nat \ {0} /\ Level(f) \in Nat /\ Level(Root) = 0
    BY PathFacts, BaseFacts DEF Level
  <2>2. Level(f) = (b + 1) * BDIV
    <3>1. Level(f) = (Level(f) \div BDIV) * BDIV + (Level(f) % BDIV)
      BY <2>1, LevelByte
    <3>2. (b + 1) * BDIV \in Nat
      BY <2>1
    <3>3. QED
      BY <3>1, <3>2
  <2>3. (b + 1) * BDIV = b * BDIV + BDIV /\ b * BDIV \in Nat
    BY <2>1
  <2>4. QED
    BY <2>1, <2>2, <2>3
<1>2. PICK m \in Nat : m = BDIV - 1 /\ m <= Level(f)
  <2>1. BDIV - 1 \in Nat /\ BDIV - 1 <= Level(f)
    BY <1>1
  <2>2. QED
    BY <2>1
<1>3. up = Step(up)
  <2>1. PICK u : Above(f, u, m)
    BY <1>2, AboveExists
  <2>2. /\ u \in [0 .. m -> FwdIds] /\ u[0] = f
        /\ \A i \in 1 .. m : u[i] = fwd[u[i - 1]].parent
    BY <2>1 DEF Above
  <2>3. \A i \in 0 .. m : i = 0 \/ i \in 1 .. m
    OBVIOUS
  <2>4. u = Step(u)
    BY <1>2, <2>2, <2>3
  <2>5. QED
    BY <2>4
<1>4. /\ up[0] = f
      /\ \A i \in 1 .. m : up[i] = fwd[up[i - 1]].parent
  <2>1. \A i \in 0 .. m : up[i] = IF i = 0 THEN f ELSE fwd[up[i - 1]].parent
    BY <1>2, <1>3
  <2>2. 0 \in 0 .. m /\ \A i \in 1 .. m : i \in 0 .. m /\ i # 0
    OBVIOUS
  <2> HIDE DEF up
  <2>3. QED
    BY <2>1, <2>2
<1>5. y \in Byte /\ \A i \in 0 .. m : SlotTable[y][BDIV - 1 - i] = fwd[up[i]].path
  BY <1>2 DEF GetByte
<1> HIDE DEF up
<1> DEFINE S == {i \in Nat : i <= m => /\ up[i] \in FwdIds /\ Level(up[i]) = Level(f) - i
                                       /\ Spells(k, up[i])}
<1>6. ASSUME NEW i \in Nat, i <= m, i \in S, NEW p \in Nat, p = Level(f) - i - 1
      PROVE  /\ fwd[up[i]].path = Slot(k, p)
             /\ fwd[up[i]].parent \in FwdIds /\ Level(fwd[up[i]].parent) = p
             /\ Spells(k, fwd[up[i]].parent)
  <2>1. PICK g \in FwdIds : g = up[i] /\ Level(g) = Level(f) - i /\ Spells(k, g)
    BY <1>6
  <2>2. g # Root
    BY <1>1, <1>2, <1>6, <2>1
  <2>3. PICK h : h = fwd[g].parent
    OBVIOUS
  <2>4. /\ h \in FwdIds /\ fwd[g].path \in Slots
        /\ PathTo(g) = Append(PathTo(h), fwd[g].path) /\ Level(g) = Level(h) + 1
        /\ Level(h) \in Nat /\ PathTo(h) \in Seq(Slots)
    BY <2>2, <2>3, PathFacts
  <2>5. Level(h) = p
    BY <1>1, <1>6, <2>1, <2>4
  <2>6. Starts(k, PathTo(h)) /\ Slot(k, Len(PathTo(h))) = fwd[g].path
    <3>1. Starts(k, Append(PathTo(h), fwd[g].path))
      BY <2>1, <2>4 DEF Spells
    <3>2. QED
      BY <2>4, <3>1, StartsAppend
  <2>7. QED
    BY <2>1, <2>3, <2>4, <2>5, <2>6 DEF Spells, Level
<1>7. 0 \in S
  BY <1>1, <1>4
<1>8. ASSUME NEW i \in Nat, i \in S PROVE i + 1 \in S
  <2>1. PICK j \in Nat : j = i + 1
    OBVIOUS
  <2>2. SUFFICES ASSUME j <= m
                 PROVE  up[j] \in FwdIds /\ Level(up[j]) = Level(f) - j /\ Spells(k, up[j])
    BY <2>1
  <2>3. j \in 1 .. m /\ j - 1 = i /\ i <= m
    BY <2>1, <2>2
  <2>4. up[j] = fwd[up[i]].parent
    BY <1>4, <2>3
  <2>5. PICK p \in Nat : p = Level(f) - i - 1 /\ p = Level(f) - j
    <3>1. Level(f) - i - 1 \in Nat /\ Level(f) - i - 1 = Level(f) - j
      BY <1>1, <1>2, <2>1, <2>2
    <3>2. QED
      BY <3>1
  <2> HIDE DEF S
  <2>6. QED
    BY <1>6, <1>8, <2>3, <2>4, <2>5
<1>9. \A i \in Nat : i \in S
  <2> HIDE DEF S
  <2>1. QED
    BY <1>7, <1>8, Induct
<1>10. ASSUME NEW r \in 0 .. BDIV - 1 PROVE SlotTable[y][r] = SlotTable[EncByte(k, b)][r]
  <2>1. PICK i \in 0 .. m : i = BDIV - 1 - r /\ BDIV - 1 - i = r
    BY <1>1, <1>2
  <2>2. SlotTable[y][r] = fwd[up[i]].path
    BY <1>5, <2>1
  <2>3. PICK p \in Nat : p = Level(f) - i - 1 /\ p = b * BDIV + r
    <3>1. Level(f) - i - 1 \in Nat /\ Level(f) - i - 1 = b * BDIV + r
      BY <1>1, <1>2, <2>1
    <3>2. QED
      BY <3>1
  <2>4. fwd[up[i]].path = Slot(k, p)
    <3>1. i \in Nat /\ i <= m /\ i \in S
      BY <1>9
    <3> HIDE DEF S
    <3>2. QED
      BY <1>6, <2>3, <3>1
  <2>5. p \div BDIV = b /\ p % BDIV = r
    BY <2>3, LevelByte
  <2>6. QED
    BY <2>2, <2>4, <2>5 DEF Slot
<1>11. EncByte(k, b) \in Byte
  BY EncBytes
<1>12. QED
  BY <1>5, <1>10, <1>11, SlotsTell

-----------------------------------------------------------------------------
(* Merges *)

\* The items of two buckets with the same range, all of the first before all of the second.
LEMMA ListsConcat ==
  ASSUME NEW u, NEW v, NEW path, NEW q, Lists(u, path, q), Lists(v, path, q),
         \A i \in DOMAIN u : \A j \in DOMAIN v : EncLess(u[i].ent, v[j].ent)
  PROVE  /\ Lists(u \o v, path, q) /\ Len(u \o v) = Len(u) + Len(v)
         /\ Ents(u \o v) = Ents(u) \cup Ents(v)
<1>1. PICK b : b = Len(path) \div BDIV
  OBVIOUS
<1>2. /\ u \in Seq(Items) /\ v \in Seq(Items) /\ path \in Seq(Slots) /\ q \in SlotPrefixes
      /\ DOMAIN u = 1 .. Len(u) /\ DOMAIN v = 1 .. Len(v) /\ Len(u) \in Nat /\ Len(v) \in Nat
  BY <1>1, ListsFacts DEF Lists
<1>3. PICK t : t = u \o v
  OBVIOUS
<1>4. /\ t \in Seq(Items) /\ Len(t) = Len(u) + Len(v) /\ \A i \in 1 .. Len(u) : t[i] = u[i]
      /\ \A i \in 1 .. Len(v) : t[Len(u) + i] = v[i]
  <2>1. Concat(Items, u, v, u \o v)
    BY <1>2, ConcatAny
  <2>2. Concat(Items, u, v, t)
    BY <1>3, <2>1
  <2>3. QED
    BY <2>2 DEF Concat
<1>5. DOMAIN t = 1 .. Len(u) + Len(v)
  BY <1>4
<1>6. ASSUME NEW i \in DOMAIN t
      PROVE  \/ i \in DOMAIN u /\ t[i] = u[i]
             \/ \E j \in DOMAIN v : i = Len(u) + j /\ t[i] = v[j]
  <2>1. CASE i <= Len(u)
    BY <1>2, <1>4, <1>5, <2>1
  <2>2. CASE i > Len(u)
    <3>1. PICK j \in DOMAIN v : i = Len(u) + j
      <4>1. i - Len(u) \in DOMAIN v /\ i = Len(u) + (i - Len(u))
        BY <1>2, <1>5, <2>2
      <4>2. QED
        BY <4>1
    <3>2. QED
      BY <1>2, <1>4, <3>1
  <2>3. QED
    BY <1>2, <1>5, <2>1, <2>2
<1>7. ASSUME NEW i \in DOMAIN t
      PROVE  /\ t[i] = Item(t[i].ent, Len(path) \div BDIV)
             /\ Belongs(t[i].ent, path, q)
  BY <1>6, ListsFacts
<1>8. ASSUME NEW i \in DOMAIN t, NEW j \in DOMAIN t, i < j PROVE EncLess(t[i].ent, t[j].ent)
  <2>1. CASE i \in DOMAIN u /\ t[i] = u[i]
    <3>1. CASE j \in DOMAIN u /\ t[j] = u[j]
      BY <1>8, <2>1, <3>1, ListsFacts
    <3>2. CASE \E x \in DOMAIN v : j = Len(u) + x /\ t[j] = v[x]
      BY <2>1, <3>2
    <3>3. QED
      BY <1>6, <3>1, <3>2
  <2>2. CASE \E x \in DOMAIN v : i = Len(u) + x /\ t[i] = v[x]
    <3>1. PICK x \in DOMAIN v : i = Len(u) + x /\ t[i] = v[x]
      BY <2>2
    <3>2. ~ (j \in DOMAIN u)
      BY <1>2, <1>8, <3>1
    <3>3. PICK z \in DOMAIN v : j = Len(u) + z /\ t[j] = v[z]
      BY <1>6, <3>2
    <3>4. x < z
      BY <1>2, <1>8, <3>1, <3>3
    <3>5. QED
      BY <3>1, <3>3, <3>4, ListsFacts
  <2>3. QED
    BY <1>6, <2>1, <2>2
<1>9. Lists(t, path, q)
  BY <1>2, <1>4, <1>7, <1>8, ListsIf
<1>10. ASSUME NEW x PROVE x \in Ents(t) <=> x \in Ents(u) \cup Ents(v)
  <2>1. ASSUME x \in Ents(t) PROVE x \in Ents(u) \cup Ents(v)
    <3>1. PICK i \in DOMAIN t : t[i].ent = x
      BY <2>1, EntsAre
    <3>2. QED
      BY <1>6, <3>1, EntsAre
  <2>2. ASSUME x \in Ents(u) PROVE x \in Ents(t)
    <3>1. PICK i \in DOMAIN u : u[i].ent = x
      BY <2>2, EntsAre
    <3>2. i \in DOMAIN t /\ t[i] = u[i]
      BY <1>2, <1>4, <1>5
    <3>3. QED
      BY <3>1, <3>2, EntsAre
  <2>3. ASSUME x \in Ents(v) PROVE x \in Ents(t)
    <3>1. PICK i \in DOMAIN v : v[i].ent = x
      BY <2>3, EntsAre
    <3>2. PICK j \in DOMAIN t : j = Len(u) + i /\ t[j] = v[i]
      BY <1>2, <1>4, <1>5
    <3>3. QED
      BY <3>1, <3>2, EntsAre
  <2>4. QED
    BY <2>1, <2>2, <2>3
<1>11. Ents(t) = Ents(u) \cup Ents(v)
  BY <1>10, Zenon
<1>12. QED
  BY <1>3, <1>4, <1>9, <1>11

\* A prefix and its buddy are the halves of a range.
LEMMA HalvesOf ==
  ASSUME NEW q \in SlotPrefixes, q # <<>>
  PROVE  /\ Front(q) \in SlotPrefixes /\ Len(Front(q)) < BSIZE /\ Last(q) \in {0, 1}
         /\ Last(q) = 0 => q = Append(Front(q), 0) /\ Buddy(q) = Append(Front(q), 1)
         /\ Last(q) = 1 => q = Append(Front(q), 1) /\ Buddy(q) = Append(Front(q), 0)
<1>1. PICK l \in Nat : l = Len(q) /\ l > 0 /\ l <= BSIZE /\ q \in Seq({0, 1})
  BY PrefixFacts
<1>2. BSIZE \in Nat
  BY PrefixFacts
<1>3. PICK r : r = Front(q) /\ r \in SlotPrefixes /\ Len(r) = l - 1 /\ Len(r) < BSIZE
  BY <1>1, <1>2, BuddyRange
<1>4. r \in Seq({0, 1})
  BY <1>3, PrefixFacts
<1>5. PICK x \in {0, 1} : x = Last(q) /\ x = q[l]
  BY <1>1 DEF Last
<1>6. \A i \in 1 .. l - 1 : r[i] = q[i]
  BY <1>1, <1>3 DEF Front
<1>7. q = Append(r, x)
  <2>1. PICK t : t = Append(r, x)
    OBVIOUS
  <2>2. t \in Seq({0, 1}) /\ Len(t) = l /\ t[l] = x /\ \A i \in 1 .. l - 1 : t[i] = r[i]
    BY <1>1, <1>3, <1>4, <2>1
  <2>3. \A i \in 1 .. l : i = l \/ i \in 1 .. l - 1
    BY <1>1
  <2>4. \A i \in 1 .. l : t[i] = q[i]
    BY <1>5, <1>6, <2>2, <2>3
  <2>5. t = q
    BY <1>1, <2>2, <2>4
  <2>6. QED
    BY <2>1, <2>5
<1>8. Buddy(Append(r, 0)) = Append(r, 1) /\ Buddy(Append(r, 1)) = Append(r, 0)
  BY <1>3, HalfPrefixes
<1>9. QED
  BY <1>3, <1>5, <1>7, <1>8

\* The items of two buddies that become one bucket.
LEMMA ListsJoin ==
  ASSUME NEW xs, NEW ys, NEW path, NEW q, q # <<>>, Lists(xs, path, q), Lists(ys, path, Buddy(q)),
         NEW both, both = Joined(q, xs, ys)
  PROVE  /\ Lists(both, path, Front(q)) /\ Len(both) = Len(xs) + Len(ys)
         /\ Ents(both) = Ents(xs) \cup Ents(ys)
<1>1. q \in SlotPrefixes /\ path \in Seq(Slots)
  BY DEF Lists
<1>2. PICK b : b = Len(path) \div BDIV
  OBVIOUS
<1>3. PICK r \in SlotPrefixes : r = Front(q) /\ Len(r) < BSIZE
  BY <1>1, HalvesOf
<1>4. Lists(xs, path, r) /\ Lists(ys, path, r)
  <2>1. Buddy(q) \in SlotPrefixes /\ Buddy(q) # <<>> /\ Front(Buddy(q)) = r
    <3>1. /\ Buddy(q) \in SlotPrefixes /\ Len(Buddy(q)) = Len(q) /\ Front(Buddy(q)) = r
          /\ q \in Seq({0, 1})
      BY <1>1, <1>3, BuddyRange, PrefixFacts
    <3>2. Len(q) > 0 /\ Len(<<>>) = 0
      BY <3>1
    <3>3. QED
      BY <3>1, <3>2
  <2>2. QED
    BY <1>3, <2>1, ListsGrow
<1>5. ASSUME NEW u, NEW v, Lists(u, path, Append(r, 0)), Lists(v, path, Append(r, 1))
      PROVE  \A i \in DOMAIN u : \A j \in DOMAIN v : EncLess(u[i].ent, v[j].ent)
  <2> SUFFICES ASSUME NEW i \in DOMAIN u, NEW j \in DOMAIN v PROVE EncLess(u[i].ent, v[j].ent)
    OBVIOUS
  <2>1. PICK k \in Keys : k = u[i].ent /\ Belongs(k, path, Append(r, 0))
    BY <1>2, <1>5, ListsFacts
  <2>2. PICK l \in Keys : l = v[j].ent /\ Belongs(l, path, Append(r, 1))
    BY <1>2, <1>5, ListsFacts
  <2>3. QED
    BY <1>1, <1>3, <2>1, <2>2, BranchOrder
<1>6. Len(xs) \in Nat /\ Len(ys) \in Nat
  BY <1>2, ListsFacts
<1>7. CASE Last(q) = 0
  <2>1. both = xs \o ys
    BY <1>7 DEF Joined
  <2>2. q = Append(r, 0) /\ Buddy(q) = Append(r, 1)
    BY <1>1, <1>3, <1>7, HalvesOf
  <2>3. \A i \in DOMAIN xs : \A j \in DOMAIN ys : EncLess(xs[i].ent, ys[j].ent)
    BY <1>5, <2>2
  <2>4. QED
    BY <1>3, <1>4, <2>1, <2>3, ListsConcat
<1>8. CASE Last(q) = 1
  <2>1. both = ys \o xs
    BY <1>8 DEF Joined
  <2>2. q = Append(r, 1) /\ Buddy(q) = Append(r, 0)
    BY <1>1, <1>3, <1>8, HalvesOf
  <2>3. \A i \in DOMAIN ys : \A j \in DOMAIN xs : EncLess(ys[i].ent, xs[j].ent)
    BY <1>5, <2>2
  <2>4. Lists(both, path, r) /\ Len(both) = Len(ys) + Len(xs) /\ Ents(both) = Ents(ys) \cup Ents(xs)
    BY <1>4, <2>1, <2>3, ListsConcat
  <2>5. QED
    BY <1>3, <1>6, <2>4
<1>9. QED
  BY <1>1, <1>7, <1>8, HalvesOf

\* The key's place one level up.
LEMMA PathUp ==
  ASSUME NEW path \in Seq(Slots), NEW t \in Slots, NEW k \in Keys, Belongs(k, Append(path, t), <<>>)
  PROVE  Belongs(k, path, t)
<1>1. Starts(k, path) /\ Slot(k, Len(path)) = t
  BY StartsAppend DEF Belongs
<1>2. Covers(t, t)
  BY DEF Covers
<1>3. QED
  BY <1>1, <1>2 DEF Belongs

\* The items of a bucket that takes its parent's slot, where a byte of the path goes on.
LEMMA ListsUp ==
  ASSUME NEW items, NEW path \in Seq(Slots), NEW t \in Slots,
         Lists(items, Append(path, t), <<>>),
         NEW p, p = Len(path) + 1, p % BDIV # 0
  PROVE  Lists(items, path, t)
<1>1. PICK down : down = Append(path, t)
  OBVIOUS
<1>2. PICK b : b = Len(down) \div BDIV
  OBVIOUS
<1>3. Len(path) \in Nat /\ Len(down) = p
  BY <1>1
<1>4. b = Len(path) \div BDIV
  BY <1>2, <1>3, NextLevel
<1>5. items \in Seq(Items) /\ t \in SlotPrefixes
  BY PrefixFacts DEF Lists
<1>6. ASSUME NEW i \in DOMAIN items
      PROVE  items[i] = Item(items[i].ent, Len(path) \div BDIV) /\ Belongs(items[i].ent, path, t)
  <2>1. Lists(items, down, <<>>)
    BY <1>1
  <2>2. PICK k \in Keys : k = items[i].ent /\ items[i] = Item(k, b) /\ Belongs(k, down, <<>>)
    BY <1>2, <2>1, ListsFacts
  <2>3. Belongs(k, path, t)
    BY <1>1, <2>2, PathUp
  <2>4. QED
    BY <1>4, <2>2, <2>3
<1>7. \A i, j \in DOMAIN items : i < j => EncLess(items[i].ent, items[j].ent)
  BY <1>1, <1>2, ListsFacts
<1>8. QED
  BY <1>5, <1>6, <1>7, ListsIf

\* An item when the byte y goes out of the path into it; size is what it then has left.
Uncut(it, y, size) ==
  [it EXCEPT !.first = << y, it.first[1] >>,
             !.res = IF size > 0 THEN << it.first[2] >> \o @ ELSE @]

\* Then it is the item of its key one byte further up.
LEMMA ItemBack ==
  ASSUME NEW k \in Keys, NEW b \in Nat, NEW c \in Nat, c = b + 1
  PROVE  Uncut(Item(k, c), EncByte(k, b), Len(Residual(k, b))) = Item(k, b)
<1>1. PICK d \in Nat : d = b + 2 /\ c + 1 = d
  OBVIOUS
<1>2. PICK x, y, z : x = EncByte(k, b) /\ y = EncByte(k, c) /\ z = EncByte(k, d)
  OBVIOUS
<1>3. PICK r, s : r = Residual(k, b) /\ s = Residual(k, c)
  OBVIOUS
<1>4. /\ r # <<>> => Len(r) > 0 /\ r = << z >> \o s
      /\ r = <<>> => Len(r) = 0 /\ s = <<>>
  <2>1. Sheds(Residual(k, b), Residual(k, c), EncByte(k, d))
    BY <1>1, ResidualNext
  <2>2. QED
    BY <1>2, <1>3, <2>1 DEF Sheds
<1>5. PICK new : new = IF Len(r) > 0 THEN << z >> \o s ELSE s
  OBVIOUS
<1>6. new = r
  BY <1>4, <1>5
<1>7. First(k, b) = << x, y >> /\ First(k, c) = << y, z >>
  BY <1>1, <1>2 DEF First
<1>8. /\ Item(k, c) = [first |-> << y, z >>, res |-> s, ent |-> k]
      /\ Item(k, b) = [first |-> << x, y >>, res |-> r, ent |-> k]
  BY <1>3, <1>7 DEF Item
<1>9. PICK it : it = Item(k, c)
  OBVIOUS
<1>10. it.first = << y, z >> /\ it.first[1] = y /\ it.first[2] = z /\ it.res = s
  BY <1>8, <1>9
<1>11. Uncut(it, x, Len(r)) = [it EXCEPT !.first = << x, y >>, !.res = new]
  BY <1>5, <1>10 DEF Uncut
<1>12. PICK w : w = [it EXCEPT !.first = << x, y >>, !.res = new]
  OBVIOUS
<1>13. w.first = << x, y >> /\ w.res = new /\ w.ent = k
  BY <1>8, <1>9, <1>12
<1>14. w = [first |-> w.first, res |-> w.res, ent |-> w.ent]
  BY <1>8, <1>9, <1>12
<1>15. QED
  BY <1>2, <1>3, <1>6, <1>8, <1>9, <1>11, <1>12, <1>13, <1>14

\* The same where a byte goes out of the path.
LEMMA ListsBack ==
  ASSUME NEW items, NEW path \in Seq(Slots), NEW t \in Slots,
         Lists(items, Append(path, t), <<>>),
         NEW p, p = Len(path) + 1, p % BDIV = 0, NEW b, b = Len(path) \div BDIV,
         NEW y, \A i \in DOMAIN items : y = EncByte(items[i].ent, b),
         NEW size, \A i \in DOMAIN items : size[i] = Len(Residual(items[i].ent, b)),
         NEW moved, moved = InjectByte(items, y, size)
  PROVE  /\ Lists(moved, path, t) /\ Len(moved) = Len(items) /\ Ents(moved) = Ents(items)
<1>1. PICK down : down = Append(path, t)
  OBVIOUS
<1>2. PICK c : c = Len(down) \div BDIV
  OBVIOUS
<1>3. Len(path) \in Nat /\ Len(down) = p
  BY <1>1
<1>4. b \in Nat /\ c \in Nat /\ c = b + 1
  <2>1. c = b + 1
    BY <1>2, <1>3, NextLevel
  <2>2. b \in Nat
    BY <1>3, LevelByte
  <2>3. QED
    BY <2>1, <2>2
<1>5. /\ items \in Seq(Items) /\ t \in SlotPrefixes /\ DOMAIN items = 1 .. Len(items)
      /\ Len(items) \in Nat
  BY PrefixFacts DEF Lists
<1>6. DOMAIN moved = DOMAIN items
  BY DEF InjectByte
<1>7. ASSUME NEW i \in DOMAIN items
      PROVE  /\ moved[i] = Item(items[i].ent, b) /\ moved[i].ent = items[i].ent
             /\ moved[i] \in Items /\ Belongs(items[i].ent, path, t)
  <2>1. Lists(items, down, <<>>)
    BY <1>1
  <2>2. PICK k \in Keys : k = items[i].ent /\ items[i] = Item(k, c) /\ Belongs(k, down, <<>>)
    BY <1>2, <2>1, ListsFacts
  <2>3. PICK it : it = items[i]
    OBVIOUS
  <2>4. moved[i] = Uncut(it, y, size[i])
    BY <2>3 DEF InjectByte, Uncut
  <2>5. y = EncByte(k, b) /\ size[i] = Len(Residual(k, b))
    BY <2>2
  <2>6. moved[i] = Item(k, b)
    <3>1. Uncut(Item(k, c), EncByte(k, b), Len(Residual(k, b))) = Item(k, b)
      BY <1>4, ItemBack
    <3>2. QED
      BY <2>2, <2>3, <2>4, <2>5, <3>1
  <2>7. moved[i] \in Items /\ moved[i].ent = k
    BY <1>4, <2>6, ItemIs
  <2>8. Belongs(k, path, t)
    BY <1>1, <2>2, PathUp
  <2>9. QED
    BY <2>2, <2>6, <2>7, <2>8
<1>8. moved \in Seq(Items) /\ Len(moved) = Len(items)
  <2>1. PICK n \in Nat : n = Len(items)
    BY <1>5
  <2>2. PICK g : g = [i \in 1 .. n |-> moved[i]]
    OBVIOUS
  <2>3. moved = g
    BY <1>5, <1>6, <2>1, <2>2 DEF InjectByte
  <2>4. \A i \in 1 .. n : moved[i] \in Items
    BY <1>5, <1>7, <2>1
  <2>5. g \in Seq(Items) /\ Len(g) = n
    BY <2>2, <2>4
  <2>6. QED
    BY <2>1, <2>3, <2>5
<1>9. Lists(moved, path, t)
  <2>1. \A x \in DOMAIN moved : /\ moved[x] = Item(moved[x].ent, Len(path) \div BDIV)
                                /\ Belongs(moved[x].ent, path, t)
    BY <1>6, <1>7
  <2>2. \A x, z \in DOMAIN moved : x < z => EncLess(moved[x].ent, moved[z].ent)
    BY <1>1, <1>2, <1>6, <1>7, ListsFacts
  <2>3. QED
    BY <1>5, <1>8, <2>1, <2>2, ListsIf
<1>10. Ents(moved) = Ents(items)
  <2>1. ASSUME NEW x PROVE x \in Ents(moved) <=> x \in Ents(items)
    BY <1>6, <1>7, EntsAre
  <2>2. QED
    BY <2>1, Zenon
<1>11. QED
  BY <1>8, <1>9, <1>10

-----------------------------------------------------------------------------
(* The parts of the invariant, of the values of the variables *)

ItemsOf(N, nd, F) ==
  \A n \in N : Listing(nd[n].items, PathFn(F)[nd[n].parent], nd[n].prefix)

EndsOf(S, F) ==
  \A f \in S : f # Root => \E k \in Keys : /\ Starts(k, PathFn(F)[f])
                                           /\ Len(PathFn(F)[f]) \div BDIV <= Len(k) + 1

\* The keys of these items have no bytes left below the path.
Spent(items, path) == \A k \in Ents(items) : Len(k) + 1 = Len(path) \div BDIV

FullOf(N, nd, F, s, bad) ==
  \A n \in N : Len(nd[n].items) >= SPLITBOUND =>
    \/ /\ ~ bad /\ s # <<>> /\ Head(s).fn = "split" /\ Head(s).node = n
       /\ Len(nd[n].items) = SPLITBOUND
    \/ Spent(nd[n].items, PathFn(F)[nd[n].parent])

HomeOf(N, nd, e) ==
  /\ \A k \in Keys : e[k] # Null => e[k] \in N /\ k \in Ents(nd[e[k]].items)
  /\ \A n \in N : \A k \in Ents(nd[n].items) : e[k] = n

\* The parts, in a state.
LEMMA PartsNow ==
  /\ ItemsOK <=> ItemsOf(nodes, node, fwd)
  /\ PathsEnd <=> EndsOf(fwds, fwd)
  /\ FullOK <=> FullOf(nodes, node, fwd, stack, fault)
  /\ EntriesPointHome <=> HomeOf(nodes, node, entry)
<1>1. ItemsOK <=> ItemsOf(nodes, node, fwd)
  BY DEF ItemsOK, ItemsOf, PathTo, PathFn
<1>2. PathsEnd <=> EndsOf(fwds, fwd)
  BY DEF PathsEnd, EndsOf, PathTo, PathFn, Spells, Level
<1>3. FullOK <=> FullOf(nodes, node, fwd, stack, fault)
  BY DEF FullOK, FullOf, Spent, PathTo, PathFn, Level, Count, Running, Top
<1>4. EntriesPointHome <=> HomeOf(nodes, node, entry)
  BY DEF EntriesPointHome, HomeOf, Stored
<1>5. QED
  BY <1>1, <1>2, <1>3, <1>4

\* The parts, in the state after a step.
LEMMA PartsNext ==
  /\ ItemsOK' <=> ItemsOf(nodes', node', fwd')
  /\ PathsEnd' <=> EndsOf(fwds', fwd')
  /\ FullOK' <=> FullOf(nodes', node', fwd', stack', fault')
  /\ EntriesPointHome' <=> HomeOf(nodes', node', entry')
<1>1. ItemsOK' <=> ItemsOf(nodes', node', fwd')
  BY DEF ItemsOK, ItemsOf, PathTo, PathFn
<1>2. PathsEnd' <=> EndsOf(fwds', fwd')
  BY DEF PathsEnd, EndsOf, PathTo, PathFn, Spells, Level
<1>3. FullOK' <=> FullOf(nodes', node', fwd', stack', fault')
  BY DEF FullOK, FullOf, Spent, PathTo, PathFn, Level, Count, Running, Top
<1>4. EntriesPointHome' <=> HomeOf(nodes', node', entry')
  BY DEF EntriesPointHome, HomeOf, Stored
<1>5. QED
  BY <1>1, <1>2, <1>3, <1>4

\* What a bucket holds.
LEMMA Held ==
  ASSUME TreeInv, PathInv, ItemsOK, NEW n \in nodes,
         NEW f, f = node[n].parent, NEW path, path = PathTo(f)
  PROVE  /\ f \in fwds /\ f \in FwdIds /\ n \in NodeIds /\ n \notin FwdIds
         /\ Lists(node[n].items, path, node[n].prefix)
         /\ Len(path) = Level(f) /\ Level(f) \in Nat /\ path \in Seq(Slots)
<1>1. f \in fwds /\ f \in FwdIds /\ n \in NodeIds /\ n \notin FwdIds
  BY ParentAlive, Addresses DEF TreeInv
<1>2. node[n].items \in Seq(Items) /\ node[n].prefix \in SlotPrefixes
  BY <1>1, Addresses DEF TreeInv, Node
<1>3. path \in Seq(Slots) /\ Len(path) = Level(f) /\ Level(f) \in Nat
  BY <1>1, PathFacts DEF Level
<1>4. QED
  BY <1>1, <1>2, <1>3 DEF Lists, ItemsOK

\* A key is found in the bucket that holds it.
LEMMA Homing ==
  ASSUME TreeInv, PathInv, ItemsOK, NEW n \in nodes, NEW k \in Keys, k \in Ents(node[n].items)
  PROVE  /\ FastForward(k) = [fwd |-> node[n].parent, base |-> n, p |-> Level(node[n].parent)]
         /\ BestMatch(k).base = n
<1>1. PICK f, path, q : f = node[n].parent /\ path = PathTo(f) /\ q = node[n].prefix
  OBVIOUS
<1>2. /\ f \in fwds /\ Lists(node[n].items, path, q) /\ Len(path) = Level(f) /\ n \notin FwdIds
      /\ Level(f) \in Nat
  BY <1>1, Held
<1>3. PICK i \in DOMAIN node[n].items : node[n].items[i].ent = k
  BY EntsAre
<1>4. Belongs(k, path, q)
  BY <1>2, <1>3, ListsFacts
<1>5. Spells(k, f) /\ Covers(q, Slot(k, Level(f)))
  BY <1>1, <1>2, <1>4 DEF Belongs, Spells
<1>6. Slot(k, Level(f)) \in Slots
  BY <1>2, SlotType
<1>7. fwd[f].children[Slot(k, Level(f))] = n
  BY <1>1, <1>5, <1>6 DEF TreeInv, TreeWellFormed
<1>8. FastForward(k) = [fwd |-> f, base |-> n, p |-> Level(f)]
  BY <1>2, <1>5, <1>7, FastForwardAt
<1>9. BestMatch(k).base = n
  BY <1>8 DEF BestMatch
<1>10. QED
  BY <1>1, <1>8, <1>9

\* What best_match finds.
Matched(k, m) ==
  /\ m.ok
  /\ m.base \in NodeIds =>
       /\ m.index \in 1 .. Len(node[m.base].items) + 1
       /\ m.found <=> k \in Ents(node[m.base].items)
       /\ m.found => /\ m.index \in DOMAIN node[m.base].items
                     /\ node[m.base].items[m.index].ent = k
       /\ ~ m.found => IsPlace(node[m.base].items, k, m.index)
  /\ m.base \notin NodeIds => ~ m.found /\ m.index = 1
  /\ \A n \in nodes : k \in Ents(node[n].items) => m.base = n

\* best_match computes no wrong size, and finds a key or its place.
LEMMA Matching ==
  ASSUME <<>> \notin Keys, TreeInv, PathInv, ItemsOK, NEW k \in Keys
  PROVE  Matched(k, BestMatch(k))
<1>1. PICK m : m = BestMatch(k)
  OBVIOUS
<1>2. /\ m.p = Level(m.fwd) /\ Spells(k, m.fwd)
      /\ m.base \in NodeIds => m.base \in nodes /\ node[m.base].parent = m.fwd
  BY <1>1, Places
<1>3. \A n \in nodes : k \in Ents(node[n].items) => m.base = n
  BY <1>1, Homing
<1>4. CASE m.base \in NodeIds
  <2>1. PICK n \in nodes : n = m.base /\ node[n].parent = m.fwd
    BY <1>2, <1>4
  <2>2. PICK path, b : path = PathTo(m.fwd) /\ b = m.p \div BDIV
    OBVIOUS
  <2>3. Lists(node[n].items, path, node[n].prefix) /\ Len(path) = m.p /\ Starts(k, path)
    BY <1>2, <2>1, <2>2, Held DEF Spells
  <2>4. b = Len(path) \div BDIV
    BY <2>2, <2>3
  <2>5. PICK h : h = BucketSearch(k, node[n].items, b)
    OBVIOUS
  <2>6. m.index = h.index /\ m.found = h.found /\ m.ok = h.ok
    BY <1>1, <1>4, <2>1, <2>2, <2>5 DEF BestMatch
  <2>7. /\ h.index \in 1 .. Len(node[n].items) + 1
        /\ h.found <=> k \in Ents(node[n].items)
        /\ h.found => h.index \in DOMAIN node[n].items /\ node[n].items[h.index].ent = k
        /\ ~ h.found => IsPlace(node[n].items, k, h.index)
        /\ h.ok
    BY <2>3, <2>4, <2>5, Search
  <2>8. Matched(k, m)
    BY <1>3, <1>4, <2>1, <2>6, <2>7 DEF Matched
  <2>9. QED
    BY <1>1, <2>8
<1>5. CASE m.base \notin NodeIds
  <2>1. m.index = 1 /\ m.found = FALSE /\ m.ok = TRUE
    BY <1>1, <1>5 DEF BestMatch
  <2>2. Matched(k, m)
    BY <1>3, <1>5, <2>1 DEF Matched
  <2>3. QED
    BY <1>1, <2>2
<1>6. QED
  BY <1>4, <1>5

-----------------------------------------------------------------------------
(* What a step leaves as it was *)

\* The path of a forwarding node that stays.
LEMMA PathStays ==
  ASSUME TreeInv, TreeInv', PathInv, KeepPlaces, NEW f \in fwds, f \in fwds'
  PROVE  PathFn(fwd')[f] = PathTo(f) /\ f \in FwdIds
<1>1. f \in FwdIds
  BY Addresses DEF TreeInv
<1>2. PathFn(fwd')[f] = PathFn(fwd)[f]
  BY PathStep
<1>3. QED
  BY <1>1, <1>2, PathValue

\* The parent of a bucket, after a step.
LEMMA ParentNext ==
  ASSUME TreeInv' PROVE \A n \in nodes' : node'[n].parent \in fwds' /\ n \in NodeIds
<1> SUFFICES ASSUME NEW n \in nodes' PROVE node'[n].parent \in fwds' /\ n \in NodeIds
  OBVIOUS
<1>1. n \in NodeIds /\ node'[n] \in Node
  BY DEF TreeInv, TypeOK, BucketsOK
<1>2. PICK f \in FwdIds, q \in SlotPrefixes : f = node'[n].parent /\ q = node'[n].prefix
  BY <1>1 DEF Node
<1>3. PICK s \in Slots : Covers(q, s)
  BY PadCovered
<1>4. fwd'[f].children[s] = n
  BY <1>2, <1>3 DEF TreeInv, TreeWellFormed
<1>5. f \in fwds'
  <2>1. SUFFICES ASSUME f \notin fwds' PROVE FALSE
    OBVIOUS
  <2>2. fwd'[f] = DeadFwd
    BY <2>1 DEF TreeInv, DeadOK
  <2>3. n = Null
    BY <1>3, <1>4, <2>2 DEF DeadFwd
  <2>4. QED
    BY <1>1, <2>3, PTrieAssumption
<1>6. QED
  BY <1>1, <1>2, <1>5

\* Items stay where they are, but for buckets that are given others.
LEMMA ItemsStep ==
  ASSUME TreeInv, TreeInv', PathInv, KeepPlaces, ItemsOK,
         \A n \in nodes' :
           \/ n \in nodes /\ node'[n] = node[n]
           \/ Lists(node'[n].items, PathFn(fwd')[node'[n].parent], node'[n].prefix)
  PROVE  ItemsOK'
<1>1. ASSUME NEW n \in nodes'
      PROVE  Listing(node'[n].items, PathFn(fwd')[node'[n].parent], node'[n].prefix)
  <2>1. CASE n \in nodes /\ node'[n] = node[n]
    <3>1. PICK f : f = node[n].parent /\ f \in fwds /\ f \in fwds'
      BY <2>1, Held, ParentNext
    <3>2. PathFn(fwd')[f] = PathTo(f)
      BY <3>1, PathStays
    <3>3. Lists(node[n].items, PathTo(f), node[n].prefix)
      BY <2>1, <3>1, Held
    <3>4. QED
      BY <2>1, <3>1, <3>2, <3>3 DEF Lists
  <2>2. CASE Lists(node'[n].items, PathFn(fwd')[node'[n].parent], node'[n].prefix)
    BY <2>2 DEF Lists
  <2>3. QED
    BY <2>1, <2>2
<1>2. QED
  BY <1>1, PartsNext DEF ItemsOf

\* No path becomes longer where no forwarding node is made.
LEMMA EndsStep ==
  ASSUME TreeInv, TreeInv', PathInv, KeepPlaces, PathsEnd, fwds' \subseteq fwds
  PROVE  PathsEnd'
<1>1. ASSUME NEW f \in fwds', f # Root
      PROVE  \E k \in Keys : /\ Starts(k, PathFn(fwd')[f])
                             /\ Len(PathFn(fwd')[f]) \div BDIV <= Len(k) + 1
  <2>1. PathFn(fwd')[f] = PathTo(f) /\ f \in fwds
    BY PathStays
  <2>2. \E k \in Keys : Spells(k, f) /\ Level(f) \div BDIV <= Len(k) + 1
    BY <1>1, <2>1 DEF PathsEnd
  <2>3. QED
    BY <2>1, <2>2 DEF Spells, Level
<1>2. QED
  BY <1>1, PartsNext DEF EndsOf

\* The call on top is a split of the bucket n, whose items are those of a full bucket.
Splitting(items, s, bad, n) ==
  ~ bad /\ s # <<>> /\ Head(s).fn = "split" /\ Head(s).node = n /\ Len(items) = SPLITBOUND

\* Buckets that stay are no fuller than before.
LEMMA FullStep ==
  ASSUME TreeInv, TreeInv', PathInv, KeepPlaces, ItemsOK, FullOK,
         \A n \in nodes' :
           \/ n \in nodes /\ node'[n] = node[n] /\ ~ (Running("split") /\ Top.node = n)
           \/ Len(node'[n].items) < SPLITBOUND
           \/ Spent(node'[n].items, PathFn(fwd')[node'[n].parent])
           \/ Splitting(node'[n].items, stack', fault', n)
  PROVE  FullOK'
<1>1. ASSUME NEW n \in nodes', Len(node'[n].items) >= SPLITBOUND
      PROVE  \/ /\ ~ fault' /\ stack' # <<>> /\ Head(stack').fn = "split" /\ Head(stack').node = n
                /\ Len(node'[n].items) = SPLITBOUND
             \/ Spent(node'[n].items, PathFn(fwd')[node'[n].parent])
  <2>1. CASE n \in nodes /\ node'[n] = node[n] /\ ~ (Running("split") /\ Top.node = n)
    <3>1. PICK f : f = node[n].parent /\ f \in fwds /\ f \in fwds'
      BY <2>1, Held, ParentNext
    <3>2. PathFn(fwd')[f] = PathTo(f)
      BY <3>1, PathStays
    <3>3. \A k \in Ents(node[n].items) : Len(k) + 1 = Level(f) \div BDIV
      BY <1>1, <2>1, <3>1 DEF FullOK, Count
    <3>4. QED
      BY <2>1, <3>1, <3>2, <3>3 DEF Spent, Level
  <2>2. CASE Len(node'[n].items) < SPLITBOUND
    <3>1. node'[n].items \in Seq(Items)
      <4>1. node'[n] \in Node
        BY ParentNext DEF TreeInv, TypeOK, BucketsOK
      <4>2. QED
        BY <4>1 DEF Node
    <3>2. Len(node'[n].items) \in Nat /\ SPLITBOUND \in Nat
      BY <3>1, PTrieAssumption
    <3>3. QED
      BY <1>1, <2>2, <3>2
  <2>3. CASE Spent(node'[n].items, PathFn(fwd')[node'[n].parent])
    BY <2>3
  <2>4. CASE Splitting(node'[n].items, stack', fault', n)
    BY <2>4 DEF Splitting
  <2>5. QED
    BY <2>1, <2>2, <2>3, <2>4
<1>2. QED
  BY <1>1, PartsNext DEF FullOf

\* The keys of buckets.
LEMMA EntsType ==
  ASSUME TreeInv, NEW n \in NodeIds PROVE Ents(node[n].items) \subseteq Keys
<1>1. node[n].items \in Seq(Items)
  BY Addresses DEF TreeInv
<1>2. \A i \in DOMAIN node[n].items : node[n].items[i] \in Items
  BY <1>1
<1>3. QED
  BY <1>2 DEF Ents, Items

\* A key is in one bucket.
LEMMA OneHome ==
  ASSUME EntriesPointHome, NEW n \in nodes, NEW c \in nodes, n # c
  PROVE  Ents(node[n].items) \cap Ents(node[c].items) = {}
BY DEF EntriesPointHome

\* The entry of a stored key points to its bucket.
LEMMA EntryHome ==
  ASSUME EntriesPointHome, NEW k \in Keys, entry[k] # Null
  PROVE  entry[k] \in nodes /\ k \in Ents(node[entry[k]].items)
BY PartsNow DEF HomeOf

\* The keys of E are, or come, into the bucket h; the others stay where they are.
LEMMA HomeStep ==
  ASSUME TreeInv, TreeInv', EntriesPointHome, NEW E, NEW h, h \in nodes', Ents(node'[h].items) = E,
         E \subseteq Keys,
         \A n \in nodes' : n # h => n \in nodes /\ Ents(node'[n].items) = Ents(node[n].items) \ E,
         \A n \in nodes : (n \in nodes' /\ n # h) \/ Ents(node[n].items) \subseteq E,
         \A k \in Keys : entry'[k] = IF k \in E THEN h ELSE entry[k]
  PROVE  EntriesPointHome'
<1>1. ASSUME NEW k \in Keys, entry'[k] # Null
      PROVE  entry'[k] \in nodes' /\ k \in Ents(node'[entry'[k]].items)
  <2>1. CASE k \in E
    BY <2>1
  <2>2. CASE k \notin E
    <3>1. PICK n : n = entry[k] /\ n = entry'[k]
      BY <2>2
    <3>2. n \in nodes /\ k \in Ents(node[n].items)
      <4>1. entry[k] # Null
        BY <1>1, <3>1
      <4>2. QED
        BY <3>1, <4>1, EntryHome
    <3>3. n \in nodes' /\ n # h
      BY <2>2, <3>2
    <3>4. k \in Ents(node'[n].items)
      BY <2>2, <3>2, <3>3
    <3>5. QED
      BY <3>1, <3>3, <3>4
  <2>3. QED
    BY <2>1, <2>2
<1>2. ASSUME NEW n \in nodes', NEW k \in Ents(node'[n].items) PROVE entry'[k] = n
  <2>1. CASE n = h
    BY <2>1
  <2>2. CASE n # h
    <3>1. n \in nodes /\ k \in Ents(node[n].items) /\ k \notin E
      BY <2>2
    <3>2. k \in Keys
      BY <3>1, EntsType, Addresses DEF TreeInv
    <3>3. entry[k] = n
      BY <3>1 DEF EntriesPointHome
    <3>4. QED
      BY <3>1, <3>2, <3>3
  <2>3. QED
    BY <2>1, <2>2
<1>3. QED
  BY <1>1, <1>2, PartsNext DEF HomeOf

\* Every bucket keeps its keys.
LEMMA HomeStays ==
  ASSUME TreeInv, EntriesPointHome, entry' = entry,
         \A n \in nodes' : n \in nodes /\ Ents(node'[n].items) = Ents(node[n].items),
         \A n \in nodes : n \in nodes' \/ Ents(node[n].items) = {}
  PROVE  EntriesPointHome'
<1>1. ASSUME NEW k \in Keys, entry'[k] # Null
      PROVE  entry'[k] \in nodes' /\ k \in Ents(node'[entry'[k]].items)
  <2>1. PICK n : n = entry[k] /\ n = entry'[k]
    OBVIOUS
  <2>2. n \in nodes /\ k \in Ents(node[n].items)
    <3>1. entry[k] # Null
      BY <1>1, <2>1
    <3>2. QED
      BY <2>1, <3>1, EntryHome
  <2>3. n \in nodes' /\ k \in Ents(node'[n].items)
    BY <2>2
  <2>4. QED
    BY <2>1, <2>3
<1>2. ASSUME NEW n \in nodes', NEW k \in Ents(node'[n].items) PROVE entry'[k] = n
  BY <1>2 DEF EntriesPointHome
<1>3. QED
  BY <1>1, <1>2, PartsNext DEF HomeOf

\* The same keys are stored, whatever bucket their entries point to.
LEMMA OwnStored ==
  ASSUME TreeInv, EntriesPointHome, NEW E, NEW h \in NodeIds,
         \A k \in E : \E n \in nodes : k \in Ents(node[n].items),
         \A k \in Keys : entry'[k] = IF k \in E THEN h ELSE entry[k]
  PROVE  Stored' = Stored
<1>1. h # Null /\ \A n \in nodes : n \in NodeIds /\ n # Null
  BY PTrieAssumption, Addresses DEF TreeInv
<1>2. ASSUME NEW k \in Keys PROVE entry'[k] # Null <=> entry[k] # Null
  <2>1. CASE k \in E
    <3>1. PICK n \in nodes : k \in Ents(node[n].items)
      BY <2>1
    <3>2. entry[k] = n
      BY <3>1 DEF EntriesPointHome
    <3>3. QED
      BY <1>1, <2>1, <3>2
  <2>2. CASE k \notin E
    BY <2>2
  <2>3. QED
    BY <2>1, <2>2
<1>3. QED
  BY <1>2 DEF Stored

-----------------------------------------------------------------------------
(* The size that calls are given *)

\* A call of split_node.
LEMMA SplitSize ==
  ASSUME stack' # <<>>, NEW f, NEW n, NEW size, NEW p, Top' = Frame("split", n, f, size, p),
         NEW k \in Ents(node'[n].items), size = Len(k) - p \div BDIV
  PROVE  SizesOK'
<1>1. Top'.fn = "split" /\ Top'.node = n /\ Top'.size = size /\ Top'.p = p
  BY DEF Frame
<1>2. QED
  BY <1>1 DEF SizesOK

\* A call of merge_down.
LEMMA MergeSize ==
  ASSUME stack' # <<>>, NEW n, NEW size, NEW p, Top' = Frame("merge_down", n, Null, size, p),
         \/ \E k \in Keys : /\ Starts(k, PathFn(fwd')[node'[n].parent])
                            /\ size = Len(k) - p \div BDIV
         \/ Count(n)' > MergeBound
         \/ AllSettled(nodes)'
  PROVE  SizesOK'
<1>1. Top'.fn = "merge_down" /\ Top'.node = n /\ Top'.p = p /\ Top'.size = size
  BY DEF Frame
<1>2. PathTo(node[Top.node].parent)' = PathFn(fwd')[node'[n].parent]
  BY <1>1 DEF PathTo, PathFn
<1>3. Count(Top.node)' = Count(n)'
  BY <1>1 DEF Count
<1>4. MergeBound' = MergeBound
  BY DEF MergeBound
<1>5. QED
  BY <1>1, <1>2, <1>3, <1>4 DEF SizesOK, Spells

\* Other calls have no use for the size.
LEMMA OtherSize ==
  ASSUME stack' = <<>> \/ Top'.fn \in {"after_readd", "climb"} PROVE SizesOK'
BY DEF SizesOK

\* No call, no size.
LEMMA NoCallsSize ==
  ASSUME stack' = <<>> PROVE SizesOK'
BY DEF SizesOK

-----------------------------------------------------------------------------
(* insert *)

\* The keys of a bucket whose keys have no bytes left, and the length of any other key
\* on its path.
LEMMA SpentMore ==
  ASSUME <<>> \notin Keys,
         NEW items, NEW path, NEW q, Lists(items, path, q), Spent(items, path), items # <<>>,
         NEW k \in Keys, Starts(k, path)
  PROVE  Len(k) + 1 = Len(path) \div BDIV
<1>1. PICK b : b = Len(path) \div BDIV
  OBVIOUS
<1>2. items \in Seq(Items)
  BY DEF Lists
<1>3. 1 \in DOMAIN items
  BY <1>2
<1>4. PICK l : l = items[1].ent
  OBVIOUS
<1>5. l \in Keys /\ b \in Nat /\ l \in Ents(items)
  BY <1>1, <1>3, <1>4, ListsFacts, EntsAre
<1>6. Agree(l, k, b)
  BY <1>1, <1>3, <1>4, ListsAgree
<1>7. Len(l) + 1 = b
  BY <1>1, <1>5 DEF Spent
<1>8. Len(l) \in Nat /\ Len(l) # 0
  BY <1>5, BaseFacts
<1>9. b >= 2
  BY <1>5, <1>7, <1>8
<1>10. Len(l) = Len(k)
  BY <1>5, <1>6, <1>9, AgreeLen
<1>11. QED
  BY <1>1, <1>7, <1>10

\* What insert does, once it has found or made the bucket n, which held `old'.
LEMMA AddItemContent ==
  ASSUME <<>> \notin Keys, TreeInv, TreeInv', PathInv, KeepPlaces, ItemsOK, PathsEnd, FullOK,
         EntriesPointHome, stack = <<>>, NEW k \in Keys, NEW m, m.ok,
         NEW n \in NodeIds, n \in nodes', nodes' \ {n} = nodes \ {n}, fwds' = fwds,
         NEW old \in Node, NEW oldsize, AddItem(k, m, n, old, oldsize),
         m.fwd \in fwds, NEW path, path = PathTo(m.fwd), m.p = Len(path), old.parent = m.fwd,
         Lists(old.items, path, old.prefix), Belongs(k, path, old.prefix),
         IsPlace(old.items, k, m.index),
         \/ n \in nodes /\ old = node[n]
         \/ n \notin nodes /\ old.items = <<>>,
         \A c \in nodes : c # n => k \notin Ents(node[c].items)
  PROVE  ~ fault' /\ ItemsOK' /\ PathsEnd' /\ FullOK' /\ SizesOK' /\ EntriesPointHome'
<1>1. PICK b : b = m.p \div BDIV
  OBVIOUS
<1>2. PICK new : new = InsertAt(old.items, m.index, Item(k, b))
  OBVIOUS
<1>3. /\ node' = [node EXCEPT ![n] = [old EXCEPT !.items = new]]
      /\ entry' = [entry EXCEPT ![k] = n]
      /\ fault' = ~ (m.ok /\ Aligned(SubSeq(old.items, 1, m.index - 1), b, Len(k)))
      /\ stack' = IF Full(Len(old.items) + 1)
                  THEN <<Frame("split", n, m.fwd, Len(k) - b, m.p)>>
                  ELSE <<>>
  BY <1>1, <1>2 DEF AddItem, Item
<1>4. /\ node'[n].prefix = old.prefix /\ node'[n].parent = m.fwd /\ node'[n].items = new
      /\ \A x \in NodeIds \ {n} : node'[x] = node[x]
  BY <1>3, Addresses DEF TreeInv, Node
<1>5. /\ nodes \subseteq NodeIds /\ nodes' \subseteq NodeIds
      /\ entry \in [Keys -> NodeIds \cup {Null}]
  BY Addresses DEF TreeInv, TypeOK, BucketsOK
<1>6. b \in Nat /\ b = Len(path) \div BDIV /\ path \in Seq(Slots) /\ old.items \in Seq(Items)
  BY <1>1, ListsFacts DEF Lists
<1>7. /\ Lists(new, path, old.prefix) /\ Len(new) = Len(old.items) + 1
      /\ Ents(new) = Ents(old.items) \cup {k}
  BY <1>2, <1>6, ListsInsert
<1>8. Starts(k, path) /\ Len(old.items) \in Nat
  BY <1>6 DEF Belongs
<1>9. ~ fault'
  <2>1. PICK lows : lows = SubSeq(old.items, 1, m.index - 1)
    OBVIOUS
  <2>2. PICK count : count = m.index - 1
    OBVIOUS
  <2>3. count \in 0 .. Len(old.items)
    BY <1>8, <2>2 DEF IsPlace
  <2>4. Parts(old.items, count, lows, SubSeq(old.items, count + 1, Len(old.items)))
    BY <1>6, <2>1, <2>2, <2>3, PartsIs
  <2>5. Lists(lows, path, old.prefix)
    BY <2>3, <2>4, ListsParts
  <2>6. SizeFor(Len(k), b, path)
    BY <1>8, BaseFacts DEF SizeFor
  <2>7. Aligned(lows, b, Len(k))
    BY <1>6, <2>5, <2>6, ListsLengths
  <2>8. QED
    BY <1>3, <2>1, <2>7
<1>10. PathFn(fwd')[m.fwd] = path
  BY PathStays
<1>11. ItemsOK'
  <2>1. \A c \in nodes' : c # n => c \in nodes /\ node'[c] = node[c]
    BY <1>4, <1>5
  <2>2. Lists(node'[n].items, PathFn(fwd')[node'[n].parent], node'[n].prefix)
    BY <1>4, <1>7, <1>10
  <2>3. QED
    BY <2>1, <2>2, ItemsStep
<1>12. PathsEnd'
  BY EndsStep
<1>13. FullOK'
  <2>1. \A c \in nodes' : c # n => c \in nodes /\ node'[c] = node[c]
    BY <1>4, <1>5
  <2>2. CASE Len(new) < SPLITBOUND
    BY <1>4, <2>1, <2>2, FullStep DEF Running
  <2>3. CASE Len(old.items) >= SPLITBOUND
    <3>1. old.items # <<>> /\ n \in nodes /\ old = node[n]
      BY <2>3, PTrieAssumption
    <3>2. Spent(old.items, path)
      BY <2>3, <3>1 DEF FullOK, Running, Count, Spent, Level
    <3>3. Len(k) + 1 = Len(path) \div BDIV
      BY <1>8, <3>1, <3>2, SpentMore
    <3>4. Spent(new, path)
      BY <1>7, <3>2, <3>3 DEF Spent
    <3>5. Spent(node'[n].items, PathFn(fwd')[node'[n].parent])
      BY <1>4, <1>10, <3>4
    <3>6. QED
      BY <2>1, <3>5, FullStep DEF Running
  <2>4. CASE Len(new) = SPLITBOUND
    <3>1. PICK frame : frame = Frame("split", n, m.fwd, Len(k) - b, m.p)
      OBVIOUS
    <3>2. frame.fn = "split" /\ frame.node = n /\ stack' = <<frame>>
      BY <1>3, <1>7, <2>4, <3>1, PTrieAssumption DEF Full, Frame
    <3>3. Splitting(node'[n].items, stack', fault', n)
      BY <1>4, <1>9, <2>4, <3>2 DEF Splitting
    <3>4. QED
      BY <2>1, <3>3, FullStep DEF Running
  <2>5. QED
    BY <1>7, <1>8, <2>2, <2>3, <2>4, PTrieAssumption
<1>14. SizesOK'
  <2>1. CASE stack' = <<>>
    BY <2>1, NoCallsSize
  <2>2. CASE stack' # <<>>
    <3>1. PICK size : size = Len(k) - b
      OBVIOUS
    <3>2. Top' = Frame("split", n, m.fwd, size, m.p)
      BY <1>3, <2>2, <3>1 DEF Top
    <3>3. k \in Ents(node'[n].items)
      BY <1>4, <1>7
    <3>4. QED
      BY <1>1, <2>2, <3>1, <3>2, <3>3, SplitSize
  <2>3. QED
    BY <2>1, <2>2
<1>15. EntriesPointHome'
  <2>1. PICK E : E = Ents(new)
    OBVIOUS
  <2>2. E \subseteq Keys /\ Ents(node'[n].items) = E
    <3>1. Ents(node'[n].items) = E
      BY <1>4, <2>1
    <3>2. \A i \in DOMAIN new : new[i].ent \in Keys
      BY <1>7, ListsFacts
    <3>3. QED
      BY <2>1, <3>1, <3>2 DEF Ents
  <2>3. ASSUME NEW c \in nodes', c # n
        PROVE  c \in nodes /\ Ents(node'[c].items) = Ents(node[c].items) \ E
    <3>1. c \in nodes /\ node'[c] = node[c] /\ k \notin Ents(node[c].items)
      BY <1>4, <1>5, <2>3
    <3>2. Ents(node[c].items) \cap Ents(old.items) = {}
      <4>1. CASE n \in nodes /\ old = node[n]
        BY <2>3, <3>1, <4>1, OneHome
      <4>2. CASE old.items = <<>>
        BY <4>2 DEF Ents
      <4>3. QED
        BY <4>1, <4>2
    <3>3. QED
      BY <1>7, <2>1, <3>1, <3>2
  <2>4. ASSUME NEW c \in nodes PROVE (c \in nodes' /\ c # n) \/ Ents(node[c].items) \subseteq E
    <3>1. CASE c = n
      BY <1>7, <2>1, <3>1
    <3>2. CASE c # n
      BY <3>2
    <3>3. QED
      BY <3>1, <3>2
  <2>5. ASSUME NEW l \in Keys PROVE entry'[l] = IF l \in E THEN n ELSE entry[l]
    <3>1. CASE l = k
      BY <1>3, <1>5, <1>7, <2>1, <3>1
    <3>2. CASE l # k /\ l \in E
      <4>1. l \in Ents(old.items)
        BY <1>7, <2>1, <3>2
      <4>2. n \in nodes /\ old = node[n]
        BY <4>1 DEF Ents
      <4>3. entry[l] = n
        BY <4>1, <4>2 DEF EntriesPointHome
      <4>4. QED
        BY <1>3, <3>2, <4>3
    <3>3. CASE l # k /\ l \notin E
      BY <1>3, <3>3
    <3>4. QED
      BY <3>1, <3>2, <3>3
  <2>6. QED
    BY <2>2, <2>3, <2>4, <2>5, HomeStep
<1>16. QED
  BY <1>9, <1>11, <1>12, <1>13, <1>14, <1>15

\* insert, where it makes a bucket.
LEMMA InsertInNewBucketContent ==
  ASSUME <<>> \notin Keys, TreeInv, TreeInv', PathInv, KeepPlaces, ContentInv, NEW k \in Keys,
         InsertInNewBucket(k)
  PROVE  ContentInv'
<1>1. PICK m : m = BestMatch(k)
  OBVIOUS
<1>2. PICK n : n = FreshNode
  OBVIOUS
<1>3. PICK s : s = Slot(k, m.p)
  OBVIOUS
<1>4. PICK path : path = PathTo(m.fwd)
  OBVIOUS
<1>5. /\ n \in NodeIds /\ n \notin nodes /\ Located(k, m) /\ m.base = m.fwd
      /\ stack = <<>> /\ nodes' = nodes \cup {n} /\ fwds' = fwds
  BY <1>1, <1>2, Addresses DEF InsertInNewBucket, FreshNode, TreeInv
<1>6. /\ m.fwd \in fwds /\ m.p = Level(m.fwd) /\ Spells(k, m.fwd) /\ m.fwd \in FwdIds
      /\ m.base \notin NodeIds
  <2>1. m.fwd \in fwds /\ m.p = Level(m.fwd) /\ Spells(k, m.fwd)
    BY <1>1, Places
  <2>2. QED
    BY <1>5, <2>1, Addresses DEF TreeInv
<1>7. /\ path \in Seq(Slots) /\ m.p = Len(path) /\ m.p \in Nat /\ Starts(k, path)
      /\ s \in Slots
  <2>1. path \in Seq(Slots) /\ m.p = Len(path) /\ m.p \in Nat
    BY <1>4, <1>6, PathFacts DEF Level
  <2>2. QED
    BY <1>3, <1>4, <1>6, <2>1, SlotType DEF Spells
<1>8. m.ok /\ m.index = 1 /\ \A c \in nodes : k \notin Ents(node[c].items)
  <2>1. Matched(k, m)
    BY <1>1, Matching DEF ContentInv
  <2>2. nodes \subseteq NodeIds
    BY Addresses DEF TreeInv
  <2>3. QED
    BY <1>6, <2>1, <2>2 DEF Matched
<1>9. PICK bit \in 0 .. BSIZE :
        AddItem(k, m, n, [prefix |-> SubSeq(s, 1, bit), parent |-> m.fwd, items |-> <<>>], 0)
  BY <1>1, <1>2, <1>3 DEF InsertInNewBucket
<1>10. PICK q : q = SubSeq(s, 1, bit)
  OBVIOUS
<1>11. q \in SlotPrefixes /\ Covers(q, s)
  <2>1. q \in SlotPrefixes
    BY <1>7, <1>10, PrefixTypes
  <2>2. Covers(q, s)
    BY <1>7, <1>10, PrefixFacts DEF Covers
  <2>3. QED
    BY <2>1, <2>2
<1>12. PICK old : old = [prefix |-> q, parent |-> m.fwd, items |-> <<>>]
  OBVIOUS
<1>13. /\ old \in Node /\ old.prefix = q /\ old.parent = m.fwd /\ old.items = <<>>
       /\ AddItem(k, m, n, old, 0)
  BY <1>6, <1>9, <1>10, <1>11, <1>12 DEF Node
<1>14. Lists(old.items, path, old.prefix) /\ IsPlace(old.items, k, m.index)
  <2>1. Lists(<<>>, path, q)
    BY <1>7, <1>11, ListsNone
  <2>2. IsPlace(<<>>, k, 1)
    BY DEF IsPlace
  <2>3. QED
    BY <1>8, <1>13, <2>1, <2>2
<1>15. Belongs(k, path, old.prefix)
  BY <1>3, <1>7, <1>11, <1>13 DEF Belongs
<1>16. n \in nodes' /\ nodes' \ {n} = nodes \ {n}
  BY <1>5
<1>17. QED
  BY <1>4, <1>5, <1>6, <1>7, <1>8, <1>13, <1>14, <1>15, <1>16, AddItemContent DEF ContentInv

\* insert into a bucket that is there.
LEMMA InsertInBucketContent ==
  ASSUME <<>> \notin Keys, TreeInv, TreeInv', PathInv, KeepPlaces, ContentInv, NEW k \in Keys,
         InsertInBucket(k)
  PROVE  ContentInv'
<1>1. PICK m : m = BestMatch(k)
  OBVIOUS
<1>2. PICK n : n = m.base
  OBVIOUS
<1>3. PICK path : path = PathTo(m.fwd)
  OBVIOUS
<1>4. /\ n \in NodeIds /\ stack = <<>> /\ ~ m.found /\ UNCHANGED <<fwds, fwd, nodes>>
      /\ AddItem(k, m, n, node[n], totsize[n])
  BY <1>1, <1>2 DEF InsertInBucket
<1>5. /\ m.fwd \in fwds /\ m.p = Level(m.fwd) /\ Spells(k, m.fwd)
      /\ n \in nodes /\ node[n].parent = m.fwd /\ Covers(node[n].prefix, Slot(k, m.p))
  BY <1>1, <1>2, <1>4, Places
<1>6. m.p = Len(path) /\ Starts(k, path)
  BY <1>3, <1>5 DEF Level, Spells
<1>7. Lists(node[n].items, path, node[n].prefix)
  BY <1>3, <1>5, Held DEF ContentInv
<1>8. m.ok /\ IsPlace(node[n].items, k, m.index) /\ \A c \in nodes : k \in Ents(node[c].items) => c = n
  <2>1. Matched(k, m)
    BY <1>1, Matching DEF ContentInv
  <2>2. QED
    BY <1>2, <1>4, <2>1 DEF Matched
<1>9. node[n] \in Node /\ n \in nodes' /\ nodes' \ {n} = nodes \ {n} /\ fwds' = fwds
  BY <1>4, <1>5, Addresses DEF TreeInv
<1>10. Belongs(k, path, node[n].prefix)
  BY <1>5, <1>6 DEF Belongs
<1>11. QED
  BY <1>3, <1>4, <1>5, <1>6, <1>7, <1>8, <1>9, <1>10, AddItemContent DEF ContentInv

\* exists.
LEMMA LookUpContent ==
  ASSUME <<>> \notin Keys, TreeInv, TreeInv', PathInv, KeepPlaces, ContentInv, NEW k \in Keys,
         LookUp(k)
  PROVE  ContentInv'
<1>1. /\ UNCHANGED <<fwds, fwd, nodes, node, totsize, entry, heap, stack>> /\ stack = <<>>
      /\ fault' = ~ BestMatch(k).ok
  BY DEF LookUp
<1>2. ~ fault'
  BY <1>1, Matching DEF ContentInv, Matched
<1>3. ItemsOK' /\ PathsEnd' /\ EntriesPointHome'
  BY <1>1, PartsNow, PartsNext DEF ContentInv
<1>4. FullOK'
  <2>1. FullOf(nodes, node, fwd, stack, fault)
    BY PartsNow DEF ContentInv
  <2>2. FullOf(nodes', node', fwd', stack', fault')
    BY <1>1, <2>1 DEF FullOf
  <2>3. QED
    BY <2>2, PartsNext
<1>5. SizesOK'
  BY <1>1, NoCallsSize
<1>6. QED
  BY <1>2, <1>3, <1>4, <1>5 DEF ContentInv

-----------------------------------------------------------------------------
(* erase *)

\* erase takes the item out and begins to merge.
LEMMA EraseContent ==
  ASSUME <<>> \notin Keys, TreeInv, TreeInv', PathInv, KeepPlaces, ContentInv, NEW k \in Keys,
         Erase(k)
  PROVE  ContentInv'
<1>1. PICK m : m = BestMatch(k)
  OBVIOUS
<1>2. PICK n : n = m.base
  OBVIOUS
<1>3. PICK path : path = PathTo(m.fwd)
  OBVIOUS
<1>4. PICK items : items = node[n].items
  OBVIOUS
<1>5. PICK left : left = RemoveAt(items, m.index)
  OBVIOUS
<1>6. PICK b : b = Dist(node[n].parent) \div BDIV
  OBVIOUS
<1>7. PICK size : size = Len(k) - m.p \div BDIV
  OBVIOUS
<1>8. /\ n \in NodeIds /\ stack = <<>> /\ m.found /\ UNCHANGED <<fwds, fwd, nodes>>
      /\ fault' = ~ (m.ok /\ Aligned(SubSeq(items, 1, m.index), b, size + b))
      /\ node' = [node EXCEPT ![n].items = left]
      /\ entry' = [entry EXCEPT ![k] = Null]
      /\ stack' = <<Frame("merge_down", n, Null, size, m.p)>>
  BY <1>1, <1>2, <1>4, <1>5, <1>6, <1>7 DEF Erase
<1>9. /\ m.fwd \in fwds /\ m.p = Level(m.fwd) /\ Spells(k, m.fwd)
      /\ n \in nodes /\ node[n].parent = m.fwd
  BY <1>1, <1>2, <1>8, Places
<1>10. m.p = Len(path) /\ Starts(k, path)
  BY <1>3, <1>9 DEF Level, Spells
<1>11. Lists(items, path, node[n].prefix) /\ m.fwd \in FwdIds /\ Len(path) \in Nat
  BY <1>3, <1>4, <1>9, Held DEF ContentInv
<1>12. b = Len(path) \div BDIV /\ b \in Nat /\ size + b = Len(k) /\ size = Len(k) - b
  <2>1. Dist(m.fwd) = Len(path)
    BY <1>3, <1>11, DistIsLevel DEF Level
  <2>2. b = Len(path) \div BDIV /\ b \in Nat
    BY <1>6, <1>9, <1>11, <2>1, ListsFacts
  <2>3. QED
    BY <1>7, <1>10, <2>2, BaseFacts
<1>13. m.ok /\ m.index \in DOMAIN items /\ items[m.index].ent = k
  <2>1. Matched(k, m)
    BY <1>1, Matching DEF ContentInv
  <2>2. QED
    BY <1>2, <1>4, <1>8, <2>1 DEF Matched
<1>14. /\ Lists(left, path, node[n].prefix) /\ Len(left) = Len(items) - 1
       /\ Ents(left) = Ents(items) \ {k} /\ Len(items) \in Nat
  BY <1>5, <1>11, <1>13, ListsRemove, ListsFacts
<1>15. /\ node'[n].prefix = node[n].prefix /\ node'[n].parent = m.fwd /\ node'[n].items = left
       /\ \A x \in NodeIds \ {n} : node'[x] = node[x]
  BY <1>8, <1>9, Addresses DEF TreeInv, Node
<1>16. /\ nodes \subseteq NodeIds /\ nodes' = nodes
       /\ entry \in [Keys -> NodeIds \cup {Null}]
  BY <1>8, Addresses DEF TreeInv, TypeOK, BucketsOK
<1>17. PathFn(fwd')[m.fwd] = path
  BY <1>3, <1>8, <1>9, PathStays
<1>18. ~ fault'
  <2>1. PICK lows : lows = SubSeq(items, 1, m.index)
    OBVIOUS
  <2>2. PICK count : count = m.index
    OBVIOUS
  <2>3. items \in Seq(Items)
    BY <1>11 DEF Lists
  <2>4. count \in 0 .. Len(items)
    BY <1>13, <2>2, <2>3
  <2>5. Parts(items, count, lows, SubSeq(items, count + 1, Len(items)))
    BY <2>1, <2>2, <2>3, <2>4, PartsIs
  <2>6. Lists(lows, path, node[n].prefix)
    BY <1>11, <2>4, <2>5, ListsParts
  <2>7. SizeFor(Len(k), b, path)
    BY <1>10, BaseFacts DEF SizeFor
  <2>8. Aligned(lows, b, Len(k))
    BY <1>12, <2>6, <2>7, ListsLengths
  <2>9. QED
    BY <1>8, <1>12, <1>13, <2>1, <2>8
<1>19. ItemsOK'
  <2>1. \A c \in nodes' : c # n => c \in nodes /\ node'[c] = node[c]
    BY <1>15, <1>16
  <2>2. Lists(node'[n].items, PathFn(fwd')[node'[n].parent], node'[n].prefix)
    BY <1>14, <1>15, <1>17
  <2>3. QED
    BY <2>1, <2>2, ItemsStep DEF ContentInv
<1>20. PathsEnd'
  BY <1>8, EndsStep DEF ContentInv
<1>21. FullOK'
  <2>1. \A c \in nodes' : c # n => c \in nodes /\ node'[c] = node[c]
    BY <1>15, <1>16
  <2>2. CASE Len(left) < SPLITBOUND
    BY <1>8, <1>15, <2>1, <2>2, FullStep DEF Running, ContentInv
  <2>3. CASE ~ (Len(left) < SPLITBOUND)
    <3>1. Len(items) >= SPLITBOUND
      BY <1>14, <2>3, PTrieAssumption
    <3>2. Spent(items, path)
      BY <1>3, <1>4, <1>8, <1>9, <3>1 DEF ContentInv, FullOK, Running, Count, Spent, Level
    <3>3. Spent(left, path)
      BY <1>14, <3>2 DEF Spent
    <3>4. Spent(node'[n].items, PathFn(fwd')[node'[n].parent])
      BY <1>15, <1>17, <3>3
    <3>5. QED
      BY <1>8, <2>1, <3>4, FullStep DEF Running, ContentInv
  <2>4. QED
    BY <2>2, <2>3
<1>22. SizesOK'
  <2>1. stack' # <<>> /\ Top' = Frame("merge_down", n, Null, size, m.p)
    BY <1>8 DEF Top
  <2>2. Starts(k, PathFn(fwd')[node'[n].parent])
    BY <1>10, <1>15, <1>17
  <2>3. QED
    BY <1>7, <2>1, <2>2, MergeSize
<1>23. EntriesPointHome'
  <2>1. ASSUME NEW l \in Keys, entry'[l] # Null
        PROVE  entry'[l] \in nodes' /\ l \in Ents(node'[entry'[l]].items)
    <3>1. l # k /\ entry'[l] = entry[l]
      BY <1>8, <1>16, <2>1
    <3>2. PICK c : c = entry[l]
      OBVIOUS
    <3>3. c \in nodes /\ l \in Ents(node[c].items)
      BY <2>1, <3>1, <3>2 DEF ContentInv, EntriesPointHome, Stored
    <3>4. l \in Ents(node'[c].items)
      BY <1>4, <1>14, <1>15, <1>16, <3>1, <3>3
    <3>5. QED
      BY <1>16, <3>1, <3>2, <3>3, <3>4
  <2>2. ASSUME NEW c \in nodes', NEW l \in Ents(node'[c].items) PROVE entry'[l] = c
    <3>1. c \in nodes /\ l \in Ents(node[c].items)
      BY <1>4, <1>14, <1>15, <1>16
    <3>2. l # k
      <4>1. CASE c = n
        BY <1>14, <1>15, <4>1
      <4>2. CASE c # n
        <5>1. k \in Ents(node[n].items)
          BY <1>4, <1>13, EntsAre
        <5>2. Ents(node[n].items) \cap Ents(node[c].items) = {}
          BY <1>9, <3>1, <4>2, OneHome DEF ContentInv
        <5>3. QED
          BY <3>1, <5>1, <5>2
      <4>3. QED
        BY <4>1, <4>2
    <3>3. entry[l] = c
      BY <3>1 DEF ContentInv, EntriesPointHome
    <3>4. QED
      BY <1>8, <3>2, <3>3
  <2>3. QED
    BY <2>1, <2>2, PartsNext DEF HomeOf
<1>24. QED
  BY <1>18, <1>19, <1>20, <1>21, <1>22, <1>23 DEF ContentInv

-----------------------------------------------------------------------------
(* ~ptrie_base *)

\* The byte that a path spells.
LEMMA PathByteIs ==
  ASSUME NEW k \in Keys, NEW path \in Seq(Slots), Starts(k, path), NEW i \in Nat,
         i < Len(path) \div BDIV
  PROVE  (CHOOSE y \in Byte : \A r \in 0 .. BDIV - 1 : SlotTable[y][r] = path[i * BDIV + r + 1])
         = EncByte(k, i)
<1>1. PICK y : y = EncByte(k, i)
  OBVIOUS
<1>2. y \in Byte
  BY <1>1, EncBytes
<1>3. \A r \in 0 .. BDIV - 1 : (i * BDIV) + r < Len(path)
  <2>1. PICK b : b = Len(path) \div BDIV
    OBVIOUS
  <2>2. Len(path) \in Nat
    OBVIOUS
  <2>3. b \in Nat /\ Len(path) >= b * BDIV
    <3>1. /\ b \in Nat /\ Len(path) % BDIV \in 0 .. BDIV - 1
          /\ Len(path) = b * BDIV + (Len(path) % BDIV)
      BY <2>1, <2>2, LevelByte
    <3>2. b * BDIV \in Nat
      BY <3>1, BaseFacts
    <3>3. QED
      BY <3>1, <3>2, BaseFacts
  <2>4. PICK d \in Nat : b = (i + 1) + d
    <3>1. b - (i + 1) \in Nat /\ b = (i + 1) + (b - (i + 1))
      BY <2>1, <2>3
    <3>2. QED
      BY <3>1
  <2>5. b * BDIV = (i * BDIV) + BDIV + (d * BDIV) /\ d * BDIV >= 0
    BY <2>4, BaseFacts
  <2>6. i * BDIV \in Nat
    BY BaseFacts
  <2>7. QED
    <3>1. PICK u, v, w : u = i * BDIV /\ v = b * BDIV /\ w = d * BDIV
      OBVIOUS
    <3>2. v = u + BDIV + w /\ w >= 0 /\ w \in Int /\ u \in Nat /\ v \in Int /\ Len(path) >= v
      BY <2>3, <2>4, <2>5, <2>6, <3>1, BaseFacts
    <3>3. \A r \in 0 .. BDIV - 1 : u + r < Len(path)
      BY <2>2, <3>2, BaseFacts
    <3>4. QED
      BY <3>1, <3>3
<1>4. \A r \in 0 .. BDIV - 1 : SlotTable[y][r] = path[i * BDIV + r + 1]
  BY <1>1, <1>3, StartsBytes
<1>5. ASSUME NEW z \in Byte, \A r \in 0 .. BDIV - 1 : SlotTable[z][r] = path[i * BDIV + r + 1]
      PROVE  z = y
  BY <1>2, <1>4, <1>5, SlotsTell
<1>6. QED
  BY <1>1, <1>2, <1>4, <1>5

\* The size that the destructor computes for an item is that of the item.
LEMMA CleanupIs ==
  ASSUME PathInv, NEW f \in FwdIds, NEW k \in Keys, Spells(k, f), NEW b, b = Level(f) \div BDIV
  PROVE  CleanupLen(f, Item(k, b)) = Len(Residual(k, b))
<1>1. PICK path : path = PathTo(f)
  OBVIOUS
<1>2. path \in Seq(Slots) /\ Starts(k, path) /\ b = Len(path) \div BDIV /\ b \in Nat
  BY <1>1, PathFacts, LevelByte DEF Spells, Level
<1>3. PICK it : it = Item(k, b)
  OBVIOUS
<1>4. it.first[1] = EncByte(k, b) /\ it.first[2] = EncByte(k, b + 1)
  BY <1>3 DEF Item, First
<1>5. /\ Len(k) = Base * EncByte(k, 0) + EncByte(k, 1)
      /\ EncByte(k, 0) \in Nat /\ EncByte(k, 1) \in Nat
  BY EncBytes
<1>6. Len(k) = EncByte(k, 0) * Base + EncByte(k, 1)
  BY <1>5, BaseFacts
<1>7. PICK byte : byte = [i \in {0, 1} |->
        CHOOSE y \in Byte : \A r \in 0 .. BDIV - 1 : SlotTable[y][r] = path[i * BDIV + r + 1]]
  OBVIOUS
<1>8. (b > 0 => byte[0] = EncByte(k, 0)) /\ (b > 1 => byte[1] = EncByte(k, 1))
  BY <1>2, <1>7, PathByteIs
<1>9. PICK size : size = CASE b = 0 -> it.first[1] * Base + it.first[2]
                           [] b = 1 -> byte[0] * Base + it.first[1]
                           [] OTHER -> byte[0] * Base + byte[1]
  OBVIOUS
<1>10. size = Len(k)
  <2>1. CASE b = 0
    BY <1>4, <1>6, <1>9, <2>1
  <2>2. CASE b = 1
    BY <1>4, <1>6, <1>8, <1>9, <2>2
  <2>3. CASE b # 0 /\ b # 1
    <3>1. b > 0 /\ b > 1
      BY <1>2, <2>3
    <3>2. size = byte[0] * Base + byte[1]
      BY <1>9, <2>3
    <3>3. QED
      BY <1>6, <1>8, <3>1, <3>2
  <2>4. QED
    BY <2>1, <2>2, <2>3
<1>11. CleanupLen(f, it) = Positive(size - b)
  BY <1>1, <1>2, <1>7, <1>9 DEF CleanupLen
<1>12. QED
  BY <1>2, <1>3, <1>10, <1>11, ResidualFacts

\* cleanup and clone compute the length of a residual from the path above its bucket.
LEMMA CleanupLens ==
  ASSUME TreeInv, PathInv, ContentInv, NEW n \in nodes, NEW i \in DOMAIN node[n].items
  PROVE  CleanupLen(node[n].parent, node[n].items[i]) = Len(node[n].items[i].res)
<1>1. PICK g : g = node[n].parent
  OBVIOUS
<1>2. PICK path : path = PathTo(g)
  OBVIOUS
<1>3. PICK items : items = node[n].items
  OBVIOUS
<1>4. g \in FwdIds /\ Lists(items, path, node[n].prefix) /\ Len(path) = Level(g)
  BY <1>1, <1>2, <1>3, Held DEF ContentInv
<1>5. PICK b : b = Len(path) \div BDIV
  OBVIOUS
<1>6. PICK k : k = items[i].ent
  OBVIOUS
<1>7. k \in Keys /\ items[i] = Item(k, b) /\ items[i].res = Residual(k, b) /\ Starts(k, path)
  BY <1>3, <1>4, <1>5, <1>6, ListsFacts
<1>8. CleanupLen(g, Item(k, b)) = Len(Residual(k, b))
  BY <1>2, <1>4, <1>5, <1>7, CleanupIs DEF Spells
<1>9. QED
  BY <1>1, <1>3, <1>7, <1>8

\* The destructor.
LEMMA DestroyContent ==
  ASSUME TreeInv, PathInv, ContentInv, Destroy
  PROVE  ContentInv'
<1>1. /\ stack' = <<>> /\ nodes' = {} /\ fwds' = {Root} /\ entry' = [k \in Keys |-> Null]
  BY DEF Destroy
<1>2. ~ fault'
  <2>1. PICK visited : visited = {n \in NodeIds : \E f \in fwds, s \in Slots : fwd[f].children[s] = n}
    OBVIOUS
  <2>2. PICK places : places = UNION {{<<n, i>> : i \in DOMAIN node[n].items} : n \in visited}
    OBVIOUS
  <2>3. fault' = \E x \in places : CleanupLen(node[x[1]].parent, node[x[1]].items[x[2]])
                                       # Len(node[x[1]].items[x[2]].res)
    BY ZenonT(60), <2>1, <2>2 DEF Destroy
  <2>4. SUFFICES ASSUME NEW x \in places
                 PROVE  CleanupLen(node[x[1]].parent, node[x[1]].items[x[2]])
                          = Len(node[x[1]].items[x[2]].res)
    BY <2>3
  <2>5. PICK n \in visited : \E i \in DOMAIN node[n].items : x = <<n, i>>
    BY <2>2
  <2>6. PICK i \in DOMAIN node[n].items : x = <<n, i>>
    BY <2>5
  <2>7. n \in nodes
    BY <2>1, ChildOf, Addresses DEF TreeInv
  <2>8. CleanupLen(node[n].parent, node[n].items[i]) = Len(node[n].items[i].res)
    BY <2>7, CleanupLens
  <2>9. QED
    BY <2>6, <2>8
<1>3. ItemsOK' /\ PathsEnd' /\ FullOK'
  BY <1>1, PartsNext DEF ItemsOf, EndsOf, FullOf
<1>4. EntriesPointHome'
  BY <1>1, PartsNext DEF HomeOf
<1>5. SizesOK'
  BY <1>1, NoCallsSize
<1>6. QED
  BY <1>2, <1>3, <1>4, <1>5 DEF ContentInv

-----------------------------------------------------------------------------
(* split_node and split_fwd *)

\* If one key has no bytes left below the path, none has.
LEMMA SpentAll ==
  ASSUME <<>> \notin Keys,
         NEW items, NEW path, NEW q, Lists(items, path, q), NEW k \in Ents(items),
         Len(k) + 1 = Len(path) \div BDIV
  PROVE  Spent(items, path)
<1>1. PICK b : b = Len(path) \div BDIV
  OBVIOUS
<1>2. PICK i \in DOMAIN items : items[i].ent = k
  BY EntsAre
<1>3. k \in Keys /\ Starts(k, path) /\ b \in Nat
  BY <1>1, <1>2, ListsFacts
<1>4. Len(k) \in Nat /\ Len(k) # 0
  BY <1>3, BaseFacts
<1>5. b >= 2
  BY <1>1, <1>4
<1>6. ASSUME NEW l \in Ents(items) PROVE Len(l) + 1 = b
  <2>1. PICK j \in DOMAIN items : items[j].ent = l
    BY EntsAre
  <2>2. Agree(items[j].ent, k, b)
    BY <1>1, <1>3, <2>1, ListsAgree
  <2>3. Agree(l, k, b) /\ l \in Keys
    BY <1>1, <2>1, <2>2, ListsFacts
  <2>4. Len(l) = Len(k)
    BY <1>3, <1>5, <2>3, AgreeLen
  <2>5. QED
    BY <1>1, <2>4
<1>7. QED
  BY <1>1, <1>6 DEF Spent

\* Below a path that goes on to the last byte of one key, all keys are that long.
LEMMA EndsAt ==
  ASSUME PathInv, PathsEnd, NEW f \in fwds, f \in FwdIds, NEW k \in Keys, Spells(k, f)
  PROVE  Level(f) \div BDIV <= Len(k) + 1
<1>1. PICK path : path = PathTo(f)
  OBVIOUS
<1>2. PICK b : b = Len(path) \div BDIV
  OBVIOUS
<1>3. path \in Seq(Slots) /\ Starts(k, path) /\ b = Level(f) \div BDIV /\ b \in Nat /\ Len(k) \in Nat
  BY <1>1, <1>2, PathFacts, LevelByte, BaseFacts DEF Spells, Level
<1>4. CASE b <= 1
  BY <1>3, <1>4
<1>5. CASE b >= 2
  <2>1. f # Root
    <3>1. f = Root => path = <<>>
      BY <1>1, PathFacts
    <3>2. f = Root => b * BDIV <= 0
      <4>1. f = Root => Len(path) = 0
        BY <3>1
      <4>2. f = Root => 0 = b * BDIV + (0 % BDIV) /\ 0 % BDIV \in 0 .. BDIV - 1
        BY <1>2, <4>1, LevelByte
      <4>3. b * BDIV \in Nat
        BY <1>3, BaseFacts
      <4>4. QED
        BY <4>2, <4>3, BaseFacts
    <3>3. b * BDIV > 0
      BY <1>3, <1>5, BaseFacts
    <3>4. b * BDIV \in Nat
      BY <1>3, BaseFacts
    <3>5. QED
      BY <3>2, <3>3, <3>4
  <2>2. PICK l \in Keys : Spells(l, f) /\ Level(f) \div BDIV <= Len(l) + 1
    BY <2>1 DEF PathsEnd
  <2>3. Agree(k, l, b)
    BY <1>1, <1>2, <1>3, <2>2, StartsAgree DEF Spells
  <2>4. Len(k) = Len(l)
    BY <1>3, <1>5, <2>3, AgreeLen
  <2>5. QED
    BY <2>2, <2>4
<1>6. QED
  BY <1>3, <1>4, <1>5

\* What holds when a split of the bucket n goes on.
LEMMA SplitFacts ==
  ASSUME <<>> \notin Keys, TreeInv, ShapeInv, PathInv, LevelInv, ContentInv, Running("split"),
         NEW n, n = Top.node, NEW path, path = PathTo(Top.fwd),
         NEW items, items = node[n].items, NEW b, b = Top.p \div BDIV
  PROVE  /\ n \in nodes /\ n \in NodeIds /\ Top.fwd = node[n].parent /\ Top.fwd \in fwds
         /\ Lists(items, path, node[n].prefix) /\ Top.p = Len(path) /\ Top.p \in Nat
         /\ b = Len(path) \div BDIV /\ b \in Nat /\ stack # <<>> /\ Len(stack) = 1
         /\ Len(items) \in Nat /\ Len(items) >= SPLITBOUND
         /\ Len(items) = SPLITBOUND \/ Spent(items, path)
         /\ SizeFor(Positive(Top.size) + b, b, path)
         /\ \E k \in Ents(items) : k \in Keys /\ Starts(k, path) /\ Top.size = Len(k) - b
<1>1. /\ n \in nodes /\ n \in NodeIds /\ Top.fwd = node[n].parent /\ Top.fwd \in fwds
      /\ stack # <<>> /\ Top.fn = "split"
  BY SplitTop DEF Running
<1>2. Len(stack) = 1 /\ Full(Count(n)) /\ Count(n) \in Nat
  BY SplitShape
<1>3. Lists(items, path, node[n].prefix) /\ Len(path) = Level(Top.fwd) /\ Level(Top.fwd) \in Nat
  BY <1>1, Held DEF ContentInv
<1>4. Top.p = Len(path) /\ Top.p \in Nat
  BY <1>1, <1>3 DEF LevelInv
<1>5. b = Len(path) \div BDIV /\ b \in Nat
  BY <1>3, <1>4, ListsFacts
<1>6. Len(items) \in Nat /\ Len(items) >= SPLITBOUND
  BY <1>2, PTrieAssumption DEF Full, Count
<1>7. Len(items) = SPLITBOUND \/ Spent(items, path)
  BY <1>1, <1>6 DEF ContentInv, FullOK, Count, Spent, Level
<1>8. PICK k \in Ents(items) : Top.size = Len(k) - b
  BY <1>1 DEF ContentInv, SizesOK
<1>9. k \in Keys /\ Starts(k, path)
  <2>1. PICK i \in DOMAIN items : items[i].ent = k
    BY EntsAre
  <2>2. QED
    BY <1>3, <1>5, <2>1, ListsFacts
<1>10. SizeFor(Positive(Top.size) + b, b, path)
  <2>1. Len(k) - b \in Int
    BY <1>5, <1>9, BaseFacts
  <2>2. Positive(Len(k) - b) + b \in Int
    <3>1. PICK x \in Int : x = Len(k) - b
      BY <2>1
    <3>2. Positive(x) \in Nat
      BY PositiveIs
    <3>3. QED
      BY <1>5, <3>1, <3>2
  <2>3. QED
    BY <1>8, <1>9, <2>2 DEF SizeFor
<1>11. QED
  BY <1>1, <1>2, <1>3, <1>4, <1>5, <1>6, <1>7, <1>8, <1>9, <1>10

\* Other buckets than n do not change, and n and h share what n held.
LEMMA ShareContent ==
  ASSUME TreeInv, TreeInv', PathInv, KeepPlaces, ContentInv, Running("split"),
         NEW n \in nodes, n = Top.node, NEW h, h \in nodes', h \notin nodes, nodes' = nodes \cup {h},
         \A c \in nodes : c # n => node'[c] = node[c],
         Ents(node[n].items) = Ents(node'[n].items) \cup Ents(node'[h].items),
         Ents(node'[n].items) \cap Ents(node'[h].items) = {},
         Lists(node'[n].items, PathFn(fwd')[node'[n].parent], node'[n].prefix),
         Lists(node'[h].items, PathFn(fwd')[node'[h].parent], node'[h].prefix),
         \A c \in {n, h} : \/ Len(node'[c].items) < SPLITBOUND
                           \/ Spent(node'[c].items, PathFn(fwd')[node'[c].parent]),
         entry' = Own(h, node'[h].items)
  PROVE  ItemsOK' /\ FullOK' /\ EntriesPointHome' /\ Stored' = Stored
<1>1. \A c \in nodes' : c # n /\ c # h => c \in nodes /\ node'[c] = node[c]
  OBVIOUS
<1>2. ItemsOK'
  BY <1>1, ItemsStep DEF ContentInv
<1>3. FullOK'
  BY <1>1, FullStep DEF ContentInv
<1>4. EntriesPointHome'
  <2>1. PICK E : E = Ents(node'[h].items)
    OBVIOUS
  <2>2. E \subseteq Keys
    <3>1. Ents(node[n].items) \subseteq Keys
      BY EntsType, Addresses DEF TreeInv
    <3>2. QED
      BY <2>1, <3>1
  <2>3. ASSUME NEW c \in nodes', c # h
        PROVE  c \in nodes /\ Ents(node'[c].items) = Ents(node[c].items) \ E
    <3>1. CASE c = n
      BY <2>1, <3>1
    <3>2. CASE c # n
      <4>1. c \in nodes /\ node'[c] = node[c]
        BY <1>1, <2>3, <3>2
      <4>2. Ents(node[c].items) \cap Ents(node[n].items) = {}
        BY <3>2, <4>1, OneHome DEF ContentInv
      <4>3. QED
        BY <2>1, <4>1, <4>2
    <3>3. QED
      BY <3>1, <3>2
  <2>4. \A c \in nodes : (c \in nodes' /\ c # h) \/ Ents(node[c].items) \subseteq E
    OBVIOUS
  <2>5. \A k \in Keys : entry'[k] = IF k \in E THEN h ELSE entry[k]
    BY <2>1 DEF Own
  <2>6. QED
    BY <2>1, <2>2, <2>3, <2>4, <2>5, HomeStep DEF ContentInv
<1>5. Stored' = Stored
  <2>1. PICK E : E = Ents(node'[h].items)
    OBVIOUS
  <2>2. \A k \in E : \E c \in nodes : k \in Ents(node[c].items)
    BY <2>1
  <2>3. \A k \in Keys : entry'[k] = IF k \in E THEN h ELSE entry[k]
    BY <2>1 DEF Own
  <2>4. h \in NodeIds
    BY ParentNext
  <2>5. QED
    BY <2>2, <2>3, <2>4, OwnStored DEF ContentInv
<1>6. QED
  BY <1>2, <1>3, <1>4, <1>5

\* split_node, where one half of the bucket's range has no items.
LEMMA SplitDropContent ==
  ASSUME <<>> \notin Keys, TreeInv, TreeInv', ShapeInv, PathInv, LevelInv, KeepPlaces, ContentInv,
         Running("split"), NEW n, n = Top.node, NEW r,
         Lists(node[n].items, PathTo(Top.fwd), r),
         node' = [node EXCEPT ![n].prefix = r], UNCHANGED <<fwds, nodes, entry, stack>>, ~ fault'
  PROVE  ContentInv' /\ Stored' = Stored
<1>1. PICK path : path = PathTo(Top.fwd)
  OBVIOUS
<1>2. PICK items : items = node[n].items
  OBVIOUS
<1>3. PICK b : b = Top.p \div BDIV
  OBVIOUS
<1>4. /\ n \in nodes /\ n \in NodeIds /\ Top.fwd = node[n].parent /\ Top.fwd \in fwds
      /\ stack # <<>>
      /\ Len(items) = SPLITBOUND \/ Spent(items, path)
  BY <1>1, <1>2, <1>3, SplitFacts
<1>5. /\ node'[n].prefix = r /\ node'[n].parent = Top.fwd /\ node'[n].items = items
      /\ \A x \in NodeIds \ {n} : node'[x] = node[x]
  BY <1>2, <1>4, Addresses DEF TreeInv, Node
<1>6. nodes \subseteq NodeIds /\ nodes' = nodes
  BY Addresses DEF TreeInv
<1>7. PathFn(fwd')[Top.fwd] = path
  BY <1>1, <1>4, PathStays
<1>8. \A c \in nodes' : c # n => c \in nodes /\ node'[c] = node[c]
  BY <1>5, <1>6
<1>9. ItemsOK'
  <2>1. Lists(node'[n].items, PathFn(fwd')[node'[n].parent], node'[n].prefix)
    BY <1>1, <1>2, <1>5, <1>7
  <2>2. QED
    BY <1>8, <2>1, ItemsStep DEF ContentInv
<1>10. PathsEnd'
  BY EndsStep DEF ContentInv
<1>11. FullOK'
  <2>1. \/ Spent(node'[n].items, PathFn(fwd')[node'[n].parent])
        \/ Splitting(node'[n].items, stack', fault', n)
    <3>1. Head(stack).fn = "split" /\ Head(stack).node = n
      BY DEF Running, Top
    <3>2. QED
      BY <1>4, <1>5, <1>7, <3>1 DEF Splitting
  <2>2. QED
    BY <1>8, <2>1, FullStep DEF ContentInv
<1>12. EntriesPointHome'
  <2>1. \A c \in nodes' : c \in nodes /\ Ents(node'[c].items) = Ents(node[c].items)
    BY <1>2, <1>5, <1>8
  <2>2. QED
    BY <1>6, <2>1, HomeStays DEF ContentInv
<1>13. SizesOK'
  <2>1. Top' = Top /\ stack' = stack
    BY DEF Top
  <2>2. node'[Top.node].items = node[Top.node].items
    BY <1>2, <1>5
  <2>3. \E k \in Ents(node[Top.node].items) : Top.size = Len(k) - Top.p \div BDIV
    BY <1>4 DEF ContentInv, SizesOK, Running
  <2>4. Top.fn = "split"
    BY DEF Running
  <2>5. QED
    BY <2>1, <2>2, <2>3, <2>4 DEF SizesOK
<1>14. QED
  BY <1>9, <1>10, <1>11, <1>12, <1>13 DEF ContentInv, Stored

\* split_node.
LEMMA SplitNodeContent ==
  ASSUME <<>> \notin Keys, TreeInv, TreeInv', ShapeInv, PathInv, LevelInv, KeepPlaces, ContentInv,
         SplitNode
  PROVE  ContentInv' /\ Stored' = Stored
<1>1. PICK n : n = Top.node
  OBVIOUS
<1>2. PICK path : path = PathTo(Top.fwd)
  OBVIOUS
<1>3. PICK items : items = node[n].items
  OBVIOUS
<1>4. PICK b : b = Top.p \div BDIV
  OBVIOUS
<1>5. PICK q : q = node[n].prefix
  OBVIOUS
<1>6. PICK low, high : low = Append(q, 0) /\ high = Append(q, 1)
  OBVIOUS
<1>7. PICK count : count = LowCount(items, 1, Top.p % BDIV, Len(low))
  OBVIOUS
<1>8. PICK lows, highs : /\ lows = SubSeq(items, 1, count)
                         /\ highs = SubSeq(items, count + 1, Len(items))
  OBVIOUS
<1>9. PICK h : h = FreshNode
  OBVIOUS
<1>10. PICK size : size = Positive(Top.size) + b
  OBVIOUS
<1>11. Running("split") /\ Len(q) < BSIZE
  BY <1>1, <1>5 DEF SplitNode
<1>12. /\ n \in nodes /\ n \in NodeIds /\ Top.fwd = node[n].parent /\ Top.fwd \in fwds
       /\ Lists(items, path, q) /\ Top.p = Len(path) /\ Top.p \in Nat
       /\ b = Len(path) \div BDIV /\ b \in Nat /\ stack # <<>> /\ Len(stack) = 1
       /\ Len(items) \in Nat
       /\ Len(items) = SPLITBOUND \/ Spent(items, path)
       /\ SizeFor(size, b, path)
  BY <1>1, <1>2, <1>3, <1>4, <1>5, <1>10, <1>11, SplitFacts
<1>13. /\ fault' = ~ Aligned(lows, b, size) /\ UNCHANGED fwds
       /\ \/ /\ lows = <<>>
             /\ node' = [node EXCEPT ![n].prefix = high]
             /\ UNCHANGED <<nodes, entry, stack>>
          \/ /\ highs = <<>>
             /\ node' = [node EXCEPT ![n].prefix = low]
             /\ UNCHANGED <<nodes, entry, stack>>
          \/ /\ lows # <<>> /\ highs # <<>> /\ nodes # NodeIds
             /\ nodes' = nodes \cup {h}
             /\ node' = [node EXCEPT ![n] = [node[n] EXCEPT !.prefix = low, !.items = lows],
                                     ![h] = [prefix |-> high, parent |-> Top.fwd, items |-> highs]]
             /\ entry' = Own(h, highs)
             /\ Return
  BY <1>1, <1>3, <1>4, <1>5, <1>6, <1>7, <1>8, <1>9, <1>10 DEF SplitNode
<1>14. items \in Seq(Items) /\ q \in SlotPrefixes /\ Len(low) = Len(q) + 1
  <2>1. items \in Seq(Items) /\ q \in SlotPrefixes
    BY <1>12 DEF Lists
  <2>2. QED
    BY <1>6, <2>1, PrefixFacts
<1>15. count \in 0 .. Len(items) /\ Parts(items, count, lows, highs)
  <2>1. count \in 0 .. Len(items)
    BY <1>7, <1>14, LowCountRange
  <2>2. QED
    BY <1>8, <1>14, <2>1, PartsIs
<1>16. Lists(lows, path, low) /\ Lists(highs, path, high)
  <2>1. PICK bit : bit = Len(q) + 1
    OBVIOUS
  <2>2. PICK r : r = Len(path) % BDIV
    OBVIOUS
  <2>3. count = LowCount(items, 1, r, bit)
    BY <1>7, <1>12, <1>14, <2>1, <2>2
  <2>4. QED
    BY <1>6, <1>11, <1>12, <1>15, <2>1, <2>2, <2>3, ListsHalves
<1>17. ~ fault'
  BY <1>12, <1>13, <1>16, ListsLengths
<1>18. /\ Ents(items) = Ents(lows) \cup Ents(highs) /\ Ents(lows) \cap Ents(highs) = {}
       /\ lows = <<>> => highs = items
       /\ highs = <<>> => lows = items
  BY <1>12, <1>15, ListsParts
<1>19. CASE /\ lows = <<>>
            /\ node' = [node EXCEPT ![n].prefix = high]
            /\ UNCHANGED <<nodes, entry, stack>>
  <2>1. Lists(node[n].items, PathTo(Top.fwd), high)
    BY <1>2, <1>3, <1>16, <1>18, <1>19
  <2>2. QED
    BY <1>1, <1>11, <1>13, <1>17, <1>19, <2>1, SplitDropContent
<1>20. CASE /\ highs = <<>>
            /\ node' = [node EXCEPT ![n].prefix = low]
            /\ UNCHANGED <<nodes, entry, stack>>
  <2>1. Lists(node[n].items, PathTo(Top.fwd), low)
    BY <1>2, <1>3, <1>16, <1>18, <1>20
  <2>2. QED
    BY <1>1, <1>11, <1>13, <1>17, <1>20, <2>1, SplitDropContent
<1>21. CASE /\ lows # <<>> /\ highs # <<>> /\ nodes # NodeIds
            /\ nodes' = nodes \cup {h}
            /\ node' = [node EXCEPT ![n] = [node[n] EXCEPT !.prefix = low, !.items = lows],
                                    ![h] = [prefix |-> high, parent |-> Top.fwd, items |-> highs]]
            /\ entry' = Own(h, highs)
            /\ Return
  <2>1. nodes \subseteq NodeIds /\ h \in NodeIds /\ h \notin nodes /\ h # n
    BY <1>9, <1>12, <1>21, Addresses DEF FreshNode, TreeInv
  <2>2. /\ node'[n].prefix = low /\ node'[n].parent = Top.fwd /\ node'[n].items = lows
        /\ node'[h].prefix = high /\ node'[h].parent = Top.fwd /\ node'[h].items = highs
        /\ \A c \in nodes : c # n => node'[c] = node[c]
    BY <1>12, <1>21, <2>1, Addresses DEF TreeInv, Node
  <2>3. PathFn(fwd')[Top.fwd] = path
    BY <1>2, <1>12, <1>13, PathStays
  <2>4. /\ Lists(node'[n].items, PathFn(fwd')[node'[n].parent], node'[n].prefix)
        /\ Lists(node'[h].items, PathFn(fwd')[node'[h].parent], node'[h].prefix)
    BY <1>16, <2>2, <2>3
  <2>5. \A c \in {n, h} : \/ Len(node'[c].items) < SPLITBOUND
                          \/ Spent(node'[c].items, PathFn(fwd')[node'[c].parent])
    <3>1. CASE Len(items) = SPLITBOUND
      <4>1. Len(lows) < SPLITBOUND /\ Len(highs) < SPLITBOUND
        <5>1. /\ Len(lows) = count /\ Len(highs) = Len(items) - count
              /\ lows \in Seq(Items) /\ highs \in Seq(Items)
          BY <1>15 DEF Parts
        <5>2. Len(lows) > 0 /\ Len(highs) > 0
          BY <1>21, <5>1
        <5>3. QED
          BY <1>12, <1>15, <3>1, <5>1, <5>2
      <4>2. QED
        BY <2>2, <4>1
    <3>2. CASE Spent(items, path)
      <4>1. Spent(lows, path) /\ Spent(highs, path)
        BY <1>18, <3>2 DEF Spent
      <4>2. QED
        BY <2>2, <2>3, <4>1
    <3>3. QED
      BY <1>12, <3>1, <3>2
  <2>6. Ents(node[n].items) = Ents(node'[n].items) \cup Ents(node'[h].items)
        /\ Ents(node'[n].items) \cap Ents(node'[h].items) = {}
    BY <1>3, <1>18, <2>2
  <2>7. ItemsOK' /\ FullOK' /\ EntriesPointHome' /\ Stored' = Stored
    <3>1. h \in nodes' /\ entry' = Own(h, node'[h].items)
      BY <1>21, <2>2
    <3>2. QED
      BY <1>1, <1>11, <1>12, <1>21, <2>1, <2>2, <2>4, <2>5, <2>6, <3>1, ShareContent
  <2>8. PathsEnd'
    BY <1>13, EndsStep DEF ContentInv
  <2>9. SizesOK'
    <3>1. stack' = <<>>
      <4>1. stack \in Seq(Frames)
        BY DEF TreeInv, TypeOK
      <4>2. QED
        BY <1>12, <1>21, <4>1 DEF Return
    <3>2. QED
      BY <3>1, NoCallsSize
  <2>10. QED
    BY <1>17, <2>7, <2>8, <2>9 DEF ContentInv
<1>22. QED
  BY <1>13, <1>19, <1>20, <1>21

\* split_node that finds no bytes left.
LEMMA SplitExhaustedContent ==
  ASSUME <<>> \notin Keys, TreeInv, TreeInv', ShapeInv, PathInv, LevelInv, KeepPlaces, ContentInv,
         SplitExhausted
  PROVE  ContentInv'
<1>1. PICK n : n = Top.node
  OBVIOUS
<1>2. PICK path : path = PathTo(Top.fwd)
  OBVIOUS
<1>3. PICK items : items = node[n].items
  OBVIOUS
<1>4. PICK b : b = Top.p \div BDIV
  OBVIOUS
<1>5. /\ Running("split") /\ Top.size = -1 /\ Return
      /\ UNCHANGED <<fwds, fwd, nodes, node, totsize, entry, heap, fault>>
  BY DEF SplitExhausted
<1>6. /\ n \in nodes /\ Top.fwd = node[n].parent /\ Len(stack) = 1 /\ b = Len(path) \div BDIV
      /\ Lists(items, path, node[n].prefix) /\ b \in Nat
      /\ \E k \in Ents(items) : k \in Keys /\ Starts(k, path) /\ Top.size = Len(k) - b
  BY <1>1, <1>2, <1>3, <1>4, <1>5, SplitFacts
<1>7. Spent(items, path)
  <2>1. PICK k \in Ents(items) : k \in Keys /\ Top.size = Len(k) - b
    BY <1>6
  <2>2. Len(k) + 1 = b
    BY <1>5, <1>6, <2>1, BaseFacts
  <2>3. QED
    BY <1>6, <2>1, <2>2, SpentAll
<1>8. stack' = <<>>
  <2>1. stack \in Seq(Frames)
    BY DEF TreeInv, TypeOK
  <2>2. QED
    BY <1>5, <1>6, <2>1 DEF Return
<1>9. ItemsOK' /\ PathsEnd' /\ EntriesPointHome' /\ ~ fault'
  BY <1>5, PartsNow, PartsNext DEF ContentInv
<1>10. FullOK'
  <2>1. Spent(node'[n].items, PathFn(fwd')[node'[n].parent])
    <3>1. PathFn(fwd)[Top.fwd] = path
      BY <1>2, PathValue
    <3>2. QED
      BY <1>3, <1>5, <1>6, <1>7, <3>1
  <2>2. QED
    BY <1>1, <1>5, <2>1, FullStep DEF ContentInv
<1>11. QED
  BY <1>8, <1>9, <1>10, NoCallsSize DEF ContentInv

\* What split_fwd makes of the items of its bucket: below the new forwarding node g, whose
\* path is `down', they go to the lower and the upper half.
SplitDown(n, g, path, down, moved, lows, highs) ==
  /\ Lists(moved, down, <<>>) /\ Lists(lows, down, << 0 >>) /\ Lists(highs, down, << 1 >>)
  /\ Len(down) = Len(path) + 1 /\ PathFn(fwd')[g] = down
  /\ Len(moved) = SPLITBOUND /\ Len(lows) + Len(highs) = SPLITBOUND
  /\ Len(lows) \in Nat /\ Len(highs) \in Nat
  /\ Ents(node[n].items) = Ents(lows) \cup Ents(highs)
  /\ Ents(lows) \cap Ents(highs) = {}

\* And of the bucket, l being a new one.
SplitTo(n, path, p, cut, g, l, down, moved, lows, highs) ==
  /\ g \in FwdIds \ fwds /\ fwds' = fwds \cup {g}
  /\ l = FreshNode /\ ~ fault'
  /\ SplitDown(n, g, path, down, moved, lows, highs)
  /\ \/ /\ lows = <<>> /\ highs = moved
        /\ node' = [node EXCEPT ![n] = [prefix |-> << 1 >>, parent |-> g, items |-> highs]]
        /\ Become(Frame("split", n, g, Top.size - cut, p))
        /\ UNCHANGED <<nodes, entry>>
     \/ /\ highs = <<>> /\ lows = moved
        /\ node' = [node EXCEPT ![n] = [prefix |-> << 0 >>, parent |-> g, items |-> lows]]
        /\ Become(Frame("split", n, g, Top.size - cut, p))
        /\ UNCHANGED <<nodes, entry>>
     \/ /\ lows # <<>> /\ highs # <<>> /\ nodes # NodeIds
        /\ nodes' = nodes \cup {l}
        /\ node' = [node EXCEPT ![n] = [prefix |-> << 1 >>, parent |-> g, items |-> highs],
                                ![l] = [prefix |-> << 0 >>, parent |-> g, items |-> lows]]
        /\ entry' = Own(l, lows)
        /\ Return

\* split_fwd does one of these.
LEMMA SplitFwdResult ==
  ASSUME <<>> \notin Keys, TreeInv, TreeInv', ShapeInv, PathInv, LevelInv, KeepPlaces, ContentInv,
         SplitFwd, NEW n, n = Top.node, NEW path, path = PathTo(Top.fwd),
         NEW p, p = Top.p + 1, NEW cut, cut = IF p % BDIV = 0 THEN 1 ELSE 0
  PROVE  \E g, l, down, moved, lows, highs :
           SplitTo(n, path, p, cut, g, l, down, moved, lows, highs)
<1>1. PICK items : items = node[n].items
  OBVIOUS
<1>2. PICK b : b = Top.p \div BDIV
  OBVIOUS
<1>3. PICK q : q = node[n].prefix
  OBVIOUS
<1>4. PICK size : size = Positive(Top.size) + b
  OBVIOUS
<1>5. PICK h : h = 1 + cut
  OBVIOUS
<1>6. PICK count : count = LowCount(items, h, p % BDIV, 1)
  OBVIOUS
<1>7. PICK moved : moved = [i \in DOMAIN items |->
                              IF cut = 1 THEN CutItem(items, i, count, b, size) ELSE items[i]]
  OBVIOUS
<1>8. PICK lows, highs : /\ lows = SubSeq(moved, 1, count)
                         /\ highs = SubSeq(moved, count + 1, Len(moved))
  OBVIOUS
<1>9. PICK g, l : g = FreshFwd /\ l = FreshNode
  OBVIOUS
<1>10. PICK down : down = Append(path, Pad(q))
  OBVIOUS
<1>11. Running("split") /\ Len(q) = BSIZE /\ Top.size # -1 /\ fwds # FwdIds
  BY <1>1, <1>3 DEF SplitFwd
<1>12. /\ n \in nodes /\ n \in NodeIds /\ Top.fwd = node[n].parent /\ Top.fwd \in fwds
       /\ Lists(items, path, q) /\ Top.p = Len(path) /\ Top.p \in Nat
       /\ b = Len(path) \div BDIV /\ b \in Nat
       /\ Len(items) \in Nat
       /\ Len(items) = SPLITBOUND \/ Spent(items, path)
       /\ SizeFor(size, b, path)
       /\ \E k \in Ents(items) : k \in Keys /\ Starts(k, path) /\ Top.size = Len(k) - b
  BY SMTT(60), <1>1, <1>2, <1>3, <1>4, <1>11, SplitFacts
<1>13. Len(items) = SPLITBOUND
  <2> SUFFICES ASSUME Spent(items, path) PROVE FALSE
    BY <1>12
  <2>1. PICK k \in Ents(items) : k \in Keys /\ Top.size = Len(k) - b
    BY <1>12
  <2>2. Len(k) + 1 = b
    BY <1>12, <2>1 DEF Spent
  <2>3. QED
    BY SMTT(30), <1>11, <1>12, <2>1, <2>2, BaseFacts
<1>14. /\ fault' = ~ (Aligned(items, b, size) /\ Len(items) = SPLITBOUND)
       /\ fwds' = fwds \cup {g}
       /\ \/ /\ lows = <<>>
             /\ node' = [node EXCEPT ![n] = [prefix |-> << 1 >>, parent |-> g, items |-> highs]]
             /\ Become(Frame("split", n, g, Top.size - cut, p))
             /\ UNCHANGED <<nodes, entry>>
          \/ /\ highs = <<>>
             /\ node' = [node EXCEPT ![n] = [prefix |-> << 0 >>, parent |-> g, items |-> lows]]
             /\ Become(Frame("split", n, g, Top.size - cut, p))
             /\ UNCHANGED <<nodes, entry>>
          \/ /\ lows # <<>> /\ highs # <<>> /\ nodes # NodeIds
             /\ nodes' = nodes \cup {l}
             /\ node' = [node EXCEPT ![n] = [prefix |-> << 1 >>, parent |-> g, items |-> highs],
                                     ![l] = [prefix |-> << 0 >>, parent |-> g, items |-> lows]]
             /\ entry' = Own(l, lows)
             /\ Return
  BY ZenonT(60), <1>1, <1>2, <1>3, <1>4, <1>5, <1>6, <1>7, <1>8, <1>9 DEF SplitFwd
<1>15. /\ fwd'[g].parent = Top.fwd /\ fwd'[g].path = Pad(q) /\ g \in FwdIds \ fwds
  <2>1. g \in FwdIds \ fwds
    <3>1. fwds \subseteq FwdIds
      BY Addresses DEF TreeInv
    <3>2. QED
      BY <1>9, <1>11, <3>1 DEF FreshFwd
  <2>2. PICK e, x, y, B : Branches(n, e, x, y, B)
    BY <1>1, SplitFwdParts DEF SplitFwdOne, SplitFwdTwo
  <2>3. e \in FwdIds \ fwds /\ fwds' = fwds \cup {e}
    BY <2>2 DEF Branches
  <2>4. e = g
    BY <1>14, <2>1, <2>3
  <2>5. fwd \in [FwdIds -> Fwd] /\ Top.fwd \in FwdIds /\ g # Top.fwd
    BY <1>12, <2>1, Addresses DEF TreeInv
  <2>6. PICK new, r : /\ fwd' = [fwd EXCEPT ![Top.fwd].children = new, ![g] = r]
                      /\ r.parent = Top.fwd /\ r.path = Pad(q)
    <3>1. PICK f : f = Top.fwd
      OBVIOUS
    <3>2. PICK r : r = [parent |-> f, path |-> Pad(q),
                        children |-> [s \in Slots |-> IF s[1] = 0 THEN x ELSE y]]
      OBVIOUS
    <3>3. fwd' = [fwd EXCEPT ![f].children = Put(f, q, g), ![g] = r]
      BY <1>3, <1>12, <2>2, <2>4, <3>1, <3>2 DEF Branches
    <3>4. PICK new : new = Put(f, q, g)
      OBVIOUS
    <3>5. fwd' = [fwd EXCEPT ![f].children = new, ![g] = r] /\ r.parent = f /\ r.path = Pad(q)
      BY <3>2, <3>3, <3>4
    <3>6. QED
      BY <3>1, <3>5
  <2>7. fwd'[g] = r
    BY <2>1, <2>5, <2>6
  <2>8. QED
    BY <2>1, <2>6, <2>7
<1>16. PathFn(fwd')[g] = down
  <2>1. g \in fwds' \ fwds
    BY <1>14, <1>15
  <2>2. PathFn(fwd')[g] = Append(PathFn(fwd)[fwd'[g].parent], fwd'[g].path)
    BY <2>1, PathStep
  <2>3. PathFn(fwd)[Top.fwd] = path
    BY PathValue
  <2>4. QED
    BY <1>10, <1>15, <2>2, <2>3
<1>17. /\ items \in Seq(Items) /\ q \in SlotPrefixes /\ path \in Seq(Slots)
       /\ DOMAIN items = 1 .. Len(items)
  BY <1>12 DEF Lists
<1>18. count \in 0 .. Len(items)
  BY <1>6, <1>17, LowCountRange
<1>19. p = Len(path) + 1
  BY <1>12
<1>20. /\ Lists(moved, down, <<>>) /\ Len(moved) = Len(items) /\ DOMAIN moved = DOMAIN items
       /\ Ents(moved) = Ents(items)
       /\ \A i \in DOMAIN items : moved[i].first[1] = items[i].first[h]
  BY <1>5, <1>7, <1>10, <1>11, <1>12, <1>18, <1>19, ListsDown
<1>21. Parts(moved, count, lows, highs)
  <2>1. moved \in Seq(Items)
    BY <1>20 DEF Lists
  <2>2. QED
    BY <1>8, <1>18, <1>20, <2>1, PartsIs
<1>22. Len(down) = p
  <2>1. Pad(q) \in Slots
    BY <1>17, PrefixTypes
  <2>2. QED
    BY <1>10, <1>17, <1>19, <2>1
<1>23. Lists(lows, down, << 0 >>) /\ Lists(highs, down, << 1 >>)
  <2>1. PICK r : r = Len(down) % BDIV
    OBVIOUS
  <2>2. count = LowCount(moved, 1, r, 1)
    <3>1. LowCount(items, h, r, 1) = LowCount(moved, 1, r, 1)
      BY SMTT(60), <1>12, <1>17, <1>20, SameCount
    <3>2. QED
      BY <1>6, <1>22, <2>1, <3>1
  <2>3. PICK e : e = <<>>
    OBVIOUS
  <2>4. Len(e) = 0 /\ Len(e) < BSIZE /\ 1 = Len(e) + 1 /\ Lists(moved, down, e)
    BY <1>20, <2>3, PrefixFacts
  <2>5. Lists(lows, down, Append(e, 0)) /\ Lists(highs, down, Append(e, 1))
    BY <1>21, <2>1, <2>2, <2>4, ListsHalves
  <2>6. Append(e, 0) = << 0 >> /\ Append(e, 1) = << 1 >>
    BY <2>3
  <2>7. QED
    BY <2>5, <2>6
<1>24. /\ Ents(moved) = Ents(lows) \cup Ents(highs) /\ Ents(lows) \cap Ents(highs) = {}
       /\ lows = <<>> => highs = moved
       /\ highs = <<>> => lows = moved
  BY <1>18, <1>20, <1>21, ListsParts
<1>25. Len(lows) + Len(highs) = SPLITBOUND /\ Len(lows) \in Nat /\ Len(highs) \in Nat
  <2>1. Len(lows) = count /\ Len(highs) = Len(moved) - count
    BY <1>21 DEF Parts
  <2>2. QED
    BY <1>13, <1>18, <1>20, <2>1, PTrieAssumption
<1>26. SplitDown(n, g, path, down, moved, lows, highs)
  BY <1>1, <1>13, <1>16, <1>19, <1>20, <1>22, <1>23, <1>24, <1>25 DEF SplitDown
<1>27. ~ fault'
  BY <1>12, <1>13, <1>14, ListsLengths
<1>28. SplitTo(n, path, p, cut, g, l, down, moved, lows, highs)
  BY <1>9, <1>14, <1>15, <1>24, <1>26, <1>27 DEF SplitTo
<1>29. QED
  BY <1>28

\* The path above a bucket is that of its keys.
LEMMA EntsStart ==
  ASSUME NEW items, NEW path, NEW q, Lists(items, path, q), NEW k \in Ents(items)
  PROVE  Starts(k, path) /\ k \in Keys
<1>1. PICK i \in DOMAIN items : items[i].ent = k
  BY EntsAre
<1>2. QED
  BY <1>1, ListsFacts

\* split_fwd, where all items go to one half.
LEMMA SplitFwdOneContent ==
  ASSUME <<>> \notin Keys, TreeInv, TreeInv', ShapeInv, PathInv, LevelInv, KeepPlaces, ContentInv,
         Running("split"), PathsEnd', ~ fault', NEW n, n = Top.node, NEW path, path = PathTo(Top.fwd),
         NEW p, p = Top.p + 1, NEW cut, cut = IF p % BDIV = 0 THEN 1 ELSE 0,
         NEW g, NEW down, NEW q, NEW items,
         PathFn(fwd')[g] = down, Lists(items, down, q), Len(items) = SPLITBOUND,
         Ents(items) = Ents(node[n].items),
         node' = [node EXCEPT ![n] = [prefix |-> q, parent |-> g, items |-> items]],
         Become(Frame("split", n, g, Top.size - cut, p)), UNCHANGED <<nodes, entry>>
  PROVE  ContentInv' /\ Stored' = Stored
<1>1. PICK b : b = Top.p \div BDIV
  OBVIOUS
<1>2. /\ n \in nodes /\ n \in NodeIds /\ stack # <<>> /\ b \in Nat /\ Top.p \in Nat
      /\ \E k \in Ents(node[n].items) : k \in Keys /\ Top.size = Len(k) - b
  BY <1>1, SplitFacts
<1>3. /\ node'[n].prefix = q /\ node'[n].parent = g /\ node'[n].items = items
      /\ \A x \in NodeIds \ {n} : node'[x] = node[x]
  BY <1>2, Addresses DEF TreeInv, Node
<1>4. nodes \subseteq NodeIds /\ nodes' = nodes
  BY Addresses DEF TreeInv
<1>5. \A c \in nodes' : c # n => c \in nodes /\ node'[c] = node[c]
  BY <1>3, <1>4
<1>6. ItemsOK'
  BY <1>3, <1>5, ItemsStep DEF ContentInv
<1>7. PICK size : size = Top.size - cut
  OBVIOUS
<1>8. stack' # <<>> /\ Top' = Frame("split", n, g, size, p)
  BY <1>2, <1>7, BecomeTop DEF TreeInv
<1>9. FullOK'
  <2>1. Head(stack').fn = "split" /\ Head(stack').node = n
    BY <1>8 DEF Frame, Top
  <2>2. Splitting(node'[n].items, stack', fault', n)
    BY <1>3, <1>8, <2>1 DEF Splitting
  <2>3. QED
    BY <1>5, <2>2, FullStep DEF ContentInv
<1>10. EntriesPointHome'
  <2>1. \A c \in nodes' : c \in nodes /\ Ents(node'[c].items) = Ents(node[c].items)
    BY <1>3, <1>5
  <2>2. QED
    BY <1>4, <2>1, HomeStays DEF ContentInv
<1>11. SizesOK'
  <2>1. PICK k \in Ents(node[n].items) : k \in Keys /\ Top.size = Len(k) - b
    BY <1>2
  <2>2. p \in Nat /\ p \div BDIV = b + cut
    <3>1. p \in Nat
      BY <1>2
    <3>2. /\ p % BDIV = 0 => p \div BDIV = b + 1
          /\ p % BDIV # 0 => p \div BDIV = b
      BY <1>1, <1>2, <3>1, NextLevel
    <3>3. QED
      BY <1>2, <3>1, <3>2
  <2>3. size = Len(k) - p \div BDIV
    <3>1. PICK d : d = p \div BDIV
      OBVIOUS
    <3>2. d = b + cut /\ cut \in Int /\ Len(k) \in Int
      BY <2>1, <2>2, <3>1, BaseFacts
    <3>3. size = Len(k) - d
      BY <1>2, <1>7, <2>1, <3>2
    <3>4. QED
      BY <3>1, <3>3
  <2>4. k \in Ents(node'[n].items)
    BY <1>3
  <2>5. QED
    BY <1>8, <2>3, <2>4, SplitSize
<1>12. QED
  BY <1>6, <1>9, <1>10, <1>11 DEF ContentInv, Stored

\* split_fwd.
LEMMA SplitFwdContent ==
  ASSUME <<>> \notin Keys, TreeInv, TreeInv', ShapeInv, PathInv, LevelInv, KeepPlaces, ContentInv,
         SplitFwd
  PROVE  ContentInv' /\ Stored' = Stored
<1>1. PICK n : n = Top.node
  OBVIOUS
<1>2. PICK path : path = PathTo(Top.fwd)
  OBVIOUS
<1>3. PICK p : p = Top.p + 1
  OBVIOUS
<1>4. PICK cut : cut = IF p % BDIV = 0 THEN 1 ELSE 0
  OBVIOUS
<1>5. PICK g, l, down, moved, lows, highs :
           SplitTo(n, path, p, cut, g, l, down, moved, lows, highs)
  BY <1>1, <1>2, <1>3, <1>4, SplitFwdResult
<1>6. /\ g \in FwdIds \ fwds /\ fwds' = fwds \cup {g}
      /\ l = FreshNode /\ ~ fault'
      /\ SplitDown(n, g, path, down, moved, lows, highs)
      /\ \/ /\ lows = <<>> /\ highs = moved
            /\ node' = [node EXCEPT ![n] = [prefix |-> << 1 >>, parent |-> g, items |-> highs]]
            /\ Become(Frame("split", n, g, Top.size - cut, p))
            /\ UNCHANGED <<nodes, entry>>
         \/ /\ highs = <<>> /\ lows = moved
            /\ node' = [node EXCEPT ![n] = [prefix |-> << 0 >>, parent |-> g, items |-> lows]]
            /\ Become(Frame("split", n, g, Top.size - cut, p))
            /\ UNCHANGED <<nodes, entry>>
         \/ /\ lows # <<>> /\ highs # <<>> /\ nodes # NodeIds
            /\ nodes' = nodes \cup {l}
            /\ node' = [node EXCEPT ![n] = [prefix |-> << 1 >>, parent |-> g, items |-> highs],
                                    ![l] = [prefix |-> << 0 >>, parent |-> g, items |-> lows]]
            /\ entry' = Own(l, lows)
            /\ Return
  BY <1>5 DEF SplitTo
<1>7. PICK b : b = Top.p \div BDIV
  OBVIOUS
<1>8. Running("split") /\ Top.size # -1
  BY DEF SplitFwd
<1>9. /\ n \in nodes /\ n \in NodeIds /\ Top.fwd = node[n].parent /\ Top.fwd \in fwds
      /\ stack # <<>> /\ Len(stack) = 1 /\ b \in Nat /\ Top.p = Len(path) /\ Top.p \in Nat
      /\ b = Len(path) \div BDIV
      /\ \E k \in Ents(node[n].items) : k \in Keys /\ Starts(k, path) /\ Top.size = Len(k) - b
  BY <1>1, <1>2, <1>7, <1>8, SplitFacts
<1>10. SplitDown(n, g, path, down, moved, lows, highs)
  BY <1>6
<1>11. /\ Lists(moved, down, <<>>) /\ Lists(lows, down, << 0 >>) /\ Lists(highs, down, << 1 >>)
       /\ Len(down) = p /\ PathFn(fwd')[g] = down
       /\ Len(moved) = SPLITBOUND /\ Len(lows) + Len(highs) = SPLITBOUND
       /\ Len(lows) \in Nat /\ Len(highs) \in Nat
       /\ Ents(node[n].items) = Ents(lows) \cup Ents(highs)
       /\ Ents(lows) \cap Ents(highs) = {}
  BY <1>3, <1>9, <1>10 DEF SplitDown
<1>12. PathsEnd'
  <2>1. ASSUME NEW f \in fwds', f # Root
        PROVE  \E k \in Keys : /\ Starts(k, PathFn(fwd')[f])
                               /\ Len(PathFn(fwd')[f]) \div BDIV <= Len(k) + 1
    <3>1. CASE f \in fwds
      <4>1. PICK k \in Keys : Spells(k, f) /\ Level(f) \div BDIV <= Len(k) + 1
        BY <2>1, <3>1 DEF ContentInv, PathsEnd
      <4>2. PathFn(fwd')[f] = PathTo(f)
        BY <3>1, PathStays
      <4>3. QED
        BY <4>1, <4>2 DEF Spells, Level
    <3>2. CASE f = g
      <4>1. PICK k \in Ents(node[n].items) : k \in Keys /\ Starts(k, path) /\ Top.size = Len(k) - b
        BY <1>9
      <4>2. b <= Len(k) + 1
        <5>1. Top.fwd \in FwdIds /\ Spells(k, Top.fwd)
          BY <1>2, <1>9, <4>1, Addresses DEF Spells, TreeInv
        <5>2. Level(Top.fwd) \div BDIV <= Len(k) + 1
          BY <1>9, <4>1, <5>1, EndsAt DEF ContentInv
        <5>3. QED
          BY <1>2, <1>9, <5>2 DEF Level
      <4>3. b <= Len(k)
        BY <1>8, <1>9, <4>1, <4>2, BaseFacts
      <4>4. p \div BDIV <= b + 1
        <5>1. /\ p % BDIV = 0 => p \div BDIV = b + 1
              /\ p % BDIV # 0 => p \div BDIV = b
          BY <1>3, <1>7, <1>9, NextLevel
        <5>2. QED
          BY <1>9, <5>1
      <4>5. Starts(k, down)
        <5>1. k \in Ents(lows) \/ k \in Ents(highs)
          BY <1>11, <4>1
        <5>2. QED
          BY <1>11, <5>1, EntsStart
      <4>6. QED
        <5>1. PICK d : d = p \div BDIV
          OBVIOUS
        <5>2. d \in Nat /\ d <= b + 1 /\ Len(k) \in Nat
          <6>1. p \in Nat
            BY <1>3, <1>9
          <6>2. d \in Nat
            BY <5>1, <6>1, LevelByte
          <6>3. QED
            BY <4>1, <4>4, <5>1, <6>2, BaseFacts
        <5>3. d <= Len(k) + 1
          BY <1>9, <4>3, <5>2
        <5>4. QED
          BY <1>11, <3>2, <4>1, <4>5, <5>1, <5>3
    <3>3. QED
      BY <1>6, <2>1, <3>1, <3>2
  <2>2. QED
    BY <2>1, PartsNext DEF EndsOf
<1>13. CASE /\ lows = <<>> /\ highs = moved
            /\ node' = [node EXCEPT ![n] = [prefix |-> << 1 >>, parent |-> g, items |-> highs]]
            /\ Become(Frame("split", n, g, Top.size - cut, p))
            /\ UNCHANGED <<nodes, entry>>
  <2>1. Ents(highs) = Ents(node[n].items) /\ Len(highs) = SPLITBOUND
    <3>1. Ents(lows) = {}
      BY <1>13 DEF Ents
    <3>2. QED
      BY <1>11, <1>13, <3>1
  <2>2. QED
    BY <1>1, <1>2, <1>3, <1>4, <1>6, <1>8, <1>11, <1>12, <1>13, <2>1, SplitFwdOneContent
<1>14. CASE /\ highs = <<>> /\ lows = moved
            /\ node' = [node EXCEPT ![n] = [prefix |-> << 0 >>, parent |-> g, items |-> lows]]
            /\ Become(Frame("split", n, g, Top.size - cut, p))
            /\ UNCHANGED <<nodes, entry>>
  <2>1. Ents(lows) = Ents(node[n].items) /\ Len(lows) = SPLITBOUND
    <3>1. Ents(highs) = {}
      BY <1>14 DEF Ents
    <3>2. QED
      BY <1>11, <1>14, <3>1
  <2>2. QED
    BY <1>1, <1>2, <1>3, <1>4, <1>6, <1>8, <1>11, <1>12, <1>14, <2>1, SplitFwdOneContent
<1>15. CASE /\ lows # <<>> /\ highs # <<>> /\ nodes # NodeIds
            /\ nodes' = nodes \cup {l}
            /\ node' = [node EXCEPT ![n] = [prefix |-> << 1 >>, parent |-> g, items |-> highs],
                                    ![l] = [prefix |-> << 0 >>, parent |-> g, items |-> lows]]
            /\ entry' = Own(l, lows)
            /\ Return
  <2>1. nodes \subseteq NodeIds /\ l \in NodeIds /\ l \notin nodes /\ l # n
    BY <1>6, <1>9, <1>15, Addresses DEF FreshNode, TreeInv
  <2>2. /\ node'[n].prefix = << 1 >> /\ node'[n].parent = g /\ node'[n].items = highs
        /\ node'[l].prefix = << 0 >> /\ node'[l].parent = g /\ node'[l].items = lows
        /\ \A c \in nodes : c # n => node'[c] = node[c]
    BY <1>9, <1>15, <2>1, Addresses DEF TreeInv, Node
  <2>3. /\ Lists(node'[n].items, PathFn(fwd')[node'[n].parent], node'[n].prefix)
        /\ Lists(node'[l].items, PathFn(fwd')[node'[l].parent], node'[l].prefix)
    BY <1>11, <2>2
  <2>4. \A c \in {n, l} : \/ Len(node'[c].items) < SPLITBOUND
                          \/ Spent(node'[c].items, PathFn(fwd')[node'[c].parent])
    <3>1. lows \in Seq(Items) /\ highs \in Seq(Items)
      BY <1>11 DEF Lists
    <3>2. Len(lows) > 0 /\ Len(highs) > 0
      BY <1>15, <3>1
    <3>3. Len(lows) < SPLITBOUND /\ Len(highs) < SPLITBOUND
      BY <1>11, <3>2
    <3>4. QED
      BY <2>2, <3>3
  <2>5. Ents(node[n].items) = Ents(node'[n].items) \cup Ents(node'[l].items)
        /\ Ents(node'[n].items) \cap Ents(node'[l].items) = {}
    BY <1>11, <2>2
  <2>6. ItemsOK' /\ FullOK' /\ EntriesPointHome' /\ Stored' = Stored
    <3>1. l \in nodes' /\ entry' = Own(l, node'[l].items)
      BY <1>15, <2>2
    <3>2. QED
      BY <1>1, <1>8, <1>9, <1>15, <2>1, <2>2, <2>3, <2>4, <2>5, <3>1, ShareContent
  <2>7. SizesOK'
    <3>1. stack' = <<>>
      <4>1. stack \in Seq(Frames)
        BY DEF TreeInv, TypeOK
      <4>2. QED
        BY <1>9, <1>15, <4>1 DEF Return
    <3>2. QED
      BY <3>1, NoCallsSize
  <2>8. QED
    BY <1>6, <1>12, <2>6, <2>7 DEF ContentInv
<1>16. QED
  BY <1>6, <1>13, <1>14, <1>15

-----------------------------------------------------------------------------
(* The merges *)

\* What holds when a merge of the bucket n begins or goes on.
LEMMA MergeFacts ==
  ASSUME TreeInv, PathInv, ContentInv, Running("merge_down"), NEW n, n = Top.node,
         NEW f, f = node[n].parent, NEW path, path = PathTo(f),
         NEW items, items = node[n].items
  PROVE  /\ n \in nodes /\ n \in NodeIds /\ n \notin FwdIds /\ nodes \subseteq NodeIds
         /\ f \in fwds /\ f \in FwdIds
         /\ Lists(items, path, node[n].prefix) /\ items \in Seq(Items)
         /\ Len(path) = Level(f) /\ Level(f) \in Nat /\ path \in Seq(Slots)
         /\ stack # <<>> /\ ~ Running("split") /\ node \in [NodeIds -> Node]
         /\ entry \in [Keys -> NodeIds \cup {Null}]
<1>1. n \in nodes /\ n \in NodeIds /\ stack # <<>>
  BY MergeTop
<1>2. /\ f \in fwds /\ f \in FwdIds /\ n \notin FwdIds /\ Lists(items, path, node[n].prefix)
      /\ Len(path) = Level(f) /\ Level(f) \in Nat /\ path \in Seq(Slots)
  BY <1>1, Held DEF ContentInv
<1>3. items \in Seq(Items)
  BY <1>2 DEF Lists
<1>4. ~ Running("split")
  BY DEF Running
<1>5. /\ node \in [NodeIds -> Node] /\ nodes \subseteq NodeIds
      /\ entry \in [Keys -> NodeIds \cup {Null}]
  BY Addresses DEF TreeInv, TypeOK, BucketsOK
<1>6. QED
  BY <1>1, <1>2, <1>3, <1>4, <1>5

\* The size that a merge is given, unless it will stop.
LEMMA MergingSize ==
  ASSUME TreeInv, PathInv, ContentInv, Merging, NEW n, n = Top.node
  PROVE  \/ \E k \in Keys : /\ Spells(k, node[n].parent)
                            /\ Top.size = Len(k) - Top.p \div BDIV
         \/ AllSettled(nodes)
<1>1. Running("merge_down") /\ Len(node[n].items) <= MergeBound
  BY DEF Merging
<1>2. n \in NodeIds /\ stack # <<>>
  BY <1>1, MergeTop
<1>3. ~ (Count(n) > MergeBound)
  BY <1>1, <1>2, CountType, Bounds DEF Count
<1>4. QED
  BY <1>1, <1>2, <1>3 DEF ContentInv, SizesOK, Running

\* A merge that goes on with the size that it was given.
LEMMA MergeDownSize ==
  ASSUME TreeInv, TreeInv', PathInv, KeepPlaces, ContentInv, Merging, NEW n, n = Top.node,
         NEW d, MergeDown(d), node'[d].parent = node[n].parent, fwds' = fwds,
         AllSettled(nodes) => AllSettled(nodes)' \/ Count(d)' > MergeBound
  PROVE  SizesOK'
<1>1. Running("merge_down")
  BY DEF Merging
<1>2. stack # <<>> /\ TypeOK /\ node[n].parent \in fwds
  BY <1>1, MergeTop DEF TreeInv
<1>3. Become(Frame("merge_down", d, Null, Top.size, Top.p))
  BY DEF MergeDown
<1>4. stack' # <<>> /\ Top' = Frame("merge_down", d, Null, Top.size, Top.p)
  BY <1>2, <1>3, BecomeTop
<1>5. PathFn(fwd')[node[n].parent] = PathTo(node[n].parent)
  BY <1>2, PathStays
<1>6. \/ \E k \in Keys : /\ Starts(k, PathFn(fwd')[node'[d].parent])
                         /\ Top.size = Len(k) - Top.p \div BDIV
      \/ AllSettled(nodes)
  BY <1>5, MergingSize DEF Spells
<1>7. QED
  BY <1>4, <1>6, MergeSize

\* A step that changes nothing but the calls.
LEMMA SameContent ==
  ASSUME TreeInv, TreeInv', PathInv, KeepPlaces, ContentInv, ~ Running("split"),
         UNCHANGED <<fwds, fwd, nodes, node, entry>>, ~ fault', SizesOK'
  PROVE  ContentInv'
<1>1. ItemsOK' /\ PathsEnd' /\ EntriesPointHome'
  BY PartsNow, PartsNext DEF ContentInv
<1>2. FullOK'
  BY FullStep DEF ContentInv
<1>3. QED
  BY <1>1, <1>2 DEF ContentInv

\* Settled buckets stay so where nothing changes.
LEMMA SameSettled ==
  ASSUME AllSettled(nodes), UNCHANGED <<fwd, nodes, node>> PROVE AllSettled(nodes)'
BY DEF AllSettled, Settled, Count, Alone, Buddies, MergeBound

\* A call of merge_down that waits for readd_byte is given no size that matters.
LEMMA ReturnSize ==
  ASSUME TreeInv, stack # <<>>, Return PROVE SizesOK'
BY ReturnCalls, OtherSize

\* A merge that stops.
LEMMA MergeDownStopContent ==
  ASSUME <<>> \notin Keys, TreeInv, TreeInv', PathInv, KeepPlaces, ContentInv, MergeDownStop
  PROVE  ContentInv'
<1>1. /\ Running("merge_down") /\ Return /\ fault' = (Top.node \notin nodes)
      /\ UNCHANGED <<fwds, fwd, nodes, node, entry>>
  BY DEF MergeDownStop
<1>2. Top.node \in nodes /\ stack # <<>> /\ ~ Running("split")
  BY <1>1, MergeFacts
<1>3. SizesOK'
  BY <1>1, <1>2, ReturnSize
<1>4. QED
  BY <1>1, <1>2, <1>3, SameContent

\* merge_down after readd_byte.
LEMMA AfterReaddContent ==
  ASSUME <<>> \notin Keys, TreeInv, TreeInv', ShapeInv, PathInv, KeepPlaces, ContentInv, AfterReadd
  PROVE  ContentInv'
<1>1. /\ Running("after_readd") /\ fault' = (Top.node \notin nodes)
      /\ MergeDown(Top.node) \/ Return
      /\ UNCHANGED <<fwds, fwd, nodes, node, entry>>
  BY DEF AfterReadd
<1>2. stack # <<>> /\ ~ Running("split") /\ AllSettled(nodes) /\ Top.node \in nodes /\ TypeOK
  BY <1>1 DEF Running, ShapeInv, Phases, TreeInv
<1>3. SizesOK'
  <2>1. CASE Return
    BY <1>2, <2>1, ReturnSize
  <2>2. CASE MergeDown(Top.node)
    <3>1. PICK n, size, p : Become(Frame("merge_down", n, Null, size, p))
      BY <2>2 DEF MergeDown
    <3>2. stack' # <<>> /\ Top' = Frame("merge_down", n, Null, size, p)
      BY <1>2, <3>1, BecomeTop
    <3>3. AllSettled(nodes)'
      BY <1>1, <1>2, SameSettled
    <3>4. QED
      BY <3>2, <3>3, MergeSize
  <2>3. QED
    BY <1>1, <2>1, <2>2
<1>4. QED
  BY <1>1, <1>2, <1>3, SameContent

\* The loop of merge_empty has nothing to do.
LEMMA ClimbContent ==
  ASSUME <<>> \notin Keys, TreeInv, TreeInv', ShapeInv, PathInv, KeepPlaces, ContentInv, Climb
  PROVE  ContentInv'
<1>1. Running("climb") /\ Top.fwd = Root /\ stack # <<>>
  BY DEF Climb, Running, ShapeInv, Phases
<1>2. /\ Return /\ UNCHANGED <<fwds, fwd, nodes, node, entry, fault>>
  BY <1>1 DEF Climb
<1>3. ~ Running("split") /\ ~ fault'
  BY <1>1, <1>2 DEF Running
<1>4. QED
  BY <1>1, <1>2, <1>3, ReturnSize, SameContent

\* The bucket n, which is empty, goes.
LEMMA RemoveContent ==
  ASSUME TreeInv, TreeInv', PathInv, KeepPlaces, ContentInv, ~ Running("split"),
         NEW n \in nodes, node[n].items = <<>>, nodes' = nodes \ {n}, entry' = entry, fwds' = fwds,
         \A c \in nodes : c # n => /\ node'[c].items = node[c].items
                                   /\ node'[c].parent = node[c].parent
                                   /\ \/ node'[c] = node[c]
                                      \/ Lists(node[c].items, PathTo(node[c].parent),
                                               node'[c].prefix),
         ~ fault', SizesOK'
  PROVE  ContentInv'
<1>1. Ents(node[n].items) = {}
  BY DEF Ents
<1>2. \A c \in nodes' : c \in nodes /\ c # n
  OBVIOUS
<1>3. \A c \in nodes' : PathFn(fwd')[node'[c].parent] = PathTo(node[c].parent)
  <2>1. ASSUME NEW c \in nodes' PROVE PathFn(fwd')[node'[c].parent] = PathTo(node[c].parent)
    <3>1. PICK f : f = node[c].parent
      OBVIOUS
    <3>2. f \in fwds
      BY <1>2, <3>1, Held DEF ContentInv
    <3>3. PathFn(fwd')[f] = PathTo(f)
      BY <3>2, PathStays
    <3>4. QED
      BY <1>2, <3>1, <3>3
  <2>2. QED
    BY <2>1
<1>4. ItemsOK'
  BY <1>2, <1>3, ItemsStep DEF ContentInv
<1>5. PathsEnd'
  BY EndsStep DEF ContentInv
<1>6. FullOK'
  <2>1. ASSUME NEW c \in nodes', Len(node'[c].items) >= SPLITBOUND
        PROVE  Spent(node'[c].items, PathFn(fwd')[node'[c].parent])
    <3>1. Spent(node[c].items, PathTo(node[c].parent))
      BY <1>2, <2>1 DEF ContentInv, FullOK, Count, Spent, Level
    <3>2. QED
      BY <1>2, <1>3, <3>1
  <2>2. QED
    BY <2>1, PartsNext DEF FullOf
<1>7. EntriesPointHome'
  BY <1>1, <1>2, HomeStays DEF ContentInv
<1>8. QED
  BY <1>4, <1>5, <1>6, <1>7 DEF ContentInv

\* merge_empty.
LEMMA MergeEmptyContent ==
  ASSUME <<>> \notin Keys, TreeInv, TreeInv', PathInv, KeepPlaces, ContentInv, MergeEmpty
  PROVE  ContentInv'
<1>1. PICK n : n = Top.node
  OBVIOUS
<1>2. PICK f : f = node[n].parent
  OBVIOUS
<1>3. /\ Running("merge_down") /\ node[n].items = <<>> /\ node' = [node EXCEPT ![n] = DeadNode]
      /\ nodes' = nodes \ {n} /\ fault' = (n \notin nodes) /\ fwds' = fwds /\ entry' = entry
      /\ \E size, p : Become(Frame("climb", Null, f, size, p))
  BY <1>1, <1>2 DEF MergeEmpty, Merging
<1>4. n \in nodes /\ n \in NodeIds /\ stack # <<>> /\ ~ Running("split") /\ nodes \subseteq NodeIds
      /\ node \in [NodeIds -> Node]
  BY <1>1, <1>3, MergeFacts
<1>5. SizesOK'
  <2>1. PICK size, p : Become(Frame("climb", Null, f, size, p))
    BY <1>3
  <2>2. Top'.fn = "climb"
    BY <1>4, <2>1, BecomeTop DEF Frame, TreeInv
  <2>3. QED
    BY <2>2, OtherSize
<1>6. \A c \in nodes : c # n => node'[c] = node[c]
  BY <1>3, <1>4
<1>7. QED
  BY <1>3, <1>4, <1>5, <1>6, RemoveContent

\* merge_regular next to buckets that are finer than the one it is about.
LEMMA MergeFinerContent ==
  ASSUME <<>> \notin Keys, TreeInv, TreeInv', PathInv, KeepPlaces, ContentInv, MergeFiner
  PROVE  ContentInv'
<1>1. PICK n, c : n = Top.node /\ c = BuddyOf(n)
  OBVIOUS
<1>2. /\ Merging /\ Running("merge_down") /\ node[n].prefix # <<>> /\ fwds' = fwds /\ entry' = entry
      /\ c \in NodeIds /\ Len(node[c].prefix) # Len(node[n].prefix)
      /\ fault' = (n \notin nodes \/ Len(node[c].prefix) < Len(node[n].prefix))
      /\ \/ /\ node[n].items = <<>> /\ nodes' = nodes \ {n}
            /\ node' = [node EXCEPT ![n] = DeadNode] /\ Return
         \/ /\ MergeDown(c) \/ Return
            /\ UNCHANGED <<fwd, nodes, node>>
  BY <1>1 DEF MergeFiner, MergingRegular, Merging, Delete
<1>3. /\ n \in nodes /\ n \in NodeIds /\ nodes \subseteq NodeIds /\ stack # <<>>
      /\ ~ Running("split") /\ node \in [NodeIds -> Node]
  BY <1>1, <1>2, MergeFacts
<1>4. /\ c \in nodes /\ node[c].parent = node[n].parent
      /\ Len(node[c].prefix) >= Len(node[n].prefix)
  BY <1>1, <1>2, <1>3, BuddyBucket
<1>5. ~ fault'
  <2>1. Len(node[c].prefix) \in Nat /\ Len(node[n].prefix) \in Nat
    BY <1>2, <1>3, Addresses, PrefixFacts DEF TreeInv
  <2>2. ~ (n \notin nodes \/ Len(node[c].prefix) < Len(node[n].prefix))
    BY <1>3, <1>4, <2>1
  <2>3. QED
    BY <1>2, <2>2
<1>6. Return => SizesOK'
  BY <1>3, ReturnSize
<1>7. CASE /\ node[n].items = <<>> /\ nodes' = nodes \ {n}
           /\ node' = [node EXCEPT ![n] = DeadNode] /\ Return
  <2>1. \A d \in nodes : d # n => node'[d] = node[d]
    BY <1>3, <1>7
  <2>2. QED
    BY <1>2, <1>3, <1>5, <1>6, <1>7, <2>1, RemoveContent
<1>8. CASE /\ MergeDown(c) \/ Return
           /\ UNCHANGED <<fwd, nodes, node>>
  <2>1. CASE Return
    BY <1>2, <1>3, <1>5, <1>6, <1>8, <2>1, SameContent
  <2>2. CASE MergeDown(c)
    <3>1. AllSettled(nodes) => AllSettled(nodes)'
      BY <1>8, SameSettled
    <3>2. node'[c].parent = node[n].parent
      BY <1>4, <1>8
    <3>3. SizesOK'
      BY <1>1, <1>2, <2>2, <3>1, <3>2, MergeDownSize
    <3>4. QED
      BY <1>2, <1>3, <1>5, <1>8, <3>3, SameContent
  <2>3. QED
    BY <1>8, <2>1, <2>2
<1>9. QED
  BY <1>2, <1>7, <1>8

\* A bucket that is merged is not full.
LEMMA MergingSmall ==
  ASSUME TreeInv, Merging, NEW n, n = Top.node
  PROVE  /\ Count(n) \in Nat /\ Count(n) < SPLITBOUND /\ ~ (Count(n) > MergeBound)
         /\ (Count(n) = 0 <=> node[n].items = <<>>)
<1>1. n \in NodeIds /\ node[n].items \in Seq(Items)
  BY MergeTop DEF Merging
<1>2. Count(n) \in Nat /\ Count(n) <= MergeBound
  BY <1>1, CountType DEF Merging, Count
<1>3. ~ (Count(n) > MergeBound)
  BY <1>2, Bounds
<1>4. ~ Full(Count(n))
  BY <1>2, <1>3, Bounds
<1>5. Count(n) = 0 <=> node[n].items = <<>>
  BY <1>1 DEF Count
<1>6. QED
  BY <1>2, <1>3, <1>4, <1>5, PTrieAssumption DEF Full

\* merge_regular next to a forwarding node, or to empty slots.
LEMMA MergeFwdContent ==
  ASSUME <<>> \notin Keys, TreeInv, TreeInv', PathInv, KeepPlaces, ContentInv, MergeFwd
  PROVE  ContentInv'
<1>1. PICK n : n = Top.node
  OBVIOUS
<1>2. PICK f : f = node[n].parent
  OBVIOUS
<1>3. PICK q : q = node[n].prefix
  OBVIOUS
<1>4. PICK items : items = node[n].items
  OBVIOUS
<1>5. PICK path : path = PathTo(f)
  OBVIOUS
<1>6. /\ Merging /\ Running("merge_down") /\ q # <<>> /\ fault' = (n \notin nodes)
      /\ fwds' = fwds /\ entry' = entry
      /\ \/ /\ items = <<>> /\ nodes' = nodes \ {n}
            /\ node' = [node EXCEPT ![n] = DeadNode] /\ Return
         \/ Return /\ UNCHANGED <<fwd, nodes, node>>
         \/ /\ CanGrow(n, Front(q)) /\ MergeDown(n) /\ nodes' = nodes
            /\ node' = [node EXCEPT ![n].prefix = Front(q)]
  BY <1>1, <1>2, <1>3, <1>4 DEF MergeFwd, MergingRegular, Merging, Delete
<1>7. /\ n \in nodes /\ n \in NodeIds /\ nodes \subseteq NodeIds /\ stack # <<>>
      /\ ~ Running("split") /\ node \in [NodeIds -> Node]
      /\ Lists(items, path, q) /\ f \in fwds
  BY <1>1, <1>2, <1>3, <1>4, <1>5, <1>6, MergeFacts
<1>8. Return => SizesOK'
  BY <1>7, ReturnSize
<1>9. CASE /\ items = <<>> /\ nodes' = nodes \ {n}
           /\ node' = [node EXCEPT ![n] = DeadNode] /\ Return
  <2>1. \A d \in nodes : d # n => node'[d] = node[d]
    BY <1>7, <1>9
  <2>2. QED
    BY <1>4, <1>6, <1>7, <1>8, <1>9, <2>1, RemoveContent
<1>10. CASE Return /\ UNCHANGED <<fwd, nodes, node>>
  BY <1>6, <1>7, <1>8, <1>10, SameContent
<1>11. CASE /\ CanGrow(n, Front(q)) /\ MergeDown(n) /\ nodes' = nodes
            /\ node' = [node EXCEPT ![n].prefix = Front(q)]
  <2>1. /\ node'[n].parent = f /\ node'[n].items = items /\ node'[n].prefix = Front(q)
        /\ \A d \in nodes : d # n => node'[d] = node[d]
    BY <1>2, <1>4, <1>7, <1>11 DEF Node
  <2>2. PathFn(fwd')[f] = path
    BY <1>5, <1>6, <1>7, PathStays
  <2>3. Lists(items, path, Front(q))
    BY <1>6, <1>7, ListsGrow
  <2>4. Lists(node'[n].items, PathFn(fwd')[node'[n].parent], node'[n].prefix)
    BY <2>1, <2>2, <2>3
  <2>5. Count(n) < SPLITBOUND /\ ~ (Count(n) > MergeBound)
    BY <1>1, <1>6, MergingSmall
  <2>6. \A d \in nodes' : d # n => d \in nodes /\ node'[d] = node[d]
    BY <1>11, <2>1
  <2>7. ItemsOK'
    BY <2>4, <2>6, ItemsStep DEF ContentInv
  <2>8. PathsEnd'
    BY <1>6, EndsStep DEF ContentInv
  <2>9. FullOK'
    <3>1. Len(node'[n].items) < SPLITBOUND
      BY <1>4, <2>1, <2>5 DEF Count
    <3>2. QED
      BY <1>7, <2>6, <3>1, FullStep DEF ContentInv
  <2>10. EntriesPointHome'
    <3>1. \A d \in nodes' : d \in nodes /\ Ents(node'[d].items) = Ents(node[d].items)
      BY <1>4, <2>1, <2>6, <1>11
    <3>2. QED
      BY <1>6, <1>11, <3>1, HomeStays DEF ContentInv
  <2>11. SizesOK'
    <3>1. Alone(n)
      BY <1>3, <1>11 DEF CanGrow, Alone
    <3>2. ~ AllSettled(nodes)
      BY <1>3, <1>6, <1>7, <2>5, <3>1 DEF AllSettled, Settled
    <3>3. QED
      BY <1>1, <1>2, <1>6, <1>11, <2>1, <3>2, MergeDownSize
  <2>12. QED
    BY <1>6, <1>7, <2>7, <2>8, <2>9, <2>10, <2>11 DEF ContentInv
<1>12. QED
  BY <1>6, <1>9, <1>10, <1>11

\* merge_regular next to a bucket of the same size.
LEMMA MergeBuddyContent ==
  ASSUME <<>> \notin Keys, TreeInv, TreeInv', ShapeInv, PathInv, KeepPlaces, ContentInv, MergeBuddy
  PROVE  ContentInv' /\ Stored' = Stored
<1>1. PICK n, c, f : n = Top.node /\ c = BuddyOf(n) /\ f = node[n].parent
  OBVIOUS
<1>2. PICK q, r, xs, ys : /\ q = node[n].prefix /\ xs = node[n].items
                          /\ r = node[c].prefix /\ ys = node[c].items
  OBVIOUS
<1>3. PICK both : both = Joined(q, xs, ys)
  OBVIOUS
<1>4. PICK path : path = PathTo(f)
  OBVIOUS
<1>5. /\ Merging /\ Running("merge_down") /\ q # <<>> /\ c \in NodeIds
      /\ Len(r) = Len(q) /\ fwds' = fwds
      /\ \/ /\ xs = <<>> /\ nodes' = nodes \ {n} /\ MergeDown(c) /\ entry' = entry
            /\ node' = [node EXCEPT ![n] = DeadNode, ![c].prefix = Front(r)]
            /\ fault' = (n \notin nodes)
         \/ /\ Return /\ UNCHANGED <<fwd, nodes, node, entry>> /\ fault' = (n \notin nodes)
         \/ /\ xs # <<>> /\ Len(xs) + Len(ys) < SPLITBOUND
            /\ nodes' = nodes \ {c} /\ MergeDown(n) /\ entry' = Own(n, both)
            /\ node' = [node EXCEPT ![n].items = both, ![n].prefix = Front(@), ![c] = DeadNode]
            /\ fault' = (n \notin nodes \/ ys = <<>>)
  BY <1>1, <1>2, <1>3 DEF MergeBuddy, MergingRegular, Merging, Delete
<1>6. /\ n \in nodes /\ n \in NodeIds /\ nodes \subseteq NodeIds /\ stack # <<>>
      /\ ~ Running("split") /\ node \in [NodeIds -> Node]
      /\ entry \in [Keys -> NodeIds \cup {Null}]
      /\ Lists(xs, path, q) /\ f \in fwds /\ xs \in Seq(Items)
  BY <1>1, <1>2, <1>4, <1>5, MergeFacts
<1>7. c \in nodes /\ c # n /\ node[c].parent = f /\ r = Buddy(q)
  BY <1>1, <1>2, <1>5, <1>6, BuddyBucket
<1>8. Lists(ys, path, r)
  BY <1>2, <1>4, <1>7, Held DEF ContentInv
<1>9. Return => SizesOK'
  BY <1>6, ReturnSize
<1>10. Count(n) \in Nat /\ ~ (Count(n) > MergeBound) /\ (Count(n) = 0 <=> xs = <<>>)
  BY <1>1, <1>2, <1>5, MergingSmall
<1>11. Buddies(n, c)
  BY <1>1, <1>2, <1>5, <1>7 DEF Buddies
<1>12. CASE /\ xs = <<>> /\ nodes' = nodes \ {n} /\ MergeDown(c) /\ entry' = entry
            /\ node' = [node EXCEPT ![n] = DeadNode, ![c].prefix = Front(r)]
            /\ fault' = (n \notin nodes)
  <2>1. /\ node'[c].parent = f /\ node'[c].items = ys /\ node'[c].prefix = Front(r)
        /\ \A d \in nodes : d # n /\ d # c => node'[d] = node[d]
    BY <1>2, <1>5, <1>6, <1>7, <1>12 DEF Node
  <2>2. Lists(ys, path, Front(r))
    <3>1. q \in SlotPrefixes /\ r \in SlotPrefixes
      BY <1>6, <1>8 DEF Lists
    <3>2. r # <<>>
      BY <1>5, <3>1, PrefixFacts
    <3>3. QED
      BY <1>8, <3>2, ListsGrow
  <2>3. SizesOK'
    <3>1. ~ AllSettled(nodes)
      BY <1>6, <1>10, <1>12 DEF AllSettled, Settled
    <3>2. QED
      BY <1>1, <1>5, <1>12, <2>1, <3>1, MergeDownSize
  <2>4. \A d \in nodes : d # n => /\ node'[d].items = node[d].items
                                  /\ node'[d].parent = node[d].parent
                                  /\ \/ node'[d] = node[d]
                                     \/ Lists(node[d].items, PathTo(node[d].parent),
                                              node'[d].prefix)
    BY <1>2, <1>4, <1>7, <2>1, <2>2
  <2>5. QED
    BY ZenonT(60), <1>2, <1>5, <1>6, <1>12, <2>3, <2>4, RemoveContent DEF Stored
<1>13. CASE Return /\ UNCHANGED <<fwd, nodes, node, entry>> /\ fault' = (n \notin nodes)
  <2>1. ~ fault' /\ SizesOK'
    BY <1>6, <1>9, <1>13
  <2>2. UNCHANGED <<fwds, fwd, nodes, node, entry>> /\ ~ Running("split")
    BY <1>5, <1>6, <1>13
  <2>3. ContentInv'
    BY <2>1, <2>2, SameContent
  <2>4. QED
    BY <2>2, <2>3 DEF Stored
<1>14. CASE /\ xs # <<>> /\ Len(xs) + Len(ys) < SPLITBOUND
            /\ nodes' = nodes \ {c} /\ MergeDown(n) /\ entry' = Own(n, both)
            /\ node' = [node EXCEPT ![n].items = both, ![n].prefix = Front(@), ![c] = DeadNode]
            /\ fault' = (n \notin nodes \/ ys = <<>>)
  <2>1. /\ node'[n].parent = f /\ node'[n].items = both /\ node'[n].prefix = Front(q)
        /\ \A d \in nodes : d # n /\ d # c => node'[d] = node[d]
    <3>1. node[n] \in Node /\ c # n /\ node[n].parent = f /\ node[n].prefix = q
      BY <1>1, <1>2, <1>6, <1>7
    <3>2. PICK new : new = [node[n] EXCEPT !.items = both, !.prefix = Front(q)]
      OBVIOUS
    <3>3. new.parent = f /\ new.items = both /\ new.prefix = Front(q)
      BY <3>1, <3>2 DEF Node
    <3>4. node'[n] = new /\ \A d \in nodes : d # n /\ d # c => node'[d] = node[d]
      BY <1>6, <1>14, <3>1, <3>2
    <3>5. QED
      BY <3>3, <3>4
  <2>2. /\ Lists(both, path, Front(q)) /\ Len(both) = Len(xs) + Len(ys)
        /\ Ents(both) = Ents(xs) \cup Ents(ys)
    BY <1>3, <1>5, <1>6, <1>7, <1>8, ListsJoin
  <2>3. ys # <<>>
    <3>1. AllSettled(nodes \ {n}) \/ AllSettled(nodes)
      BY <1>1, <1>5, MergeShape
    <3>2. Count(c) > 0
      BY <1>7, <3>1 DEF AllSettled, Settled
    <3>3. QED
      BY <1>2, <3>2 DEF Count
  <2>4. ~ fault'
    BY <1>6, <1>14, <2>3
  <2>5. PathFn(fwd')[f] = path
    BY <1>4, <1>5, <1>6, PathStays
  <2>6. Lists(node'[n].items, PathFn(fwd')[node'[n].parent], node'[n].prefix)
    BY <2>1, <2>2, <2>5
  <2>7. /\ \A d \in nodes' : d # n => d \in nodes /\ d # c /\ node'[d] = node[d]
        /\ n \in nodes'
    BY <1>6, <1>7, <1>14, <2>1
  <2>8. ItemsOK'
    BY <2>6, <2>7, ItemsStep DEF ContentInv
  <2>9. PathsEnd'
    BY <1>5, EndsStep DEF ContentInv
  <2>10. FullOK'
    <3>1. Len(node'[n].items) < SPLITBOUND
      BY <1>14, <2>1, <2>2
    <3>2. QED
      BY <1>6, <2>7, <3>1, FullStep DEF ContentInv
  <2>11. EntriesPointHome'
    <3>1. PICK E : E = Ents(both)
      OBVIOUS
    <3>2. E \subseteq Keys
      <4>1. Ents(node[n].items) \subseteq Keys /\ Ents(node[c].items) \subseteq Keys
        BY <1>5, <1>6, EntsType
      <4>2. QED
        BY <1>2, <2>2, <3>1, <4>1
    <3>3. \A d \in nodes' : d # n => d \in nodes /\ Ents(node'[d].items) = Ents(node[d].items) \ E
      <4>1. ASSUME NEW d \in nodes', d # n PROVE Ents(node'[d].items) = Ents(node[d].items) \ E
        <5>1. d \in nodes /\ d # c /\ node'[d] = node[d]
          BY <2>7, <4>1
        <5>2. /\ Ents(node[n].items) \cap Ents(node[d].items) = {}
              /\ Ents(node[c].items) \cap Ents(node[d].items) = {}
          BY <1>6, <1>7, <4>1, <5>1, OneHome DEF ContentInv
        <5>3. QED
          BY <1>2, <2>2, <3>1, <5>1, <5>2
      <4>2. QED
        BY <2>7, <4>1
    <3>4. \A d \in nodes : (d \in nodes' /\ d # n) \/ Ents(node[d].items) \subseteq E
      BY <1>2, <1>14, <2>2, <3>1
    <3>5. \A k \in Keys : entry'[k] = IF k \in E THEN n ELSE entry[k]
      BY <1>14, <3>1 DEF Own
    <3>6. Ents(node'[n].items) = E
      BY <2>1, <3>1
    <3>7. QED
      BY <2>7, <3>2, <3>3, <3>4, <3>5, <3>6, HomeStep DEF ContentInv
  <2>12. SizesOK'
    <3>1. Count(n)' = Count(n) + Count(c)
      BY <1>2, <2>1, <2>2 DEF Count
    <3>2. AllSettled(nodes) => Count(n)' > MergeBound
      BY <1>6, <1>7, <1>11, <3>1 DEF AllSettled
    <3>3. QED
      BY <1>1, <1>5, <1>14, <2>1, <3>2, MergeDownSize
  <2>13. Stored' = Stored
    <3>1. PICK E : E = Ents(both)
      OBVIOUS
    <3>2. \A k \in E : \E d \in nodes : k \in Ents(node[d].items)
      BY <1>2, <1>6, <1>7, <2>2, <3>1
    <3>3. \A k \in Keys : entry'[k] = IF k \in E THEN n ELSE entry[k]
      BY <1>14, <3>1 DEF Own
    <3>4. QED
      BY ZenonT(60), <1>5, <1>6, <3>2, <3>3, OwnStored DEF ContentInv
  <2>14. QED
    BY <2>4, <2>8, <2>9, <2>10, <2>11, <2>12, <2>13 DEF ContentInv
<1>15. QED
  BY <1>5, <1>12, <1>13, <1>14

\* The sizes that readd_byte computes.
BackSize(items, p, on_heap, b) ==
  [i \in DOMAIN items |-> IF p <= BDIV
                          THEN ((on_heap + b) \div Base) * Base + items[i].first[1]
                          ELSE Positive(on_heap)]

\* The sizes are those of the items below b bytes of path, and the items have one less.
HasSizes(items, b, size) ==
  \A i \in DOMAIN items : /\ size[i] = Len(Residual(items[i].ent, b))
                          /\ Len(items[i].res) = Positive(size[i] - 1)

\* The sizes that readd_byte computes are those the items have with the byte it puts back.
LEMMA BackSizes ==
  ASSUME NEW items, NEW down, NEW q, Lists(items, down, q), NEW b \in Nat,
         b + 1 = Len(down) \div BDIV, NEW k \in Keys, Starts(k, down),
         NEW p, p <= BDIV <=> b = 0, NEW on_heap, on_heap = Len(k) - b
  PROVE  HasSizes(items, b, BackSize(items, p, on_heap, b))
<1>1. PICK size : /\ size = BackSize(items, p, on_heap, b)
                  /\ size = [i \in DOMAIN items |->
                               IF p <= BDIV
                               THEN ((on_heap + b) \div Base) * Base + items[i].first[1]
                               ELSE Positive(on_heap)]
  BY DEF BackSize
<1>2. PICK c \in Nat : c = b + 1 /\ c = Len(down) \div BDIV
  OBVIOUS
<1>3. /\ Base \in Nat \ {0} /\ Len(k) \in Nat /\ on_heap + b = Len(k)
  BY BaseFacts
<1>4. ASSUME NEW i \in DOMAIN items
      PROVE  /\ size[i] = Len(Residual(items[i].ent, b))
             /\ Len(items[i].res) = Positive(size[i] - 1)
  <2>1. PICK e \in Keys : /\ e = items[i].ent /\ items[i].first = First(e, c)
                          /\ items[i].res = Residual(e, c)
    BY <1>2, ListsFacts
  <2>2. Agree(e, k, c) /\ Len(e) \in Nat
    BY <1>2, <2>1, ListsAgree, BaseFacts
  <2>3. Len(Residual(e, b)) = Positive(Len(e) - b) /\ Len(Residual(e, c)) = Positive(Len(e) - c)
    BY ResidualFacts
  <2>4. size[i] = Positive(Len(e) - b)
    <3>1. CASE b = 0
      <4>1. size[i] = (Len(k) \div Base) * Base + items[i].first[1]
        BY <1>1, <1>3, <3>1
      <4>2. c = 1
        BY <1>2, <3>1
      <4>3. items[i].first[1] = EncByte(e, 1)
        BY <2>1, <4>2 DEF First
      <4>4. Len(e) \div Base = Len(k) \div Base
        BY <2>2, <4>2, AgreeLen
      <4>5. /\ EncByte(e, 0) = Len(e) \div Base /\ EncByte(e, 0) \in Nat /\ EncByte(e, 1) \in Nat
            /\ Len(e) = Base * EncByte(e, 0) + EncByte(e, 1)
        BY EncBytes
      <4>6. size[i] = Len(e)
        BY <1>3, <4>1, <4>3, <4>4, <4>5
      <4>7. Positive(Len(e) - b) = Len(e)
        BY <2>2, <3>1, PositiveIs
      <4>8. QED
        BY <4>6, <4>7
    <3>2. CASE b # 0
      <4>1. Len(e) = Len(k)
        BY <1>2, <2>2, <3>2, AgreeLen
      <4>2. size[i] = Positive(on_heap)
        BY <1>1, <3>2
      <4>3. QED
        BY <4>1, <4>2
    <3>3. QED
      BY <3>1, <3>2
  <2>5. Positive(size[i] - 1) = Positive(Len(e) - c)
    BY <1>2, <2>2, <2>4 DEF Positive
  <2>6. QED
    BY <2>1, <2>3, <2>4, <2>5
<1>5. QED
  BY <1>1, <1>4 DEF HasSizes

\* A level p at which a byte of path is complete, d being the level above it.
Whole(p, d) ==
  LET b == d \div BDIV
  IN  b \in Nat /\ b + 1 = p \div BDIV /\ (p <= BDIV <=> b = 0)

\* Such a level is one below the last slot of a byte.
LEMMA WholeBytes ==
  ASSUME NEW p \in Nat, NEW d \in Nat, p % BDIV = 0, d + 1 = p PROVE Whole(p, d)
<1>1. PICK b : b = d \div BDIV
  OBVIOUS
<1>2. BDIV \in Nat \ {0}
  BY BaseFacts
<1>3. b \in Nat /\ b + 1 = p \div BDIV
  BY <1>1, NextLevel, LevelByte
<1>4. p = (b + 1) * BDIV
  <2>1. PICK c \in Nat : c = b + 1 /\ c = p \div BDIV
    BY <1>3
  <2>2. p = c * BDIV + 0
    BY <2>1, LevelByte
  <2>3. c * BDIV \in Nat /\ c * BDIV = (b + 1) * BDIV
    BY <1>2, <1>3, <2>1
  <2>4. p = c * BDIV
    BY <2>2, <2>3
  <2>5. QED
    BY <2>3, <2>4
<1>5. ASSUME b = 0 PROVE p <= BDIV
  BY <1>2, <1>4, <1>5
<1>6. ASSUME b # 0 PROVE ~ (p <= BDIV)
  <2>1. PICK c \in Nat : b = c + 1
    <3>1. b - 1 \in Nat /\ b = (b - 1) + 1
      BY <1>3, <1>6
    <3>2. QED
      BY <3>1
  <2>2. c * BDIV \in Nat /\ (b + 1) * BDIV = c * BDIV + BDIV + BDIV
    BY <1>2, <2>1
  <2>3. QED
    BY <1>2, <1>4, <2>2
<1>7. QED
  BY <1>1, <1>3, <1>5, <1>6 DEF Whole

\* The byte y of path goes back to the items, whose sizes are given.
Backs(items, path, t, b, y, size) ==
  /\ path \in Seq(Slots) /\ t \in Slots /\ Lists(items, Append(path, t), <<>>)
  /\ (Len(path) + 1) % BDIV = 0 /\ b = Len(path) \div BDIV
  /\ \A i \in DOMAIN items : y = EncByte(items[i].ent, b)
  /\ \A i \in DOMAIN items : size[i] = Len(Residual(items[i].ent, b))

BackTo(items, path, t, moved) ==
  Lists(moved, path, t) /\ Len(moved) = Len(items) /\ Ents(moved) = Ents(items)

\* inject_byte makes items of the bucket above of them.
LEMMA ListsBackTo ==
  ASSUME NEW items, NEW path, NEW t, NEW b, NEW y, NEW size, Backs(items, path, t, b, y, size)
  PROVE  BackTo(items, path, t, InjectByte(items, y, size))
<1>1. PICK moved : moved = InjectByte(items, y, size)
  OBVIOUS
<1>2. PICK p : p = Len(path) + 1
  OBVIOUS
<1>3. /\ path \in Seq(Slots) /\ t \in Slots /\ Lists(items, Append(path, t), <<>>)
      /\ p % BDIV = 0 /\ b = Len(path) \div BDIV
      /\ \A i \in DOMAIN items : y = EncByte(items[i].ent, b)
      /\ \A i \in DOMAIN items : size[i] = Len(Residual(items[i].ent, b))
  BY <1>2 DEF Backs
<1>4. Lists(moved, path, t) /\ Len(moved) = Len(items) /\ Ents(moved) = Ents(items)
  BY <1>1, <1>2, <1>3, ListsBack
<1>5. QED
  BY <1>1, <1>4 DEF BackTo

\* What readd_byte makes of the items of its bucket, and of the call that goes on.
Readded(n, up, t, path, items, moved, k, size, p) ==
  /\ Lists(moved, path, t) /\ Len(moved) = Len(items) /\ Ents(moved) = Ents(items)
  /\ node' = [node EXCEPT ![n] = [prefix |-> t, parent |-> up, items |-> moved]]
  /\ size = Len(k) - p \div BDIV /\ ~ fault'
  /\ \E later : stack' = <<Frame("merge_down", n, Null, size, p), later>> \o Tail(stack)

\* readd_byte does that, and goes on with the size one byte further up.
LEMMA ReaddedIs ==
  ASSUME PathInv, ReaddByte, NEW n, n = Top.node, NEW f \in FwdIds, f = node[n].parent, f # Root,
         NEW items, items = node[n].items, items # <<>>,
         NEW up, up = fwd[f].parent, NEW t, t = fwd[f].path, NEW path, path = PathTo(up),
         Lists(items, PathTo(f), <<>>), Top.p = Level(f),
         NEW k \in Keys, Spells(k, f), Top.size = Len(k) - Top.p \div BDIV
  PROVE  \E moved, size, p : Readded(n, up, t, path, items, moved, k, size, p)
<1>1. PICK down : down = PathTo(f)
  OBVIOUS
<1>2. PICK p \in Nat : p = Level(f) /\ Top.p = p
  BY PathFacts
<1>3. /\ path \in Seq(Slots) /\ t \in Slots /\ down = Append(path, t)
      /\ Len(path) \in Nat /\ p = Len(path) + 1 /\ p \in Nat
  <2>1. /\ up \in FwdIds /\ t \in Slots /\ down = Append(path, t) /\ Level(f) = Level(up) + 1
    BY <1>1, PathFacts
  <2>2. path \in Seq(Slots) /\ Level(up) \in Nat /\ Level(up) = Len(path)
    BY <2>1, PathFacts DEF Level
  <2>3. p = Len(path) + 1 /\ Len(path) \in Nat
    BY ZenonT(60), <1>2, <2>1, <2>2
  <2>4. QED
    BY ZenonT(60), <2>1, <2>2, <2>3
<1>4. PICK d \in Nat : d = Len(path) /\ d + 1 = p /\ d = p - 1
  <2>1. PICK m \in Nat : m = Len(path) /\ p = m + 1
    BY <1>3
  <2>2. m + 1 = p /\ m = p - 1
    BY <2>1
  <2>3. QED
    BY <2>1, <2>2
<1>5. Starts(k, down) /\ Len(down) = p
  BY <1>1, <1>2 DEF Spells, Level
<1>6. Lists(items, Append(path, t), <<>>)
  BY <1>1, <1>3
<1>7. Len(k) \in Nat /\ BDIV \in Nat \ {0}
  BY BaseFacts
<1>8. CASE p % BDIV # 0
  <2>1. /\ node' = [node EXCEPT ![n] = [prefix |-> t, parent |-> up, items |-> items]]
        /\ fault' = FALSE
        /\ \E later : stack' = <<Frame("merge_down", n, Null, Top.size, p - 1), later>> \o Tail(stack)
    BY ZenonT(60), <1>2, <1>8 DEF ReaddByte
  <2>2. Lists(items, path, t)
    BY ZenonT(60), <1>3, <1>6, <1>8, ListsUp
  <2>3. d \div BDIV = p \div BDIV
    BY ZenonT(60), <1>3, <1>4, <1>8, NextLevel
  <2>4. Readded(n, up, t, path, items, items, k, Top.size, d)
    BY <1>2, <1>4, <2>1, <2>2, <2>3 DEF Readded
  <2>5. QED
    BY <2>4
<1>9. CASE p % BDIV = 0
  <2>1. PICK b : b = d \div BDIV /\ b = Len(path) \div BDIV
    BY <1>4
  <2>2. b \in Nat /\ b + 1 = p \div BDIV /\ (p <= BDIV <=> b = 0)
    <3>1. Whole(p, d)
      BY <1>4, <1>9, WholeBytes
    <3>2. QED
      BY <2>1, <3>1 DEF Whole
  <2>3. PICK on_heap : on_heap = Top.size + 1
    OBVIOUS
  <2>4. on_heap = Len(k) - b
    BY <1>2, <1>7, <2>2, <2>3
  <2>5. p \div BDIV - 1 = b
    BY <2>2
  <2> DEFINE Sizes == [i \in DOMAIN node[Top.node].items |->
                         IF Top.p <= BDIV
                         THEN ((Top.size + 1 + (Top.p \div BDIV - 1)) \div Base) * Base
                              + node[Top.node].items[i].first[1]
                         ELSE Positive(Top.size + 1)]
  <2>6. PICK size : size = Sizes
    OBVIOUS
  <2>7. /\ \E y \in GetByte(f) :
             node' = [node EXCEPT ![n] = [prefix |-> t, parent |-> up,
                                          items |-> InjectByte(items, y, size)]]
        /\ fault' = \E i \in DOMAIN items : Len(items[i].res) # Positive(size[i] - 1)
        /\ \E later : stack' = <<Frame("merge_down", n, Null, on_heap, p - 1), later>> \o Tail(stack)
    <3>1. Top.p % BDIV = 0
      BY <1>2, <1>9
    <3>2. /\ \E y \in GetByte(node[Top.node].parent) :
               node' = [node EXCEPT ![Top.node] =
                          [prefix |-> fwd[node[Top.node].parent].path,
                           parent |-> fwd[node[Top.node].parent].parent,
                           items |-> InjectByte(node[Top.node].items, y, Sizes)]]
          /\ fault' = \E i \in DOMAIN node[Top.node].items :
                         Len(node[Top.node].items[i].res) # Positive(Sizes[i] - 1)
          /\ \E later : stack' = <<Frame("merge_down", Top.node, Null, Top.size + 1, Top.p - 1), later>>
                                    \o Tail(stack)
      BY ZenonT(60), <3>1 DEF ReaddByte
    <3> HIDE DEF Sizes
    <3>3. QED
      BY <1>2, <2>3, <2>6, <3>2
  <2>8. PICK y \in GetByte(f) :
          node' = [node EXCEPT ![n] = [prefix |-> t, parent |-> up,
                                       items |-> InjectByte(items, y, size)]]
    BY <2>7
  <2>9. PICK moved : moved = InjectByte(items, y, size)
    OBVIOUS
  <2>10. size = BackSize(items, p, on_heap, b)
    BY <1>2, <2>3, <2>5, <2>6 DEF BackSize
  <2> HIDE DEF Sizes
  <2>11. Lists(items, down, <<>>) /\ b + 1 = Len(down) \div BDIV
    BY <1>3, <1>5, <1>6, <2>2
  <2>12. \A i \in DOMAIN items : /\ size[i] = Len(Residual(items[i].ent, b))
                                 /\ Len(items[i].res) = Positive(size[i] - 1)
    <3>1. HasSizes(items, b, BackSize(items, p, on_heap, b))
      BY <1>5, <2>2, <2>4, <2>11, BackSizes
    <3>2. QED
      BY <2>10, <3>1 DEF HasSizes
  <2>13. \A i \in DOMAIN items : y = EncByte(items[i].ent, b)
    <3>1. ASSUME NEW i \in DOMAIN items PROVE y = EncByte(items[i].ent, b)
      <4>1. PICK e \in Keys : e = items[i].ent /\ Starts(e, down)
        BY <1>1, ListsFacts
      <4>2. Spells(e, f) /\ Level(f) = p
        BY <1>1, <1>2, <4>1 DEF Spells
      <4>3. y = EncByte(e, b)
        BY <1>9, <2>2, <4>2, GetByteIs
      <4>4. QED
        BY <4>1, <4>3
    <3>2. QED
      BY <3>1
  <2>14. Lists(moved, path, t) /\ Len(moved) = Len(items) /\ Ents(moved) = Ents(items)
    <3>1. Backs(items, path, t, b, y, size)
      BY <1>3, <1>6, <1>9, <2>1, <2>12, <2>13 DEF Backs
    <3>2. BackTo(items, path, t, InjectByte(items, y, size))
      BY <3>1, ListsBackTo
    <3>3. QED
      BY <2>9, <3>2 DEF BackTo
  <2>15. ~ fault'
    BY <2>7, <2>12
  <2>16. Readded(n, up, t, path, items, moved, k, on_heap, d)
    BY <1>4, <2>1, <2>4, <2>7, <2>8, <2>9, <2>14, <2>15 DEF Readded
  <2>17. QED
    BY <2>16
<1>10. QED
  BY <1>8, <1>9

\* readd_byte.
LEMMA ReaddByteContent ==
  ASSUME <<>> \notin Keys, TreeInv, TreeInv', PathInv, LevelInv, KeepPlaces, ContentInv, ReaddByte
  PROVE  ContentInv'
<1>1. PICK n, f, items : n = Top.node /\ f = node[n].parent /\ items = node[n].items
  OBVIOUS
<1>2. PICK up, t : up = fwd[f].parent /\ t = fwd[f].path
  OBVIOUS
<1>3. PICK path : path = PathTo(up)
  OBVIOUS
<1>4. /\ Merging /\ Running("merge_down") /\ node[n].prefix = <<>> /\ items # <<>> /\ f # Root
      /\ entry' = entry
  BY <1>1 DEF ReaddByte, Merging
<1>5. /\ n \in nodes /\ n \in NodeIds /\ nodes \subseteq NodeIds /\ stack # <<>>
      /\ ~ Running("split") /\ node \in [NodeIds -> Node]
      /\ Lists(items, PathTo(f), <<>>) /\ f \in fwds /\ f \in FwdIds
  BY <1>1, <1>4, MergeFacts
<1>6. Top.p = Level(f)
  BY <1>1, <1>4, ByteLevel DEF ByteIsLevel, Level
<1>7. ~ AllSettled(nodes)
  <2>1. ~ (Count(n) > MergeBound)
    BY <1>1, <1>4, MergingSmall
  <2>2. QED
    BY <1>1, <1>4, <1>5, <2>1 DEF AllSettled, Settled
<1>8. PICK k \in Keys : Spells(k, f) /\ Top.size = Len(k) - Top.p \div BDIV
  BY <1>1, <1>4, <1>7, MergingSize
<1>9. PICK moved, size, p : Readded(n, up, t, path, items, moved, k, size, p)
  BY ZenonT(60), <1>1, <1>2, <1>3, <1>4, <1>5, <1>6, <1>8, ReaddedIs
<1>10. /\ Lists(moved, path, t) /\ Len(moved) = Len(items) /\ Ents(moved) = Ents(items)
       /\ node' = [node EXCEPT ![n] = [prefix |-> t, parent |-> up, items |-> moved]]
       /\ size = Len(k) - p \div BDIV /\ ~ fault'
  BY <1>9 DEF Readded
<1>11. fwds' = fwds \ {f} /\ nodes' = nodes
  BY <1>1, <1>2, ReaddByteParts DEF ReaddedTo
<1>12. up \in fwds /\ up # f /\ up \in FwdIds
  BY <1>2, <1>4, <1>5, PathOf, Addresses DEF TreeInv
<1>13. PathFn(fwd')[up] = path
  BY <1>3, <1>11, <1>12, PathStays
<1>14. Starts(k, path)
  <2>1. PathTo(f) = Append(path, t) /\ t \in Slots /\ path \in Seq(Slots)
    BY <1>2, <1>3, <1>4, <1>5, <1>12, PathFacts
  <2>2. QED
    BY <1>8, <2>1, StartsAppend DEF Spells
<1>15. /\ node'[n].prefix = t /\ node'[n].parent = up /\ node'[n].items = moved
       /\ \A c \in nodes' : c # n => c \in nodes /\ node'[c] = node[c]
  BY <1>5, <1>10, <1>11
<1>16. ItemsOK'
  <2>1. Lists(node'[n].items, PathFn(fwd')[node'[n].parent], node'[n].prefix)
    BY <1>10, <1>13, <1>15
  <2>2. QED
    BY <1>15, <2>1, ItemsStep DEF ContentInv
<1>17. PathsEnd'
  BY <1>11, EndsStep DEF ContentInv
<1>18. FullOK'
  <2>1. Len(node'[n].items) < SPLITBOUND
    BY <1>1, <1>4, <1>10, <1>15, MergingSmall DEF Count
  <2>2. QED
    BY <1>5, <1>15, <2>1, FullStep DEF ContentInv
<1>19. EntriesPointHome'
  <2>1. \A c \in nodes' : c \in nodes /\ Ents(node'[c].items) = Ents(node[c].items)
    BY <1>1, <1>10, <1>11, <1>15
  <2>2. QED
    BY <1>4, <1>11, <2>1, HomeStays DEF ContentInv
<1>20. SizesOK'
  <2>1. PICK later : stack' = <<Frame("merge_down", n, Null, size, p), later>> \o Tail(stack)
    BY <1>9 DEF Readded
  <2>2. stack' # <<>> /\ Top' = Frame("merge_down", n, Null, size, p)
    <3>1. Tail(stack) \in Seq(Frames)
      BY <1>5, StackType DEF TreeInv, TypeOK
    <3>2. QED
      BY <2>1, <3>1 DEF Top
  <2>3. Starts(k, PathFn(fwd')[node'[n].parent])
    BY <1>13, <1>14, <1>15
  <2>4. QED
    BY <1>10, <2>2, <2>3, MergeSize
<1>21. QED
  BY <1>10, <1>16, <1>17, <1>18, <1>19, <1>20 DEF ContentInv

-----------------------------------------------------------------------------
(* All steps *)

\* No step.
LEMMA StutterContent ==
  ASSUME ContentInv, UNCHANGED vars
  PROVE  ContentInv' /\ Stored' = Stored
<1>1. UNCHANGED <<fwds, fwd, nodes, node, entry, stack, fault>>
  BY DEF vars
<1>2. ~ fault' /\ ItemsOK' /\ PathsEnd' /\ FullOK' /\ EntriesPointHome'
  BY <1>1, PartsNow, PartsNext DEF ContentInv
<1>3. SizesOK'
  <2>1. Top' = Top
    BY <1>1 DEF Top
  <2>2. PathFn(fwd')[node'[Top.node].parent] = PathTo(node[Top.node].parent)
    BY <1>1, PathValue
  <2>3. AllSettled(nodes)' <=> AllSettled(nodes)
    BY <1>1 DEF AllSettled, Settled, Count, Alone, Buddies, MergeBound
  <2>4. Count(Top.node)' = Count(Top.node)
    BY <1>1, <2>1 DEF Count
  <2>5. SizesOK
    BY DEF ContentInv
  <2>6. CASE stack # <<>> /\ Top.fn = "split"
    <3>1. \E k \in Ents(node'[Top.node].items) : Top.size = Len(k) - Top.p \div BDIV
      BY <1>1, <2>5, <2>6 DEF SizesOK
    <3>2. QED
      BY <1>1, <2>1, <2>6, <3>1 DEF SizesOK
  <2>7. CASE stack # <<>> /\ Top.fn = "merge_down"
    <3>1. \/ \E k \in Keys : /\ Spells(k, node[Top.node].parent)
                             /\ Top.size = Len(k) - Top.p \div BDIV
          \/ Count(Top.node) > MergeBound
          \/ AllSettled(nodes)
      BY <2>5, <2>7 DEF SizesOK
    <3>2. UNCHANGED vars
      OBVIOUS
    <3>3. QED
      BY <1>1, <2>1, <2>2, <2>3, <2>4, <2>7, <3>1 DEF SizesOK, Spells, PathTo
  <2>8. CASE ~ (stack # <<>> /\ Top.fn \in {"split", "merge_down"})
    BY <1>1, <2>1, <2>8 DEF SizesOK
  <2>9. QED
    BY <2>6, <2>7, <2>8
<1>4. QED
  BY <1>1, <1>2, <1>3 DEF ContentInv, Stored

\* Every step keeps the invariant.
LEMMA NextContent ==
  ASSUME <<>> \notin Keys, TreeInv, TreeInv', ShapeInv, PathInv, LevelInv, ContentInv, [Next]_vars
  PROVE  ContentInv'
<1>1. KeepPlaces
  BY NextPlaces
<1>2. ASSUME NEW k \in Keys, InsertInNewBucket(k) PROVE ContentInv'
  BY <1>1, <1>2, InsertInNewBucketContent
<1>3. ASSUME NEW k \in Keys, InsertInBucket(k) PROVE ContentInv'
  BY <1>1, <1>3, InsertInBucketContent
<1>4. ASSUME NEW k \in Keys, Erase(k) PROVE ContentInv'
  BY <1>1, <1>4, EraseContent
<1>5. ASSUME NEW k \in Keys, LookUp(k) PROVE ContentInv'
  BY <1>1, <1>5, LookUpContent
<1>6. CASE Destroy
  BY <1>6, DestroyContent
<1>7. CASE SplitNode
  BY <1>1, <1>7, SplitNodeContent
<1>8. CASE SplitExhausted
  BY <1>1, <1>8, SplitExhaustedContent
<1>9. CASE SplitFwd
  BY <1>1, <1>9, SplitFwdContent
<1>10. CASE MergeDownStop
  BY <1>1, <1>10, MergeDownStopContent
<1>11. CASE ReaddByte
  BY <1>1, <1>11, ReaddByteContent
<1>12. CASE AfterReadd
  BY <1>1, <1>12, AfterReaddContent
<1>13. CASE MergeEmpty
  BY <1>1, <1>13, MergeEmptyContent
<1>14. CASE Climb
  BY <1>1, <1>14, ClimbContent
<1>15. CASE MergeFiner
  BY <1>1, <1>15, MergeFinerContent
<1>16. CASE MergeBuddy
  BY <1>1, <1>16, MergeBuddyContent
<1>17. CASE MergeFwd
  BY <1>1, <1>17, MergeFwdContent
<1>18. CASE UNCHANGED vars
  BY <1>18, StutterContent
<1>19. QED
  BY <1>2, <1>3, <1>4, <1>5, <1>6, <1>7, <1>8, <1>9, <1>10, <1>11, <1>12, <1>13, <1>14, <1>15,
     <1>16, <1>17, <1>18 DEF Next, Continue

\* At the start there is nothing but the root.
LEMMA InitContent ==
  ASSUME Init PROVE ContentInv
<1>1. fwds = {Root} /\ nodes = {} /\ stack = <<>> /\ fault = FALSE
  BY DEF Init
<1>2. \A k \in Keys : entry[k] = Null
  BY DEF Init
<1>3. QED
  BY <1>1, <1>2 DEF ContentInv, ItemsOK, PathsEnd, FullOK, SizesOK, EntriesPointHome, Stored

\* For every value of the constants, and after any operations on keys that are not empty:
\* no operation computes a wrong size or uses a bucket that is gone, items are the rests of
\* their keys in order, and full buckets are split (insert, erase and all they call).
THEOREM ContentsHold ==
  ASSUME <<>> \notin Keys PROVE Spec => []ContentInv
<1>1. Init => ContentInv
  BY InitContent
<1>2. TreeInv /\ TreeInv' /\ ShapeInv /\ PathInv /\ LevelInv /\ ContentInv /\ [Next]_vars
        => ContentInv'
  BY NextContent
<1>3. QED
  BY <1>1, <1>2, TreeHolds, ShapeHolds, PathsHold, PTL DEF Spec

-----------------------------------------------------------------------------
(* What follows of the operations *)

\* The order of the items of a bucket, and the rest of what ItemsOK says of them.
LEMMA ItemsAre ==
  ASSUME TreeInv, PathInv, ContentInv PROVE ItemsEncodeKeys /\ BucketsSorted
<1> SUFFICES ASSUME NEW n \in nodes
             PROVE  /\ \A i \in DOMAIN node[n].items :
                         LET it == node[n].items[i]
                             path == PathTo(node[n].parent)
                             b == Len(path) \div BDIV
                         IN  /\ \A j \in DOMAIN path : path[j] = Slot(it.ent, j - 1)
                             /\ Covers(node[n].prefix, Slot(it.ent, Len(path)))
                             /\ it.first = First(it.ent, b) /\ it.res = Residual(it.ent, b)
                    /\ \A i \in 1 .. Len(node[n].items) - 1 :
                         LET x == node[n].items[i]
                             y == node[n].items[i + 1]
                         IN  ItemLess(x.first, x.res, y.first, y.res)
  BY DEF ItemsEncodeKeys, BucketsSorted
<1>1. PICK items, path, q : items = node[n].items /\ path = PathTo(node[n].parent)
                            /\ q = node[n].prefix
  OBVIOUS
<1>2. PICK b : b = Len(path) \div BDIV
  OBVIOUS
<1>3. Lists(items, path, q)
  BY <1>1, Held DEF ContentInv
<1>4. /\ b \in Nat /\ DOMAIN items = 1 .. Len(items) /\ Len(items) \in Nat
      /\ \A i \in DOMAIN items :
           /\ items[i].ent \in Keys /\ items[i].first = First(items[i].ent, b)
           /\ items[i].res = Residual(items[i].ent, b)
           /\ Belongs(items[i].ent, path, q) /\ Starts(items[i].ent, path)
      /\ \A i, j \in DOMAIN items : i < j => EncLess(items[i].ent, items[j].ent)
  BY <1>2, <1>3, ListsFacts
<1>5. ASSUME NEW i \in 1 .. Len(items) - 1
      PROVE  ItemLess(items[i].first, items[i].res, items[i + 1].first, items[i + 1].res)
  <2>1. PICK j \in DOMAIN items : j = i + 1
    BY <1>4
  <2>2. i \in DOMAIN items /\ i < j
    BY <1>4, <2>1
  <2>3. PICK k \in Keys, l \in Keys : k = items[i].ent /\ l = items[j].ent
    BY <1>4, <2>2
  <2>4. EncLess(k, l)
    BY <1>4, <2>2, <2>3
  <2>5. Agree(k, l, b)
    BY <1>2, <1>3, <1>4, <2>1, <2>2, <2>3, ListsAgree
  <2>6. ItemLess(First(k, b), Residual(k, b), First(l, b), Residual(l, b))
    BY <1>4, <2>4, <2>5, ItemOrder
  <2>7. QED
    BY <1>4, <2>1, <2>2, <2>3, <2>6
<1>6. QED
  BY <1>1, <1>2, <1>4, <1>5 DEF Belongs, Starts

\* best_match finds the keys that have an entry.
LEMMA FoundAre ==
  ASSUME <<>> \notin Keys, TreeInv, PathInv, ContentInv PROVE LookupsExact
<1> SUFFICES ASSUME NEW k \in Keys
             PROVE  /\ Located(k, BestMatch(k))
                    /\ BestMatch(k).found <=> k \in Stored
  BY DEF LookupsExact
<1>1. PICK m : m = BestMatch(k)
  OBVIOUS
<1>2. Located(k, m) /\ (m.base \in NodeIds => m.base \in nodes)
  BY <1>1, Places
<1>3. Matched(k, m)
  BY <1>1, Matching DEF ContentInv
<1>4. nodes \subseteq NodeIds /\ Null \notin NodeIds
  BY PTrieAssumption, Addresses DEF TreeInv
<1>5. m.found => k \in Stored
  <2>1. m.found => m.base \in nodes /\ k \in Ents(node[m.base].items)
    BY <1>2, <1>3 DEF Matched
  <2>2. QED
    BY <1>4, <2>1 DEF ContentInv, EntriesPointHome, Stored
<1>6. k \in Stored => m.found
  <2>1. k \in Stored => entry[k] \in nodes /\ k \in Ents(node[entry[k]].items)
    BY DEF ContentInv, EntriesPointHome
  <2>2. QED
    BY <1>3, <1>4, <2>1 DEF Matched
<1>7. QED
  BY <1>1, <1>2, <1>5, <1>6

\* Buckets between operations.
LEMMA BucketsAre ==
  ASSUME TreeInv, ShapeInv, PathInv, ContentInv PROVE BucketsBounded
<1> SUFFICES ASSUME stack = <<>>, NEW n \in nodes
             PROVE  /\ node[n].items # <<>>
                    /\ Len(node[n].items) >= SPLITBOUND =>
                         \A k \in Ents(node[n].items) :
                           Len(k) + 1 = Len(PathTo(node[n].parent)) \div BDIV
  BY DEF BucketsBounded
<1>1. Count(n) > 0
  BY DEF ShapeInv, Phases, AllSettled, Settled
<1>2. node[n].items # <<>>
  BY <1>1 DEF Count
<1>3. QED
  BY <1>2 DEF ContentInv, FullOK, Running, Count, Level

\* The keys whose items are found at the end of their paths are those with an entry.
LEMMA ContentsAreStored ==
  ASSUME TreeInv, PathInv, ContentInv PROVE Contents = Stored
<1>1. nodes \subseteq NodeIds /\ Null \notin NodeIds /\ fwds \subseteq FwdIds
      /\ FwdIds \cap NodeIds = {}
  BY PTrieAssumption, Addresses DEF TreeInv
<1>2. ASSUME NEW k \in Keys, k \in Stored PROVE k \in Contents
  <2>1. PICK n \in nodes : k \in Ents(node[n].items)
    BY <1>2 DEF ContentInv, EntriesPointHome
  <2>2. PICK path, b : path = PathTo(node[n].parent) /\ b = Len(path) \div BDIV
    OBVIOUS
  <2>3. Lists(node[n].items, path, node[n].prefix)
    BY <2>2, Held DEF ContentInv
  <2>4. PICK pos : pos = FastForward(k)
    OBVIOUS
  <2>5. pos.base = n /\ pos.p \div BDIV = b
    BY <2>1, <2>2, <2>4, Homing DEF ContentInv, Level
  <2>6. PICK i \in DOMAIN node[n].items : node[n].items[i].ent = k
    BY <2>1, EntsAre
  <2>7. node[n].items[i].first = First(k, b) /\ node[n].items[i].res = Residual(k, b)
    BY <2>2, <2>3, <2>6, ListsFacts
  <2>8. QED
    BY <1>1, <2>4, <2>5, <2>7 DEF Contents
<1>3. ASSUME NEW k \in Keys, k \in Contents PROVE k \in Stored
  <2>1. PICK f, c :
           /\ f \in fwds /\ FastForward(k) = [fwd |-> f, base |-> c, p |-> Level(f)]
           /\ Spells(k, f) /\ c = fwd[f].children[Slot(k, Level(f))]
           /\ c # f => /\ c \in nodes /\ c \in NodeIds /\ node[c].parent = f
                       /\ Covers(node[c].prefix, Slot(k, Level(f)))
    BY FastForwardEnds
  <2>2. PICK path, b : path = PathTo(f) /\ b = Len(path) \div BDIV
    OBVIOUS
  <2>3. PICK pos : pos = FastForward(k)
    OBVIOUS
  <2>4. pos.base = c /\ pos.p \div BDIV = b
    BY <2>1, <2>2, <2>3 DEF Level
  <2>5. c \in NodeIds /\ \E i \in DOMAIN node[c].items :
          node[c].items[i].first = First(k, b) /\ node[c].items[i].res = Residual(k, b)
    BY <1>3, <2>3, <2>4 DEF Contents
  <2>6. c \in nodes /\ node[c].parent = f
    BY <1>1, <2>1, <2>5
  <2>7. PICK i \in DOMAIN node[c].items :
          node[c].items[i].first = First(k, b) /\ node[c].items[i].res = Residual(k, b)
    BY <2>5
  <2>8. Lists(node[c].items, path, node[c].prefix) /\ path \in Seq(Slots)
    BY <2>2, <2>6, Held DEF ContentInv
  <2>9. PICK l : l = node[c].items[i].ent
    OBVIOUS
  <2>10. /\ l \in Keys /\ First(l, b) = First(k, b) /\ Residual(l, b) = Residual(k, b)
         /\ b \in Nat
    BY <2>2, <2>7, <2>8, <2>9, ListsFacts
  <2>11. Agree(l, k, b)
    BY <2>1, <2>2, <2>8, <2>9, ListsAgree DEF Spells
  <2>12. l = k
    BY <2>10, <2>11, ItemTells
  <2>13. k \in Ents(node[c].items)
    BY <2>9, <2>12, EntsAre
  <2>14. entry[k] = c
    BY <2>6, <2>13 DEF ContentInv, EntriesPointHome
  <2>15. QED
    BY <1>1, <2>6, <2>14 DEF Stored
<1>4. QED
  BY <1>2, <1>3 DEF Contents, Stored

\* No step inside an insert or an erase makes or drops an entry.
LEMMA ContinueStored ==
  ASSUME <<>> \notin Keys, TreeInv, TreeInv', ShapeInv, PathInv, LevelInv, ContentInv, Continue
  PROVE  Stored' = Stored
<1>1. KeepPlaces
  <2>1. Next
    BY DEF Next
  <2>2. QED
    BY <2>1, NextPlaces
<1>2. CASE SplitNode
  BY <1>1, <1>2, SplitNodeContent
<1>3. CASE SplitFwd
  BY <1>1, <1>3, SplitFwdContent
<1>4. CASE MergeBuddy
  BY <1>1, <1>4, MergeBuddyContent
<1>5. CASE entry' = entry
  BY <1>5 DEF Stored
<1>6. SplitExhausted \/ MergeDownStop \/ ReaddByte \/ AfterReadd \/ MergeEmpty \/ Climb
         \/ MergeFiner \/ MergeFwd => entry' = entry
  BY DEF SplitExhausted, MergeDownStop, ReaddByte, AfterReadd, MergeEmpty, Climb, MergeFiner,
         MergeFwd
<1>7. QED
  BY <1>2, <1>3, <1>4, <1>5, <1>6 DEF Continue

\* An insert that changes anything is of a key that had no entry, and gives it one.
LEMMA InsertStored ==
  ASSUME <<>> \notin Keys, TreeInv, PathInv, ContentInv,
         NEW k \in Keys, InsertInNewBucket(k) \/ InsertInBucket(k)
  PROVE  k \notin Stored /\ Stored' = Stored \cup {k}
<1>1. entry \in [Keys -> NodeIds \cup {Null}] /\ Null \notin NodeIds /\ FwdIds \cap NodeIds = {}
  BY PTrieAssumption DEF TreeInv, TypeOK, BucketsOK
<1>2. Located(k, BestMatch(k)) /\ (BestMatch(k).found <=> k \in Stored)
  BY FoundAre DEF LookupsExact
<1>3. ~ BestMatch(k).found /\ \E n \in NodeIds : entry' = [entry EXCEPT ![k] = n]
  <2>1. CASE InsertInNewBucket(k)
    <3>1. PICK n : n = FreshNode
      OBVIOUS
    <3>2. n \in NodeIds
      BY <2>1, <3>1, Addresses DEF InsertInNewBucket, FreshNode, TreeInv
    <3>3. entry' = [entry EXCEPT ![k] = n]
      BY <2>1, <3>1 DEF InsertInNewBucket, AddItem
    <3>4. BestMatch(k).base = BestMatch(k).fwd
      BY <2>1 DEF InsertInNewBucket
    <3>5. BestMatch(k).base \notin NodeIds
      BY <1>1, <1>2, <3>4 DEF Located
    <3>6. ~ BestMatch(k).found
      BY <3>5 DEF BestMatch
    <3>7. QED
      BY <3>2, <3>3, <3>6
  <2>2. CASE InsertInBucket(k)
    <3>1. PICK n : n = BestMatch(k).base
      OBVIOUS
    <3>2. n \in NodeIds /\ entry' = [entry EXCEPT ![k] = n] /\ ~ BestMatch(k).found
      BY <2>2, <3>1 DEF InsertInBucket, AddItem
    <3>3. QED
      BY <3>2
  <2>3. QED
    BY <2>1, <2>2
<1>4. PICK n \in NodeIds : entry' = [entry EXCEPT ![k] = n]
  BY <1>3
<1>5. Stored' = Stored \cup {k}
  BY <1>1, <1>4 DEF Stored
<1>6. QED
  BY <1>2, <1>3, <1>5

\* The keys with an entry change as the abstract set does, operation by operation.
LEMMA NextStored ==
  ASSUME <<>> \notin Keys, TreeInv, TreeInv', ShapeInv, PathInv, LevelInv, ContentInv
  PROVE  /\ \A k \in Keys :
              /\ InsertInNewBucket(k) \/ InsertInBucket(k) =>
                   k \notin Stored /\ Stored' = Stored \cup {k}
              /\ Erase(k) => k \in Stored /\ Stored' = Stored \ {k}
              /\ LookUp(k) => Stored' = Stored
         /\ Destroy => Stored' = {}
         /\ Continue => Stored' = Stored
<1>1. entry \in [Keys -> NodeIds \cup {Null}] /\ Null \notin NodeIds
  BY PTrieAssumption DEF TreeInv, TypeOK, BucketsOK
<1>2. ASSUME NEW k \in Keys, Erase(k) PROVE k \in Stored /\ Stored' = Stored \ {k}
  <2>1. entry' = [entry EXCEPT ![k] = Null] /\ BestMatch(k).found
    BY <1>2 DEF Erase
  <2>2. k \in Stored
    BY <2>1, FoundAre DEF LookupsExact
  <2>3. Stored' = Stored \ {k}
    BY <1>1, <2>1 DEF Stored
  <2>4. QED
    BY <2>2, <2>3
<1>3. ASSUME NEW k \in Keys, LookUp(k) PROVE Stored' = Stored
  BY <1>3 DEF LookUp, Stored
<1>4. ASSUME Destroy PROVE Stored' = {}
  <2>1. entry' = [k \in Keys |-> Null]
    BY <1>4 DEF Destroy
  <2>2. QED
    BY <2>1 DEF Stored
<1>5. ASSUME Continue PROVE Stored' = Stored
  BY <1>5, ContinueStored
<1>6. ASSUME NEW k \in Keys, InsertInNewBucket(k) \/ InsertInBucket(k)
      PROVE  k \notin Stored /\ Stored' = Stored \cup {k}
  BY <1>6, InsertStored
<1>7. QED
  BY <1>2, <1>3, <1>4, <1>5, <1>6

\* What each operation does to the contents of the trie.
OperationsOnSet ==
  /\ \A k \in Keys :
       /\ InsertInNewBucket(k) \/ InsertInBucket(k) => Abs!Insert(k)
       /\ Erase(k) => Abs!Erase(k)
       /\ LookUp(k) => UNCHANGED Contents
  /\ Destroy => Abs!Clear
  /\ Continue => UNCHANGED Contents

-----------------------------------------------------------------------------
(* The properties of the operations *)

\* No size that an operation computes differs from that of the data it reads or frees,
\* and no call is left with a bucket that is gone.
THEOREM NothingFails ==
  ASSUME <<>> \notin Keys PROVE Spec => []NoFault
<1>1. ContentInv => NoFault
  BY DEF ContentInv, NoFault
<1>2. QED
  BY <1>1, ContentsHold, PTL

\* The items of the trie spell its keys, whatever has moved them or cut bytes off them
\* (insert, split_node, split_fwd, readd_byte, merge_regular).
THEOREM ItemsHold ==
  ASSUME <<>> \notin Keys PROVE Spec => []ItemsEncodeKeys
<1>1. TreeInv /\ PathInv /\ ContentInv => ItemsEncodeKeys
  BY ItemsAre
<1>2. QED
  BY <1>1, TreeHolds, PathsHold, ContentsHold, PTL

\* Every bucket is in the order in which bucket_search compares, through all splits and
\* merges (merge_nodes puts the items of the lower buddy first).
THEOREM OrderHolds ==
  ASSUME <<>> \notin Keys PROVE Spec => []BucketsSorted
<1>1. TreeInv /\ PathInv /\ ContentInv => BucketsSorted
  BY ItemsAre
<1>2. QED
  BY <1>1, TreeHolds, PathsHold, ContentsHold, PTL

\* _node of a stored key's entry is the one bucket that holds the key, between any two steps
\* of insert, split_node, split_fwd and the merges: what find_metadata relies on.
THEOREM EntriesHold ==
  ASSUME <<>> \notin Keys PROVE Spec => []EntriesPointHome
<1>1. ContentInv => EntriesPointHome
  BY DEF ContentInv
<1>2. QED
  BY <1>1, ContentsHold, PTL

\* best_match, and with it exists, insert and erase, finds exactly the keys that were
\* inserted and not erased since, in the middle of a split or of a chain of merges too.
THEOREM LookupsHold ==
  ASSUME <<>> \notin Keys PROVE Spec => []LookupsExact
<1>1. TreeInv /\ PathInv /\ ContentInv => LookupsExact
  BY FoundAre
<1>2. QED
  BY <1>1, TreeHolds, PathsHold, ContentsHold, PTL

\* When an insert or an erase has returned, no bucket is empty, and a bucket that holds
\* SPLITBOUND keys or more holds keys without bytes to branch on (split_fwd, merge_down).
THEOREM BoundsHold ==
  ASSUME <<>> \notin Keys PROVE Spec => []BucketsBounded
<1>1. TreeInv /\ ShapeInv /\ PathInv /\ ContentInv => BucketsBounded
  BY BucketsAre
<1>2. QED
  BY <1>1, TreeHolds, ShapeHolds, PathsHold, ContentsHold, PTL

\* The trie implements a set of keys: to what is found at the ends of the keys' paths insert
\* adds the key it is called with, erase takes away its own, the destructor takes all, and a
\* step of split_node, split_fwd, readd_byte, merge_empty or merge_regular does nothing.
THEOREM TrieImplementsKeySet ==
  ASSUME <<>> \notin Keys PROVE Spec => ImplementsKeySet
<1>1. TreeInv /\ PathInv /\ ContentInv => Contents = Stored
  BY ContentsAreStored
<1>2. Init => Stored = {}
  BY DEF Init, Stored
<1>3. Contents = Stored /\ Stored = {} => Abs!KInit
  BY DEF Abs!KInit
<1>4. ASSUME TreeInv, TreeInv', ShapeInv, PathInv, LevelInv, ContentInv,
             Contents = Stored, (Contents = Stored)'
      PROVE  OperationsOnSet
  <2>1. Contents = Stored /\ Contents' = Stored'
    BY <1>4
  <2> HIDE DEF Contents, Stored
  <2>2. QED
    BY <1>4, <2>1, NextStored DEF OperationsOnSet, Abs!Insert, Abs!Erase, Abs!Clear
<1>5. ImplementsKeySet <=> Abs!KInit /\ [][OperationsOnSet]_vars
  BY DEF ImplementsKeySet, OperationsOnSet
<1>6. QED
  BY <1>1, <1>2, <1>3, <1>4, <1>5, TreeHolds, ShapeHolds, PathsHold, ContentsHold, PTL DEF Spec

=============================================================================
