------------------------ MODULE PTrieStorageProofs -------------------------
(***************************************************************************)
(* Sizes and storage: what unpack reads is the key, _totsize is what the   *)
(* residuals take, each long residual is one heap block, and a copy fits   *)
(* both, although every one of them is computed in a way of its own.       *)
(***************************************************************************)
EXTENDS PTrieContentProofs, PTrieUnpack

-----------------------------------------------------------------------------
(* The room that residuals take *)

\* One round of the sum.
Summed(lengths, w) ==
  [s \in SUBSET DOMAIN lengths |->
     IF s = {} THEN 0 ELSE w[s \ {Max(s)}] + Bytes(lengths[Max(s)])]

\* The sum is a value of a recursive function.
LEMMA RoomValue ==
  ASSUME NEW lengths
  PROVE  Room(lengths) = (CHOOSE w : w = Summed(lengths, w))[DOMAIN lengths]
BY DEF Room, FoldLeft, MapThenFoldSet, Summed

\* Numbers 1 to m, without the greatest.
LEMMA MaxUpTo ==
  ASSUME NEW m \in Nat
  PROVE  /\ Max(1 .. m + 1) = m + 1
         /\ (1 .. m + 1) \ {Max(1 .. m + 1)} = 1 .. m
         /\ 1 .. m + 1 # {}
<1>1. m + 1 \in 1 .. m + 1 /\ \A y \in 1 .. m + 1 : m + 1 >= y
  OBVIOUS
<1>2. \A x \in 1 .. m + 1 : (\A y \in 1 .. m + 1 : x >= y) => x = m + 1
  OBVIOUS
<1>3. Max(1 .. m + 1) = m + 1
  BY <1>1, <1>2 DEF Max
<1>4. QED
  BY <1>3

\* The room for leading residuals, one by one.
Sums(lengths, sum) ==
  /\ sum \in [0 .. Len(lengths) -> Int] /\ sum[0] = 0
  /\ \A i \in 1 .. Len(lengths) : sum[i] = sum[i - 1] + Bytes(lengths[i])
  /\ Room(lengths) = sum[Len(lengths)]

\* There is a sum.
LEMMA RoomSums ==
  ASSUME NEW lengths \in Seq(Int) PROVE \E sum : Sums(lengths, sum)
<1> DEFINE D == DOMAIN lengths
           S == SUBSET D
           rank == [s \in S |-> Cardinality(s)]
           H == [w \in [S -> Int] |-> Summed(lengths, w)]
<1>1. D = 1 .. Len(lengths) /\ Len(lengths) \in Nat /\ IsFiniteSet(D)
  BY FS_Interval
<1>2. \A s \in S : IsFiniteSet(s) /\ Cardinality(s) \in Nat
  BY <1>1, FS_Subset, FS_CardinalityType
<1>3. ASSUME NEW s \in S, s # {}
      PROVE  /\ Max(s) \in s /\ s \ {Max(s)} \in S
             /\ Cardinality(s \ {Max(s)}) < Cardinality(s)
  <2>1. \E x \in s : \A y \in s : x >= y
    <3> DEFINE T == {Len(lengths) - y : y \in s}
    <3>1. T \subseteq Nat /\ T # {}
      BY <1>1, <1>3
    <3>2. PICK t \in T : \A u \in T : t <= u
      <4> HIDE DEF T
      <4> QED
        BY <3>1, Least
    <3>3. PICK x \in s : t = Len(lengths) - x
      BY <3>2
    <3>4. ASSUME NEW y \in s PROVE x >= y
      <4>1. x \in Int /\ y \in Int /\ Len(lengths) \in Int
        BY <1>1
      <4>2. Len(lengths) - x <= Len(lengths) - y
        BY <3>2, <3>3
      <4>3. QED
        BY <4>1, <4>2
    <3>5. QED
      BY <3>4
  <2>2. Max(s) \in s
    BY <2>1 DEF Max
  <2>3. Cardinality(s \ {Max(s)}) = Cardinality(s) - 1
    BY <1>2, <2>2, FS_RemoveElement
  <2>4. QED
    BY <1>2, <2>2, <2>3
<1>4. \A i \in D : Bytes(lengths[i]) \in Int
  BY EncodingAssumption DEF Bytes
<1>5. Descends(S, Int, rank, H)
  <2>1. rank \in [S -> Nat]
    BY <1>2
  <2>2. H \in [[S -> Int] -> [S -> Int]]
    <3>1. ASSUME NEW w \in [S -> Int] PROVE Summed(lengths, w) \in [S -> Int]
      <4>1. ASSUME NEW s \in S, s # {} PROVE w[s \ {Max(s)}] + Bytes(lengths[Max(s)]) \in Int
        <5>1. Max(s) \in D /\ s \ {Max(s)} \in S
          BY <1>3, <4>1
        <5>2. w[s \ {Max(s)}] \in Int /\ Bytes(lengths[Max(s)]) \in Int
          BY <1>4, <5>1
        <5>3. QED
          BY <5>2
      <4>2. QED
        BY SMTT(60), <4>1 DEF Summed
    <3>2. QED
      BY <3>1
  <2>3. ASSUME NEW f \in [S -> Int], NEW g \in [S -> Int], NEW s \in S,
               \A u \in S : rank[u] < rank[s] => f[u] = g[u]
        PROVE  H[f][s] = H[g][s]
    <3>1. H[f][s] = Summed(lengths, f)[s] /\ H[g][s] = Summed(lengths, g)[s]
      OBVIOUS
    <3>2. CASE s = {}
      BY <3>1, <3>2 DEF Summed
    <3>3. CASE s # {}
      <4>1. PICK u \in S : u = s \ {Max(s)}
        BY <1>3, <3>3
      <4>2. f[u] = g[u]
        BY <1>3, <2>3, <3>3, <4>1
      <4>3. QED
        BY <3>1, <3>3, <4>1, <4>2 DEF Summed
    <3>4. QED
      BY <3>2, <3>3
  <2>4. QED
    BY <2>1, <2>2, <2>3 DEF Descends
<1>6. PICK v \in [S -> Int] : v = H[v]
  <2> HIDE DEF S, rank, H
  <2>1. Int # {}
    OBVIOUS
  <2>2. \E v \in [S -> Int] : v = H[v]
    BY <1>5, <2>1, Recursive
  <2>3. QED
    BY <2>2
<1>7. PICK w : w = (CHOOSE u : u = Summed(lengths, u)) /\ w = Summed(lengths, w)
  <2>1. v = Summed(lengths, v)
    BY <1>6
  <2> HIDE DEF S, rank, H
  <2>2. QED
    BY <2>1
<1>8. Room(lengths) = w[D]
  BY <1>7, RoomValue
<1>9. w[{}] = 0
  <2>1. {} \in S
    OBVIOUS
  <2>2. Summed(lengths, w)[{}] = 0
    BY <2>1 DEF Summed
  <2>3. QED
    BY <1>7, <2>2
<1>10. ASSUME NEW m \in Nat, m + 1 \in D
       PROVE  w[1 .. m + 1] = w[1 .. m] + Bytes(lengths[m + 1])
  <2>1. 1 .. m + 1 \in S
    BY <1>1, <1>10
  <2>2. Summed(lengths, w)[1 .. m + 1] = w[1 .. m] + Bytes(lengths[m + 1])
    BY <2>1, MaxUpTo DEF Summed
  <2>3. QED
    BY <1>7, <2>2
<1> DEFINE sum == [i \in 0 .. Len(lengths) |-> w[1 .. i]]
<1>11. \A i \in 0 .. Len(lengths) : w[1 .. i] \in Int
  <2> DEFINE T == {i \in Nat : i <= Len(lengths) => w[1 .. i] \in Int}
  <2>1. 0 \in T
    <3>1. 1 .. 0 = {}
      OBVIOUS
    <3>2. QED
      BY <1>9, <3>1
  <2>2. ASSUME NEW m \in Nat, m \in T PROVE m + 1 \in T
    <3>1. CASE m + 1 <= Len(lengths)
      <4>1. m + 1 \in D /\ w[1 .. m] \in Int
        BY <1>1, <2>2, <3>1
      <4>2. Bytes(lengths[m + 1]) \in Int
        BY <1>4, <4>1
      <4>3. w[1 .. m + 1] = w[1 .. m] + Bytes(lengths[m + 1])
        BY <1>10, <4>1
      <4>4. w[1 .. m + 1] \in Int
        BY <4>1, <4>2, <4>3
      <4>5. QED
        BY <4>4
    <3>2. QED
      BY <3>1
  <2> HIDE DEF T
  <2>3. \A m \in Nat : m \in T
    BY <2>1, <2>2, Induct
  <2>4. QED
    BY <1>1, <2>3 DEF T
<1>12. Sums(lengths, sum)
  <2>1. sum \in [0 .. Len(lengths) -> Int]
    BY <1>11
  <2>2. sum[0] = 0
    <3>1. 1 .. 0 = {} /\ 0 \in 0 .. Len(lengths)
      BY <1>1
    <3>2. QED
      BY <1>9, <3>1
  <2>3. ASSUME NEW i \in 1 .. Len(lengths) PROVE sum[i] = sum[i - 1] + Bytes(lengths[i])
    <3>1. PICK m \in Nat : i = m + 1 /\ m = i - 1 /\ i \in D /\ m \in 0 .. Len(lengths)
      <4>1. i - 1 \in Nat /\ i = (i - 1) + 1 /\ i \in D /\ i - 1 \in 0 .. Len(lengths)
        BY <1>1
      <4>2. QED
        BY <4>1
    <3>2. sum[i] = w[1 .. m + 1] /\ sum[i - 1] = w[1 .. m]
      BY <3>1
    <3>3. QED
      BY <1>10, <3>1, <3>2
  <2>4. sum[Len(lengths)] = w[D]
    BY <1>1
  <2>5. QED
    BY <1>8, <2>1, <2>2, <2>3, <2>4 DEF Sums
<1>13. QED
  BY <1>12

\* The room for residuals that are those of u, then those of v.
LEMMA RoomConcat ==
  ASSUME NEW u \in Seq(Int), NEW v \in Seq(Int), NEW t, Concat(Int, u, v, t)
  PROVE  Room(t) = Room(u) + Room(v) /\ Room(u) \in Int /\ Room(v) \in Int
<1>0. /\ t \in Seq(Int) /\ Len(t) = Len(u) + Len(v) /\ Len(u) \in Nat /\ Len(v) \in Nat
      /\ \A i \in 1 .. Len(u) : t[i] = u[i]
      /\ \A i \in 1 .. Len(v) : t[Len(u) + i] = v[i]
  BY DEF Concat
<1>1. PICK a : Sums(u, a)
  BY RoomSums
<1>2. PICK b : Sums(v, b)
  BY RoomSums
<1>3. PICK c : Sums(t, c)
  BY <1>0, RoomSums
<1>4. PICK m \in Nat : m = Len(u)
  BY <1>0
<1>5. PICK n \in Nat : n = Len(v) /\ Len(t) = m + n
  BY <1>0, <1>4
<1>6. \A i \in 0 .. m : c[i] = a[i]
  <2> DEFINE T == {i \in Nat : i <= m => c[i] = a[i]}
  <2>1. 0 \in T
    BY <1>1, <1>3 DEF Sums
  <2>2. ASSUME NEW i \in Nat, i \in T PROVE i + 1 \in T
    <3>1. CASE i + 1 <= m
      <4>1. i + 1 \in 1 .. Len(u) /\ i + 1 \in 1 .. Len(t) /\ i = (i + 1) - 1 /\ c[i] = a[i]
        BY <1>4, <1>5, <2>2, <3>1
      <4>2. t[i + 1] = u[i + 1]
        BY <1>0, <4>1
      <4>3. c[i + 1] = c[i] + Bytes(t[i + 1])
        BY <1>3, <4>1 DEF Sums
      <4>4. a[i + 1] = a[i] + Bytes(u[i + 1])
        BY <1>1, <4>1 DEF Sums
      <4>5. QED
        BY <4>1, <4>2, <4>3, <4>4
    <3>2. QED
      BY <3>1
  <2> HIDE DEF T
  <2>3. \A i \in Nat : i \in T
    BY <2>1, <2>2, Induct
  <2>4. QED
    BY <2>3 DEF T
<1>7. \A i \in 0 .. m : a[i] \in Int
  BY <1>1, <1>4 DEF Sums
<1>8. \A i \in 0 .. n : b[i] \in Int
  BY <1>2, <1>5 DEF Sums
<1>9. \A j \in 0 .. n : c[m + j] = a[m] + b[j]
  <2> DEFINE T == {j \in Nat : j <= n => c[m + j] = a[m] + b[j]}
  <2>1. 0 \in T
    <3>1. b[0] = 0 /\ a[m] \in Int /\ c[m] = a[m] /\ m + 0 = m
      BY <1>2, <1>6, <1>7 DEF Sums
    <3>2. QED
      BY <3>1
  <2>2. ASSUME NEW j \in Nat, j \in T PROVE j + 1 \in T
    <3>1. CASE j + 1 <= n
      <4>1. PICK l \in Nat : l = m + j
        OBVIOUS
      <4>2. /\ j + 1 \in 1 .. Len(v) /\ l + 1 \in 1 .. Len(t) /\ c[l] = a[m] + b[j]
            /\ l + 1 = Len(u) + (j + 1) /\ m + (j + 1) = l + 1
            /\ j = (j + 1) - 1 /\ l = (l + 1) - 1 /\ j \in 0 .. n
        BY <1>4, <1>5, <2>2, <3>1, <4>1
      <4>3. t[l + 1] = v[j + 1]
        BY <1>0, <4>2
      <4>4. c[l + 1] = c[l] + Bytes(t[l + 1])
        BY <1>3, <4>2 DEF Sums
      <4>5. b[j + 1] = b[j] + Bytes(v[j + 1])
        BY <1>2, <4>2 DEF Sums
      <4>6. a[m] \in Int /\ b[j] \in Int
        BY <1>7, <1>8, <4>2
      <4>7. Bytes(v[j + 1]) \in Int
        <5>1. v[j + 1] \in Int
          BY <4>2
        <5>2. QED
          BY <5>1, EncodingAssumption DEF Bytes
      <4>8. PICK x \in Int : x = a[m]
        BY <4>6
      <4>9. PICK y \in Int : y = b[j]
        BY <4>6
      <4>10. PICK z \in Int : z = Bytes(v[j + 1])
        BY <4>7
      <4>11. c[l + 1] = (x + y) + z
        BY <4>2, <4>3, <4>4, <4>8, <4>9, <4>10
      <4>12. b[j + 1] = y + z
        BY <4>5, <4>9, <4>10
      <4>13. c[l + 1] = x + b[j + 1]
        BY <4>11, <4>12
      <4>14. QED
        BY <4>2, <4>8, <4>13
    <3>2. QED
      BY <3>1
  <2> HIDE DEF T
  <2>3. \A j \in Nat : j \in T
    BY <2>1, <2>2, Induct
  <2>4. QED
    BY <2>3 DEF T
<1>10. c[m + n] = a[m] + b[n]
  BY <1>9
<1>11. a[m] = Room(u) /\ b[n] = Room(v) /\ c[m + n] = Room(t)
  BY <1>1, <1>2, <1>3, <1>4, <1>5 DEF Sums
<1>12. a[m] \in Int /\ b[n] \in Int
  BY <1>7, <1>8
<1>13. QED
  BY <1>10, <1>11, <1>12

\* The room for no residual, and for one.
LEMMA RoomSmall ==
  ASSUME NEW d \in Int
  PROVE  Room(<<>>) = 0 /\ Room(<< d >>) = Bytes(d)
<1>1. Room(<<>>) = 0
  <2>0. <<>> \in Seq(Int) /\ Len(<<>>) = 0
    OBVIOUS
  <2>1. PICK a : Sums(<<>>, a)
    BY <2>0, RoomSums
  <2>2. Room(<<>>) = a[0]
    BY <2>0, <2>1 DEF Sums
  <2>3. QED
    BY <2>1, <2>2 DEF Sums
<1>2. Room(<< d >>) = Bytes(d)
  <2>1. << d >> \in Seq(Int) /\ Len(<< d >>) = 1 /\ << d >>[1] = d
    OBVIOUS
  <2>2. PICK a : Sums(<< d >>, a)
    BY <2>1, RoomSums
  <2>3. Room(<< d >>) = a[1] /\ a[0] = 0 /\ a[1] = a[1 - 1] + Bytes(d)
    <3>1. 1 \in 1 .. Len(<< d >>)
      BY <2>1
    <3>2. QED
      BY <2>1, <2>2, <3>1 DEF Sums
  <2>4. Bytes(d) \in Int
    BY EncodingAssumption DEF Bytes
  <2>5. QED
    BY <2>3, <2>4
<1>3. QED
  BY <1>1, <1>2

\* The sequence t is s with one more number at i.
OneMore(s, i, t) ==
  /\ Len(t) = Len(s) + 1 /\ i \in 1 .. Len(t)
  /\ \A j \in 1 .. Len(s) : /\ j < i => t[j] = s[j]
                            /\ j >= i => t[j + 1] = s[j]

\* It takes more room, as much as the number needs.
LEMMA RoomMore ==
  ASSUME NEW s \in Seq(Int), NEW t \in Seq(Int), NEW i, OneMore(s, i, t)
  PROVE  Room(t) = Room(s) + Bytes(t[i]) /\ Room(s) \in Int /\ Bytes(t[i]) \in Int
<1>0. PICK n \in Nat : n = Len(s) /\ Len(t) = n + 1 /\ i \in 1 .. n + 1
  BY DEF OneMore
<1>1. PICK m \in Nat : i = m + 1 /\ m = i - 1 /\ m <= n
  BY <1>0
<1> DEFINE u == SubSeq(s, 1, m)
           v == SubSeq(s, m + 1, n)
           x == << t[i] >>
           ux == u \o x
<1>2. t[i] \in Int
  BY <1>0
<1>3. /\ u \in Seq(Int) /\ Len(u) = m /\ \A j \in 1 .. m : u[j] = s[j]
  BY <1>0, <1>1
<1>4. /\ v \in Seq(Int) /\ Len(v) = n - m /\ \A j \in 1 .. n - m : v[j] = s[m + j]
  BY <1>0, <1>1
<1>5. x \in Seq(Int) /\ Len(x) = 1 /\ x[1] = t[i]
  BY <1>2
<1> HIDE DEF u, v, x
<1>6. Concat(Int, u, x, ux) /\ ux \in Seq(Int) /\ Len(ux) = m + 1
  <2>1. Concat(Int, u, x, ux)
    BY <1>3, <1>5, ConcatAny
  <2>2. QED
    BY <1>3, <1>5, <2>1 DEF Concat
<1> HIDE DEF ux
<1>7. Concat(Int, u, v, s)
  <2>1. n = m + (n - m) /\ n - m \in Nat
    BY <1>1
  <2>2. QED
    BY <1>0, <1>3, <1>4, <2>1 DEF Concat
<1>8. Concat(Int, ux, v, t)
  <2>1. n + 1 = (m + 1) + (n - m)
    BY <1>1
  <2>2. ASSUME NEW j \in 1 .. m + 1 PROVE t[j] = ux[j]
    <3>1. CASE j = m + 1
      <4>1. ux[m + 1] = x[1]
        BY <1>3, <1>5, <1>6 DEF Concat
      <4>2. QED
        BY <1>1, <1>5, <3>1, <4>1
    <3>2. CASE j \in 1 .. m
      <4>1. ux[j] = u[j] /\ u[j] = s[j]
        BY <1>3, <1>6, <3>2 DEF Concat
      <4>2. j \in 1 .. Len(s) /\ j < i
        BY <1>0, <1>1, <3>2
      <4>3. QED
        BY <4>1, <4>2 DEF OneMore
    <3>3. QED
      BY <3>1, <3>2
  <2>3. ASSUME NEW j \in 1 .. n - m PROVE t[(m + 1) + j] = v[j]
    <3>1. PICK l \in Nat : l = m + j /\ l \in 1 .. Len(s) /\ l >= i /\ l + 1 = (m + 1) + j
      <4>1. m + j \in Nat /\ m + j \in 1 .. Len(s) /\ m + j >= i
        BY <1>0, <1>1
      <4>2. QED
        BY <4>1
    <3>2. t[l + 1] = s[l]
      BY <3>1 DEF OneMore
    <3>3. QED
      BY <1>4, <3>1, <3>2
  <2>4. QED
    BY <1>0, <1>4, <1>6, <2>1, <2>2, <2>3 DEF Concat
<1>9. Room(t) = Room(ux) + Room(v) /\ Room(ux) \in Int /\ Room(v) \in Int
  BY <1>4, <1>6, <1>8, RoomConcat
<1>10. Room(ux) = Room(u) + Room(x) /\ Room(u) \in Int /\ Room(x) \in Int
  BY <1>3, <1>5, <1>6, RoomConcat
<1>11. Room(s) = Room(u) + Room(v)
  BY <1>3, <1>4, <1>7, RoomConcat
<1>12. Room(x) = Bytes(t[i])
  BY <1>2, RoomSmall DEF x
<1>13. QED
  BY <1>9, <1>10, <1>11, <1>12

-----------------------------------------------------------------------------
(* unpack *)

\* The bytes that a path spells are those of the keys below it.
LEMMA PathBytes ==
  ASSUME NEW k \in Keys, NEW path \in Seq(Slots), Starts(k, path)
  PROVE  \A i \in Nat : i < Len(path) \div BDIV => PathByte(path, i) = EncByte(k, i)
BY PathByteIs DEF PathByte

\* The size of a key that build_path computes, from the path above an item and `first'.
SizeFrom(path, f) ==
  CASE Len(path) \div BDIV = 0 -> f[1] * Base + f[2]
    [] Len(path) \div BDIV = 1 -> PathByte(path, 0) * Base + f[1]
    [] OTHER -> PathByte(path, 0) * Base + PathByte(path, 1)

\* It is the length of the key.
LEMMA SizeFromIs ==
  ASSUME NEW k \in Keys, NEW path \in Seq(Slots), Starts(k, path), NEW b, b = Len(path) \div BDIV
  PROVE  SizeFrom(path, First(k, b)) = Len(k)
<1>1. b \in Nat
  BY LevelByte
<1>2. PICK f : f = First(k, b)
  OBVIOUS
<1>3. f[1] = EncByte(k, b) /\ f[2] = EncByte(k, b + 1)
  BY <1>2 DEF First
<1>4. Len(k) = EncByte(k, 0) * Base + EncByte(k, 1)
  <2>1. Len(k) = Base * EncByte(k, 0) + EncByte(k, 1) /\ EncByte(k, 0) \in Nat
    BY EncBytes
  <2>2. QED
    BY <2>1, BaseFacts
<1>5. PICK y : y = PathByte(path, 0)
  OBVIOUS
<1>6. PICK z : z = PathByte(path, 1)
  OBVIOUS
<1>7. (b > 0 => y = EncByte(k, 0)) /\ (b > 1 => z = EncByte(k, 1))
  BY <1>5, <1>6, PathBytes
<1>8. SizeFrom(path, f) = CASE b = 0 -> f[1] * Base + f[2]
                            [] b = 1 -> y * Base + f[1]
                            [] OTHER -> y * Base + z
  BY <1>5, <1>6 DEF SizeFrom
<1>9. CASE b = 0
  BY <1>2, <1>3, <1>4, <1>8, <1>9
<1>10. CASE b = 1
  BY <1>2, <1>3, <1>4, <1>7, <1>8, <1>10
<1>11. CASE b > 1
  <2>1. SizeFrom(path, f) = y * Base + z
    BY <1>8, <1>11
  <2>2. QED
    BY <1>2, <1>4, <1>7, <1>11, <2>1
<1>12. QED
  BY <1>1, <1>9, <1>10, <1>11

\* The length of a residual that build_path computes.
Before(size, b, f) ==
  CASE b = 0 -> f[1] * Base + f[2]
    [] b = 1 -> (size \div Base) * Base + f[1] - 1
    [] OTHER -> size - b

\* It is that of the residual of any key below the path, where the key at hand has
\* bytes left.
LEMMA BeforeIs ==
  ASSUME <<>> \notin Keys, NEW k \in Keys, NEW l \in Keys, NEW path \in Seq(Slots),
         Starts(k, path), Starts(l, path), NEW b, b = Len(path) \div BDIV, b <= Len(k)
  PROVE  Before(Len(k), b, First(l, b)) % (Base * Base) = Len(Residual(l, b))
<1>1. b \in Nat /\ Agree(k, l, b)
  BY StartsAgree
<1>2. PICK f : f = First(l, b)
  OBVIOUS
<1>3. f[1] = EncByte(l, b) /\ f[2] = EncByte(l, b + 1)
  BY <1>2 DEF First
<1>4. PICK x \in Nat, y \in 0 .. Base - 1 :
        x = EncByte(l, 0) /\ y = EncByte(l, 1) /\ Len(l) = Base * x + y /\ x = Len(l) \div Base
  BY EncBytes
<1>5. Len(l) \in Nat /\ Len(k) \in Nat /\ Len(l) < Base * Base /\ l # <<>> /\ Base * Base \in Nat
  BY BaseFacts
<1>6. Len(Residual(l, b)) = Positive(Len(l) - b)
  BY <1>1, ResidualFacts
<1>7. ASSUME NEW d \in Nat, d <= Len(l) PROVE d % (Base * Base) = d
  <2>1. d \in 0 .. Base * Base - 1 /\ Base * Base \in Nat \ {0} /\ d = (Base * Base) * 0 + d
    BY <1>5, <1>7
  <2>2. QED
    BY <2>1, Quotient
<1>8. x * Base = Base * x
  BY BaseFacts
<1>10. CASE b = 0
  <2>1. Before(Len(k), 0, <<x, y>>) = x * Base + y
    BY DEF Before
  <2>2. f = <<x, y>>
    BY <1>2, <1>4, <1>10 DEF First
  <2>3. Before(Len(k), b, f) = Len(l)
    BY <1>4, <1>8, <1>10, <2>1, <2>2
  <2>4. Len(Residual(l, b)) = Len(l)
    BY <1>5, <1>6, <1>10 DEF Positive
  <2>5. QED
    BY <1>2, <1>5, <1>7, <2>3, <2>4
<1>11. CASE b = 1
  <2>1. Len(k) \div Base = x
    BY <1>1, <1>4, <1>11, AgreeLen
  <2>2. Before(Len(k), b, f) = x * Base + y - 1
    BY <1>3, <1>4, <1>11, <2>1 DEF Before
  <2>3. x * Base + y - 1 = Len(l) - 1
    BY <1>4, BaseFacts
  <2>4. Len(l) - 1 \in Nat
    <3>1. l \in Seq(Byte)
      BY BaseFacts
    <3>2. Len(l) # 0
      BY <1>5, <3>1
    <3>3. QED
      BY <1>5, <3>2
  <2>5. Len(Residual(l, b)) = Len(l) - 1
    BY <1>5, <1>6, <1>11, <2>4 DEF Positive
  <2>6. QED
    BY <1>2, <1>5, <1>7, <2>2, <2>3, <2>4, <2>5
<1>12. CASE b >= 2
  <2>1. Len(k) = Len(l)
    BY <1>1, <1>12, AgreeLen
  <2>2. Before(Len(k), b, f) = Len(l) - b
    BY <1>12, <2>1 DEF Before
  <2>3. Len(l) - b \in Nat /\ Len(l) - b <= Len(l)
    BY <1>1, <1>5, <2>1
  <2>4. Len(Residual(l, b)) = Len(l) - b
    BY <1>6, <2>3, PositiveIs
  <2>5. QED
    BY <1>2, <1>7, <2>2, <2>3, <2>4
<1>13. QED
  BY <1>1, <1>10, <1>11, <1>12

\* build_path finds the size of the key, and the residual where the key has bytes left.
LEMMA PathSizesAre ==
  ASSUME <<>> \notin Keys, NEW items, NEW path, NEW q, Lists(items, path, q),
         NEW b, b = Len(path) \div BDIV, NEW i \in DOMAIN items, NEW k, k = items[i].ent
  PROVE  LET sizes == PathSizes(path, items, i)
         IN  /\ sizes.size = Len(k)
             /\ b <= Len(k) => sizes.offset = Offset(Lengths(items), i)
<1>1. /\ k \in Keys /\ items[i].first = First(k, b) /\ Starts(k, path) /\ path \in Seq(Slots)
  BY ListsFacts DEF Lists
<1>2. SizeFrom(path, items[i].first) = Len(k)
  BY <1>1, SizeFromIs
<1>3. PathSizes(path, items, i) =
        [size |-> Len(k),
         offset |-> Offset([j \in DOMAIN items |->
                              Before(Len(k), b, items[j].first) % (Base * Base)], i)]
  BY <1>2 DEF PathSizes, SizeFrom, Before
<1>4. ASSUME b <= Len(k)
      PROVE  [j \in DOMAIN items |-> Before(Len(k), b, items[j].first) % (Base * Base)]
             = Lengths(items)
  <2>1. ASSUME NEW j \in DOMAIN items
        PROVE  Before(Len(k), b, items[j].first) % (Base * Base) = Len(items[j].res)
    <3>1. PICK l : l = items[j].ent
      OBVIOUS
    <3>2. /\ l \in Keys /\ items[j].first = First(l, b) /\ items[j].res = Residual(l, b)
          /\ Starts(l, path)
      BY <3>1, ListsFacts
    <3>3. QED
      BY <1>1, <1>4, <3>2, BeforeIs
  <2>2. QED
    BY <2>1 DEF Lengths
<1>5. QED
  BY <1>3, <1>4

\* write_data then writes the bytes of the key.
LEMMA WriteDataIs ==
  ASSUME NEW items, NEW path, NEW q, Lists(items, path, q),
         NEW b, b = Len(path) \div BDIV, NEW i \in DOMAIN items, NEW k, k = items[i].ent,
         NEW offset, b <= Len(k) => offset = Offset(Lengths(items), i)
  PROVE  WriteData(path, items, i, Len(k), offset) = k
<1>1. /\ k \in Keys /\ items[i].first = First(k, b) /\ items[i].res = Residual(k, b)
      /\ Starts(k, path) /\ path \in Seq(Slots) /\ b \in Nat
  BY ListsFacts DEF Lists
<1>2. PICK it : it = items[i]
  OBVIOUS
<1>3. PICK f : f = it.first /\ f[1] = EncByte(k, b) /\ f[2] = EncByte(k, b + 1)
  BY <1>1, <1>2 DEF First
<1>4. PICK r : r = it.res /\ r = Residual(k, b)
  BY <1>1, <1>2
<1>5. PICK n \in Nat : n = Len(k)
  BY <1>1, EncodingAssumption
<1>6. k = [j \in 1 .. n |-> k[j]]
  BY <1>1, <1>5, EncodingAssumption
<1>7. PICK There \in BOOLEAN : There <=> Len(r) = n - b /\ Offset(Lengths(items), i) = offset
  OBVIOUS
<1>8. WriteData(path, items, i, Len(k), offset) =
        [j \in 1 .. n |->
           CASE j > b -> (IF There THEN r[j - b] ELSE Base)
             [] j = b -> f[2]
             [] j = b - 1 -> f[1]
             [] OTHER -> PathByte(path, j + 1)]
  BY <1>2, <1>3, <1>4, <1>5, <1>7 DEF WriteData
<1>9. \A j \in 1 .. n : EncByte(k, j + 1) = k[j]
  BY <1>1, <1>5, ByteAt
<1>10. ASSUME NEW j \in 1 .. n
       PROVE  (CASE j > b -> (IF There THEN r[j - b] ELSE Base)
                 [] j = b -> f[2]
                 [] j = b - 1 -> f[1]
                 [] OTHER -> PathByte(path, j + 1)) = k[j]
  <2>1. CASE j > b
    <3>1. Len(r) = n - b
      <4>1. Len(r) = Positive(n - b) /\ n - b \in Nat
        BY <1>1, <1>4, <1>5, <2>1, ResidualFacts
      <4>2. QED
        BY <4>1, PositiveIs
    <3>2. There
      BY <1>1, <1>5, <1>7, <2>1, <3>1
    <3>3. PICK m \in Nat : m = j - b /\ b + m = j /\ m \in 1 .. Len(r)
      <4>1. j - b \in Nat /\ b + (j - b) = j /\ j - b \in 1 .. Len(r)
        BY <1>1, <2>1, <3>1
      <4>2. QED
        BY <4>1
    <3>4. r[m] = k[b + m]
      <4>1. m \in 1 .. Len(Residual(k, b))
        BY <1>4, <3>3
      <4>2. Residual(k, b)[m] = k[b + m]
        BY <1>1, <4>1, ResidualFacts
      <4>3. QED
        BY <1>4, <4>2
    <3>5. (IF There THEN r[j - b] ELSE Base) = k[j]
      BY <3>2, <3>3, <3>4
    <3>6. QED
      BY <1>1, <2>1, <3>5
  <2>2. CASE j = b
    BY <1>1, <1>3, <1>9, <2>2
  <2>3. CASE j = b - 1
    <3>1. b = j + 1 /\ ~ (j > b) /\ j # b
      BY <1>1, <2>3
    <3>2. f[1] = k[j]
      BY <1>3, <1>9, <3>1
    <3>3. QED
      BY <2>3, <3>1, <3>2
  <2>4. CASE ~ (j > b) /\ j # b /\ j # b - 1
    <3>1. j + 1 \in Nat /\ j + 1 < b
      BY <1>1, <2>4
    <3>2. PathByte(path, j + 1) = EncByte(k, j + 1)
      BY <1>1, <3>1, PathBytes
    <3>3. QED
      BY <1>9, <2>4, <3>2
  <2>5. QED
    BY <2>1, <2>2, <2>3, <2>4
<1>11. QED
  BY <1>6, <1>8, <1>10

\* So unpack gives back the key.
LEMMA UnpackIs ==
  ASSUME <<>> \notin Keys, TreeInv, PathInv, ContentInv, NEW n \in nodes,
         NEW i \in DOMAIN node[n].items
  PROVE  Unpack(n, i) = node[n].items[i].ent
<1>1. PICK f : f = node[n].parent
  OBVIOUS
<1>2. PICK path : path = PathTo(f)
  OBVIOUS
<1>3. PICK items : items = node[n].items
  OBVIOUS
<1>4. Lists(items, path, node[n].prefix)
  BY <1>1, <1>2, <1>3, Held DEF ContentInv
<1>5. PICK k : k = items[i].ent
  OBVIOUS
<1>6. PICK b : b = Len(path) \div BDIV
  OBVIOUS
<1>7. PICK sizes : sizes = PathSizes(path, items, i)
  OBVIOUS
<1>8. sizes.size = Len(k) /\ (b <= Len(k) => sizes.offset = Offset(Lengths(items), i))
  BY <1>3, <1>4, <1>5, <1>6, <1>7, PathSizesAre
<1>9. WriteData(path, items, i, Len(k), sizes.offset) = k
  BY SMTT(60), <1>3, <1>4, <1>5, <1>6, <1>8, WriteDataIs
<1>10. Unpack(n, i) = WriteData(path, items, i, sizes.size, sizes.offset)
  BY <1>1, <1>2, <1>3, <1>7 DEF Unpack
<1>11. QED
  BY <1>3, <1>5, <1>8, <1>9, <1>10

\* What unpack gives for an item of any bucket, at any depth, is the key that was inserted
\* (build_path, write_data).
THEOREM UnpackHolds ==
  ASSUME <<>> \notin Keys PROVE Spec => []UnpackExact
<1>1. TreeInv /\ PathInv /\ ContentInv => UnpackExact
  BY UnpackIs DEF UnpackExact
<1>2. Spec => []TreeInv /\ []PathInv /\ []ContentInv
  BY TreeHolds, PathsHold, ContentsHold, PTL
<1>3. QED
  BY <1>1, <1>2, PTL

-----------------------------------------------------------------------------
(* What the residuals of a bucket take *)

\* Which those are.
LEMMA BigIs ==
  ASSUME NEW items, NEW k
  PROVE  k \in Big(items) <=> \E i \in DOMAIN items : /\ items[i].ent = k
                                                      /\ Len(items[i].res) >= HEAPBOUND
BY DEF Big

\* The lengths of residuals.
LEMMA LengthsAre ==
  ASSUME NEW s \in Seq(Items)
  PROVE  /\ Lengths(s) \in Seq(Int) /\ Len(Lengths(s)) = Len(s) /\ Len(s) \in Nat
         /\ \A i \in 1 .. Len(s) : Lengths(s)[i] = Len(s[i].res) /\ Len(s[i].res) \in Nat
<1>1. \A i \in 1 .. Len(s) : Len(s[i].res) \in Nat
  BY DEF Items
<1>2. QED
  BY <1>1 DEF Lengths

\* No items.
LEMMA TakesNone == Takes(<<>>) = 0 /\ Big(<<>>) = {}
<1>1. Lengths(<<>>) = <<>>
  BY DEF Lengths
<1>2. Room(<<>>) = 0
  <2>1. 0 \in Int
    OBVIOUS
  <2>2. QED
    BY <2>1, RoomSmall
<1>3. QED
  BY <1>1, <1>2 DEF Takes, Big

\* The items of two sequences.
LEMMA TakesConcat ==
  ASSUME NEW u \in Seq(Items), NEW v \in Seq(Items), NEW t, Concat(Items, u, v, t)
  PROVE  /\ Takes(t) = Takes(u) + Takes(v) /\ Takes(u) \in Int /\ Takes(v) \in Int
         /\ Big(t) = Big(u) \cup Big(v)
<1>1. /\ t \in Seq(Items) /\ Len(t) = Len(u) + Len(v) /\ Len(u) \in Nat /\ Len(v) \in Nat
      /\ \A i \in 1 .. Len(u) : t[i] = u[i]
      /\ \A i \in 1 .. Len(v) : t[Len(u) + i] = v[i]
  BY DEF Concat
<1>2. PICK m \in Nat : m = Len(u)
  BY <1>1
<1>3. PICK n \in Nat : n = Len(v) /\ Len(t) = m + n
  BY <1>1, <1>2
<1>4. /\ Takes(t) = Takes(u) + Takes(v) /\ Takes(u) \in Int /\ Takes(v) \in Int
  <2>1. PICK lu, lv, lt : lu = Lengths(u) /\ lv = Lengths(v) /\ lt = Lengths(t)
    OBVIOUS
  <2>2. lu \in Seq(Int) /\ lv \in Seq(Int) /\ lt \in Seq(Int)
    BY <1>1, <2>1, LengthsAre
  <2>3. Len(lu) = m /\ Len(lv) = n /\ Len(lt) = m + n
    BY <1>1, <1>2, <1>3, <2>1, LengthsAre
  <2>4. \A i \in 1 .. m : lt[i] = lu[i]
    <3>1. ASSUME NEW i \in 1 .. m PROVE lt[i] = lu[i]
      <4>0. i \in 1 .. Len(u) /\ i \in 1 .. Len(t)
        BY <1>2, <1>3
      <4>1. i \in 1 .. Len(u) /\ i \in 1 .. Len(t) /\ t[i] = u[i]
        BY <1>1, <4>0
      <4>2. lt[i] = Len(t[i].res) /\ lu[i] = Len(u[i].res)
        BY <1>1, <2>1, <4>1, LengthsAre
      <4>3. QED
        BY <4>1, <4>2
    <3>2. QED
      BY <3>1
  <2>5. \A i \in 1 .. n : lt[m + i] = lv[i]
    <3>1. ASSUME NEW i \in 1 .. n PROVE lt[m + i] = lv[i]
      <4>1. i \in 1 .. Len(v) /\ m + i \in 1 .. Len(t) /\ t[m + i] = v[i]
        BY <1>1, <1>2, <1>3
      <4>2. lt[m + i] = Len(t[m + i].res) /\ lv[i] = Len(v[i].res)
        BY <1>1, <2>1, <4>1, LengthsAre
      <4>3. QED
        BY <4>1, <4>2
    <3>2. QED
      BY <3>1
  <2>6. Concat(Int, lu, lv, lt)
    BY <2>2, <2>3, <2>4, <2>5 DEF Concat
  <2>7. QED
    BY <2>1, <2>2, <2>6, RoomConcat DEF Takes
<1>5. ASSUME NEW k \in Big(t) PROVE k \in Big(u) \cup Big(v)
  <2>1. PICK i \in DOMAIN t : t[i].ent = k /\ Len(t[i].res) >= HEAPBOUND
    BY <1>5, BigIs
  <2>2. i \in 1 .. m + n
    BY <1>1, <1>3, <2>1
  <2>3. CASE i <= m
    <3>1. i \in 1 .. Len(u) /\ i \in DOMAIN u
      BY <1>2, <2>2, <2>3
    <3>2. t[i] = u[i]
      BY <1>1, <3>1
    <3>3. QED
      BY <2>1, <3>1, <3>2, BigIs
  <2>4. CASE i > m
    <3>1. PICK j \in 1 .. n : i = m + j
      <4>1. i - m \in 1 .. n /\ i = m + (i - m)
        BY <2>2, <2>4
      <4>2. QED
        BY <4>1
    <3>2. j \in 1 .. Len(v) /\ j \in DOMAIN v /\ i = Len(u) + j
      BY <1>2, <1>3, <3>1
    <3>3. t[i] = v[j]
      BY <1>1, <3>2
    <3>4. QED
      BY <2>1, <3>2, <3>3, BigIs
  <2>5. QED
    BY <2>2, <2>3, <2>4
<1>6. ASSUME NEW k \in Big(u) PROVE k \in Big(t)
  <2>1. PICK i \in DOMAIN u : u[i].ent = k /\ Len(u[i].res) >= HEAPBOUND
    BY <1>6, BigIs
  <2>2. i \in 1 .. Len(u) /\ i \in DOMAIN t
    BY <1>1, <1>2, <1>3, <2>1
  <2>3. t[i] = u[i]
    BY <1>1, <2>2
  <2>4. QED
    BY <2>1, <2>2, <2>3, BigIs
<1>7. ASSUME NEW k \in Big(v) PROVE k \in Big(t)
  <2>1. PICK i \in DOMAIN v : v[i].ent = k /\ Len(v[i].res) >= HEAPBOUND
    BY <1>7, BigIs
  <2>2. i \in 1 .. Len(v) /\ Len(u) + i \in DOMAIN t
    BY <1>1, <1>2, <1>3, <2>1
  <2>3. t[Len(u) + i] = v[i]
    BY <1>1, <2>2
  <2>4. QED
    BY <2>1, <2>2, <2>3, BigIs
<1>8. QED
  BY <1>4, <1>5, <1>6, <1>7

\* The leading items, and the others.
LEMMA TakesParts ==
  ASSUME NEW s \in Seq(Items), NEW count \in 0 .. Len(s), NEW u, NEW v, Parts(s, count, u, v)
  PROVE  /\ Takes(s) = Takes(u) + Takes(v) /\ Takes(u) \in Int /\ Takes(v) \in Int
         /\ Big(s) = Big(u) \cup Big(v)
<1>1. u \in Seq(Items) /\ v \in Seq(Items) /\ Len(u) = count /\ Len(v) = Len(s) - count
  BY DEF Parts
<1>2. Concat(Items, u, v, s)
  <2>1. Len(s) = Len(u) + Len(v)
    BY <1>1
  <2>2. QED
    BY <1>1, <2>1 DEF Parts, Concat
<1>3. QED
  BY <1>1, <1>2, TakesConcat

\* One more item.
LEMMA TakesMore ==
  ASSUME NEW s \in Seq(Items), NEW i \in 1 .. Len(s) + 1, NEW e, NEW t, Inserted(s, i, e, t)
  PROVE  /\ Takes(t) = Takes(s) + Bytes(Len(e.res)) /\ Takes(s) \in Int
         /\ Bytes(Len(e.res)) \in Int
         /\ Big(t) = Big(s) \cup (IF Len(e.res) >= HEAPBOUND THEN {e.ent} ELSE {})
<1>1. PICK n \in Nat : n = Len(s)
  OBVIOUS
<1>2. /\ t \in Seq(Items) /\ Len(t) = n + 1 /\ DOMAIN t = 1 .. n + 1 /\ DOMAIN s = 1 .. n
      /\ \A j \in 1 .. n : /\ j < i => t[j] = s[j]
                           /\ j >= i => t[j + 1] = s[j]
      /\ t[i] = e /\ i \in 1 .. n + 1
  <2>1. \A j \in 1 .. n : j >= i => t[j + 1] = s[j]
    <3>1. ASSUME NEW j \in 1 .. n, j >= i PROVE t[j + 1] = s[j]
      <4>1. PICK l \in 1 .. Len(s) + 1 : l = j + 1 /\ l > i /\ l - 1 = j
        <5>1. j + 1 \in 1 .. Len(s) + 1 /\ j + 1 > i /\ (j + 1) - 1 = j
          BY <1>1, <3>1
        <5>2. QED
          BY <5>1
      <4>2. t[l] = s[l - 1]
        BY <4>1 DEF Inserted
      <4>3. QED
        BY <4>1, <4>2
    <3>2. QED
      BY <3>1
  <2>2. \A j \in 1 .. n : j < i => t[j] = s[j]
    BY <1>1 DEF Inserted
  <2>3. QED
    BY <1>1, <2>1, <2>2 DEF Inserted
<1>3. /\ Takes(t) = Takes(s) + Bytes(Len(e.res)) /\ Takes(s) \in Int
      /\ Bytes(Len(e.res)) \in Int
  <2>1. PICK ls, lt : ls = Lengths(s) /\ lt = Lengths(t)
    OBVIOUS
  <2>2. /\ ls \in Seq(Int) /\ lt \in Seq(Int) /\ Len(ls) = n /\ Len(lt) = n + 1
    BY <1>1, <1>2, <2>1, LengthsAre
  <2>3. /\ \A j \in 1 .. n : ls[j] = Len(s[j].res)
        /\ \A j \in 1 .. n + 1 : lt[j] = Len(t[j].res)
    BY <1>1, <1>2, <2>1, LengthsAre
  <2>4. OneMore(ls, i, lt)
    <3>1. ASSUME NEW j \in 1 .. n
          PROVE  /\ j < i => lt[j] = ls[j]
                 /\ j >= i => lt[j + 1] = ls[j]
      <4>1. j \in 1 .. n + 1 /\ j + 1 \in 1 .. n + 1
        OBVIOUS
      <4>2. QED
        BY <1>2, <2>3, <4>1
    <3>2. QED
      BY <1>2, <2>2, <3>1 DEF OneMore
  <2>5. lt[i] = Len(e.res)
    BY <1>2, <2>3
  <2>6. Room(lt) = Room(ls) + Bytes(lt[i]) /\ Room(ls) \in Int /\ Bytes(lt[i]) \in Int
    BY <2>2, <2>4, RoomMore
  <2>7. QED
    BY <2>1, <2>5, <2>6 DEF Takes
<1>4. PICK E : E = IF Len(e.res) >= HEAPBOUND THEN {e.ent} ELSE {}
  OBVIOUS
<1>5. ASSUME NEW k \in Big(t) PROVE k \in Big(s) \cup E
  <2>1. PICK j \in DOMAIN t : t[j].ent = k /\ Len(t[j].res) >= HEAPBOUND
    BY <1>5, BigIs
  <2>2. CASE j = i
    BY <1>2, <1>4, <2>1, <2>2
  <2>3. CASE j < i
    <3>1. j \in 1 .. n /\ t[j] = s[j]
      BY <1>2, <2>1, <2>3
    <3>2. QED
      BY <1>2, <2>1, <3>1, BigIs
  <2>4. CASE j > i
    <3>1. PICK l \in 1 .. n : j = l + 1 /\ l >= i
      <4>1. j - 1 \in 1 .. n /\ j = (j - 1) + 1 /\ j - 1 >= i
        BY <1>2, <2>1, <2>4
      <4>2. QED
        BY <4>1
    <3>2. t[j] = s[l] /\ l \in DOMAIN s
      BY <1>2, <3>1
    <3>3. QED
      BY <2>1, <3>2, BigIs
  <2>5. QED
    BY <1>2, <2>1, <2>2, <2>3, <2>4
<1>6. ASSUME NEW k \in E PROVE k \in Big(t)
  <2>1. Len(e.res) >= HEAPBOUND /\ k = e.ent
    BY <1>4, <1>6
  <2>2. i \in DOMAIN t
    BY <1>2
  <2>3. QED
    BY <1>2, <2>1, <2>2, BigIs
<1>7. ASSUME NEW k \in Big(s) PROVE k \in Big(t)
  <2>1. PICK j \in DOMAIN s : s[j].ent = k /\ Len(s[j].res) >= HEAPBOUND
    BY <1>7, BigIs
  <2>2. j \in 1 .. n /\ j \in DOMAIN t /\ j + 1 \in DOMAIN t
    BY <1>2, <2>1
  <2>3. CASE j < i
    <3>1. t[j] = s[j]
      BY <1>2, <2>2, <2>3
    <3>2. QED
      BY <2>1, <2>2, <3>1, BigIs
  <2>4. CASE j >= i
    <3>1. t[j + 1] = s[j]
      BY <1>2, <2>2, <2>4
    <3>2. QED
      BY <2>1, <2>2, <3>1, BigIs
  <2>5. QED
    BY <1>2, <2>2, <2>3, <2>4
<1>8. Big(t) = Big(s) \cup E
  BY <1>5, <1>6, <1>7
<1>9. QED
  BY <1>3, <1>4, <1>8

-----------------------------------------------------------------------------
(* The invariant: _totsize and the heap fit the items *)

\* A key is on the heap if an item is.
LEMMA OnHeapIs ==
  ASSUME NEW k
  PROVE  /\ k \in OnHeap <=> \E n \in nodes : k \in Big(node[n].items)
         /\ k \in OnHeap' <=> \E n \in nodes' : k \in Big(node'[n].items)
BY DEF OnHeap, OnHeapOf

\* Buckets whose items change are given the size of the new ones.
LEMMA SumsStep ==
  ASSUME SumsInv, totsize' \in [NodeIds -> Int],
         \A c \in NodeIds : \/ totsize'[c] = totsize[c] /\ node'[c].items = node[c].items
                            \/ totsize'[c] = Takes(node'[c].items)
  PROVE  SumsInv'
BY DEF SumsInv, TotsizeExact, Takes

\* Nothing goes to the heap, nor leaves it.
LEMMA HeapSame ==
  ASSUME HeapInv, OnHeap' = OnHeap, heap' = heap PROVE HeapInv'
BY DEF HeapInv

\* No bucket gets or loses an item.
LEMMA StorageSame ==
  ASSUME StorageInv, UNCHANGED <<totsize, heap>>, nodes \subseteq NodeIds,
         \A c \in NodeIds : node'[c].items = node[c].items,
         nodes' \subseteq nodes, \A c \in nodes : c \in nodes' \/ node[c].items = <<>>
  PROVE  StorageInv'
<1>1. SumsInv'
  BY SumsStep DEF StorageInv, SumsInv
<1>2. ASSUME NEW k PROVE k \in OnHeap' <=> k \in OnHeap
  <2>1. ASSUME NEW c \in nodes, k \in Big(node[c].items)
        PROVE  c \in nodes' /\ k \in Big(node'[c].items)
    BY <2>1, TakesNone
  <2>2. ASSUME NEW c \in nodes', k \in Big(node'[c].items)
        PROVE  c \in nodes /\ k \in Big(node[c].items)
    BY <2>2
  <2>3. QED
    BY <2>1, <2>2, OnHeapIs
<1>3. OnHeap' = OnHeap
  BY <1>2
<1>4. QED
  BY <1>1, <1>3, HeapSame DEF StorageInv

\* Items that are stored are those of keys.
LEMMA BigEnts ==
  ASSUME NEW items PROVE Big(items) \subseteq Ents(items)
BY DEF Big, Ents

-----------------------------------------------------------------------------
(* Operations that leave items alone *)

\* Lookups, splits and merges that stop, and the loop of merge_empty.
LEMMA IdleStorage ==
  ASSUME TreeInv, StorageInv,
         \/ \E k \in Keys : LookUp(k)
         \/ SplitExhausted \/ MergeDownStop \/ AfterReadd \/ Climb \/ UNCHANGED vars
  PROVE  StorageInv'
<1>1. UNCHANGED <<nodes, node, totsize, heap>>
  BY DEF LookUp, SplitExhausted, MergeDownStop, AfterReadd, Climb, vars
<1>2. nodes \subseteq NodeIds
  BY Addresses DEF TreeInv
<1>3. QED
  BY <1>1, <1>2, StorageSame

\* The bucket n, which is empty, goes, or some prefix changes.
LEMMA RemoveStorage ==
  ASSUME TreeInv, StorageInv, UNCHANGED <<totsize, heap>>, NEW n \in nodes,
         \/ /\ node[n].items = <<>> /\ node' = [node EXCEPT ![n] = DeadNode]
            /\ nodes' = nodes \ {n}
         \/ UNCHANGED <<nodes, node>>
         \/ \E q : node' = [node EXCEPT ![n].prefix = q] /\ nodes' = nodes
  PROVE  StorageInv'
<1>1. nodes \subseteq NodeIds /\ node \in [NodeIds -> Node] /\ n \in NodeIds
  BY Addresses DEF TreeInv, TypeOK, BucketsOK
<1>2. \A c \in NodeIds : node'[c].items = node[c].items
  <2>1. DeadNode.items = <<>>
    BY DEF DeadNode
  <2>2. CASE node[n].items = <<>> /\ node' = [node EXCEPT ![n] = DeadNode]
    BY <1>1, <2>1, <2>2
  <2>3. CASE UNCHANGED <<nodes, node>>
    BY <2>3
  <2>4. CASE \E q : node' = [node EXCEPT ![n].prefix = q] /\ nodes' = nodes
    <3>1. PICK q : node' = [node EXCEPT ![n].prefix = q]
      BY <2>4
    <3>2. node'[n].items = node[n].items /\ \A c \in NodeIds \ {n} : node'[c] = node[c]
      BY <1>1, <3>1 DEF Node
    <3>3. QED
      BY <3>2
  <2>5. QED
    BY <2>2, <2>3, <2>4
<1>3. nodes' \subseteq nodes /\ \A c \in nodes : c \in nodes' \/ node[c].items = <<>>
  OBVIOUS
<1>4. QED
  BY <1>1, <1>2, <1>3, StorageSame

\* merge_empty.
LEMMA MergeEmptyStorage ==
  ASSUME TreeInv, StorageInv, MergeEmpty PROVE StorageInv'
<1>1. PICK n : n = Top.node
  OBVIOUS
<1>2. /\ Running("merge_down") /\ node[n].items = <<>> /\ UNCHANGED <<totsize, heap>>
      /\ node' = [node EXCEPT ![n] = DeadNode] /\ nodes' = nodes \ {n}
  BY <1>1 DEF MergeEmpty, Merging
<1>3. n \in nodes
  BY <1>1, <1>2 DEF TreeInv, CallsOK, Running
<1>4. QED
  BY <1>2, <1>3, RemoveStorage

\* merge_regular next to finer buckets.
LEMMA MergeFinerStorage ==
  ASSUME TreeInv, StorageInv, MergeFiner PROVE StorageInv'
<1>1. PICK n : n = Top.node
  OBVIOUS
<1>2. /\ Running("merge_down") /\ UNCHANGED <<totsize, heap>>
      /\ \/ /\ node[n].items = <<>>
            /\ node' = [node EXCEPT ![n] = DeadNode] /\ nodes' = nodes \ {n}
         \/ UNCHANGED <<nodes, node>>
  BY <1>1 DEF MergeFiner, MergingRegular, Merging, Delete
<1>3. n \in nodes
  BY <1>1, <1>2 DEF TreeInv, CallsOK, Running
<1>4. QED
  BY <1>2, <1>3, RemoveStorage

\* merge_regular next to a forwarding node, or to empty slots.
LEMMA MergeFwdStorage ==
  ASSUME TreeInv, StorageInv, MergeFwd PROVE StorageInv'
<1>1. PICK n : n = Top.node
  OBVIOUS
<1>2. /\ Running("merge_down") /\ UNCHANGED <<totsize, heap>>
      /\ \/ /\ node[n].items = <<>>
            /\ node' = [node EXCEPT ![n] = DeadNode] /\ nodes' = nodes \ {n}
         \/ UNCHANGED <<nodes, node>>
         \/ \E q : node' = [node EXCEPT ![n].prefix = q] /\ nodes' = nodes
  BY <1>1 DEF MergeFwd, MergingRegular, Merging, Delete
<1>3. n \in nodes
  BY <1>1, <1>2 DEF TreeInv, CallsOK, Running
<1>4. QED
  BY <1>2, <1>3, RemoveStorage

-----------------------------------------------------------------------------
(* insert and erase *)

\* A residual is added to the bucket n, on the heap if it is long enough.
LEMMA AddItemStorage ==
  ASSUME TreeInv, StorageInv, NEW k \in Keys, NEW m, NEW n \in NodeIds, nodes' = nodes \cup {n},
         NEW old \in Node, NEW oldsize, AddItem(k, m, n, old, oldsize),
         NEW b \in Nat, b = m.p \div BDIV, m.index \in 1 .. Len(old.items) + 1,
         oldsize = Takes(old.items),
         \/ n \in nodes /\ old = node[n]
         \/ n \notin nodes /\ old.items = <<>>,
         \A c \in nodes : k \notin Ents(node[c].items)
  PROVE  StorageInv'
<1>1. PICK e : e = Item(k, b)
  OBVIOUS
<1>2. PICK new : new = InsertAt(old.items, m.index, e)
  OBVIOUS
<1>3. PICK r : r = Residual(k, b)
  OBVIOUS
<1>4. e \in Items /\ e.ent = k /\ e.res = r
  BY <1>1, <1>3, ItemIs DEF Item
<1>5. Len(r) = Positive(Len(k) - b) /\ Len(r) \in Nat
  BY <1>3, ResidualFacts
<1>6. (Len(k) - b >= HEAPBOUND) <=> (Len(r) >= HEAPBOUND)
  BY <1>5, BaseFacts, EncodingAssumption DEF Positive
<1>7. /\ node' = [node EXCEPT ![n] = [old EXCEPT !.items = new]]
      /\ totsize' = [totsize EXCEPT ![n] = oldsize + Bytes(Positive(Len(k) - b))]
      /\ heap' = IF Len(k) - b >= HEAPBOUND THEN heap + 1 ELSE heap
  BY <1>1, <1>2 DEF AddItem, Item
<1>8. /\ nodes \subseteq NodeIds /\ node \in [NodeIds -> Node] /\ old.items \in Seq(Items)
  BY Addresses DEF TreeInv, TypeOK, BucketsOK, Node
<1>9. /\ node'[n].items = new /\ \A c \in NodeIds \ {n} : node'[c] = node[c]
  BY <1>7, <1>8 DEF Node
<1>10. Inserted(old.items, m.index, e, new)
  BY <1>2, <1>4, <1>8, InsertAtIs
<1>11. PICK E : E = IF Len(r) >= HEAPBOUND THEN {k} ELSE {}
  OBVIOUS
<1>12. /\ Takes(new) = oldsize + Bytes(Len(r)) /\ oldsize \in Int /\ Bytes(Len(r)) \in Int
       /\ Big(new) = Big(old.items) \cup E
  BY <1>4, <1>8, <1>10, <1>11, TakesMore
<1>13. SumsInv'
  <2>1. totsize' = [totsize EXCEPT ![n] = Takes(new)] /\ Takes(new) \in Int
    BY <1>5, <1>7, <1>12
  <2>2. totsize \in [NodeIds -> Int] /\ SumsInv
    BY DEF StorageInv, SumsInv
  <2>3. totsize' \in [NodeIds -> Int] /\ totsize'[n] = Takes(new)
        /\ \A c \in NodeIds \ {n} : totsize'[c] = totsize[c]
    BY <2>1, <2>2
  <2>4. QED
    BY <1>9, <2>2, <2>3, SumsStep
<1>14. OnHeap' = OnHeap \cup E
  <2>1. ASSUME NEW l PROVE l \in OnHeap' <=> l \in OnHeap \/ l \in E
    <3>1. ASSUME NEW c \in nodes', l \in Big(node'[c].items) PROVE l \in OnHeap \/ l \in E
      <4>1. CASE c = n
        <5>1. l \in Big(old.items) \/ l \in E
          BY <1>9, <1>12, <3>1, <4>1
        <5>2. CASE l \in Big(old.items)
          <6>1. old.items # <<>>
            BY <5>2, TakesNone
          <6>2. n \in nodes /\ l \in Big(node[n].items)
            BY <5>2, <6>1
          <6>3. QED
            BY <6>2, OnHeapIs
        <5>3. QED
          BY <5>1, <5>2
      <4>2. CASE c # n
        <5>1. c \in nodes /\ node'[c] = node[c]
          BY <1>8, <1>9, <4>2
        <5>2. QED
          BY <3>1, <5>1, OnHeapIs
      <4>3. QED
        BY <4>1, <4>2
    <3>2. ASSUME NEW c \in nodes, l \in Big(node[c].items) PROVE l \in OnHeap'
      <4>1. CASE c = n
        <5>1. l \in Big(node'[n].items) /\ n \in nodes'
          BY <1>9, <1>12, <3>2, <4>1
        <5>2. QED
          BY <5>1, OnHeapIs
      <4>2. CASE c # n
        <5>1. c \in nodes' /\ node'[c] = node[c]
          BY <1>8, <1>9, <4>2
        <5>2. QED
          BY <3>2, <5>1, OnHeapIs
      <4>3. QED
        BY <4>1, <4>2
    <3>3. ASSUME l \in E PROVE l \in OnHeap'
      <4>1. l \in Big(node'[n].items) /\ n \in nodes'
        BY <1>9, <1>12, <3>3
      <4>2. QED
        BY <4>1, OnHeapIs
    <3>4. QED
      BY <3>1, <3>2, <3>3, OnHeapIs
  <2>2. QED
    BY <2>1
<1>15. k \notin OnHeap
  BY BigEnts, OnHeapIs
<1>16. HeapInv'
  <2>1. IsFiniteSet(OnHeap) /\ heap = Cardinality(OnHeap)
    BY DEF StorageInv, HeapInv
  <2>2. CASE Len(r) >= HEAPBOUND
    <3>1. OnHeap' = OnHeap \cup {k} /\ heap' = heap + 1
      BY <1>6, <1>7, <1>11, <1>14, <2>2
    <3>2. IsFiniteSet(OnHeap') /\ Cardinality(OnHeap') = Cardinality(OnHeap) + 1
      BY <1>15, <2>1, <3>1, FS_AddElement
    <3>3. QED
      BY <2>1, <3>1, <3>2 DEF HeapInv
  <2>3. CASE ~ (Len(r) >= HEAPBOUND)
    <3>1. OnHeap' = OnHeap /\ heap' = heap
      BY <1>6, <1>7, <1>11, <1>14, <2>3
    <3>2. QED
      BY <3>1, HeapSame DEF StorageInv
  <2>4. QED
    BY <2>2, <2>3
<1>17. QED
  BY <1>13, <1>16 DEF StorageInv

\* insert, where it makes a bucket.
LEMMA InsertInNewBucketStorage ==
  ASSUME <<>> \notin Keys, TreeInv, PathInv, ContentInv, StorageInv, NEW k \in Keys,
         InsertInNewBucket(k)
  PROVE  StorageInv'
<1>1. PICK m : m = BestMatch(k)
  OBVIOUS
<1>2. PICK n : n = FreshNode
  OBVIOUS
<1>3. PICK s : s = Slot(k, m.p)
  OBVIOUS
<1>4. /\ n \in NodeIds /\ n \notin nodes /\ Located(k, m) /\ m.base = m.fwd
      /\ nodes' = nodes \cup {n}
  BY <1>1, <1>2, Addresses DEF InsertInNewBucket, FreshNode, TreeInv
<1>5. m.fwd \in FwdIds /\ m.base \notin NodeIds /\ m.p \in Nat
  <2>1. m.fwd \in fwds
    BY <1>1, Places
  <2>2. QED
    BY <1>4, <2>1, Addresses DEF TreeInv, Located
<1>6. m.index = 1 /\ \A c \in nodes : k \notin Ents(node[c].items)
  <2>1. Matched(k, m)
    BY <1>1, Matching DEF ContentInv
  <2>2. nodes \subseteq NodeIds
    BY Addresses DEF TreeInv
  <2>3. QED
    BY <1>5, <2>1, <2>2 DEF Matched
<1>7. PICK bit \in 0 .. BSIZE :
        AddItem(k, m, n, [prefix |-> SubSeq(s, 1, bit), parent |-> m.fwd, items |-> <<>>], 0)
  BY <1>1, <1>2, <1>3 DEF InsertInNewBucket
<1>8. PICK old : old = [prefix |-> SubSeq(s, 1, bit), parent |-> m.fwd, items |-> <<>>]
  OBVIOUS
<1>9. old \in Node /\ old.items = <<>> /\ AddItem(k, m, n, old, 0)
  <2>1. s \in Slots
    BY <1>3, <1>5, SlotType
  <2>2. SubSeq(s, 1, bit) \in SlotPrefixes
    BY <2>1, PrefixTypes
  <2>3. QED
    BY <1>5, <1>7, <1>8, <2>2 DEF Node
<1>10. PICK b : b = m.p \div BDIV /\ b \in Nat
  BY <1>5, LevelByte
<1>11. m.index \in 1 .. Len(old.items) + 1 /\ Takes(old.items) = 0
  BY <1>6, <1>9, TakesNone
<1>12. QED
  BY <1>4, <1>6, <1>9, <1>10, <1>11, AddItemStorage

\* insert into a bucket that is there.
LEMMA InsertInBucketStorage ==
  ASSUME <<>> \notin Keys, TreeInv, PathInv, ContentInv, StorageInv, NEW k \in Keys,
         InsertInBucket(k)
  PROVE  StorageInv'
<1>1. PICK m : m = BestMatch(k)
  OBVIOUS
<1>2. PICK n : n = m.base
  OBVIOUS
<1>3. /\ n \in NodeIds /\ ~ m.found /\ UNCHANGED nodes /\ m.p \in Nat
      /\ AddItem(k, m, n, node[n], totsize[n])
  BY <1>1, <1>2 DEF InsertInBucket, Located
<1>4. n \in nodes
  BY <1>1, <1>2, <1>3, Places DEF InsertInBucket
<1>5. IsPlace(node[n].items, k, m.index) /\ \A c \in nodes : k \in Ents(node[c].items) => c = n
      /\ k \notin Ents(node[n].items)
  <2>1. Matched(k, m)
    BY <1>1, Matching DEF ContentInv
  <2>2. QED
    BY <1>2, <1>3, <2>1 DEF Matched
<1>6. node[n] \in Node /\ nodes' = nodes \cup {n}
  BY <1>3, <1>4, Addresses DEF TreeInv
<1>7. PICK b : b = m.p \div BDIV /\ b \in Nat
  BY <1>3, LevelByte
<1>8. totsize[n] = Takes(node[n].items)
  BY <1>3 DEF StorageInv, SumsInv, TotsizeExact, Takes
<1>9. m.index \in 1 .. Len(node[n].items) + 1
  BY <1>5 DEF IsPlace
<1>10. QED
  BY <1>3, <1>4, <1>5, <1>6, <1>7, <1>8, <1>9, AddItemStorage

\* A residual leaves the bucket, and the heap if it was there.
LEMMA EraseStorage ==
  ASSUME <<>> \notin Keys, TreeInv, PathInv, ContentInv, StorageInv, NEW k \in Keys, Erase(k)
  PROVE  StorageInv'
<1>1. PICK m : m = BestMatch(k)
  OBVIOUS
<1>2. PICK n : n = m.base
  OBVIOUS
<1>3. PICK path : path = PathTo(m.fwd)
  OBVIOUS
<1>4. PICK items : items = node[n].items
  OBVIOUS
<1>5. PICK left : left = RemoveAt(items, m.index)
  OBVIOUS
<1>6. PICK b : b = Dist(node[n].parent) \div BDIV
  OBVIOUS
<1>7. PICK on_heap : on_heap = Len(k) - m.p \div BDIV
  OBVIOUS
<1>8. PICK size : size = ResidualLen(b, on_heap + b, items[m.index].first)
  OBVIOUS
<1>9. /\ n \in NodeIds /\ m.found /\ nodes' = nodes
      /\ node' = [node EXCEPT ![n].items = left]
      /\ totsize' = [totsize EXCEPT ![n] = IF left = <<>> THEN 0 ELSE @ - Bytes(size)]
      /\ heap' = IF size >= HEAPBOUND THEN heap - 1 ELSE heap
  BY <1>1, <1>2, <1>4, <1>5, <1>6, <1>7, <1>8 DEF Erase
<1>10. /\ m.fwd \in fwds /\ m.p = Level(m.fwd) /\ Spells(k, m.fwd)
       /\ n \in nodes /\ node[n].parent = m.fwd
  BY <1>1, <1>2, <1>9, Places
<1>11. Lists(items, path, node[n].prefix) /\ m.fwd \in FwdIds /\ Len(path) \in Nat
  BY <1>3, <1>4, <1>10, Held DEF ContentInv
<1>12. m.p = Len(path) /\ Starts(k, path)
  BY <1>3, <1>10 DEF Level, Spells
<1>13. b = Len(path) \div BDIV /\ b \in Nat /\ on_heap + b = Len(k)
  <2>1. Dist(m.fwd) = Len(path)
    BY <1>3, <1>11, DistIsLevel DEF Level
  <2>2. b = Len(path) \div BDIV /\ b \in Nat
    BY <1>6, <1>10, <1>11, <2>1, ListsFacts
  <2>3. QED
    BY <1>7, <1>12, <2>2, BaseFacts
<1>14. m.index \in DOMAIN items /\ items[m.index].ent = k
  <2>1. Matched(k, m)
    BY <1>1, Matching DEF ContentInv
  <2>2. QED
    BY <1>2, <1>4, <1>9, <2>1 DEF Matched
<1>15. PICK e : e = items[m.index]
  OBVIOUS
<1>16. size = Len(e.res) /\ e.ent = k
  <2>1. SizeFor(Len(k), b, path)
    BY <1>12, BaseFacts DEF SizeFor
  <2>2. QED
    BY <1>8, <1>11, <1>13, <1>14, <1>15, <2>1, ListsLengths
<1>17. Ents(left) = Ents(items) \ {k}
  BY <1>5, <1>11, <1>14, ListsRemove
<1>18. items \in Seq(Items) /\ left \in Seq(Items) /\ m.index \in 1 .. Len(left) + 1
       /\ Inserted(left, m.index, e, items)
  <2>1. items \in Seq(Items) /\ m.index \in 1 .. Len(items)
    BY <1>11, <1>14 DEF Lists
  <2>2. /\ left \in Seq(Items) /\ Len(left) = Len(items) - 1 /\ DOMAIN left = 1 .. Len(items) - 1
        /\ \A j \in 1 .. Len(items) - 1 : /\ j < m.index => left[j] = items[j]
                                          /\ j >= m.index => left[j] = items[j + 1]
    BY <1>5, <2>1, RemoveAtIs
  <2>3. PICK l \in Nat : l = Len(left) /\ Len(items) = l + 1 /\ DOMAIN left = 1 .. l
                         /\ DOMAIN items = 1 .. l + 1
    <3>1. Len(left) \in Nat /\ Len(items) = Len(left) + 1
      BY <2>1, <2>2
    <3>2. QED
      BY <2>1, <2>2, <3>1
  <2>4. PICK i \in 1 .. l + 1 : i = m.index
    BY <2>1, <2>3
  <2>5. ASSUME NEW j \in 1 .. l + 1
        PROVE  /\ j < i => items[j] = left[j] /\ j \in DOMAIN left
               /\ j = i => items[j] = e
               /\ j > i => items[j] = left[j - 1] /\ j - 1 \in DOMAIN left
    <3>1. CASE j < i
      <4>1. j \in 1 .. l /\ j \in 1 .. Len(items) - 1
        BY <2>3, <2>4, <3>1
      <4>2. QED
        BY <2>2, <2>3, <2>4, <3>1, <4>1
    <3>2. CASE j = i
      BY <1>15, <2>4, <3>2
    <3>3. CASE j > i
      <4>1. PICK h \in 1 .. l : h = j - 1 /\ j = h + 1 /\ h >= i
        <5>1. j - 1 \in 1 .. l /\ j = (j - 1) + 1 /\ j - 1 >= i
          BY <2>4, <3>3
        <5>2. QED
          BY <5>1
      <4>2. h \in 1 .. Len(items) - 1
        BY <2>3, <4>1
      <4>3. left[h] = items[h + 1]
        BY <2>2, <2>4, <4>1, <4>2
      <4>4. QED
        BY <2>3, <2>4, <3>3, <4>1, <4>3
    <3>4. QED
      BY <2>4, <3>1, <3>2, <3>3
  <2>6. Inserted(left, i, e, items)
    BY <2>1, <2>3, <2>5 DEF Inserted
  <2>7. QED
    BY <2>1, <2>2, <2>3, <2>4, <2>6
<1>19. PICK E : E = IF Len(e.res) >= HEAPBOUND THEN {k} ELSE {}
  OBVIOUS
<1>20. /\ Takes(items) = Takes(left) + Bytes(size) /\ Takes(left) \in Int /\ Bytes(size) \in Int
       /\ Big(items) = Big(left) \cup E
  BY <1>16, <1>18, <1>19, TakesMore
<1>21. /\ nodes \subseteq NodeIds /\ node \in [NodeIds -> Node]
       /\ totsize \in [NodeIds -> Int] /\ SumsInv /\ HeapInv
  BY Addresses DEF TreeInv, TypeOK, BucketsOK, StorageInv, SumsInv
<1>22. node'[n].items = left /\ \A c \in NodeIds \ {n} : node'[c] = node[c]
  BY <1>9, <1>21 DEF Node
<1>23. SumsInv'
  <2>1. totsize[n] = Takes(items)
    BY <1>4, <1>9, <1>21 DEF SumsInv, TotsizeExact, Takes
  <2>2. (IF left = <<>> THEN 0 ELSE totsize[n] - Bytes(size)) = Takes(left)
    BY <1>20, <2>1, TakesNone
  <2>3. totsize' = [totsize EXCEPT ![n] = Takes(left)]
    BY <1>9, <2>2
  <2>4. totsize' \in [NodeIds -> Int] /\ totsize'[n] = Takes(left)
        /\ \A c \in NodeIds \ {n} : totsize'[c] = totsize[c]
    BY <1>9, <1>20, <1>21, <2>3
  <2>5. QED
    BY <1>21, <1>22, <2>4, SumsStep
<1>24. k \notin Big(left) /\ \A c \in nodes : c # n => k \notin Big(node[c].items)
  <2>1. k \in Ents(node[n].items)
    BY <1>4, <1>14, EntsAre
  <2>2. \A c \in nodes : c # n => k \notin Ents(node[c].items)
    BY <1>10, <2>1, OneHome DEF ContentInv
  <2>3. QED
    BY <1>17, <2>2, BigEnts
<1>25. OnHeap' = OnHeap \ E
  <2>1. ASSUME NEW l PROVE l \in OnHeap' <=> l \in OnHeap /\ l \notin E
    <3>1. ASSUME NEW c \in nodes', l \in Big(node'[c].items) PROVE l \in OnHeap /\ l \notin E
      <4>1. CASE c = n
        <5>1. l \in Big(left) /\ l \in Big(node[n].items)
          BY <1>4, <1>20, <1>22, <3>1, <4>1
        <5>2. QED
          BY <1>10, <1>19, <1>24, <5>1, OnHeapIs
      <4>2. CASE c # n
        <5>1. c \in nodes /\ node'[c] = node[c]
          BY <1>9, <1>21, <1>22, <4>2
        <5>2. QED
          BY <1>19, <1>24, <3>1, <4>2, <5>1, OnHeapIs
      <4>3. QED
        BY <4>1, <4>2
    <3>2. ASSUME NEW c \in nodes, l \in Big(node[c].items), l \notin E PROVE l \in OnHeap'
      <4>1. CASE c = n
        <5>1. l \in Big(node'[n].items) /\ n \in nodes'
          BY <1>4, <1>9, <1>20, <1>22, <3>2, <4>1
        <5>2. QED
          BY <5>1, OnHeapIs
      <4>2. CASE c # n
        <5>1. c \in nodes' /\ node'[c] = node[c]
          BY <1>9, <1>21, <1>22, <4>2
        <5>2. QED
          BY <3>2, <5>1, OnHeapIs
      <4>3. QED
        BY <4>1, <4>2
    <3>3. QED
      BY <3>1, <3>2, OnHeapIs
  <2>2. QED
    BY <2>1
<1>26. HeapInv'
  <2>1. IsFiniteSet(OnHeap) /\ heap = Cardinality(OnHeap)
    BY <1>21 DEF HeapInv
  <2>2. CASE size >= HEAPBOUND
    <3>1. OnHeap' = OnHeap \ {k} /\ heap' = heap - 1
      BY <1>9, <1>16, <1>19, <1>25, <2>2
    <3>2. k \in OnHeap
      BY <1>4, <1>10, <1>16, <1>19, <1>20, <2>2, OnHeapIs
    <3>3. IsFiniteSet(OnHeap') /\ Cardinality(OnHeap') = Cardinality(OnHeap) - 1
      BY <2>1, <3>1, <3>2, FS_RemoveElement
    <3>4. QED
      BY <2>1, <3>1, <3>3 DEF HeapInv
  <2>3. CASE ~ (size >= HEAPBOUND)
    <3>1. OnHeap' = OnHeap /\ heap' = heap
      BY <1>9, <1>16, <1>19, <1>25, <2>3
    <3>2. QED
      BY <1>21, <3>1, HeapSame
  <2>4. QED
    BY <2>2, <2>3
<1>27. QED
  BY <1>23, <1>26 DEF StorageInv

-----------------------------------------------------------------------------
(* Splits and merges that leave residuals alone *)

\* The items of the buckets n and h are put together or shared out anew.
LEMMA ShareStorage ==
  ASSUME TreeInv, StorageInv, heap' = heap, nodes' \subseteq NodeIds,
         NEW n \in NodeIds, NEW h \in NodeIds,
         nodes' \ {n, h} = nodes \ {n, h}, {n, h} \cap nodes # {}, {n, h} \cap nodes' # {},
         totsize' \in [NodeIds -> Int],
         \A c \in NodeIds \ {n, h} : node'[c] = node[c] /\ totsize'[c] = totsize[c],
         \A c \in {n, h} : totsize'[c] = Takes(node'[c].items),
         \A c \in {n, h} : /\ c \notin nodes => Big(node[c].items) = {}
                           /\ c \notin nodes' => Big(node'[c].items) = {},
         Big(node'[n].items) \cup Big(node'[h].items) = Big(node[n].items) \cup Big(node[h].items)
  PROVE  StorageInv'
<1>1. SumsInv'
  BY SumsStep DEF StorageInv
<1>2. ASSUME NEW l, l \in OnHeap' PROVE l \in OnHeap
  <2>1. PICK c \in nodes' : l \in Big(node'[c].items)
    BY <1>2, OnHeapIs
  <2>2. CASE c \in {n, h}
    <3>1. PICK d \in {n, h} : l \in Big(node[d].items)
      BY <2>1, <2>2
    <3>2. d \in nodes
      BY <3>1
    <3>3. QED
      BY <3>1, <3>2, OnHeapIs
  <2>3. CASE c \notin {n, h}
    <3>1. c \in nodes /\ node'[c] = node[c]
      BY <2>3
    <3>2. QED
      BY <2>1, <3>1, OnHeapIs
  <2>4. QED
    BY <2>2, <2>3
<1>3. ASSUME NEW l, l \in OnHeap PROVE l \in OnHeap'
  <2>1. PICK c \in nodes : l \in Big(node[c].items)
    BY <1>3, OnHeapIs
  <2>2. CASE c \in {n, h}
    <3>1. PICK d \in {n, h} : l \in Big(node'[d].items)
      BY <2>1, <2>2
    <3>2. d \in nodes'
      BY <3>1
    <3>3. QED
      BY <3>1, <3>2, OnHeapIs
  <2>3. CASE c \notin {n, h}
    <3>1. c \in nodes' /\ node'[c] = node[c]
      <4>1. nodes \subseteq NodeIds
        BY Addresses DEF TreeInv
      <4>2. QED
        BY <2>3, <4>1
    <3>2. QED
      BY <2>1, <3>1, OnHeapIs
  <2>4. QED
    BY <2>2, <2>3
<1>4. OnHeap' = OnHeap
  BY <1>2, <1>3
<1>5. QED
  BY <1>1, <1>4, HeapSame DEF StorageInv

\* A bucket that is not in the trie holds nothing.
LEMMA Unused ==
  ASSUME TreeInv, NEW n \in NodeIds, n \notin nodes
  PROVE  node[n].items = <<>> /\ Takes(node[n].items) = 0 /\ Big(node[n].items) = {}
BY TakesNone DEF TreeInv, DeadOK, DeadNode

\* merge_regular next to a bucket of the same size.
LEMMA MergeBuddyStorage ==
  ASSUME TreeInv, PathInv, ContentInv, StorageInv, MergeBuddy PROVE StorageInv'
<1>1. PICK n, c : n = Top.node /\ c = BuddyOf(n)
  OBVIOUS
<1>2. PICK q, r, xs, ys : /\ q = node[n].prefix /\ xs = node[n].items
                          /\ r = node[c].prefix /\ ys = node[c].items
  OBVIOUS
<1>3. PICK both : both = Joined(q, xs, ys)
  OBVIOUS
<1>4. /\ Merging /\ Running("merge_down") /\ q # <<>> /\ c \in NodeIds
      /\ Len(r) = Len(q) /\ UNCHANGED heap
      /\ \/ /\ xs = <<>> /\ nodes' = nodes \ {n} /\ UNCHANGED totsize
            /\ node' = [node EXCEPT ![n] = DeadNode, ![c].prefix = Front(r)]
         \/ UNCHANGED <<nodes, node, totsize>>
         \/ /\ nodes' = nodes \ {c}
            /\ node' = [node EXCEPT ![n].items = both, ![n].prefix = Front(@), ![c] = DeadNode]
            /\ totsize' = [totsize EXCEPT ![n] = @ + totsize[c], ![c] = 0]
  BY <1>1, <1>2, <1>3 DEF MergeBuddy, MergingRegular, Merging, Delete
<1>5. /\ n \in nodes /\ n \in NodeIds /\ nodes \subseteq NodeIds
      /\ node \in [NodeIds -> Node] /\ xs \in Seq(Items)
  BY <1>1, <1>2, <1>4, MergeFacts
<1>6. c \in nodes /\ c # n /\ ys \in Seq(Items)
  <2>1. c \in nodes /\ c # n
    BY <1>1, <1>2, <1>4, <1>5, BuddyBucket
  <2>2. c \in NodeIds /\ ys = node[c].items
    BY <1>2, <1>4
  <2>3. node[c] \in Node
    BY <1>5, <2>2
  <2>4. node[c].items \in Seq(Items)
    BY <2>3 DEF Node
  <2>5. QED
    BY <2>1, <2>2, <2>4
<1>7. DeadNode.items = <<>>
  BY DEF DeadNode
<1>8. CASE /\ xs = <<>> /\ nodes' = nodes \ {n} /\ UNCHANGED totsize
           /\ node' = [node EXCEPT ![n] = DeadNode, ![c].prefix = Front(r)]
  <2>0. c \in NodeIds /\ ys = node[c].items
    BY <1>2, <1>4
  <2>1. node'[n].items = <<>> /\ node'[c].items = ys /\ \A d \in NodeIds \ {n, c} : node'[d] = node[d]
    <3>1. node'[n] = DeadNode /\ node'[c] = [node[c] EXCEPT !.prefix = Front(r)]
          /\ \A d \in NodeIds \ {n, c} : node'[d] = node[d]
      BY <1>5, <1>6, <1>8, <2>0
    <3>2. [node[c] EXCEPT !.prefix = Front(r)].items = node[c].items
      <4>1. node[c] \in Node
        BY <1>5, <2>0
      <4>2. QED
        BY <4>1 DEF Node
    <3>3. QED
      BY <1>7, <2>0, <3>1, <3>2
  <2>2. \A d \in NodeIds : node'[d].items = node[d].items
    BY <1>2, <1>8, <2>1
  <2>3. QED
    BY <1>2, <1>4, <1>5, <1>8, <2>2, StorageSame
<1>9. CASE UNCHANGED <<nodes, node, totsize>>
  BY <1>4, <1>5, <1>9, StorageSame
<1>10. CASE /\ nodes' = nodes \ {c}
            /\ node' = [node EXCEPT ![n].items = both, ![n].prefix = Front(@), ![c] = DeadNode]
            /\ totsize' = [totsize EXCEPT ![n] = @ + totsize[c], ![c] = 0]
  <2>1. node'[n].items = both /\ node'[c].items = <<>> /\ \A d \in NodeIds \ {n, c} : node'[d] = node[d]
    BY <1>4, <1>5, <1>6, <1>7, <1>10 DEF Node
  <2>2. /\ Takes(both) = Takes(xs) + Takes(ys) /\ Takes(xs) \in Int /\ Takes(ys) \in Int
        /\ Big(both) = Big(xs) \cup Big(ys)
    <3>1. Concat(Items, xs, ys, xs \o ys) /\ Concat(Items, ys, xs, ys \o xs)
      BY <1>5, <1>6, ConcatAny
    <3>2. both = ys \o xs \/ both = xs \o ys
      BY <1>3 DEF Joined
    <3>3. CASE both = xs \o ys
      BY <1>5, <1>6, <3>1, <3>3, TakesConcat
    <3>4. CASE both = ys \o xs
      <4>1. /\ Takes(both) = Takes(ys) + Takes(xs) /\ Takes(xs) \in Int /\ Takes(ys) \in Int
            /\ Big(both) = Big(ys) \cup Big(xs)
        BY <1>5, <1>6, <3>1, <3>4, TakesConcat
      <4>2. QED
        BY <4>1
    <3>5. QED
      BY <3>2, <3>3, <3>4
  <2>3. totsize \in [NodeIds -> Int] /\ totsize[n] = Takes(xs) /\ totsize[c] = Takes(ys)
    BY <1>2, <1>4, <1>5 DEF StorageInv, SumsInv, TotsizeExact, Takes
  <2>4. /\ totsize' \in [NodeIds -> Int]
        /\ totsize'[n] = Takes(both) /\ totsize'[c] = 0
        /\ \A d \in NodeIds \ {n, c} : totsize'[d] = totsize[d]
    BY <1>4, <1>5, <1>6, <1>10, <2>2, <2>3
  <2>5. \A d \in {n, c} : totsize'[d] = Takes(node'[d].items)
    BY <2>1, <2>4, TakesNone
  <2>6. Big(node'[n].items) \cup Big(node'[c].items) = Big(node[n].items) \cup Big(node[c].items)
        /\ Big(node'[c].items) = {}
    BY <1>2, <2>1, <2>2, TakesNone
  <2>7. /\ nodes' \subseteq NodeIds /\ nodes' \ {n, c} = nodes \ {n, c}
        /\ n \in nodes' /\ {n, c} \cap nodes # {} /\ {n, c} \cap nodes' # {}
    BY <1>5, <1>6, <1>10
  <2>8. \A d \in {n, c} : /\ d \notin nodes => Big(node[d].items) = {}
                          /\ d \notin nodes' => Big(node'[d].items) = {}
    BY <1>5, <1>6, <2>6, <2>7
  <2>9. heap' = heap /\ c \in NodeIds
    BY <1>4
  <2>10. QED
    BY SMTT(60), <1>5, <2>1, <2>4, <2>5, <2>6, <2>7, <2>8, <2>9, ShareStorage
<1>11. QED
  BY <1>4, <1>8, <1>9, <1>10

\* The sizes that split_node adds up are those of the items.
LEMMA SizeOfIs ==
  ASSUME <<>> \notin Keys,
         NEW items, NEW path, NEW q, Lists(items, path, q), NEW b, b = Len(path) \div BDIV,
         NEW size, SizeFor(size, b, path)
  PROVE  SizeOf(items, b, size, 0) = Takes(items)
<1>1. \A i \in DOMAIN items : ResidualLen(b, size, items[i].first) = Len(items[i].res)
  BY ListsLengths
<1>2. \A i \in DOMAIN items : Len(items[i].res) \in Nat
  <2>1. items \in Seq(Items)
    BY DEF Lists
  <2>2. QED
    BY <2>1, LengthsAre
<1>3. \A i \in DOMAIN items :
        Positive(ResidualLen(b, size, items[i].first) - 0) = Len(items[i].res)
  BY <1>1, <1>2 DEF Positive
<1>4. [i \in DOMAIN items |-> Positive(ResidualLen(b, size, items[i].first) - 0)] = Lengths(items)
  BY <1>3 DEF Lengths
<1>5. QED
  BY <1>4 DEF SizeOf, Takes

\* split_node, while the bucket covers more than one slot.
LEMMA SplitNodeStorage ==
  ASSUME <<>> \notin Keys, TreeInv, ShapeInv, PathInv, LevelInv, ContentInv, StorageInv, SplitNode
  PROVE  StorageInv'
<1>1. PICK n : n = Top.node
  OBVIOUS
<1>2. PICK path : path = PathTo(Top.fwd)
  OBVIOUS
<1>3. PICK items : items = node[n].items
  OBVIOUS
<1>4. PICK b : b = Top.p \div BDIV
  OBVIOUS
<1>5. PICK q : q = node[n].prefix
  OBVIOUS
<1>6. PICK low, high : low = Append(q, 0) /\ high = Append(q, 1)
  OBVIOUS
<1>7. PICK count : count = LowCount(items, 1, Top.p % BDIV, Len(low))
  OBVIOUS
<1>8. PICK lows, highs : /\ lows = SubSeq(items, 1, count)
                         /\ highs = SubSeq(items, count + 1, Len(items))
  OBVIOUS
<1>9. PICK h : h = FreshNode
  OBVIOUS
<1>10. PICK size : size = Positive(Top.size) + b
  OBVIOUS
<1>11. PICK lowsize : lowsize = SizeOf(lows, b, size, 0)
  OBVIOUS
<1>12. Running("split")
  BY DEF SplitNode
<1>13. /\ UNCHANGED heap
       /\ \/ /\ node' = [node EXCEPT ![n].prefix = high]
             /\ UNCHANGED <<nodes, totsize>>
          \/ /\ highs = <<>>
             /\ node' = [node EXCEPT ![n].prefix = low]
             /\ totsize' = [totsize EXCEPT ![n] = lowsize]
             /\ UNCHANGED nodes
          \/ /\ nodes # NodeIds
             /\ nodes' = nodes \cup {h}
             /\ node' = [node EXCEPT ![n] = [node[n] EXCEPT !.prefix = low, !.items = lows],
                                     ![h] = [prefix |-> high, parent |-> Top.fwd, items |-> highs]]
             /\ totsize' = [totsize EXCEPT ![n] = lowsize, ![h] = totsize[n] - lowsize]
  BY <1>1, <1>3, <1>4, <1>5, <1>6, <1>7, <1>8, <1>9, <1>10, <1>11 DEF SplitNode
<1>14. /\ n \in nodes /\ n \in NodeIds /\ Lists(items, path, q) /\ Top.p = Len(path)
       /\ b = Len(path) \div BDIV /\ SizeFor(size, b, path) /\ items \in Seq(Items)
  BY <1>1, <1>2, <1>3, <1>4, <1>5, <1>10, <1>12, SplitFacts DEF Lists
<1>15. count \in 0 .. Len(items) /\ Parts(items, count, lows, highs)
  <2>1. count \in 0 .. Len(items)
    BY <1>7, <1>14, LowCountRange
  <2>2. QED
    BY <1>8, <1>14, <2>1, PartsIs
<1>16. Lists(lows, path, q) /\ (highs = <<>> => lows = items)
  BY <1>14, <1>15, ListsParts
<1>17. lowsize = Takes(lows)
  BY <1>11, <1>14, <1>16, SizeOfIs
<1>18. /\ Takes(items) = Takes(lows) + Takes(highs) /\ Takes(lows) \in Int /\ Takes(highs) \in Int
       /\ Big(items) = Big(lows) \cup Big(highs)
  BY <1>14, <1>15, TakesParts
<1>19. /\ nodes \subseteq NodeIds /\ node \in [NodeIds -> Node]
       /\ totsize \in [NodeIds -> Int] /\ totsize[n] = Takes(items)
  BY <1>3, <1>14, Addresses DEF TreeInv, TypeOK, BucketsOK, StorageInv, SumsInv, TotsizeExact, Takes
<1>20. CASE node' = [node EXCEPT ![n].prefix = high] /\ UNCHANGED <<nodes, totsize>>
  BY <1>13, <1>14, <1>20, RemoveStorage
<1>21. CASE /\ highs = <<>>
            /\ node' = [node EXCEPT ![n].prefix = low]
            /\ totsize' = [totsize EXCEPT ![n] = lowsize]
            /\ UNCHANGED nodes
  <2>1. totsize' = totsize
    BY <1>14, <1>16, <1>17, <1>19, <1>21
  <2>2. QED
    BY <1>13, <1>14, <1>21, <2>1, RemoveStorage
<1>22. CASE /\ nodes # NodeIds
            /\ nodes' = nodes \cup {h}
            /\ node' = [node EXCEPT ![n] = [node[n] EXCEPT !.prefix = low, !.items = lows],
                                    ![h] = [prefix |-> high, parent |-> Top.fwd, items |-> highs]]
            /\ totsize' = [totsize EXCEPT ![n] = lowsize, ![h] = totsize[n] - lowsize]
  <2>1. h \in NodeIds /\ h \notin nodes /\ h # n
    BY <1>9, <1>14, <1>19, <1>22 DEF FreshNode
  <2>2. /\ node'[n].items = lows /\ node'[h].items = highs
        /\ \A c \in NodeIds \ {n, h} : node'[c] = node[c]
    BY <1>14, <1>19, <1>22, <2>1 DEF Node
  <2>3. /\ totsize' \in [NodeIds -> Int]
        /\ totsize'[n] = Takes(lows) /\ totsize'[h] = Takes(highs)
        /\ \A c \in NodeIds \ {n, h} : totsize'[c] = totsize[c]
    <3>1. totsize[n] - lowsize = Takes(highs)
      <4>1. PICK x \in Int : x = Takes(lows)
        BY <1>18
      <4>2. PICK y \in Int : y = Takes(highs)
        BY <1>18
      <4>3. totsize[n] = x + y /\ lowsize = x
        BY <1>17, <1>18, <1>19, <4>1, <4>2
      <4>4. QED
        BY <4>2, <4>3
    <3>2. totsize' = [totsize EXCEPT ![n] = Takes(lows), ![h] = Takes(highs)]
      BY <1>17, <1>22, <3>1
    <3>3. QED
      BY <1>14, <1>18, <1>19, <2>1, <3>2
  <2>4. Big(node[h].items) = {}
    BY <2>1, Unused
  <2>5. /\ \A c \in {n, h} : totsize'[c] = Takes(node'[c].items)
        /\ Big(node'[n].items) \cup Big(node'[h].items) = Big(node[n].items) \cup Big(node[h].items)
    BY <1>3, <1>18, <2>2, <2>3, <2>4
  <2>6. /\ nodes' \subseteq NodeIds /\ nodes' \ {n, h} = nodes \ {n, h}
        /\ {n, h} \cap nodes # {} /\ {n, h} \cap nodes' # {} /\ n \in nodes' /\ h \in nodes'
    BY <1>14, <1>19, <1>22, <2>1
  <2>7. \A c \in {n, h} : /\ c \notin nodes => Big(node[c].items) = {}
                          /\ c \notin nodes' => Big(node'[c].items) = {}
    BY <1>14, <2>4, <2>6
  <2>8. QED
    BY SMTT(60), <1>13, <1>14, <2>1, <2>2, <2>3, <2>5, <2>6, <2>7, ShareStorage
<1>23. QED
  BY <1>13, <1>20, <1>21, <1>22

-----------------------------------------------------------------------------
(* Splits and merges that cut residuals or make them longer *)

\* The keys of some items.
EntsOf(items, P) == {items[i].ent : i \in P}

\* Items are as many as their keys.
LEMMA EntsCount ==
  ASSUME NEW items, NEW path, NEW q, Lists(items, path, q), NEW P \in SUBSET DOMAIN items,
         NEW T, T = EntsOf(items, P)
  PROVE  IsFiniteSet(T) /\ Cardinality(T) = Cardinality(P) /\ Cardinality(P) \in Nat
<1>1. IsFiniteSet(P) /\ Cardinality(P) \in Nat
  <2>1. DOMAIN items = 1 .. Len(items) /\ Len(items) \in Nat
    BY ListsFacts
  <2>2. IsFiniteSet(DOMAIN items)
    BY <2>1, FS_Interval
  <2>3. QED
    BY <2>2, FS_Subset, FS_CardinalityType
<1>2. PICK f : f = [i \in P |-> items[i].ent]
  OBVIOUS
<1>3. f \in Bijection(P, T)
  <2>1. f \in [P -> T] /\ \A i \in P : f[i] = items[i].ent
    BY <1>2 DEF EntsOf
  <2>2. \A i, j \in P : f[i] = f[j] => i = j
    BY <2>1, ListsFacts
  <2>3. \A k \in T : \E i \in P : f[i] = k
    BY <2>1 DEF EntsOf
  <2>4. QED
    BY <2>1, <2>2, <2>3 DEF Bijection, Injection, Surjection, IsInjective
<1>4. QED
  BY <1>1, <1>3, FS_Bijection DEF ExistsBijection

\* What changes is in the buckets n and h, and the keys that leave or come there are in no other.
Within(n, h, old, new) ==
  /\ n \in NodeIds /\ h \in NodeIds
  /\ nodes' \subseteq NodeIds /\ nodes' \ {n, h} = nodes \ {n, h}
  /\ {n, h} \cap nodes # {} /\ {n, h} \cap nodes' # {}
  /\ \A c \in NodeIds \ {n, h} : node'[c] = node[c]
  /\ \A c \in {n, h} : /\ c \notin nodes => Big(node[c].items) = {}
                       /\ c \notin nodes' => Big(node'[c].items) = {}
  /\ old = Big(node[n].items) \cup Big(node[h].items)
  /\ new = Big(node'[n].items) \cup Big(node'[h].items)
  /\ \A c \in nodes \ {n, h} : Big(node[c].items) \cap (old \cup new) = {}

\* The keys of the buckets n and h that are on the heap become others.
LEMMA HeapShare ==
  ASSUME TreeInv, NEW n, NEW h, NEW old, NEW new, Within(n, h, old, new)
  PROVE  OnHeap' = (OnHeap \ old) \cup new /\ old \subseteq OnHeap
         /\ (OnHeap \ old) \cap new = {}
<1>0. nodes \subseteq NodeIds
  BY Addresses DEF TreeInv
<1> USE DEF Within
<1>1. ASSUME NEW l, l \in OnHeap' PROVE l \in (OnHeap \ old) \cup new
  <2>1. PICK c \in nodes' : l \in Big(node'[c].items)
    BY <1>1, OnHeapIs
  <2>2. CASE c \in {n, h}
    BY <2>1, <2>2
  <2>3. CASE c \notin {n, h}
    <3>1. c \in nodes /\ node'[c] = node[c]
      BY <2>3
    <3>2. QED
      BY <2>1, <2>3, <3>1, OnHeapIs
  <2>4. QED
    BY <2>2, <2>3
<1>2. ASSUME NEW l, l \in OnHeap, l \notin old PROVE l \in OnHeap' /\ l \notin new
  <2>1. PICK c \in nodes : l \in Big(node[c].items)
    BY <1>2, OnHeapIs
  <2>2. c \notin {n, h}
    BY <1>2, <2>1
  <2>3. c \in nodes' /\ node'[c] = node[c]
    BY <1>0, <2>2
  <2>4. QED
    BY <2>1, <2>2, <2>3, OnHeapIs
<1>3. ASSUME NEW l \in new PROVE l \in OnHeap'
  <2>1. PICK c \in {n, h} : l \in Big(node'[c].items)
    OBVIOUS
  <2>2. c \in nodes'
    BY <2>1
  <2>3. QED
    BY <2>1, <2>2, OnHeapIs
<1>4. ASSUME NEW l \in old PROVE l \in OnHeap
  <2>1. PICK c \in {n, h} : l \in Big(node[c].items)
    OBVIOUS
  <2>2. c \in nodes
    BY <2>1
  <2>3. QED
    BY <2>1, <2>2, OnHeapIs
<1>5. QED
  BY <1>1, <1>2, <1>3, <1>4

\* The items of v are those of u without `cut' bytes of their residuals.
Cuts(u, v, cut) ==
  /\ v \in Seq(Items) /\ DOMAIN v = DOMAIN u
  /\ \A i \in DOMAIN u : /\ v[i].ent = u[i].ent
                         /\ Len(v[i].res) = Positive(Len(u[i].res) - cut)

\* The sizes that split_fwd adds up are those of the items it moves.
LEMMA SizeOfCut ==
  ASSUME <<>> \notin Keys,
         NEW u, NEW path, NEW q, Lists(u, path, q), NEW b, b = Len(path) \div BDIV,
         NEW size, SizeFor(size, b, path), NEW cut, NEW v, Cuts(u, v, cut)
  PROVE  SizeOf(u, b, size, cut) = Takes(v)
<1>1. \A i \in DOMAIN u : ResidualLen(b, size, u[i].first) = Len(u[i].res)
  BY ListsLengths
<1>2. \A i \in DOMAIN u : Positive(ResidualLen(b, size, u[i].first) - cut) = Len(v[i].res)
  BY <1>1 DEF Cuts
<1>3. [i \in DOMAIN u |-> Positive(ResidualLen(b, size, u[i].first) - cut)] = Lengths(v)
  BY <1>2 DEF Lengths, Cuts
<1>4. QED
  BY <1>3 DEF SizeOf, Takes

\* Residuals that take no room each take none together.
LEMMA RoomNothing ==
  ASSUME NEW s \in Seq(Int), \A i \in 1 .. Len(s) : Bytes(s[i]) <= 0
  PROVE  Room(s) <= 0 /\ Room(s) \in Int
<1>1. PICK a : Sums(s, a)
  BY RoomSums
<1>2. PICK m \in Nat : m = Len(s)
  OBVIOUS
<1> DEFINE T == {i \in Nat : i <= m => a[i] <= 0}
<1>3. 0 \in T
  BY <1>1 DEF Sums
<1>4. ASSUME NEW i \in Nat, i \in T PROVE i + 1 \in T
  <2>1. SUFFICES ASSUME i + 1 <= m PROVE a[i + 1] <= 0
    OBVIOUS
  <2>2. i + 1 \in 1 .. Len(s) /\ i = (i + 1) - 1 /\ a[i] <= 0 /\ i \in 0 .. Len(s)
    BY <1>2, <1>4, <2>1
  <2>3. a[i + 1] = a[i] + Bytes(s[i + 1])
    BY <1>1, <2>2 DEF Sums
  <2>4. a[i] \in Int /\ Bytes(s[i + 1]) \in Int /\ Bytes(s[i + 1]) <= 0
    <3>1. s[i + 1] \in Int /\ PTR \in Int
      BY <2>2, EncodingAssumption
    <3>2. QED
      BY <1>1, <2>2, <3>1 DEF Sums, Bytes
  <2>5. QED
    BY <2>2, <2>3, <2>4
<1> HIDE DEF T
<1>5. \A i \in Nat : i \in T
  BY <1>3, <1>4, Induct
<1>6. a[m] <= 0
  BY <1>2, <1>5 DEF T
<1>7. QED
  BY <1>1, <1>2, <1>6 DEF Sums

\* Others take some.
LEMMA RoomSomething ==
  ASSUME NEW s \in Seq(Int), \A i \in 1 .. Len(s) : Bytes(s[i]) >= 0
  PROVE  Room(s) >= 0 /\ Room(s) \in Int
<1>1. PICK a : Sums(s, a)
  BY RoomSums
<1>2. PICK m \in Nat : m = Len(s)
  OBVIOUS
<1> DEFINE T == {i \in Nat : i <= m => a[i] >= 0}
<1>3. 0 \in T
  BY <1>1 DEF Sums
<1>4. ASSUME NEW i \in Nat, i \in T PROVE i + 1 \in T
  <2>1. SUFFICES ASSUME i + 1 <= m PROVE a[i + 1] >= 0
    OBVIOUS
  <2>2. i + 1 \in 1 .. Len(s) /\ i = (i + 1) - 1 /\ a[i] >= 0 /\ i \in 0 .. Len(s)
    BY <1>2, <1>4, <2>1
  <2>3. a[i + 1] = a[i] + Bytes(s[i + 1])
    BY <1>1, <2>2 DEF Sums
  <2>4. a[i] \in Int /\ Bytes(s[i + 1]) \in Int /\ Bytes(s[i + 1]) >= 0
    <3>1. s[i + 1] \in Int /\ PTR \in Int
      BY <2>2, EncodingAssumption
    <3>2. QED
      BY <1>1, <2>2, <3>1 DEF Sums, Bytes
  <2>5. QED
    BY <2>2, <2>3, <2>4
<1> HIDE DEF T
<1>5. \A i \in Nat : i \in T
  BY <1>3, <1>4, Induct
<1>6. a[m] >= 0
  BY <1>2, <1>5 DEF T
<1>7. QED
  BY <1>1, <1>2, <1>6 DEF Sums

\* It is the same to keep each of them from being negative, or their sum.
LEMMA RoomClamped ==
  ASSUME NEW s \in Seq(Int), NEW t \in Seq(Int), NEW n \in Nat, Len(s) = n, Len(t) = n,
         \A i \in 1 .. n : t[i] = Positive(s[i]),
         (\A i \in 1 .. n : s[i] >= 0) \/ (\A i \in 1 .. n : s[i] = -1)
  PROVE  Positive(Room(s)) = Room(t)
<1>1. PTR \in Nat /\ HEAPBOUND \in Nat /\ HEAPBOUND > PTR
  BY EncodingAssumption
<1>2. Bytes(-1) = -1 /\ Bytes(0) = 0 /\ \A d \in Nat : Bytes(d) >= 0
  BY <1>1 DEF Bytes
<1>3. s \in [1 .. n -> Int] /\ t \in [1 .. n -> Int]
  OBVIOUS
<1>4. CASE \A i \in 1 .. n : s[i] >= 0
  <2>1. \A i \in 1 .. n : s[i] \in Nat /\ t[i] = s[i]
    BY <1>3, <1>4 DEF Positive
  <2>2. t = s
    BY <1>3, <2>1
  <2>3. Room(s) >= 0 /\ Room(s) \in Int
    BY <1>2, <2>1, RoomSomething
  <2>4. QED
    BY <2>2, <2>3 DEF Positive
<1>5. CASE \A i \in 1 .. n : s[i] = -1
  <2>1. \A i \in 1 .. n : t[i] = 0
    BY <1>5 DEF Positive
  <2>2. Room(s) <= 0 /\ Room(s) \in Int
    BY <1>2, <1>5, RoomNothing
  <2>3. Room(t) <= 0 /\ Room(t) \in Int
    BY <1>2, <2>1, RoomNothing
  <2>4. Room(t) >= 0
    BY <1>2, <2>1, RoomSomething
  <2>5. QED
    BY <2>2, <2>3, <2>4 DEF Positive
<1>6. QED
  BY <1>4, <1>5

\* Where a byte is cut off the items of one slot, each has that byte, or none has.
LEMMA AllOrNone ==
  ASSUME <<>> \notin Keys,
         NEW u, NEW path, NEW q, Lists(u, path, q), Len(q) = BSIZE,
         NEW cut, cut = IF (Len(path) + 1) % BDIV = 0 THEN 1 ELSE 0
  PROVE  /\ cut \in {0, 1} /\ \A i \in DOMAIN u : Len(u[i].res) \in Nat
         /\ \/ \A i \in DOMAIN u : Len(u[i].res) - cut >= 0
            \/ \A i \in DOMAIN u : Len(u[i].res) - cut = -1
<1>1. PICK b \in Nat : b = Len(path) \div BDIV
  BY ListsFacts
<1>2. ASSUME NEW i \in DOMAIN u
      PROVE  /\ u[i].ent \in Keys /\ Len(u[i].ent) \in Nat /\ Len(u[i].ent) > 0
             /\ Len(u[i].res) = Positive(Len(u[i].ent) - b) /\ Belongs(u[i].ent, path, q)
  <2>1. PICK k \in Keys : k = u[i].ent /\ u[i].res = Residual(k, b) /\ Belongs(k, path, q)
    BY <1>1, ListsFacts
  <2>2. Len(u[i].res) = Positive(Len(k) - b)
    BY <1>1, <2>1, ResidualFacts
  <2>3. k # <<>> /\ k \in Seq(Byte)
    BY <2>1, BaseFacts
  <2>4. Len(k) \in Nat /\ Len(k) > 0
    BY <2>3
  <2>5. QED
    BY <2>1, <2>2, <2>4
<1>3. \A i \in DOMAIN u : Len(u[i].res) \in Nat
  BY <1>1, <1>2 DEF Positive
<1>4. CASE cut = 0
  BY <1>3, <1>4
<1>5. CASE cut = 1 /\ b = 0
  <2>1. \A i \in DOMAIN u : Len(u[i].res) >= 1
    BY <1>2, <1>5 DEF Positive
  <2>2. QED
    BY <1>3, <1>5, <2>1
<1>6. CASE cut = 1 /\ b >= 1
  <2>1. PICK down, c, p : down = Append(path, Pad(q)) /\ c = b + 1 /\ p = Len(path) + 1
    OBVIOUS
  <2>2. path \in Seq(Slots) /\ q \in SlotPrefixes /\ Len(path) \in Nat
    BY DEF Lists
  <2>3. ASSUME NEW i \in DOMAIN u
        PROVE  Starts(u[i].ent, down) /\ down \in Seq(Slots) /\ Len(down) = p
    BY <1>2, <2>1, <2>2, PathDown
  <2>4. ASSUME NEW i \in DOMAIN u PROVE Len(down) \div BDIV = c
    <3>1. p % BDIV = 0
      BY <1>6, <2>1
    <3>2. QED
      BY <1>1, <2>1, <2>2, <2>3, <3>1, NextLevel
  <2>5. ASSUME NEW i \in DOMAIN u, NEW j \in DOMAIN u PROVE Len(u[i].ent) = Len(u[j].ent)
    <3>1. Agree(u[i].ent, u[j].ent, c)
      BY <1>2, <2>3, <2>4, StartsAgree
    <3>2. c \in Nat /\ c >= 2
      BY <1>6, <2>1
    <3>3. QED
      BY <1>2, <3>1, <3>2, AgreeLen
  <2>6. ASSUME NEW i \in DOMAIN u, NEW j \in DOMAIN u PROVE Len(u[i].res) = Len(u[j].res)
    BY <1>2, <2>5
  <2>7. CASE \E j \in DOMAIN u : Len(u[j].res) = 0
    BY <1>6, <2>6, <2>7
  <2>8. CASE ~ \E j \in DOMAIN u : Len(u[j].res) = 0
    BY <1>3, <1>6, <2>8
  <2>9. QED
    BY <2>7, <2>8
<1>7. QED
  BY <1>1, <1>4, <1>5, <1>6

\* So it makes no difference that in the upper half only the sum is kept from being negative.
LEMMA SizeOfUpperCut ==
  ASSUME <<>> \notin Keys,
         NEW u, NEW path, NEW q, Lists(u, path, q), Len(q) = BSIZE, NEW b, b = Len(path) \div BDIV,
         NEW size, SizeFor(size, b, path),
         NEW cut, cut = IF (Len(path) + 1) % BDIV = 0 THEN 1 ELSE 0, NEW v, Cuts(u, v, cut)
  PROVE  SizeOfUpper(u, b, size, cut) = Takes(v)
<1>1. \A i \in DOMAIN u : ResidualLen(b, size, u[i].first) = Len(u[i].res)
  BY ListsLengths
<1>2. PICK s : s = [i \in DOMAIN u |-> Len(u[i].res) - cut]
  OBVIOUS
<1>3. SizeOfUpper(u, b, size, cut) = Positive(Room(s))
  <2>1. [i \in DOMAIN u |-> ResidualLen(b, size, u[i].first) - cut] = s
    BY <1>1, <1>2
  <2>2. QED
    BY <2>1 DEF SizeOfUpper
<1>4. PICK n \in Nat : DOMAIN u = 1 .. n
  BY ListsFacts
<1>5. ASSUME NEW i \in 1 .. n
      PROVE  Len(u[i].res) \in Nat /\ Len(v[i].res) = Positive(Len(u[i].res) - cut)
  <2>1. u[i] \in Items
    BY <1>4, <1>5, ListsFacts
  <2>2. u[i].res \in Seq(Byte)
    BY <2>1 DEF Items
  <2>3. Len(u[i].res) \in Nat
    BY <2>2
  <2>4. i \in DOMAIN u
    BY <1>4
  <2>5. Len(v[i].res) = Positive(Len(u[i].res) - cut)
    BY <2>4 DEF Cuts
  <2>6. QED
    BY <2>3, <2>5
<1>6. /\ s \in Seq(Int) /\ Len(s) = n /\ \A i \in 1 .. n : s[i] = Len(u[i].res) - cut
  <2>1. s = [i \in 1 .. n |-> Len(u[i].res) - cut]
    BY <1>2, <1>4
  <2>2. s \in [1 .. n -> Int]
    BY <1>5, <2>1
  <2>3. QED
    BY <2>1, <2>2
<1>7. /\ Lengths(v) \in Seq(Int) /\ Len(Lengths(v)) = n
      /\ \A i \in 1 .. n : Lengths(v)[i] = Positive(s[i])
  <2>1. DOMAIN v = 1 .. n
    BY <1>4 DEF Cuts
  <2>2. Lengths(v) = [i \in 1 .. n |-> Len(v[i].res)]
    BY <2>1 DEF Lengths
  <2>3. ASSUME NEW i \in 1 .. n PROVE Len(v[i].res) = Positive(s[i]) /\ Len(v[i].res) \in Int
    <3>1. Len(v[i].res) = Positive(s[i])
      BY <1>5, <1>6
    <3>2. s[i] \in Int
      BY <1>6
    <3>3. QED
      BY <3>1, <3>2 DEF Positive
  <2>4. [i \in 1 .. n |-> Len(v[i].res)] \in [1 .. n -> Int]
    BY <2>3
  <2>5. Lengths(v) \in [1 .. n -> Int]
    BY <2>2, <2>4
  <2>6. \A i \in 1 .. n : Lengths(v)[i] = Positive(s[i])
    BY <2>2, <2>3
  <2>7. Lengths(v) \in Seq(Int) /\ Len(Lengths(v)) = n
    BY <2>5
  <2>8. QED
    BY <2>6, <2>7
<1>8. (\A i \in 1 .. n : s[i] >= 0) \/ (\A i \in 1 .. n : s[i] = -1)
  <2>1. \A i \in 1 .. n : i \in DOMAIN u /\ s[i] = Len(u[i].res) - cut
    BY <1>4, <1>6
  <2>2. CASE \A i \in DOMAIN u : Len(u[i].res) - cut >= 0
    BY <2>1, <2>2
  <2>3. CASE \A i \in DOMAIN u : Len(u[i].res) - cut = -1
    BY <2>1, <2>3
  <2>4. QED
    BY <2>2, <2>3, AllOrNone
<1>9. Positive(Room(s)) = Room(Lengths(v))
  BY <1>6, <1>7, <1>8, RoomClamped
<1>10. QED
  BY <1>3, <1>9 DEF Takes

\* What move_data leaves of the items.
LEMMA MovedCuts ==
  ASSUME <<>> \notin Keys,
         NEW items, NEW path, NEW q, Lists(items, path, q), Len(q) = BSIZE,
         NEW b, b = Len(path) \div BDIV,
         NEW p, p = Len(path) + 1, NEW cut, cut = IF p % BDIV = 0 THEN 1 ELSE 0,
         NEW size, SizeFor(size, b, path), NEW count \in 0 .. Len(items),
         NEW moved, moved = [i \in DOMAIN items |->
                               IF cut = 1 THEN CutItem(items, i, count, b, size) ELSE items[i]]
  PROVE  Cuts(items, moved, cut)
<1>1. Lists(moved, Append(path, Pad(q)), <<>>) /\ DOMAIN moved = DOMAIN items
  BY ListsDown
<1>2. moved \in Seq(Items) /\ b \in Nat
  BY <1>1, ListsFacts DEF Lists
<1>3. ASSUME NEW i \in DOMAIN items
      PROVE  moved[i].ent = items[i].ent /\ Len(moved[i].res) = Positive(Len(items[i].res) - cut)
  <2>1. PICK k \in Keys : k = items[i].ent /\ items[i].res = Residual(k, b)
    BY ListsFacts
  <2>2. Len(items[i].res) = Positive(Len(k) - b) /\ Len(items[i].res) \in Nat /\ Len(k) \in Nat
    BY <1>2, <2>1, ResidualFacts, BaseFacts
  <2>3. CASE cut = 1
    <3>1. PICK c \in Nat : c = b + 1
      BY <1>2
    <3>2. p % BDIV = 0
      BY <2>3
    <3>3. moved[i] = Item(k, c)
      BY <2>1, <2>3, <3>1, <3>2, CutIs
    <3>4. moved[i].ent = k /\ moved[i].res = Residual(k, c)
      BY <3>3 DEF Item
    <3>5. Len(moved[i].res) = Positive(Len(k) - c)
      BY <3>4, ResidualFacts
    <3>6. Positive(Len(k) - c) = Positive(Positive(Len(k) - b) - 1)
      BY SMTT(30), <1>2, <2>2, <3>1 DEF Positive
    <3>7. QED
      BY <2>1, <2>2, <2>3, <3>4, <3>5, <3>6
  <2>4. CASE cut # 1
    <3>1. cut = 0 /\ moved[i] = items[i]
      BY <2>4
    <3>2. QED
      BY <2>2, <3>1 DEF Positive
  <2>5. QED
    BY <2>3, <2>4
<1>4. QED
  BY <1>1, <1>2, <1>3 DEF Cuts

\* Some items, and what is left of them.
LEMMA CutParts ==
  ASSUME NEW u \in Seq(Items), NEW v, NEW cut, Cuts(u, v, cut), NEW count \in 0 .. Len(u),
         NEW ul, NEW uh, Parts(u, count, ul, uh), NEW vl, NEW vh, Parts(v, count, vl, vh)
  PROVE  Cuts(ul, vl, cut) /\ Cuts(uh, vh, cut)
<1>1. v \in Seq(Items) /\ Len(v) = Len(u)
  BY DEF Cuts
<1>2. PICK l \in Nat : l = Len(u) - count /\ Len(u) = count + l
  <2>1. Len(u) - count \in Nat /\ Len(u) = count + (Len(u) - count)
    OBVIOUS
  <2>2. QED
    BY <2>1
<1>3. /\ vl \in Seq(Items) /\ DOMAIN vl = DOMAIN ul /\ DOMAIN ul = 1 .. count
      /\ \A i \in 1 .. count : ul[i] = u[i] /\ vl[i] = v[i]
  BY DEF Parts
<1>4. /\ vh \in Seq(Items) /\ DOMAIN vh = DOMAIN uh /\ DOMAIN uh = 1 .. l
      /\ \A i \in 1 .. l : uh[i] = u[count + i] /\ vh[i] = v[count + i]
  BY <1>1, <1>2 DEF Parts
<1>5. \A i \in 1 .. count : i \in DOMAIN u
  BY <1>2
<1>6. \A i \in 1 .. l : count + i \in DOMAIN u
  BY <1>2
<1>7. Cuts(ul, vl, cut)
  BY <1>3, <1>5 DEF Cuts
<1>8. Cuts(uh, vh, cut)
  BY <1>4, <1>6 DEF Cuts
<1>9. QED
  BY <1>7, <1>8

\* The keys whose residuals leave the heap with their first byte.
Freed(items, cut) ==
  IF cut = 1 THEN EntsOf(items, {j \in DOMAIN items : Len(items[j].res) = HEAPBOUND}) ELSE {}

\* The others stay there.
LEMMA CutBig ==
  ASSUME NEW items, NEW path, NEW q, Lists(items, path, q), NEW cut \in {0, 1},
         NEW moved, Cuts(items, moved, cut)
  PROVE  Big(moved) = Big(items) \ Freed(items, cut) /\ Freed(items, cut) \subseteq Big(items)
<1>1. HEAPBOUND \in Nat /\ HEAPBOUND > 0
  BY EncodingAssumption
<1>2. \A i \in DOMAIN items : Len(items[i].res) \in Nat
  BY LengthsAre DEF Lists
<1>3. ASSUME NEW k PROVE k \in Big(moved) <=> k \in Big(items) /\ k \notin Freed(items, cut)
  <2>1. ASSUME k \in Big(moved) PROVE k \in Big(items) /\ k \notin Freed(items, cut)
    <3>1. PICK i \in DOMAIN moved : moved[i].ent = k /\ Len(moved[i].res) >= HEAPBOUND
      BY <2>1, BigIs
    <3>2. i \in DOMAIN items /\ items[i].ent = k /\ Positive(Len(items[i].res) - cut) >= HEAPBOUND
      BY <3>1 DEF Cuts
    <3>3. Len(items[i].res) >= HEAPBOUND + cut
      BY <1>1, <1>2, <3>2 DEF Positive
    <3>4. k \in Big(items)
      <4>1. Len(items[i].res) >= HEAPBOUND
        BY <1>1, <1>2, <3>2, <3>3
      <4>2. QED
        BY <3>2, <4>1, BigIs
    <3>5. ASSUME k \in Freed(items, cut) PROVE FALSE
      <4>1. cut = 1
        BY <3>5 DEF Freed
      <4>2. PICK j \in DOMAIN items : items[j].ent = k /\ Len(items[j].res) = HEAPBOUND
        BY <3>5, <4>1 DEF Freed, EntsOf
      <4>3. j = i
        BY <3>2, <4>2, ListsFacts
      <4>4. QED
        BY <1>1, <3>3, <4>1, <4>2, <4>3
    <3>6. QED
      BY <3>4, <3>5
  <2>2. ASSUME k \in Big(items), k \notin Freed(items, cut) PROVE k \in Big(moved)
    <3>1. PICK i \in DOMAIN items : items[i].ent = k /\ Len(items[i].res) >= HEAPBOUND
      BY <2>2, BigIs
    <3>2. cut = 1 => Len(items[i].res) # HEAPBOUND
      BY <2>2, <3>1 DEF Freed, EntsOf
    <3>3. Positive(Len(items[i].res) - cut) >= HEAPBOUND
      BY <1>1, <1>2, <3>1, <3>2 DEF Positive
    <3>4. i \in DOMAIN moved /\ moved[i].ent = k /\ Len(moved[i].res) >= HEAPBOUND
      BY <3>1, <3>3 DEF Cuts
    <3>5. QED
      BY <3>4, BigIs
  <2>3. QED
    BY <2>1, <2>2
<1>4. ASSUME NEW k \in Freed(items, cut) PROVE k \in Big(items)
  <2>1. PICK j \in DOMAIN items : items[j].ent = k /\ Len(items[j].res) = HEAPBOUND
    BY DEF Freed, EntsOf
  <2>2. QED
    BY <1>1, <2>1, BigIs
<1>5. QED
  BY <1>3, <1>4

\* They are as many as split_fwd counts.
LEMMA FreedCount ==
  ASSUME <<>> \notin Keys,
         NEW items, NEW path, NEW q, Lists(items, path, q), NEW b, b = Len(path) \div BDIV,
         NEW size, SizeFor(size, b, path), NEW cut \in {0, 1}
  PROVE  /\ IsFiniteSet(Freed(items, cut))
         /\ Cardinality(Freed(items, cut)) = cut * BlocksFreed(items, b, size)
<1>1. PICK P \in SUBSET DOMAIN items : P = {j \in DOMAIN items : Len(items[j].res) = HEAPBOUND}
  OBVIOUS
<1>2. BlocksFreed(items, b, size) = Cardinality(P)
  <2>1. \A i \in DOMAIN items : ResidualLen(b, size, items[i].first) = Len(items[i].res)
    BY ListsLengths
  <2>2. {i \in DOMAIN items : ResidualLen(b, size, items[i].first) = HEAPBOUND} = P
    BY <1>1, <2>1
  <2>3. QED
    BY <2>2 DEF BlocksFreed
<1>3. PICK T : T = EntsOf(items, P)
  OBVIOUS
<1>4. IsFiniteSet(T) /\ Cardinality(T) = Cardinality(P) /\ Cardinality(P) \in Nat
  BY <1>3, EntsCount
<1>5. CASE cut = 1
  <2>1. Freed(items, cut) = T
    BY <1>1, <1>3, <1>5 DEF Freed
  <2>2. QED
    BY <1>2, <1>4, <1>5, <2>1
<1>6. CASE cut = 0
  <2>1. Freed(items, cut) = {} /\ cut * BlocksFreed(items, b, size) = 0
    BY <1>2, <1>4, <1>6 DEF Freed
  <2>2. QED
    BY <2>1, FS_EmptySet
<1>7. QED
  BY <1>5, <1>6

\* Residuals leave the heap.
LEMMA HeapLess ==
  ASSUME HeapInv, NEW gone, gone \subseteq OnHeap, OnHeap' = OnHeap \ gone,
         heap' = heap - Cardinality(gone)
  PROVE  HeapInv'
<1>1. IsFiniteSet(OnHeap) /\ heap = Cardinality(OnHeap)
  BY DEF HeapInv
<1>2. IsFiniteSet(OnHeap') /\ Cardinality(OnHeap') = Cardinality(OnHeap) - Cardinality(OnHeap \cap gone)
  BY <1>1, FS_Difference
<1>3. OnHeap \cap gone = gone
  OBVIOUS
<1>4. QED
  BY <1>1, <1>2, <1>3 DEF HeapInv

\* Residuals go to the heap.
LEMMA HeapMore ==
  ASSUME HeapInv, NEW more, IsFiniteSet(more), OnHeap \cap more = {}, OnHeap' = OnHeap \cup more,
         heap' = heap + Cardinality(more)
  PROVE  HeapInv'
<1>1. IsFiniteSet(OnHeap) /\ heap = Cardinality(OnHeap)
  BY DEF HeapInv
<1>2. /\ IsFiniteSet(OnHeap')
      /\ Cardinality(OnHeap') =
           Cardinality(OnHeap) + Cardinality(more) - Cardinality(OnHeap \cap more)
  BY <1>1, FS_Union
<1>3. Cardinality(OnHeap \cap more) = 0
  BY FS_EmptySet
<1>4. Cardinality(OnHeap) \in Nat /\ Cardinality(more) \in Nat
  BY <1>1, FS_CardinalityType
<1>5. QED
  BY <1>1, <1>2, <1>3, <1>4 DEF HeapInv

\* Keys on the heap are those of one bucket.
LEMMA BigHome ==
  ASSUME ContentInv, NEW n \in nodes, NEW c \in nodes, n # c
  PROVE  Big(node[n].items) \cap Big(node[c].items) = {}
<1>1. Ents(node[n].items) \cap Ents(node[c].items) = {}
  BY OneHome DEF ContentInv
<1>2. Big(node[n].items) \subseteq Ents(node[n].items)
      /\ Big(node[c].items) \subseteq Ents(node[c].items)
  BY BigEnts
<1>3. QED
  BY <1>1, <1>2

\* The items of the bucket n, without their first bytes, stay in it or are shared with a
\* new bucket h.
LEMMA CutStorage ==
  ASSUME TreeInv, ContentInv, StorageInv, NEW n \in nodes, NEW h \in NodeIds,
         h = n \/ h \notin nodes, nodes' = nodes \cup {h},
         NEW gone, gone \subseteq Big(node[n].items), heap' = heap - Cardinality(gone),
         totsize' \in [NodeIds -> Int],
         \A c \in NodeIds \ {n, h} : node'[c] = node[c] /\ totsize'[c] = totsize[c],
         \A c \in {n, h} : totsize'[c] = Takes(node'[c].items),
         Big(node'[n].items) \cup Big(node'[h].items) = Big(node[n].items) \ gone
  PROVE  StorageInv'
<1>1. nodes \subseteq NodeIds /\ n \in NodeIds
  BY Addresses DEF TreeInv
<1>2. SumsInv'
  BY SumsStep DEF StorageInv
<1>3. h \notin nodes => Big(node[h].items) = {}
  BY Unused
<1>4. PICK old : old = Big(node[n].items) \cup Big(node[h].items)
  OBVIOUS
<1>5. old = Big(node[n].items)
  BY <1>3, <1>4
<1>6. PICK new : new = Big(node'[n].items) \cup Big(node'[h].items)
  OBVIOUS
<1>7. new = old \ gone
  BY <1>5, <1>6
<1>8. \A c \in nodes \ {n, h} : Big(node[c].items) \cap (old \cup new) = {}
  BY <1>5, <1>7, BigHome
<1>9. /\ nodes' \subseteq NodeIds /\ nodes' \ {n, h} = nodes \ {n, h}
      /\ {n, h} \cap nodes # {} /\ {n, h} \cap nodes' # {} /\ n \in nodes' /\ h \in nodes'
  BY <1>1
<1>10. \A c \in {n, h} : /\ c \notin nodes => Big(node[c].items) = {}
                         /\ c \notin nodes' => Big(node'[c].items) = {}
  BY <1>3, <1>9
<1>11. \A c \in NodeIds \ {n, h} : node'[c] = node[c]
  OBVIOUS
<1>12. OnHeap' = (OnHeap \ old) \cup new /\ old \subseteq OnHeap
  <2>1. Within(n, h, old, new)
    BY <1>1, <1>4, <1>6, <1>8, <1>9, <1>10, <1>11 DEF Within
  <2>2. QED
    BY <2>1, HeapShare
<1>13. gone \subseteq OnHeap /\ OnHeap' = OnHeap \ gone
  BY <1>5, <1>7, <1>12
<1>14. HeapInv'
  BY <1>13, HeapLess DEF StorageInv
<1>15. QED
  BY <1>2, <1>14 DEF StorageInv

\* split_fwd.
LEMMA SplitFwdStorage ==
  ASSUME <<>> \notin Keys, TreeInv, ShapeInv, PathInv, LevelInv, ContentInv, StorageInv, SplitFwd
  PROVE  StorageInv'
<1>1. PICK n : n = Top.node
  OBVIOUS
<1>2. PICK path : path = PathTo(Top.fwd)
  OBVIOUS
<1>3. PICK p : p = Top.p + 1
  OBVIOUS
<1>4. PICK cut : cut = IF p % BDIV = 0 THEN 1 ELSE 0
  OBVIOUS
<1>5. PICK items : items = node[n].items
  OBVIOUS
<1>6. PICK b : b = Top.p \div BDIV
  OBVIOUS
<1>7. PICK q : q = node[n].prefix
  OBVIOUS
<1>8. PICK size : size = Positive(Top.size) + b
  OBVIOUS
<1>9. PICK count : count = LowCount(items, 1 + cut, p % BDIV, 1)
  OBVIOUS
<1>10. PICK moved : moved = [i \in DOMAIN items |->
                               IF cut = 1 THEN CutItem(items, i, count, b, size) ELSE items[i]]
  OBVIOUS
<1>11. PICK lows, highs : /\ lows = SubSeq(moved, 1, count)
                          /\ highs = SubSeq(moved, count + 1, Len(moved))
  OBVIOUS
<1>12. PICK g, l : g = FreshFwd /\ l = FreshNode
  OBVIOUS
<1>13. PICK lowers, highers : /\ lowers = SubSeq(items, 1, count)
                              /\ highers = SubSeq(items, count + 1, Len(moved))
  OBVIOUS
<1>14. PICK lowsize, highsize : /\ lowsize = SizeOf(lowers, b, size, cut)
                                /\ highsize = SizeOfUpper(highers, b, size, cut)
  OBVIOUS
<1>15. Running("split") /\ Len(q) = BSIZE
  BY <1>1, <1>7 DEF SplitFwd
<1>16. /\ heap' = heap - cut * BlocksFreed(items, b, size)
       /\ \/ /\ lows = <<>>
             /\ node' = [node EXCEPT ![n] = [prefix |-> << 1 >>, parent |-> g, items |-> highs]]
             /\ totsize' = [totsize EXCEPT ![n] = highsize]
             /\ nodes' = nodes
          \/ /\ highs = <<>>
             /\ node' = [node EXCEPT ![n] = [prefix |-> << 0 >>, parent |-> g, items |-> lows]]
             /\ totsize' = [totsize EXCEPT ![n] = lowsize]
             /\ nodes' = nodes
          \/ /\ nodes # NodeIds
             /\ nodes' = nodes \cup {l}
             /\ node' = [node EXCEPT ![n] = [prefix |-> << 1 >>, parent |-> g, items |-> highs],
                                     ![l] = [prefix |-> << 0 >>, parent |-> g, items |-> lows]]
             /\ totsize' = [totsize EXCEPT ![n] = highsize, ![l] = lowsize]
  <2>1. heap' = heap - cut * BlocksFreed(items, b, size)
    BY ZenonT(60), <1>1, <1>3, <1>4, <1>5, <1>6, <1>8 DEF SplitFwd
  <2> DEFINE TheB == Top.p \div BDIV
             TheSize == Positive(Top.size) + TheB
             TheP == Top.p + 1
             TheCut == IF TheP % BDIV = 0 THEN 1 ELSE 0
             TheOld == node[Top.node].items
             TheC == LowCount(TheOld, 1 + TheCut, TheP % BDIV, 1)
             TheMoved ==
               [i \in DOMAIN TheOld |->
                  IF TheCut = 1 THEN CutItem(TheOld, i, TheC, TheB, TheSize) ELSE TheOld[i]]
             TheLows == SubSeq(TheMoved, 1, TheC)
             TheHighs == SubSeq(TheMoved, TheC + 1, Len(TheMoved))
             TheLowsize == SizeOf(SubSeq(TheOld, 1, TheC), TheB, TheSize, TheCut)
             TheHighsize ==
               SizeOfUpper(SubSeq(TheOld, TheC + 1, Len(TheMoved)), TheB, TheSize, TheCut)
  <2>2. \/ /\ TheLows = <<>>
           /\ node' = [node EXCEPT ![Top.node] = [prefix |-> << 1 >>, parent |-> FreshFwd,
                                                 items |-> TheHighs]]
           /\ totsize' = [totsize EXCEPT ![Top.node] = TheHighsize]
           /\ nodes' = nodes
        \/ /\ TheHighs = <<>>
           /\ node' = [node EXCEPT ![Top.node] = [prefix |-> << 0 >>, parent |-> FreshFwd,
                                                 items |-> TheLows]]
           /\ totsize' = [totsize EXCEPT ![Top.node] = TheLowsize]
           /\ nodes' = nodes
        \/ /\ nodes # NodeIds
           /\ nodes' = nodes \cup {FreshNode}
           /\ node' = [node EXCEPT ![Top.node] = [prefix |-> << 1 >>, parent |-> FreshFwd,
                                                 items |-> TheHighs],
                                   ![FreshNode] = [prefix |-> << 0 >>, parent |-> FreshFwd,
                                                   items |-> TheLows]]
           /\ totsize' = [totsize EXCEPT ![Top.node] = TheHighsize, ![FreshNode] = TheLowsize]
    BY ZenonT(60) DEF SplitFwd
  <2>3. TheLows = lows /\ TheHighs = highs /\ TheLowsize = lowsize /\ TheHighsize = highsize
    BY <1>1, <1>3, <1>4, <1>5, <1>6, <1>8, <1>9, <1>10, <1>11, <1>13, <1>14
  <2> HIDE DEF TheLows, TheHighs, TheLowsize, TheHighsize
  <2>4. QED
    BY <1>1, <1>12, <2>1, <2>2, <2>3
<1>17. /\ n \in nodes /\ n \in NodeIds /\ Lists(items, path, q) /\ Top.p = Len(path)
       /\ b = Len(path) \div BDIV /\ SizeFor(size, b, path) /\ items \in Seq(Items)
  BY <1>1, <1>2, <1>5, <1>6, <1>7, <1>8, <1>15, SplitFacts DEF Lists
<1>18. count \in 0 .. Len(items)
  BY <1>9, <1>17, LowCountRange
<1>19. Cuts(items, moved, cut) /\ Len(moved) = Len(items)
  <2>1. p = Len(path) + 1
    BY <1>3, <1>17
  <2>2. Cuts(items, moved, cut)
    BY <1>4, <1>10, <1>15, <1>17, <1>18, <2>1, MovedCuts
  <2>3. QED
    BY <1>17, <2>2 DEF Cuts
<1>20. Parts(items, count, lowers, highers) /\ Parts(moved, count, lows, highs)
  <2>1. moved \in Seq(Items)
    BY <1>19 DEF Cuts
  <2>2. Parts(items, count, lowers, highers)
    BY <1>13, <1>17, <1>18, <1>19, PartsIs
  <2>3. Parts(moved, count, lows, highs)
    BY <1>11, <1>18, <1>19, <2>1, PartsIs
  <2>4. QED
    BY <2>2, <2>3
<1>21. Cuts(lowers, lows, cut) /\ Cuts(highers, highs, cut)
  BY <1>17, <1>18, <1>19, <1>20, CutParts
<1>22. Lists(lowers, path, q) /\ Lists(highers, path, q)
  BY <1>17, <1>18, <1>20, ListsParts
<1>23. lowsize = Takes(lows) /\ highsize = Takes(highs)
  <2>1. lowsize = Takes(lows)
    BY <1>14, <1>17, <1>21, <1>22, SizeOfCut
  <2>2. cut = IF (Len(path) + 1) % BDIV = 0 THEN 1 ELSE 0
    BY <1>3, <1>4, <1>17
  <2>3. highsize = Takes(highs)
    BY <1>14, <1>15, <1>17, <1>21, <1>22, <2>2, SizeOfUpperCut
  <2>4. QED
    BY <2>1, <2>3
<1>24. Takes(lows) \in Int /\ Takes(highs) \in Int /\ Big(moved) = Big(lows) \cup Big(highs)
  BY <1>18, <1>19, <1>20, TakesParts DEF Cuts
<1>25. cut \in {0, 1}
  BY <1>4
<1>26. PICK gone : gone = Freed(items, cut)
  OBVIOUS
<1>27. /\ gone \subseteq Big(items) /\ Big(moved) = Big(items) \ gone
       /\ heap' = heap - Cardinality(gone)
  BY <1>16, <1>17, <1>19, <1>25, <1>26, CutBig, FreedCount
<1>28. /\ nodes \subseteq NodeIds /\ node \in [NodeIds -> Node] /\ totsize \in [NodeIds -> Int]
  BY Addresses DEF TreeInv, TypeOK, BucketsOK, StorageInv, SumsInv
<1>29. CASE /\ lows = <<>>
            /\ node' = [node EXCEPT ![n] = [prefix |-> << 1 >>, parent |-> g, items |-> highs]]
            /\ totsize' = [totsize EXCEPT ![n] = highsize]
            /\ nodes' = nodes
  <2>1. node'[n].items = highs /\ \A c \in NodeIds \ {n} : node'[c] = node[c]
    BY <1>17, <1>28, <1>29
  <2>2. totsize' \in [NodeIds -> Int] /\ totsize'[n] = Takes(highs)
        /\ \A c \in NodeIds \ {n} : totsize'[c] = totsize[c]
    BY <1>17, <1>23, <1>24, <1>28, <1>29
  <2>3. Big(highs) = Big(items) \ gone
    BY <1>24, <1>27, <1>29, TakesNone
  <2>4. nodes' = nodes \cup {n}
    BY <1>17, <1>29
  <2>5. QED
    BY <1>5, <1>17, <1>27, <2>1, <2>2, <2>3, <2>4, CutStorage
<1>30. CASE /\ highs = <<>>
            /\ node' = [node EXCEPT ![n] = [prefix |-> << 0 >>, parent |-> g, items |-> lows]]
            /\ totsize' = [totsize EXCEPT ![n] = lowsize]
            /\ nodes' = nodes
  <2>1. node'[n].items = lows /\ \A c \in NodeIds \ {n} : node'[c] = node[c]
    BY <1>17, <1>28, <1>30
  <2>2. totsize' \in [NodeIds -> Int] /\ totsize'[n] = Takes(lows)
        /\ \A c \in NodeIds \ {n} : totsize'[c] = totsize[c]
    BY <1>17, <1>23, <1>24, <1>28, <1>30
  <2>3. Big(lows) = Big(items) \ gone
    BY <1>24, <1>27, <1>30, TakesNone
  <2>4. nodes' = nodes \cup {n}
    BY <1>17, <1>30
  <2>5. QED
    BY <1>5, <1>17, <1>27, <2>1, <2>2, <2>3, <2>4, CutStorage
<1>31. CASE /\ nodes # NodeIds
            /\ nodes' = nodes \cup {l}
            /\ node' = [node EXCEPT ![n] = [prefix |-> << 1 >>, parent |-> g, items |-> highs],
                                    ![l] = [prefix |-> << 0 >>, parent |-> g, items |-> lows]]
            /\ totsize' = [totsize EXCEPT ![n] = highsize, ![l] = lowsize]
  <2>1. l \in NodeIds /\ l \notin nodes /\ l # n
    BY <1>12, <1>17, <1>28, <1>31 DEF FreshNode
  <2>2. /\ node'[n].items = highs /\ node'[l].items = lows
        /\ \A c \in NodeIds \ {n, l} : node'[c] = node[c]
    BY <1>17, <1>28, <1>31, <2>1
  <2>3. /\ totsize' \in [NodeIds -> Int] /\ totsize'[n] = Takes(highs) /\ totsize'[l] = Takes(lows)
        /\ \A c \in NodeIds \ {n, l} : totsize'[c] = totsize[c]
    BY <1>17, <1>23, <1>24, <1>28, <1>31, <2>1
  <2>4. Big(node'[n].items) \cup Big(node'[l].items) = Big(items) \ gone
    BY <1>24, <1>27, <2>2
  <2>5. \A c \in {n, l} : totsize'[c] = Takes(node'[c].items)
    BY <2>2, <2>3
  <2>6. \A c \in NodeIds \ {n, l} : node'[c] = node[c] /\ totsize'[c] = totsize[c]
    BY <2>2, <2>3
  <2>7. gone \subseteq Big(node[n].items)
        /\ Big(node'[n].items) \cup Big(node'[l].items) = Big(node[n].items) \ gone
    BY <1>5, <1>27, <2>4
  <2>8. QED
    BY ZenonT(60), <1>17, <1>27, <1>31, <2>1, <2>3, <2>5, <2>6, <2>7, CutStorage
<1>32. QED
  BY <1>16, <1>29, <1>30, <1>31

\* The items of the bucket n become `moved', and it takes what they take.
PutsBack(n, items, moved, size) ==
  /\ items = node[n].items /\ node'[n].items = moved
  /\ \A c \in NodeIds \ {n} : node'[c] = node[c]
  /\ size = Lengths(moved) /\ totsize' = [totsize EXCEPT ![n] = Room(size)]
  /\ heap' = heap + Cardinality({i \in DOMAIN items : size[i] = HEAPBOUND})

\* The residuals of the bucket n become one byte longer.
LEMMA PutBackStorage ==
  ASSUME TreeInv, ContentInv, StorageInv, NEW n \in nodes, nodes' = nodes,
         NEW items, NEW moved, NEW size, PutsBack(n, items, moved, size),
         NEW path, NEW t, Lists(moved, path, t), Cuts(moved, items, 1), Ents(moved) = Ents(items)
  PROVE  StorageInv'
<1> USE DEF PutsBack
<1>1. nodes \subseteq NodeIds /\ n \in NodeIds /\ node \in [NodeIds -> Node]
      /\ totsize \in [NodeIds -> Int]
  BY Addresses DEF TreeInv, TypeOK, BucketsOK, StorageInv, SumsInv
<1>2. node'[n].items = moved /\ \A c \in NodeIds \ {n} : node'[c] = node[c]
  OBVIOUS
<1>3. moved \in Seq(Items) /\ items \in Seq(Items) /\ DOMAIN items = DOMAIN moved
  BY DEF Lists, Cuts
<1>4. SumsInv'
  <2>1. Takes(moved) = Room(size) /\ Takes(moved) \in Int
    <3>0. PICK e : e = <<>>
      OBVIOUS
    <3>1. e \in Seq(Items)
      BY <3>0
    <3>2. Concat(Items, moved, e, moved \o e)
      BY <1>3, <3>1, ConcatAny
    <3>3. Takes(moved) \in Int
      BY <1>3, <3>1, <3>2, TakesConcat
    <3>4. QED
      BY <3>3 DEF Takes
  <2>2. /\ totsize' \in [NodeIds -> Int] /\ totsize'[n] = Takes(node'[n].items)
        /\ \A c \in NodeIds \ {n} : totsize'[c] = totsize[c]
    BY <1>1, <1>2, <2>1
  <2>3. QED
    BY <1>2, <2>2, SumsStep DEF StorageInv
<1>5. PICK more : more = Freed(moved, 1)
  OBVIOUS
<1>6. PICK P \in SUBSET DOMAIN moved : P = {j \in DOMAIN moved : Len(moved[j].res) = HEAPBOUND}
  OBVIOUS
<1>7. more = EntsOf(moved, P)
  BY <1>5, <1>6 DEF Freed
<1>8. IsFiniteSet(more) /\ Cardinality(more) = Cardinality(P)
  BY <1>7, EntsCount
<1>9. heap' = heap + Cardinality(more)
  <2>1. \A i \in DOMAIN moved : size[i] = Len(moved[i].res)
    BY DEF Lengths
  <2>2. {i \in DOMAIN items : size[i] = HEAPBOUND} = P
    BY <1>3, <1>6, <2>1
  <2>3. QED
    BY <1>8, <2>2
<1>10. Big(items) = Big(moved) \ more /\ more \subseteq Big(moved)
  BY <1>5, CutBig
<1>11. \A c \in nodes : c # n => Big(node[c].items) \cap (Big(items) \cup Big(moved)) = {}
  <2>1. \A c \in nodes : c # n => Ents(node[c].items) \cap Ents(items) = {}
    BY OneHome DEF ContentInv
  <2>2. Big(items) \subseteq Ents(items) /\ Big(moved) \subseteq Ents(items)
        /\ \A c \in nodes : Big(node[c].items) \subseteq Ents(node[c].items)
    BY BigEnts
  <2>3. QED
    BY <2>1, <2>2
<1>12. OnHeap' = OnHeap \cup more /\ OnHeap \cap more = {}
  <2>1. ASSUME NEW k, k \in OnHeap' PROVE k \in OnHeap \cup more
    <3>1. PICK c \in nodes' : k \in Big(node'[c].items)
      BY <2>1, OnHeapIs
    <3>2. CASE c = n
      BY <1>2, <1>10, <3>1, <3>2, OnHeapIs
    <3>3. CASE c # n
      BY <1>1, <1>2, <3>1, <3>3, OnHeapIs
    <3>4. QED
      BY <3>2, <3>3
  <2>2. ASSUME NEW k \in more PROVE k \in OnHeap' /\ k \notin OnHeap
    <3>1. k \in Big(moved) /\ k \notin Big(items)
      BY <1>10
    <3>2. k \in OnHeap'
      BY <1>2, <3>1, OnHeapIs
    <3>3. ASSUME NEW c \in nodes, k \in Big(node[c].items) PROVE FALSE
      BY <1>11, <3>1, <3>3
    <3>4. QED
      BY <3>2, <3>3, OnHeapIs
  <2>3. ASSUME NEW k \in OnHeap PROVE k \in OnHeap'
    <3>1. PICK c \in nodes : k \in Big(node[c].items)
      BY OnHeapIs
    <3>2. CASE c = n
      BY <1>2, <1>10, <3>1, <3>2, OnHeapIs
    <3>3. CASE c # n
      <4>1. node'[c] = node[c] /\ c \in nodes'
        BY <1>1, <1>2, <3>3
      <4>2. QED
        BY <3>1, <4>1, OnHeapIs
    <3>4. QED
      BY <3>2, <3>3
  <2>4. QED
    BY <2>1, <2>2, <2>3
<1>13. HeapInv'
  BY <1>8, <1>9, <1>12, HeapMore DEF StorageInv
<1>14. QED
  BY <1>4, <1>13 DEF StorageInv

\* inject_byte makes residuals of these sizes.
LEMMA InjectCuts ==
  ASSUME NEW items, NEW path, NEW t, NEW b, NEW y, NEW size, Backs(items, path, t, b, y, size),
         HasSizes(items, b, size), size = [i \in DOMAIN items |-> size[i]],
         NEW moved, moved = InjectByte(items, y, size), moved \in Seq(Items)
  PROVE  Cuts(moved, items, 1) /\ size = Lengths(moved)
<1>1. /\ items \in Seq(Items) /\ b \in Nat
      /\ \A i \in DOMAIN items : items[i] \in Items /\ items[i].ent \in Keys
  <2>1. /\ path \in Seq(Slots) /\ t \in Slots /\ Lists(items, Append(path, t), <<>>)
        /\ b = Len(path) \div BDIV
    BY DEF Backs
  <2>2. b \in Nat
    BY <2>1, LevelByte
  <2>3. items \in Seq(Items)
    BY <2>1 DEF Lists
  <2>4. \A i \in DOMAIN items : items[i] \in Items /\ items[i].ent \in Keys
    BY <2>1, ListsFacts
  <2>5. QED
    BY <2>2, <2>3, <2>4
<1>2. DOMAIN moved = DOMAIN items
  BY DEF InjectByte
<1>3. ASSUME NEW i \in DOMAIN items
      PROVE  /\ moved[i].ent = items[i].ent /\ Len(moved[i].res) = size[i]
             /\ Len(items[i].res) = Positive(Len(moved[i].res) - 1)
  <2>1. PICK e : e = items[i]
    OBVIOUS
  <2>2. e.first \in Byte \X Byte /\ e.res \in Seq(Byte) /\ e \in Items
    BY <1>1, <2>1 DEF Items
  <2>3. moved[i] = [e EXCEPT !.first = <<y, e.first[1]>>,
                             !.res = IF size[i] > 0 THEN <<e.first[2]>> \o @ ELSE @]
    BY <2>1 DEF InjectByte
  <2>4. moved[i].ent = e.ent /\ moved[i].res = IF size[i] > 0 THEN <<e.first[2]>> \o e.res ELSE e.res
    BY <2>2, <2>3 DEF Items
  <2>5. size[i] \in Nat /\ Len(e.res) = Positive(size[i] - 1)
    BY <1>1, <2>1, ResidualFacts DEF HasSizes
  <2>6. CASE size[i] > 0
    <3>1. Len(moved[i].res) = 1 + Len(e.res)
      BY <2>2, <2>4, <2>6
    <3>2. QED
      BY <2>1, <2>4, <2>5, <2>6, <3>1 DEF Positive
  <2>7. CASE ~ (size[i] > 0)
    <3>1. moved[i].res = e.res /\ size[i] = 0
      BY <2>4, <2>5, <2>7
    <3>2. QED
      BY <2>1, <2>4, <2>5, <3>1 DEF Positive
  <2>8. QED
    BY <2>6, <2>7
<1>4. Cuts(moved, items, 1)
  BY <1>1, <1>2, <1>3 DEF Cuts
<1>5. size = Lengths(moved)
  BY <1>2, <1>3 DEF Lengths
<1>6. QED
  BY <1>4, <1>5

\* readd_byte.
LEMMA ReaddByteStorage ==
  ASSUME <<>> \notin Keys, TreeInv, PathInv, LevelInv, ContentInv, StorageInv, ReaddByte
  PROVE  StorageInv'
<1>1. PICK n, f, items : n = Top.node /\ f = node[n].parent /\ items = node[n].items
  OBVIOUS
<1>2. PICK up, t : up = fwd[f].parent /\ t = fwd[f].path
  OBVIOUS
<1>3. PICK path : path = PathTo(up)
  OBVIOUS
<1>4. /\ Merging /\ Running("merge_down") /\ node[n].prefix = <<>> /\ items # <<>> /\ f # Root
      /\ nodes' = nodes
  BY <1>1 DEF ReaddByte, Merging
<1>5. /\ n \in nodes /\ n \in NodeIds /\ nodes \subseteq NodeIds
      /\ node \in [NodeIds -> Node] /\ items \in Seq(Items)
      /\ Lists(items, PathTo(f), <<>>) /\ f \in fwds /\ f \in FwdIds
  BY <1>1, <1>4, MergeFacts
<1>6. Top.p = Level(f)
  BY <1>1, <1>4, ByteLevel DEF ByteIsLevel, Level
<1>7. ~ AllSettled(nodes)
  <2>1. ~ (Count(n) > MergeBound)
    BY <1>1, <1>4, MergingSmall
  <2>2. QED
    BY <1>1, <1>4, <1>5, <2>1 DEF AllSettled, Settled
<1>8. PICK k \in Keys : Spells(k, f) /\ Top.size = Len(k) - Top.p \div BDIV
  BY <1>1, <1>4, <1>7, MergingSize
<1>9. PICK down : down = PathTo(f)
  OBVIOUS
<1>10. PICK p \in Nat : p = Level(f) /\ Top.p = p
  BY <1>4, <1>5, <1>6, PathFacts
<1>11. PICK d \in Nat : d = Len(path) /\ p = d + 1
  <2>1. /\ up \in FwdIds /\ Level(f) = Level(up) + 1
    BY <1>2, <1>4, <1>5, PathFacts
  <2>2. Level(up) \in Nat /\ Level(up) = Len(path)
    BY <1>3, <2>1, PathFacts DEF Level
  <2>3. QED
    BY <1>10, <2>1, <2>2
<1>12. path \in Seq(Slots) /\ t \in Slots /\ down = Append(path, t)
  <2>1. /\ up \in FwdIds /\ t \in Slots /\ down = Append(path, t)
    BY <1>2, <1>3, <1>4, <1>5, <1>9, PathFacts
  <2>2. path \in Seq(Slots)
    BY <1>3, <2>1, PathFacts
  <2>3. QED
    BY <2>1, <2>2
<1>13. CASE p % BDIV # 0
  <2>1. /\ node' = [node EXCEPT ![n] = [prefix |-> t, parent |-> up, items |-> items]]
        /\ totsize' = totsize /\ heap' = heap
    BY <1>1, <1>2, <1>10, <1>13 DEF ReaddByte
  <2>2. \A c \in NodeIds : node'[c].items = node[c].items
    BY <1>1, <1>5, <2>1
  <2>3. QED
    BY <1>4, <1>5, <2>1, <2>2, StorageSame
<1>14. CASE p % BDIV = 0
  <2>1. PICK b : b = d \div BDIV /\ b = Len(path) \div BDIV
    BY <1>11
  <2>2. b \in Nat /\ b + 1 = p \div BDIV /\ (p <= BDIV <=> b = 0)
    <3>1. Whole(p, d)
      BY <1>11, <1>14, WholeBytes
    <3>2. QED
      BY <2>1, <3>1 DEF Whole
  <2>3. PICK on_heap : on_heap = Top.size + 1
    OBVIOUS
  <2>4. on_heap = Len(k) - b
    BY <1>8, <1>10, <2>2, <2>3, BaseFacts
  <2>5. p \div BDIV - 1 = b
    BY <2>2
  <2> DEFINE TheSizes == [i \in DOMAIN node[Top.node].items |->
                            IF Top.p <= BDIV
                            THEN ((Top.size + 1 + (Top.p \div BDIV - 1)) \div Base) * Base
                                 + node[Top.node].items[i].first[1]
                            ELSE Positive(Top.size + 1)]
  <2>6. PICK size : size = TheSizes
    OBVIOUS
  <2>7. /\ \E y \in GetByte(f) :
             node' = [node EXCEPT ![n] = [prefix |-> t, parent |-> up,
                                          items |-> InjectByte(items, y, size)]]
        /\ totsize' = [totsize EXCEPT ![n] = Room(size)]
        /\ heap' = heap + Cardinality({i \in DOMAIN items : size[i] = HEAPBOUND})
    <3>1. Top.p % BDIV = 0
      BY <1>10, <1>14
    <3>2. /\ \E y \in GetByte(node[Top.node].parent) :
               node' = [node EXCEPT ![Top.node] =
                          [prefix |-> fwd[node[Top.node].parent].path,
                           parent |-> fwd[node[Top.node].parent].parent,
                           items |-> InjectByte(node[Top.node].items, y, TheSizes)]]
          /\ totsize' = [totsize EXCEPT ![Top.node] = Room(TheSizes)]
          /\ heap' = heap + Cardinality({i \in DOMAIN node[Top.node].items :
                                           TheSizes[i] = HEAPBOUND})
      BY <3>1 DEF ReaddByte
    <3> HIDE DEF TheSizes
    <3>3. QED
      BY <1>1, <1>2, <2>6, <3>2
  <2>8. PICK y \in GetByte(f) :
          node' = [node EXCEPT ![n] = [prefix |-> t, parent |-> up,
                                       items |-> InjectByte(items, y, size)]]
    BY <2>7
  <2>9. PICK moved : moved = InjectByte(items, y, size)
    OBVIOUS
  <2>10. size = BackSize(items, p, on_heap, b)
    BY <1>1, <1>10, <2>3, <2>5, <2>6 DEF BackSize
  <2> HIDE DEF TheSizes
  <2>11. Lists(items, down, <<>>) /\ Len(down) = p /\ b + 1 = Len(down) \div BDIV
         /\ Starts(k, down)
    <3>1. Len(down) = p /\ Starts(k, down)
      BY <1>8, <1>9, <1>10 DEF Spells, Level
    <3>2. QED
      BY <1>5, <1>9, <2>2, <3>1
  <2>12. HasSizes(items, b, size)
    BY <2>2, <2>4, <2>10, <2>11, BackSizes
  <2>13. \A i \in DOMAIN items : y = EncByte(items[i].ent, b)
    <3>1. ASSUME NEW i \in DOMAIN items PROVE y = EncByte(items[i].ent, b)
      <4>1. PICK e \in Keys : e = items[i].ent /\ Starts(e, down)
        BY <2>11, ListsFacts
      <4>2. Spells(e, f) /\ Level(f) = p
        BY <1>9, <1>10, <4>1 DEF Spells
      <4>3. y = EncByte(e, b)
        BY <1>4, <1>5, <1>14, <2>2, <4>2, GetByteIs
      <4>4. QED
        BY <4>1, <4>3
    <3>2. QED
      BY <3>1
  <2>14. Backs(items, path, t, b, y, size)
    <3>1. Lists(items, Append(path, t), <<>>) /\ (Len(path) + 1) % BDIV = 0
      BY <1>11, <1>12, <1>14, <2>11
    <3>2. QED
      BY <1>12, <2>1, <2>12, <2>13, <3>1 DEF Backs, HasSizes
  <2>15. Lists(moved, path, t) /\ Ents(moved) = Ents(items)
    BY <2>9, <2>14, ListsBackTo DEF BackTo
  <2>16. Cuts(moved, items, 1) /\ size = Lengths(moved)
    <3>1. size = [i \in DOMAIN items |-> size[i]]
      BY <2>10 DEF BackSize
    <3>2. moved \in Seq(Items)
      BY <2>15 DEF Lists
    <3>3. QED
      BY <2>9, <2>12, <2>14, <3>1, <3>2, InjectCuts
  <2>17. node'[n].items = moved /\ \A c \in NodeIds \ {n} : node'[c] = node[c]
    BY <1>5, <2>8, <2>9
  <2>18. PutsBack(n, items, moved, size)
    BY <1>1, <2>7, <2>16, <2>17 DEF PutsBack
  <2>19. QED
    BY <1>4, <1>5, <2>15, <2>16, <2>18, PutBackStorage
<1>15. QED
  BY <1>13, <1>14

-----------------------------------------------------------------------------
(* The theorems on storage *)

\* An item whose residual is on the heap.
LongAt(x) == Len(node[x[1]].items[x[2]].res) >= HEAPBOUND

\* Those are as many as their keys.
LEMMA HeapPlaces ==
  ASSUME TreeInv, PathInv, ContentInv, HeapInv, NEW P, P = {x \in AllItems : LongAt(x)}
  PROVE  heap = Cardinality(P)
<1> DEFINE Key(x) == node[x[1]].items[x[2]].ent
<1>1. ASSUME NEW x \in P
      PROVE  \E n \in nodes : \E i \in DOMAIN node[n].items :
                x = <<n, i>> /\ Key(x) \in Big(node[n].items) /\ Key(x) = node[n].items[i].ent
  <2>1. PICK n \in nodes : \E i \in DOMAIN node[n].items : x = <<n, i>>
    BY DEF AllItems
  <2>2. PICK i \in DOMAIN node[n].items : x = <<n, i>>
    BY <2>1
  <2>3. Key(x) \in Big(node[n].items)
    BY <2>2, BigIs DEF LongAt
  <2>4. QED
    BY <2>2, <2>3
<1>2. ASSUME NEW k \in OnHeap PROVE \E x \in P : Key(x) = k
  <2>1. PICK n \in nodes : k \in Big(node[n].items)
    BY OnHeapIs
  <2>2. PICK i \in DOMAIN node[n].items : /\ node[n].items[i].ent = k
                                          /\ Len(node[n].items[i].res) >= HEAPBOUND
    BY <2>1, BigIs
  <2>3. PICK x : x = <<n, i>>
    OBVIOUS
  <2>4. x \in P /\ Key(x) = k
    BY <2>2, <2>3 DEF AllItems, LongAt
  <2>5. QED
    BY <2>4
<1>3. ASSUME NEW x \in P, NEW y \in P, Key(x) = Key(y) PROVE x = y
  <2>1. PICK n \in nodes : \E i \in DOMAIN node[n].items :
            x = <<n, i>> /\ Key(x) \in Big(node[n].items) /\ Key(x) = node[n].items[i].ent
    BY <1>1
  <2>2. PICK i \in DOMAIN node[n].items :
            x = <<n, i>> /\ Key(x) \in Big(node[n].items) /\ Key(x) = node[n].items[i].ent
    BY <2>1
  <2>3. PICK m \in nodes : \E j \in DOMAIN node[m].items :
            y = <<m, j>> /\ Key(y) \in Big(node[m].items) /\ Key(y) = node[m].items[j].ent
    BY <1>1
  <2>4. PICK j \in DOMAIN node[m].items :
            y = <<m, j>> /\ Key(y) \in Big(node[m].items) /\ Key(y) = node[m].items[j].ent
    BY <2>3
  <2>5. n = m
    <3>1. Key(x) \in Ents(node[n].items) /\ Key(x) \in Ents(node[m].items)
      BY <1>3, <2>2, <2>4, BigEnts
    <3>2. QED
      BY <3>1, OneHome DEF ContentInv
  <2>6. PICK path : Lists(node[n].items, path, node[n].prefix)
    BY Held DEF ContentInv
  <2>7. i = j
    BY <1>3, <2>2, <2>4, <2>5, <2>6, ListsFacts
  <2>8. QED
    BY <2>2, <2>4, <2>5, <2>7
<1> HIDE DEF Key
<1>4. PICK f : f = [k \in OnHeap |-> CHOOSE x \in P : Key(x) = k]
  OBVIOUS
<1>5. /\ f \in [OnHeap -> P] /\ \A k \in OnHeap : f[k] \in P /\ Key(f[k]) = k
  BY <1>2, <1>4
<1>6. \A x \in P : Key(x) \in OnHeap
  BY <1>1, OnHeapIs
<1>7. f \in Bijection(OnHeap, P)
  <2>1. \A k, l \in OnHeap : f[k] = f[l] => k = l
    BY <1>5
  <2>2. \A x \in P : \E k \in OnHeap : f[k] = x
    <3>1. ASSUME NEW x \in P PROVE \E k \in OnHeap : f[k] = x
      <4>1. Key(x) \in OnHeap
        BY <1>6
      <4>2. f[Key(x)] \in P /\ Key(f[Key(x)]) = Key(x)
        BY <1>5, <4>1
      <4>3. f[Key(x)] = x
        BY <1>3, <4>2
      <4>4. QED
        BY <4>1, <4>3
    <3>2. QED
      BY <3>1
  <2>3. QED
    BY <1>5, <2>1, <2>2 DEF Bijection, Injection, Surjection, IsInjective
<1>8. IsFiniteSet(OnHeap) /\ heap = Cardinality(OnHeap)
  BY DEF HeapInv
<1>9. QED
  BY <1>7, <1>8, FS_Bijection DEF ExistsBijection

\* The buckets that the destructor comes to.
Visited == {n \in NodeIds : \E f \in fwds, s \in Slots : fwd[f].children[s] = n}

\* They are all there are.
LEMMA VisitedIs ==
  ASSUME TreeInv, PathInv, ContentInv PROVE Visited = nodes
<1>1. nodes \subseteq NodeIds
  BY Addresses DEF TreeInv
<1>2. ASSUME NEW n \in Visited PROVE n \in nodes
  <2>1. PICK f \in fwds, s \in Slots : fwd[f].children[s] = n
    BY DEF Visited
  <2>2. n \in NodeIds /\ n \notin FwdIds /\ fwds \subseteq FwdIds
    BY Addresses DEF TreeInv, Visited
  <2>3. QED
    BY <2>1, <2>2, ChildOf
<1>3. ASSUME NEW n \in nodes PROVE n \in Visited
  <2>1. PICK q : q = node[n].prefix
    OBVIOUS
  <2>2. q \in SlotPrefixes /\ node[n].parent \in fwds /\ n \in NodeIds
    BY <1>1, <2>1, Held DEF ContentInv, Lists
  <2>3. Pad(q) \in Slots /\ Covers(q, Pad(q))
    BY <2>2, PadCovered
  <2>4. fwd[node[n].parent].children[Pad(q)] = n
    BY <2>1, <2>3 DEF TreeInv, TreeWellFormed
  <2>5. QED
    BY <2>2, <2>3, <2>4 DEF Visited
<1>4. QED
  BY <1>2, <1>3

\* ~ptrie_base frees every block.
LEMMA DestroyStorage ==
  ASSUME TreeInv, PathInv, ContentInv, StorageInv, Destroy PROVE StorageInv'
<1>1. /\ nodes' = {} /\ node' = [n \in NodeIds |-> DeadNode] /\ totsize' = [n \in NodeIds |-> 0]
  BY DEF Destroy
<1>2. PICK places : places = UNION {{<<n, i>> : i \in DOMAIN node[n].items} : n \in Visited}
  OBVIOUS
<1>3. heap' = heap - Cardinality({x \in places :
                       CleanupLen(node[x[1]].parent, node[x[1]].items[x[2]]) >= HEAPBOUND})
  BY <1>2 DEF Destroy, Visited
<1>4. places = AllItems
  BY <1>2, VisitedIs DEF AllItems
<1>5. PICK P : P = {x \in AllItems : LongAt(x)}
  OBVIOUS
<1>6. {x \in places : CleanupLen(node[x[1]].parent, node[x[1]].items[x[2]]) >= HEAPBOUND} = P
  <2>1. ASSUME NEW x \in AllItems
        PROVE  CleanupLen(node[x[1]].parent, node[x[1]].items[x[2]]) >= HEAPBOUND <=> LongAt(x)
    <3>1. PICK n \in nodes : \E i \in DOMAIN node[n].items : x = <<n, i>>
      BY DEF AllItems
    <3>2. PICK i \in DOMAIN node[n].items : x = <<n, i>>
      BY <3>1
    <3>3. CleanupLen(node[n].parent, node[n].items[i]) = Len(node[n].items[i].res)
      BY CleanupLens
    <3>4. x[1] = n /\ x[2] = i
      BY <3>2
    <3>5. QED
      BY <3>3, <3>4 DEF LongAt
  <2>2. QED
    BY <1>4, <1>5, <2>1
<1>7. heap' = heap - Cardinality(P) /\ heap = Cardinality(P)
  BY <1>3, <1>5, <1>6, HeapPlaces DEF StorageInv
<1>8. heap' = 0
  <2>1. heap \in Int
    BY DEF TreeInv, TypeOK
  <2>2. QED
    BY <1>7, <2>1
<1>9. HeapInv'
  <2>1. OnHeap' = {}
    BY <1>1, OnHeapIs
  <2>2. QED
    BY <1>8, <2>1, FS_EmptySet DEF HeapInv
<1>10. SumsInv'
  <2>1. totsize' \in [NodeIds -> Int]
    BY <1>1
  <2>2. \A n \in NodeIds : totsize'[n] = 0 /\ node'[n].items = <<>>
    BY <1>1 DEF DeadNode
  <2>3. \A n \in NodeIds : totsize'[n] = Takes(node'[n].items)
    BY <2>2, TakesNone
  <2>4. QED
    BY <2>1, <2>3, SumsStep DEF StorageInv
<1>11. QED
  BY <1>9, <1>10 DEF StorageInv

\* An empty trie takes nothing.
LEMMA InitStorage ==
  ASSUME Init PROVE StorageInv
<1>1. nodes = {} /\ heap = 0 /\ totsize = [n \in NodeIds |-> 0]
      /\ \A n \in NodeIds : node[n].items = <<>>
  BY DEF Init, DeadNode
<1>2. OnHeap = {}
  BY <1>1, OnHeapIs
<1>3. HeapInv
  BY <1>1, <1>2, FS_EmptySet DEF HeapInv
<1>4. TotsizeExact
  BY <1>1, TakesNone DEF TotsizeExact, Takes
<1>5. QED
  BY <1>1, <1>3, <1>4 DEF StorageInv, SumsInv

\* Every step keeps _totsize and the heap exact.
LEMMA NextStorage ==
  ASSUME <<>> \notin Keys, TreeInv, ShapeInv, PathInv, LevelInv, ContentInv, StorageInv,
         [Next]_vars
  PROVE  StorageInv'
<1>1. ASSUME NEW k \in Keys, InsertInNewBucket(k) PROVE StorageInv'
  BY <1>1, InsertInNewBucketStorage
<1>2. ASSUME NEW k \in Keys, InsertInBucket(k) PROVE StorageInv'
  BY <1>2, InsertInBucketStorage
<1>3. ASSUME NEW k \in Keys, Erase(k) PROVE StorageInv'
  BY <1>3, EraseStorage
<1>4. CASE Destroy
  BY <1>4, DestroyStorage
<1>5. CASE SplitNode
  BY <1>5, SplitNodeStorage
<1>6. CASE SplitFwd
  BY <1>6, SplitFwdStorage
<1>7. CASE ReaddByte
  BY <1>7, ReaddByteStorage
<1>8. CASE MergeEmpty
  BY <1>8, MergeEmptyStorage
<1>9. CASE MergeFiner
  BY <1>9, MergeFinerStorage
<1>10. CASE MergeBuddy
  BY <1>10, MergeBuddyStorage
<1>11. CASE MergeFwd
  BY <1>11, MergeFwdStorage
<1>12. CASE \/ \E k \in Keys : LookUp(k)
            \/ SplitExhausted \/ MergeDownStop \/ AfterReadd \/ Climb \/ UNCHANGED vars
  BY <1>12, IdleStorage
<1>13. QED
  BY <1>1, <1>2, <1>3, <1>4, <1>5, <1>6, <1>7, <1>8, <1>9, <1>10, <1>11, <1>12 DEF Next, Continue

\* The sizes kept by differences and the counted heap blocks fit the items, always.
THEOREM StorageHolds ==
  ASSUME <<>> \notin Keys PROVE Spec => []StorageInv
<1>1. Init => StorageInv
  BY InitStorage
<1>2. TreeInv /\ ShapeInv /\ PathInv /\ LevelInv /\ ContentInv /\ StorageInv /\ [Next]_vars
        => StorageInv'
  BY NextStorage
<1>3. QED
  BY <1>1, <1>2, TreeHolds, ShapeHolds, PathsHold, ContentsHold, PTL DEF Spec

\* _totsize is what the residuals of the bucket take, through every split and merge.
THEOREM TotsizeHolds ==
  ASSUME <<>> \notin Keys PROVE Spec => []TotsizeExact
<1>1. StorageInv => TotsizeExact
  BY DEF StorageInv, SumsInv
<1>2. QED
  BY <1>1, StorageHolds, PTL

\* Each long residual is one heap block, and there is no other: no operation leaks or
\* frees twice, the destructor included.
THEOREM HeapHolds ==
  ASSUME <<>> \notin Keys PROVE Spec => []HeapExact
<1>1. TreeInv /\ PathInv /\ ContentInv /\ StorageInv => HeapExact
  <2> SUFFICES ASSUME TreeInv, PathInv, ContentInv, StorageInv PROVE HeapExact
    OBVIOUS
  <2>1. heap = Cardinality({x \in AllItems : LongAt(x)})
    BY HeapPlaces DEF StorageInv
  <2>2. QED
    BY <2>1 DEF HeapExact, LongAt
<1>2. QED
  BY <1>1, TreeHolds, PathsHold, ContentsHold, StorageHolds, PTL

-----------------------------------------------------------------------------
(* A copy of the trie *)

\* The smaller number has the smaller quotient.
LEMMA QuotientOrder ==
  ASSUME NEW E \in Nat \ {0}, NEW x \in Nat, NEW y \in Nat, x <= y
  PROVE  x \div E <= y \div E
<1>1. PICK c \in Nat, r \in 0 .. E - 1 : c = x \div E /\ x = E * c + r
  BY Division
<1>2. PICK d \in Nat, s \in 0 .. E - 1 : d = y \div E /\ y = E * d + s
  BY Division
<1>3. ASSUME c > d PROVE FALSE
  <2>1. PICK k \in Nat : c = d + 1 + k
    <3>1. c - d - 1 \in Nat /\ c = d + 1 + (c - d - 1)
      BY <1>3
    <3>2. QED
      BY <3>1
  <2>2. E * c = E * d + E + E * k /\ E * k \in Nat /\ E * d \in Nat
    BY <2>1
  <2>3. QED
    BY <1>1, <1>2, <2>2
<1>4. QED
  BY <1>1, <1>2, <1>3

\* Numbers with the same quotient have the same one by every higher power of two.
LEMMA HigherQuotients ==
  ASSUME NEW x \in Nat, NEW y \in Nat, NEW e \in Nat, x \div 2 ^ e = y \div 2 ^ e
  PROVE  \A m \in Nat : x \div 2 ^ (e + m) = y \div 2 ^ (e + m)
<1> DEFINE S == {m \in Nat : x \div 2 ^ (e + m) = y \div 2 ^ (e + m)}
<1>1. 0 \in S
  <2>1. e + 0 = e
    OBVIOUS
  <2>2. QED
    BY <2>1
<1>2. ASSUME NEW m \in Nat, m \in S PROVE m + 1 \in S
  <2>1. PICK i \in Nat : i = e + m /\ i + 1 = e + (m + 1)
    <3>1. e + m \in Nat /\ (e + m) + 1 = e + (m + 1)
      OBVIOUS
    <3>2. QED
      BY <3>1
  <2>2. x \div 2 ^ i = y \div 2 ^ i
    BY <1>2, <2>1
  <2>3. PICK q \in Nat : q = x \div 2 ^ i
    BY <2>1, HalfQuotient
  <2>4. PICK c \in Nat, d \in Nat : c = x \div 2 ^ (i + 1) /\ d = y \div 2 ^ (i + 1)
    BY <2>1, HalfQuotient
  <2>5. q = 2 * c + (q % 2) /\ q = 2 * d + (q % 2)
    <3>1. x \div 2 ^ i = 2 * (x \div 2 ^ (i + 1)) + ((x \div 2 ^ i) % 2)
      BY HalfQuotient
    <3>2. y \div 2 ^ i = 2 * (y \div 2 ^ (i + 1)) + ((y \div 2 ^ i) % 2)
      BY HalfQuotient
    <3>3. QED
      BY <2>2, <2>3, <2>4, <3>1, <3>2
  <2>6. c = d
    BY <2>5
  <2>7. QED
    BY <2>1, <2>4, <2>6
<1> HIDE DEF S
<1>3. \A m \in Nat : m \in S
  BY <1>1, <1>2, Induct
<1>4. QED
  BY <1>3 DEF S

\* Indexes of slots that agree in their leading bits.
LEMMA LeadingSlots ==
  ASSUME NEW c \in DOMAIN SlotAt, NEW d \in DOMAIN SlotAt, NEW e \in 0 .. BSIZE,
         \A t \in 1 .. BSIZE - e : SlotAt[c][t] = SlotAt[d][t]
  PROVE  c \div 2 ^ e = d \div 2 ^ e
<1> DEFINE S == {m \in Nat : m <= BSIZE - e => c \div 2 ^ (BSIZE - m) = d \div 2 ^ (BSIZE - m)}
<1>0. BSIZE \in Nat /\ 2 ^ BSIZE \in Nat \ {0}
  BY BaseFacts, Powers
<1>1. c \in Nat /\ d \in Nat /\ c < 2 ^ BSIZE /\ d < 2 ^ BSIZE
  BY <1>0 DEF SlotAt
<1>2. 0 \in S
  <2>1. BSIZE - 0 = BSIZE
    BY <1>0
  <2>2. ASSUME NEW x \in Nat, x < 2 ^ BSIZE PROVE x \div 2 ^ BSIZE = 0
    <3>1. x = (2 ^ BSIZE) * 0 + x /\ x \in 0 .. 2 ^ BSIZE - 1
      BY <1>0, <2>2
    <3>2. QED
      BY <1>0, <3>1, Quotient
  <2>3. QED
    BY <1>1, <2>1, <2>2
<1>3. ASSUME NEW m \in Nat, m \in S PROVE m + 1 \in S
  <2>1. SUFFICES ASSUME m + 1 <= BSIZE - e
                 PROVE  c \div 2 ^ (BSIZE - (m + 1)) = d \div 2 ^ (BSIZE - (m + 1))
    OBVIOUS
  <2>2. PICK i \in Nat : i = BSIZE - (m + 1) /\ i + 1 = BSIZE - m
    BY <1>0, <2>1
  <2>3. PICK t \in 1 .. BSIZE - e : t = m + 1 /\ BSIZE - t = i
    BY <1>0, <2>1, <2>2
  <2>4. c \div 2 ^ (i + 1) = d \div 2 ^ (i + 1)
    BY <1>0, <1>3, <2>1, <2>2
  <2>5. (c \div 2 ^ i) % 2 = (d \div 2 ^ i) % 2
    <3>1. t \in 1 .. BSIZE
      BY <1>0, <2>3
    <3>2. SlotAt[c][t] = (c \div 2 ^ (BSIZE - t)) % 2 /\ SlotAt[d][t] = (d \div 2 ^ (BSIZE - t)) % 2
      BY <3>1 DEF SlotAt
    <3>3. SlotAt[c][t] = SlotAt[d][t]
      OBVIOUS
    <3>4. QED
      BY <2>3, <3>2, <3>3
  <2>6. /\ c \div 2 ^ i = 2 * (c \div 2 ^ (i + 1)) + ((c \div 2 ^ i) % 2)
        /\ d \div 2 ^ i = 2 * (d \div 2 ^ (i + 1)) + ((d \div 2 ^ i) % 2)
    BY <1>1, <2>2, HalfQuotient
  <2>7. c \div 2 ^ i = d \div 2 ^ i
    BY <2>4, <2>5, <2>6
  <2>8. QED
    BY <2>2, <2>7
<1> HIDE DEF S
<1>4. \A m \in Nat : m \in S
  BY <1>2, <1>3, Induct
<1>5. PICK m \in Nat : m = BSIZE - e /\ BSIZE - m = e
  BY <1>0
<1>6. m \in S
  BY <1>4
<1>7. QED
  BY <1>0, <1>5, <1>6 DEF S

\* The slots under a prefix are next to each other, in the order of their indexes.
LEMMA SlotsNext ==
  ASSUME NEW q \in SlotPrefixes, NEW i \in DOMAIN SlotAt, NEW j \in DOMAIN SlotAt,
         NEW m \in DOMAIN SlotAt, i <= m, m <= j, Covers(q, SlotAt[i]), Covers(q, SlotAt[j])
  PROVE  Covers(q, SlotAt[m])
<1>0. BSIZE \in Nat /\ Len(q) \in 0 .. BSIZE /\ i \in Nat /\ j \in Nat /\ m \in Nat
  <2>1. BSIZE \in Nat /\ 2 ^ BSIZE \in Nat \ {0}
    BY BaseFacts, Powers
  <2>2. Len(q) \in Nat /\ Len(q) <= BSIZE
    BY DEF SlotPrefixes
  <2>3. QED
    BY <2>1, <2>2 DEF SlotAt
<1>1. PICK e \in 0 .. BSIZE : e = BSIZE - Len(q) /\ BSIZE - e = Len(q)
  BY <1>0
<1>2. i \div 2 ^ e = j \div 2 ^ e
  <2>1. \A t \in 1 .. BSIZE - e : SlotAt[i][t] = SlotAt[j][t]
    BY <1>1 DEF Covers
  <2>2. QED
    BY <2>1, LeadingSlots
<1>3. e \in Nat /\ 2 ^ e \in Nat \ {0}
  BY <1>0, Powers
<1>4. i \div 2 ^ e = m \div 2 ^ e
  <2>1. i \div 2 ^ e <= m \div 2 ^ e /\ m \div 2 ^ e <= j \div 2 ^ e
    BY <1>0, <1>3, QuotientOrder
  <2>2. i \div 2 ^ e \in Nat /\ m \div 2 ^ e \in Nat
    BY <1>0, <1>3, Division
  <2>3. QED
    BY <1>2, <2>1, <2>2
<1>5. ASSUME NEW t \in 1 .. Len(q) PROVE SlotAt[m][t] = q[t]
  <2>1. PICK u \in Nat : u = Len(q) - t /\ BSIZE - t = e + u
    <3>1. Len(q) - t \in Nat /\ BSIZE - t = e + (Len(q) - t)
      BY <1>0, <1>1
    <3>2. QED
      BY <3>1
  <2>2. i \div 2 ^ (e + u) = m \div 2 ^ (e + u)
    <3>1. i \in Nat /\ m \in Nat /\ e \in Nat
      BY <1>0, <1>3
    <3>2. \A w \in Nat : i \div 2 ^ (e + w) = m \div 2 ^ (e + w)
      BY ZenonT(60), <1>4, <3>1, HigherQuotients
    <3>3. QED
      BY <3>2
  <2>3. t \in 1 .. BSIZE
    BY <1>0
  <2>4. SlotAt[i][t] = (i \div 2 ^ (BSIZE - t)) % 2 /\ SlotAt[m][t] = (m \div 2 ^ (BSIZE - t)) % 2
    BY <2>3 DEF SlotAt
  <2>5. SlotAt[i][t] = q[t]
    BY DEF Covers
  <2>6. QED
    BY <2>1, <2>2, <2>4, <2>5
<1>6. QED
  BY <1>5 DEF Covers

\* An index stands for one slot.
LEMMA SlotAtIs ==
  /\ \A i \in DOMAIN SlotAt : SlotAt[i] \in Slots
  /\ \A i, j \in DOMAIN SlotAt : SlotAt[i] = SlotAt[j] => i = j
  /\ DOMAIN SlotAt = 0 .. 2 ^ BSIZE - 1 /\ 2 ^ BSIZE \in Nat
<1>0. BSIZE \in Nat /\ 2 ^ BSIZE \in Nat \ {0}
  BY BaseFacts, Powers
<1>1. ASSUME NEW i \in DOMAIN SlotAt PROVE SlotAt[i] \in Slots
  <2>1. i \in Nat
    BY <1>0 DEF SlotAt
  <2>2. ASSUME NEW t \in 1 .. BSIZE PROVE (i \div 2 ^ (BSIZE - t)) % 2 \in {0, 1}
    <3>1. BSIZE - t \in Nat
      BY <1>0
    <3>2. QED
      BY <2>1, <3>1, HalfQuotient
  <2>3. SlotAt[i] = [t \in 1 .. BSIZE |-> (i \div 2 ^ (BSIZE - t)) % 2]
    BY DEF SlotAt
  <2>4. QED
    BY <2>2, <2>3 DEF Slots
<1>2. ASSUME NEW i \in DOMAIN SlotAt, NEW j \in DOMAIN SlotAt, SlotAt[i] = SlotAt[j] PROVE i = j
  <2>1. 0 \in 0 .. BSIZE /\ i \in Nat /\ j \in Nat
    BY <1>0 DEF SlotAt
  <2>2. i \div 2 ^ 0 = j \div 2 ^ 0
    BY <1>2, <2>1, LeadingSlots
  <2>3. \A x \in Nat : x \div 1 = x
    OBVIOUS
  <2>4. QED
    BY <2>1, <2>2, <2>3, Powers
<1>3. DOMAIN SlotAt = 0 .. 2 ^ BSIZE - 1
  BY DEF SlotAt
<1>4. QED
  BY <1>0, <1>1, <1>2, <1>3

\* clone makes no child twice.
LEMMA CopiedOnce ==
  ASSUME TreeInv, NEW f \in fwds, NEW i \in Copied(f), NEW j \in Copied(f),
         Child(f, i) = Child(f, j)
  PROVE  i = j
<1>1. PICK c : c = Child(f, i)
  OBVIOUS
<1>2. /\ i \in DOMAIN SlotAt /\ j \in DOMAIN SlotAt /\ c # f
      /\ c = fwd[f].children[SlotAt[i]] /\ c = fwd[f].children[SlotAt[j]]
  BY <1>1 DEF Copied, Child
<1>3. /\ SlotAt[i] \in Slots /\ SlotAt[j] \in Slots /\ i \in Nat /\ j \in Nat
      /\ DOMAIN SlotAt = 0 .. 2 ^ BSIZE - 1 /\ 2 ^ BSIZE \in Nat
  BY <1>2, SlotAtIs
<1>4. \/ c \in fwds /\ fwd[c].path = SlotAt[i] /\ c \notin nodes
      \/ c \in nodes /\ node[c].parent = f /\ Covers(node[c].prefix, SlotAt[i]) /\ c \notin fwds
  <2>1. \/ c \in fwds /\ fwd[c].path = SlotAt[i]
        \/ c \in nodes /\ node[c].parent = f /\ Covers(node[c].prefix, SlotAt[i])
    BY <1>2, <1>3, ChildOf
  <2>2. \A x \in nodes : x \notin fwds
    BY Addresses DEF TreeInv
  <2>3. QED
    BY <2>1, <2>2
<1>5. \/ c \in fwds /\ fwd[c].path = SlotAt[j]
      \/ c \in nodes /\ Covers(node[c].prefix, SlotAt[j])
  BY <1>2, <1>3, ChildOf
<1>6. CASE c \in fwds
  BY <1>2, <1>4, <1>5, <1>6, SlotAtIs
<1>7. CASE c \in nodes
  <2>1. node[c].prefix \in SlotPrefixes
    BY <1>7, Addresses DEF TreeInv
  <2>2. node[c].parent = f /\ Covers(node[c].prefix, SlotAt[i]) /\ Covers(node[c].prefix, SlotAt[j])
    <3>1. c \notin fwds
      BY <1>4, <1>7
    <3>2. QED
      BY <1>4, <1>5, <3>1
  <2>3. ASSUME NEW x \in DOMAIN SlotAt, NEW y \in DOMAIN SlotAt, x < y,
               Covers(node[c].prefix, SlotAt[x]), Covers(node[c].prefix, SlotAt[y]),
               y \in Copied(f), Child(f, y) = c
        PROVE  FALSE
    <3>1. PICK m \in DOMAIN SlotAt : m = y - 1 /\ x <= m /\ m <= y /\ y > 0
      <4>1. y - 1 \in DOMAIN SlotAt /\ x <= y - 1 /\ y - 1 <= y /\ y > 0
        BY <1>3, <2>3
      <4>2. QED
        BY <4>1
    <3>2. Covers(node[c].prefix, SlotAt[m]) /\ SlotAt[m] \in Slots
      BY <2>1, <2>3, <3>1, SlotsNext, SlotAtIs
    <3>3. Child(f, m) = c
      BY <1>7, <2>2, <3>2 DEF Child, TreeInv, TreeWellFormed
    <3>4. Child(f, y) # Child(f, y - 1)
      BY <2>3, <3>1 DEF Copied
    <3>5. QED
      BY <2>3, <3>1, <3>3, <3>4
  <2>4. ~ (i < j) /\ ~ (j < i)
    BY <1>1, <1>2, <2>2, <2>3
  <2>5. QED
    BY <1>3, <2>4
<1>8. QED
  BY <1>4, <1>6, <1>7

\* A copy has the items of the original, fits the _totsize and the number of heap blocks that
\* go with it, and takes no child twice (fwdnode_t::clone, node_t::clone).
THEOREM CopyHolds ==
  ASSUME <<>> \notin Keys PROVE Spec => []CopyExact
<1>1. TreeInv /\ PathInv /\ ContentInv /\ StorageInv => CopyExact
  <2> SUFFICES ASSUME TreeInv, PathInv, ContentInv, StorageInv PROVE CopyExact
    OBVIOUS
  <2>1. ASSUME NEW n \in nodes
        PROVE  LET copy == CopyItems(node[n].parent, node[n].items)
               IN  copy = node[n].items /\ Room(Lengths(copy)) = totsize[n]
    <3>1. PICK items : items = node[n].items
      OBVIOUS
    <3>2. PICK copy : copy = CopyItems(node[n].parent, items)
      OBVIOUS
    <3>3. items \in Seq(Items) /\ n \in NodeIds
      BY <3>1, Addresses DEF TreeInv
    <3>4. ASSUME NEW i \in DOMAIN items PROVE copy[i] = items[i]
      <4>1. copy[i] = [items[i] EXCEPT !.res = SubSeq(@, 1, CleanupLen(node[n].parent, items[i]))]
        BY <3>2 DEF CopyItems
      <4>2. CleanupLen(node[n].parent, items[i]) = Len(items[i].res)
        BY <3>1, CleanupLens
      <4>3. PICK r : r = items[i].res
        OBVIOUS
      <4>4. items[i] \in Items /\ r \in Seq(Byte)
        <5>1. items[i] \in Items
          BY <3>3
        <5>2. QED
          BY <4>3, <5>1 DEF Items
      <4>5. SubSeq(r, 1, Len(r)) = r
        BY <4>4
      <4>6. copy[i] = [items[i] EXCEPT !.res = r]
        BY <4>1, <4>2, <4>3, <4>5
      <4>7. QED
        BY <4>3, <4>4, <4>6 DEF Items
    <3>5. copy = items
      <4>1. DOMAIN copy = DOMAIN items /\ copy = [i \in DOMAIN items |-> copy[i]]
        BY <3>2 DEF CopyItems
      <4>2. items = [i \in DOMAIN items |-> items[i]]
        BY <3>3
      <4>3. QED
        BY <3>4, <4>1, <4>2
    <3>6. Room(Lengths(items)) = totsize[n]
      BY <3>1, <3>3 DEF StorageInv, SumsInv, TotsizeExact
    <3>7. QED
      BY <3>1, <3>2, <3>5, <3>6
  <2>2. heap = Cardinality(CopiedBlocks)
    <3>1. ASSUME NEW x \in AllItems
          PROVE  CleanupLen(node[x[1]].parent, node[x[1]].items[x[2]]) >= HEAPBOUND <=> LongAt(x)
      <4>1. PICK n \in nodes : \E i \in DOMAIN node[n].items : x = <<n, i>>
        BY DEF AllItems
      <4>2. PICK i \in DOMAIN node[n].items : x = <<n, i>>
        BY <4>1
      <4>3. CleanupLen(node[n].parent, node[n].items[i]) = Len(node[n].items[i].res)
        BY CleanupLens
      <4>4. x[1] = n /\ x[2] = i
        BY <4>2
      <4>5. QED
        BY <4>3, <4>4 DEF LongAt
    <3>2. CopiedBlocks = {x \in AllItems : LongAt(x)}
      BY <3>1 DEF CopiedBlocks
    <3>3. QED
      BY <3>2, HeapPlaces DEF StorageInv
  <2>3. \A f \in fwds : \A i, j \in Copied(f) : Child(f, i) = Child(f, j) => i = j
    BY CopiedOnce
  <2>4. QED
    BY <2>1, <2>2, <2>3 DEF CopyExact
<1>2. QED
  BY <1>1, TreeHolds, PathsHold, ContentsHold, StorageHolds, PTL

=============================================================================
