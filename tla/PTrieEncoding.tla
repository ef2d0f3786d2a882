--------------------------- MODULE PTrieEncoding ---------------------------
(***************************************************************************)
(* How ptrie_base sees a key: two length bytes (most significant first)    *)
(* followed by the bytes of the key, consumed BSIZE bits at a time.  The   *)
(* BSIZE bits that select a child of a forwarding node are a "slot", and a *)
(* byte is BDIV slots.  An item of a bucket that hangs below b complete    *)
(* bytes of path holds bytes b and b+1 of the encoding in `first' and the  *)
(* key from its (b+1)-st byte on in `res', which lives on the heap when it *)
(* has HEAPBOUND bytes or more.                                            *)
(***************************************************************************)
EXTENDS Integers, Sequences

CONSTANTS Keys,       \* the keys that are used; each a sequence of bytes
          BSIZE,      \* bits per level of the trie
          BDIV,       \* levels per byte, 8 / BSIZE in the code
          HEAPBOUND,  \* residuals this long are moved to the heap
          PTR         \* sizeof(uchar*)

Base == 2 ^ (BSIZE * BDIV)

Byte == 0 .. Base - 1

\* The static_asserts of ptrie_base, and that a length fits in two bytes.
ASSUME EncodingAssumption ==
  /\ BSIZE \in Nat \ {0, 1} /\ BDIV \in Nat \ {0} /\ Base \in Nat \ {0}
  /\ PTR \in Nat /\ HEAPBOUND \in Nat /\ HEAPBOUND > PTR
  /\ \A k \in Keys : k \in Seq(Byte) /\ Len(k) < Base * Base

Slots == [1 .. BSIZE -> {0, 1}]

\* The leading bits that a bucket's slots share: node_t's _path and _type.
SlotPrefixes == {q \in Seq({0, 1}) : Len(q) <= BSIZE}

Covers(q, s) == \A i \in 1 .. Len(q) : s[i] = q[i]

\* _path of a bucket: its prefix padded with zeros.
Pad(q) == [i \in 1 .. BSIZE |-> IF i <= Len(q) THEN q[i] ELSE 0]

\* The same prefix with its last bit inverted.
Buddy(q) == [q EXCEPT ![Len(q)] = 1 - @]

\* Slot r of a byte, the most significant one first.
SlotTable ==
  [y \in Byte |-> [r \in 0 .. BDIV - 1 |-> [i \in 1 .. BSIZE |->
     IF (y \div 2 ^ (BSIZE * (BDIV - r) - i)) % 2 = 1 THEN 1 ELSE 0]]]

\* Mutant: the low length byte is not cut down to a byte.
EncByteWide(k, i) ==
  CASE i = 0 -> (Len(k) \div Base) % Base
    [] i = 1 -> Len(k)
    [] i > 1 /\ i - 1 <= Len(k) -> k[i - 1]
    [] OTHER -> 0

\* Byte i of the encoding of k.  The byte past the end of a key reads as 0.
EncByte(k, i) ==
  CASE i = 0 -> (Len(k) \div Base) % Base
    [] i = 1 -> Len(k) % Base
    [] i > 1 /\ i - 1 <= Len(k) -> k[i - 1]
    [] OTHER -> 0

Slot(k, p) == SlotTable[EncByte(k, p \div BDIV)][p % BDIV]

First(k, b) == <<EncByte(k, b), EncByte(k, b + 1)>>

Residual(k, b) == SubSeq(k, b + 1, Len(k))

Positive(x) == IF x > 0 THEN x ELSE 0

\* Bytes that a residual of d bytes takes in the bucket.
Bytes(d) == IF d >= HEAPBOUND THEN PTR ELSE d

\* Mutant: below one byte of path the length byte is not discounted.
ResidualLenUncut(b, size, f) ==
  CASE b = 0 -> f[1] * Base + f[2]
    [] b = 1 -> (size \div Base) * Base + f[1]
    [] OTHER -> Positive(size - b)

(***************************************************************************)
(* Buckets store no lengths: each operation recomputes the length of an    *)
(* item's residual from the item's `first' (f) and the size of the key at  *)
(* hand, in 16-bit arithmetic.  Where b = 1 only the high length byte      *)
(* comes from the key at hand.                                             *)
(***************************************************************************)
ResidualLen(b, size, f) ==
  CASE b = 0 -> f[1] * Base + f[2]
    [] b = 1 -> ((size \div Base) * Base + f[1] - 1) % (Base * Base)
    [] OTHER -> Positive(size - b)

\* Mutant: compares the first byte alone.
FirstLessHigh(f, g) == f[1] < g[1]

\* The order of items in a bucket: by `first', then by residual.
FirstLess(f, g) == f[1] < g[1] \/ (f[1] = g[1] /\ f[2] < g[2])

BytesLess(r, s) ==
  \E i \in 1 .. Len(s) :
    /\ i <= Len(r) => r[i] < s[i]
    /\ \A j \in 1 .. i - 1 : j <= Len(r) /\ r[j] = s[j]

ItemLess(f, r, g, s) == FirstLess(f, g) \/ (f = g /\ BytesLess(r, s))

=============================================================================
