--------------------------- MODULE ChunkGrid_proofs ---------------------------
(***************************************************************************)
(* For every width of the arithmetic, every image size and every chunk     *)
(* size: the number of chunks the serial path derives is either refused by *)
(* begin() or leaves room for every sum onChunk() makes, and the pieces    *)
(* onChunk() then expects tile the image.                                  *)
(***************************************************************************)
EXTENDS ChunkGrid, TLAPS

(* Multiplication by a chunk size is monotonic.                            *)
LEMMA TimesMonotonic ==
  ASSUME NEW c \in Nat, NEW a \in Nat, NEW b \in Nat, a <= b
  PROVE  a * c \in Nat /\ b * c \in Nat /\ a * c <= b * c
<1>1. (b - a) \in Nat /\ (b - a) * c >= 0
  OBVIOUS
<1>2. (b - a) * c = b * c - a * c
  OBVIOUS
<1> QED
  BY <1>1, <1>2

(* The next multiple.                                                      *)
LEMMA TimesNext ==
  ASSUME NEW c \in Nat, NEW a \in Nat
  PROVE  (a + 1) * c = a * c + c
OBVIOUS

(* A number below the width is its own remainder.                          *)
LEMMA NoWrap ==
  ASSUME NEW n \in Nat, n < Modulus
  PROVE  n % Modulus = n
BY GridAssumption

(* Above the width, by less than it, one width is lost.                    *)
LEMMA OneWrap ==
  ASSUME NEW n \in Nat, Modulus <= n, n < 2 * Modulus
  PROVE  n % Modulus = n - Modulus
BY GridAssumption

(* A remainder smaller than the divisor.                                   *)
LEMMA SmallQuotient ==
  ASSUME NEW n \in Nat, NEW c \in Nat \ {0}, n < c
  PROVE  n \div c = 0
OBVIOUS

(* Where chunksForSize does not answer 0, its sum has not wrapped: an image
   too near the top of the range is refused by begin(), which wants a chunk. *)
THEOREM WrappedSizeIsRefused ==
  ASSUME NEW size \in 0 .. Modulus - 1, NEW c \in 1 .. Modulus - 1,
         chunksForSize(size, c) # 0
  PROVE  size # 0 /\ size + c <= Modulus
<1>1. size # 0
  BY DEF chunksForSize
<1>2. SUFFICES ASSUME size + c > Modulus PROVE FALSE
  BY <1>1, GridAssumption
<1> DEFINE s == size + c - 1
<1>3. s \in Nat /\ Modulus <= s /\ s < 2 * Modulus /\ s - Modulus < c
  BY <1>2, GridAssumption
<1>4. s % Modulus = s - Modulus
  BY <1>3, OneWrap
<1>5. (s % Modulus) \div c = 0
  BY <1>3, <1>4, SmallQuotient, GridAssumption
<1>6. c # 0
  OBVIOUS
<1> QED
  BY <1>1, <1>5, <1>6 DEF chunksForSize

(* What division leaves.                                                   *)
LEMMA QuotientBounds ==
  ASSUME NEW s \in Nat, NEW c \in Nat \ {0}
  PROVE  s \div c \in Nat /\ (s \div c) * c <= s /\ s < (s \div c) * c + c
OBVIOUS

(* The grid the serial handler derives is one that begin() accepts, or has
   no chunk.                                                               *)
THEOREM SerialGridIsLegal ==
  ASSUME NEW size \in 0 .. Modulus - 1, NEW c \in 1 .. Modulus - 1
  PROVE  /\ chunksForSize(size, c) \in Nat
         /\ chunksForSize(size, c) # 0 => GridIsLegal(size, chunksForSize(size, c), c)
<1> DEFINE n == chunksForSize(size, c)
           s == size + c - 1
<1>1. n \in Nat
  <2>1. s % Modulus \in Nat
    BY GridAssumption
  <2>2. (s % Modulus) \div c \in Nat
    BY <2>1, QuotientBounds
  <2> QED
    BY <2>2 DEF chunksForSize
<1>2. ASSUME n # 0 PROVE GridIsLegal(size, n, c)
  <2>1. size # 0 /\ size + c <= Modulus
    BY <1>2, WrappedSizeIsRefused
  <2>2. s \in Nat /\ s < Modulus
    BY <2>1, GridAssumption
  <2>3. s % Modulus = s
    BY <2>2, NoWrap
  <2>4. n = s \div c
    BY <2>1, <2>3 DEF chunksForSize
  <2>5. n * c <= s /\ s < n * c + c
    <3> HIDE DEF s, n
    <3> QED
      BY <2>2, <2>4, QuotientBounds
  <2>6. (n - 1) * c = n * c - c
    <3> HIDE DEF n
    <3> QED
      BY <1>1
  <2>7. n * c \in Nat
    <3> HIDE DEF n
    <3> QED
      BY <1>1, TimesMonotonic
  <2>8. (n - 1) * c < size /\ size <= n * c
    <3> HIDE DEF n
    <3> QED
      BY <2>1, <2>5, <2>6, <2>7, GridAssumption
  <2> QED
    BY <1>2, <2>1, <2>8 DEF GridIsLegal
<1> QED
  BY <1>1, <1>2

(* In a grid that begin() accepts, below the top of the range, the length
   onChunk() computes in 32 bits is that of the image's own piece: a full
   chunk, or at the end what is left, never nothing.                       *)
THEOREM ExpectedLengthIsExact ==
  ASSUME NEW size \in 0 .. Modulus - 1, NEW c \in 1 .. Modulus - 1, NEW n \in Nat,
         GridIsLegal(size, n, c), size + c <= Modulus,
         NEW q \in 0 .. n - 1
  PROVE  /\ ExpectedLength(size, c, q) = PieceLength(size, c, q)
         /\ PieceLength(size, c, q) \in 1 .. c
         /\ (q * c + PieceLength(size, c, q) = IF q = n - 1 THEN size ELSE (q + 1) * c)
<1> DEFINE p == q * c
<1>1. p \in Nat /\ (q + 1) * c = p + c
  BY TimesNext, TimesMonotonic, GridAssumption
<1>2. p < size
  <2>1. q * c <= (n - 1) * c
    BY TimesMonotonic
  <2> QED
    BY <1>1, <2>1 DEF GridIsLegal
<1>3. p % Modulus = p
  <2> HIDE DEF p
  <2>1. p < Modulus
    BY <1>1, <1>2, GridAssumption
  <2> QED
    BY <1>1, <2>1, NoWrap
<1>4. (p + c) % Modulus = p + c
  <2> HIDE DEF p
  <2>1. p + c \in Nat /\ p + c < Modulus
    BY <1>1, <1>2, GridAssumption
  <2> QED
    BY <2>1, NoWrap
<1>5. size - p \in Nat /\ (size - p) % Modulus = size - p
  <2> HIDE DEF p
  <2>1. size - p \in Nat /\ size - p < Modulus
    BY <1>1, <1>2, GridAssumption
  <2> QED
    BY <2>1, NoWrap
<1>6. ExpectedLength(size, c, q) = IF p + c > size THEN size - p ELSE c
  BY <1>3, <1>4, <1>5 DEF ExpectedLength
<1>7. PieceLength(size, c, q) = IF p + c <= size THEN c ELSE size - p
  BY <1>1 DEF PieceLength
<1>8. q = n - 1 => size <= p + c
  BY <1>1 DEF GridIsLegal
<1>9. q # n - 1 => p + c < size
  <2>1. ASSUME q # n - 1 PROVE (q + 1) * c <= (n - 1) * c
    <3>1. q + 1 \in Nat /\ n - 1 \in Nat /\ q + 1 <= n - 1
      BY <2>1
    <3> QED
      BY <3>1, TimesMonotonic
  <2> QED
    BY <1>1, <2>1 DEF GridIsLegal
<1> HIDE DEF p
<1>10. p + c > size <=> ~(p + c <= size)
  BY <1>1
<1>11. PieceLength(size, c, q) \in 1 .. c
  BY <1>1, <1>2, <1>7
<1>12. p + PieceLength(size, c, q) = IF q = n - 1 THEN size ELSE p + c
  BY <1>1, <1>7, <1>8, <1>9
<1> QED
  BY <1>1, <1>6, <1>7, <1>10, <1>11, <1>12 DEF p
===============================================================================
