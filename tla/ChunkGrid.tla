------------------------------ MODULE ChunkGrid ------------------------------
(***************************************************************************)
(* The 32-bit arithmetic by which an image is cut into chunks: the number  *)
(* of chunks the serial path derives, the check begin() makes in 64 bits,  *)
(* and the length onChunk() expects of a chunk.                            *)
(***************************************************************************)
EXTENDS Integers

CONSTANT Modulus   \* 2^32, the width of totalSize and of committedBytes

ASSUME GridAssumption == Modulus \in Nat \ {0}

\* AstrOsSerialProtocol::chunksForSize; the sum wraps near the top.
chunksForSize(size, c) ==
  IF size = 0 \/ c = 0 THEN 0 ELSE ((size + c - 1) % Modulus) \div c

\* What begin() accepts, apart from the window.
GridIsLegal(size, n, c) ==
  /\ c # 0 /\ n # 0 /\ size # 0
  /\ (n - 1) * c < size /\ size <= n * c

\* expectedLen of onChunk.
ExpectedLength(size, c, q) ==
  LET committed == (q * c) % Modulus
  IN  IF (committed + c) % Modulus > size THEN (size - committed) % Modulus ELSE c

\* The length of chunk q of an image cut without overflow.
PieceLength(size, c, q) == IF (q + 1) * c <= size THEN c ELSE size - q * c
=============================================================================
