----------------------------- MODULE RingBuffer -----------------------------
(***************************************************************************)
(* The arithmetic of AdsLib/RingBuffer.h: one thread writes, one reads, a  *)
(* cell is kept free so that equal positions mean an empty buffer.  `write`*)
(* and `read` are plain pointers here written as offsets.  The two threads *)
(* share them without synchronisation, and the expressions below load the  *)
(* other thread's pointer twice: r1 and r2 (w1 and w2) are the two values. *)
(***************************************************************************)
EXTENDS Integers

CONSTANTS
  dataSize,     \* N + 1, the cells of the buffer
  SIZE_MODULUS  \* 2^64, the range of size_t

ASSUME RingAssumption ==
  /\ dataSize \in Nat /\ dataSize > 1
  /\ SIZE_MODULUS \in Nat /\ SIZE_MODULUS > 2 * dataSize

Position == 0 .. dataSize - 1

\* A difference of pointers as size_t.
AsSize(n) == IF n < 0 THEN SIZE_MODULUS + n ELSE n

\* Mutant of FreeLoaded: no cell is kept free.
FreeLoaded_NoGap(w, r1, r2) == IF w < r1 THEN AsSize(r2 - w) ELSE dataSize - (w - r2)

\* BytesFree as the writer evaluates it.
FreeLoaded(w, r1, r2) ==
  IF w < r1 THEN AsSize(r2 - w - 1) ELSE dataSize - 1 - (w - r2)

BytesFree(w, r) == FreeLoaded(w, r, r)

BytesAvailable(w, r) == dataSize - BytesFree(w, r) - 1

\* Mutant of ChunkLoaded: the last cell is kept free wherever `read` is.
ChunkLoaded_Gap(w, r1, r2) == IF w < r1 THEN AsSize(r2 - w - 1) ELSE dataSize - w - 1

\* WriteChunk: contiguous free cells at w.
ChunkLoaded(w, r1, r2) ==
  IF w < r1 THEN AsSize(r2 - w - 1) ELSE dataSize - w - (IF r2 = 0 THEN 1 ELSE 0)

WriteChunk(w, r) == ChunkLoaded(w, r, r)

\* Mutant of Increment: the buffer is one cell shorter.
Increment_Short(p, n) == (p + n) % (dataSize - 1)

Increment(p, n) == (p + n) % dataSize
=============================================================================
