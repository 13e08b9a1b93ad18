------------------------------ MODULE BinSizes ------------------------------
(***************************************************************************)
(* The size arithmetic of the bin allocator (kci_bin_mem.cpp): the size of *)
(* the chunk that serves a request, and the bin a free chunk is filed in.  *)
(***************************************************************************)
EXTENDS Integers

HeadSize == 8   \* 2 * SIZE_SZ: prev_size and size, before the user's bytes
MINSIZE  == 24  \* sizeof(struct Chunk): header and the two links of a bin
Align    == 8   \* MALLOC_ALIGNMENT

(* The chunk size of a request of si bytes. *)
NoHeader(si)  == ((si + Align - 1) \div Align) * Align              \* mutant
ChunkFor(si) == ((si + MINSIZE - 1) \div Align) * Align

IsSmall(siz) == siz < 512 - 8

bin_index(siz) ==
  LET n == siz \div 512 IN
  IF n = 0         THEN siz \div 8
  ELSE IF n <= 4    THEN 56 + siz \div 64
  ELSE IF n <= 20   THEN 91 + siz \div 512
  ELSE IF n <= 84   THEN 110 + siz \div 4096
  ELSE IF n <= 340  THEN 119 + siz \div 32768
  ELSE IF n <= 1364 THEN 124 + siz \div 262144
  ELSE 126
=============================================================================
