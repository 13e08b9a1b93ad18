------------------------------- MODULE BinMem -------------------------------
(***************************************************************************)
(* The bin allocator of kci_bin_mem.cpp, which every handle and every row  *)
(* of a result set lives in.  A heap of Step bytes is tiled by chunks with *)
(* boundary tags; free chunks are filed in bins, bins[0] holding the rest  *)
(* of the chunk that was split last.  A request that a heap cannot hold    *)
(* gets a block of its own from the parent allocator.                      *)
(*                                                                         *)
(* A chunk is named by its heap and its offset <<h, off>>; the block of a  *)
(* large request is the heap itself, <<h, 0>>.  The user's bytes are left  *)
(* out.  One call is one step: env->mem takes op_lock around every call,   *)
(* and a statement's mem2 is used by the thread that drives the statement. *)
(***************************************************************************)
EXTENDS BinSizes, Sequences, SequencesExt, FiniteSets

CONSTANTS
  Step,          \* step: bytes of a heap that chunks may use
  MaxHeaps,      \* bound of the model: blocks the parent allocator hands out
  MaxResizes,    \* bound of the model: calls of realloc in a behaviour
  MaxLive,       \* bound of the model: blocks in use at a time
  Sizes,         \* sizes asked of alloc
  ReSizes,       \* sizes asked of realloc
  Fails          \* calls in which the parent may be out of memory

ASSUME StepAssumption == Step \in Nat /\ Step % 8 = 0 /\ Step > 2 * MINSIZE
ASSUME SizesAssumption ==   \* mc_alloc and mc_realloc ask for a pointer more
  Sizes \subseteq Nat \ 0 .. 7 /\ ReSizes \subseteq Nat \ 0 .. 7
ASSUME FailsAssumption == Fails \subseteq {"alloc", "realloc"}
ASSUME BoundsAssumption == MaxHeaps \in Nat /\ MaxResizes \in Nat

VARIABLES
  chunk,      \* header of every chunk of a heap
  bins,       \* the free lists, first to last
  heaps,      \* heap_stub: heaps of Step bytes; nothing looks at their order
  large,      \* large_stub: size of each large block
  heap_size,
  live,       \* blocks in use and the bytes asked for
  resizes,    \* calls of realloc so far
  failed,     \* a realloc returned NULL: its block is not the caller's any more
  memErr,     \* raise_mem_err(65) was called
  staleBins,  \* bins that clr_bin_mem_context left pointing into freed heaps
  wild        \* a call followed a bin into a heap that was given back

vars == <<chunk, bins, heaps, large, heap_size, live, resizes, failed, memErr, staleBins, wild>>
mem  == [chunk |-> chunk, bins |-> bins, heaps |-> heaps, large |-> large,
         heap_size |-> heap_size]

MaxBin == bin_index(Step)   \* max_b_i
NULL   == <<0, 0>>
EmptyBins == [i \in 0 .. MaxBin |-> <<>>]

Init ==
  /\ chunk = <<>> /\ bins = EmptyBins
  /\ heaps = {} /\ large = <<>> /\ heap_size = 0
  /\ live = <<>>
  /\ resizes = 0 /\ failed = FALSE /\ memErr = FALSE /\ staleBins = {} /\ wild = FALSE

Without(f, S) == Restrict(f, DOMAIN f \ S)
With(f, x, v) == [y \in DOMAIN f \union {x} |-> IF y = x THEN v ELSE f[y]]

(* The parent's next block; a state with more than MaxHeaps is not entered. *)
HeapsOf(m) == m.heaps \union DOMAIN m.large
NewHeap(m) == Min((1 .. MaxHeaps + 1) \ (HeapsOf(m) \union {a[1] : a \in DOMAIN live}))

-----------------------------------------------------------------------------
(* Chunks and bins: operators on the state m of a context. *)

SizeOf(m, a) == m.chunk[a].size
After(m, a)  == <<a[1], a[2] + SizeOf(m, a)>>               \* NextChunk
Before(m, a) == <<a[1], a[2] - m.chunk[a].prev_size>>       \* PrevChunk

(* insert_into_bin0, insert_into_bin *)
Insert(m, a, zero) ==
  LET b == IF zero THEN 0 ELSE bin_index(SizeOf(m, a))
  IN [m EXCEPT !.bins[b] = Append(@, a)]

remove_from_bin(m, a) ==
  [m EXCEPT !.bins = [b \in DOMAIN @ |-> RemoveFirst(@[b], a)]]

SetUse(m, a, u) == [m EXCEPT !.chunk[a].used = u]

(* SetFoot: the following chunk learns the size of this one. *)
NoFoot(m, a) == m                                           \* mutant
SetFoot(m, a) ==
  IF m.chunk[a].next THEN [m EXCEPT !.chunk[After(m, a)].prev_size = SizeOf(m, a)] ELSE m

(* split_chunk (zero false) and split_chunk0: a keeps siz bytes and is in  *)
(* use, the rest is a free chunk.                                          *)
Split(m, a, siz, zero) ==
  LET c    == m.chunk[a]
      rest == <<a[1], a[2] + siz>>
      cut  == [m EXCEPT !.chunk =
                 With([@ EXCEPT ![a] = [size |-> siz, used |-> TRUE, next |-> TRUE,
                                        prev |-> c.prev, prev_size |-> c.prev_size]],
                      rest, [size |-> c.size - siz, used |-> FALSE, next |-> c.next,
                             prev |-> TRUE, prev_size |-> siz])]
  IN Insert(SetFoot(cut, rest), rest, zero)

(* merge_chunk: a, which loses its used flag, swallows the chunk after it. *)
Merge(m, a) ==
  LET n == After(m, a)
      c == m.chunk[a]
  IN SetFoot([m EXCEPT !.chunk =
                Without([@ EXCEPT ![a] = [size |-> c.size + m.chunk[n].size, used |-> FALSE,
                                          next |-> m.chunk[n].next,
                                          prev |-> c.prev, prev_size |-> c.prev_size]],
                        {n})],
             a)

(* Use a, which is in no bin, for siz bytes; a rest that is worth it is    *)
(* split off.                                                              *)
UseFor(m, a, siz, zero) ==
  IF SizeOf(m, a) >= siz + MINSIZE THEN Split(m, a, siz, zero) ELSE SetUse(m, a, TRUE)

(* The parent takes a heap back, which is the single chunk a. *)
ReturnHeap(m, a) ==
  [m EXCEPT !.chunk = Without(@, {a}), !.heaps = @ \ {a[1]}, !.heap_size = @ - Step]

-----------------------------------------------------------------------------
(* bin_mem_alloc: the new state and the block.  ok: the parent has memory. *)

LargeAlloc(m, siz) ==
  LET h == NewHeap(m) IN
  <<[m EXCEPT !.large = With(@, h, siz), !.heap_size = @ + siz], <<h, 0>>>>

(* alloc_top_chunk, and the block cut from it. *)
TopAlloc(m, siz) ==
  LET a == <<NewHeap(m), 0>>
      top == [m EXCEPT !.heaps = @ \union {a[1]}, !.heap_size = @ + Step,
                       !.chunk = With(@, a, [size |-> Step, used |-> FALSE, next |-> FALSE,
                                               prev |-> FALSE, prev_size |-> 0])]
  IN <<UseFor(top, a, siz, TRUE), a>>

FirstFit(m, b, siz) == SelectInSeq(m.bins[b], LAMBDA a : SizeOf(m, a) >= siz)

(* Look through the bins from b on, then ask the parent. *)
Upward(m, b, siz, ok) ==
  LET fit == {i \in b .. MaxBin : FirstFit(m, i, siz) # 0} IN
  IF fit # {} THEN LET i == Min(fit)
                       a == m.bins[i][FirstFit(m, i, siz)]
                   IN <<UseFor(remove_from_bin(m, a), a, siz, TRUE), a>>
  ELSE IF ok THEN TopAlloc(m, siz)
  ELSE <<m, NULL>>

(* The first chunk of bins[0] is used, or filed where it belongs. *)
TryBin0(m, b, siz, ok) ==
  IF m.bins[0] = <<>> THEN Upward(m, b, siz, ok)
  ELSE LET a == Head(m.bins[0])
           m1 == remove_from_bin(m, a)
       IN IF SizeOf(m, a) >= siz THEN <<UseFor(m1, a, siz, TRUE), a>>
          ELSE Upward(Insert(m1, a, FALSE), b, siz, ok)

AllocFrom(m, siz, ok) ==
  LET b == bin_index(siz)
      exact == {i \in {b, b + 1} : m.bins[i] # <<>>}
  IN IF IsSmall(siz)
     THEN IF exact # {} THEN LET a == Head(m.bins[Min(exact)])
                             IN <<SetUse(remove_from_bin(m, a), a, TRUE), a>>
          ELSE TryBin0(m, b + 2, siz, ok)
     ELSE IF FirstFit(m, b, siz) # 0 THEN LET a == m.bins[b][FirstFit(m, b, siz)]
                                          IN <<UseFor(remove_from_bin(m, a), a, siz, FALSE), a>>
          ELSE TryBin0(m, b + 1, siz, ok)

IsLarge(siz) == siz >= Step - MINSIZE

bin_mem_alloc(m, si, ok) ==
  LET siz == ChunkFor(si) IN
  IF ~IsLarge(siz) THEN AllocFrom(m, siz, ok)
  ELSE IF ok THEN LargeAlloc(m, siz)
  ELSE <<m, NULL>>

-----------------------------------------------------------------------------
(* bin_mem_free of a block in a heap *)

InBin0First(m, a) == m.bins[0] # <<>> /\ Head(m.bins[0]) = a
FreeAfter(m, a)  == m.chunk[a].next /\ ~m.chunk[After(m, a)].used
ForgetBefore(m, a) == FALSE                                 \* mutant: no merge backwards
FreeBefore(m, a) == m.chunk[a].prev /\ ~m.chunk[Before(m, a)].used

(* What SAFE_FREE checks: the neighbours' tags point back at the chunk. *)
TagsAgree(m, a) ==
  /\ m.chunk[a].next => LET n == m.chunk[After(m, a)]
                        IN n.prev /\ n.prev_size = SizeOf(m, a)
  /\ m.chunk[a].prev => LET p == m.chunk[Before(m, a)]
                        IN p.next /\ After(m, Before(m, a)) = a

File(m, a, zero) ==
  IF SizeOf(m, a) = Step /\ Cardinality(m.heaps) > 1 THEN ReturnHeap(m, a) ELSE Insert(m, a, zero)

FreeChunk(m, a) ==
  LET n  == After(m, a)
      m1 == IF FreeAfter(m, a) THEN Merge(remove_from_bin(m, n), a) ELSE m
      z1 == FreeAfter(m, a) /\ InBin0First(m, n)
      p  == Before(m1, a)
  IN IF FreeBefore(m1, a)
     THEN File(Merge(remove_from_bin(m1, p), p), p, z1 \/ InBin0First(m1, p))
     ELSE File(SetUse(m1, a, FALSE), a, z1)

-----------------------------------------------------------------------------
(* bin_mem_realloc of a block in a heap: shrink in place, or move into the *)
(* free chunk before it, or allocate anew.                                 *)

GrowLinked(m, a) ==                                         \* mutant: not unlinked
  IF FreeBefore(m, a) THEN <<Merge(m, Before(m, a)), Before(m, a)>> ELSE <<m, a>>
GrowBackwards(m, a) ==
  IF FreeBefore(m, a) THEN LET p == Before(m, a) IN <<Merge(remove_from_bin(m, p), p), p>>
  ELSE <<m, a>>

(* The chunk the block is moved out of goes to bins[0] when it came from   *)
(* its end and the allocation left something there.                        *)
MoveOut(m, a, si, zero, ok) ==
  LET new == bin_mem_alloc(m, si, ok)
      m1 == SetUse(new[1], a, FALSE)
  IN IF new[2] = NULL THEN new
     ELSE <<Insert(m1, a, zero /\ m1.bins[0] # <<>>), new[2]>>

ReallocChunk(m, a, si, ok) ==
  LET siz == ChunkFor(si)
      grown == GrowBackwards(m, a)
      m1 == grown[1]
      p  == grown[2]
      zero == p # a /\ m.bins[0] # <<>> /\ Last(m.bins[0]) = p
  IN IF SizeOf(m, a) >= siz THEN <<UseFor(m, a, siz, FALSE), a>>
     ELSE IF SizeOf(m1, p) >= siz THEN <<UseFor(m1, p, siz, zero), p>>
     ELSE MoveOut(m1, p, si, zero, ok)

-----------------------------------------------------------------------------
(* The calls *)

Become(m) ==
  /\ chunk' = m.chunk /\ bins' = m.bins /\ heaps' = m.heaps
  /\ large' = m.large /\ heap_size' = m.heap_size

(* Every block in use is one the allocator knows.  A realloc that returned *)
(* NULL may break this; then only the free of that block is followed.      *)
Intact == \A a \in DOMAIN live : a[1] \in DOMAIN large \/ a \in DOMAIN chunk

Usable == ~wild /\ ~memErr /\ Intact

(* Where a request looks: bins[0] and the bins from its own upwards.       *)
ReachesFreed(si) ==
  /\ ~IsLarge(ChunkFor(si))
  /\ \E b \in staleBins : b = 0 \/ b >= bin_index(ChunkFor(si))

(* Whether the parent has memory during a call. *)
ParentHas(call) == {TRUE} \union (IF call \in Fails THEN {FALSE} ELSE {})

Alloc(si) ==
  /\ Usable /\ ~ReachesFreed(si)
  /\ Cardinality(DOMAIN live) < MaxLive
  /\ \E ok \in ParentHas("alloc") :
       /\ LET r == bin_mem_alloc(mem, si, ok) IN
            /\ HeapsOf(r[1]) \subseteq 1 .. MaxHeaps
            /\ Become(r[1])
            /\ live' = IF r[2] = NULL THEN live ELSE With(live, r[2], si)
  /\ UNCHANGED <<resizes, failed, memErr, staleBins, wild>>

(* What a call does that follows a bin into a returned heap is left open:  *)
(* the model forgets the context and stops.                                *)
AllocFromFreed(si) ==
  /\ Usable /\ ReachesFreed(si)
  /\ wild' = TRUE
  /\ chunk' = <<>> /\ bins' = EmptyBins /\ heaps' = {} /\ large' = <<>> /\ heap_size' = 0
  /\ live' = <<>> /\ staleBins' = {}
  /\ UNCHANGED <<resizes, failed, memErr>>

(* A large block goes back to the parent. *)
FreeLarge(a) ==
  /\ Usable /\ a[1] \in DOMAIN large
  /\ large' = Without(large, {a[1]})
  /\ heap_size' = heap_size - large[a[1]]
  /\ live' = Without(live, {a})
  /\ UNCHANGED <<chunk, bins, heaps, resizes, failed, memErr, staleBins, wild>>

(* raise_mem_err is an empty function; what is freed under wrong tags is   *)
(* not followed further.                                                   *)
Free(a) ==
  /\ Usable /\ staleBins = {} /\ a \in DOMAIN chunk
  /\ live' = Without(live, {a})
  /\ IF TagsAgree(mem, a)
     THEN Become(FreeChunk(mem, a)) /\ UNCHANGED memErr
     ELSE memErr' = TRUE /\ UNCHANGED <<chunk, bins, heaps, large, heap_size>>
  /\ UNCHANGED <<resizes, failed, staleBins, wild>>

(* The free of a block a failed realloc lost.  In a heap its neighbour's   *)
(* tag names the chunk it was merged into; a large one is unlinked and     *)
(* counted off a second time.                                              *)
FreeLost(a) ==
  /\ ~wild /\ a[1] \notin DOMAIN large /\ a \notin DOMAIN chunk
  /\ live' = Without(live, {a})
  /\ IF a[1] \in heaps THEN memErr' = TRUE /\ UNCHANGED heap_size
     ELSE heap_size' = heap_size - ChunkFor(live[a]) /\ UNCHANGED memErr
  /\ UNCHANGED <<chunk, bins, heaps, large, resizes, failed, staleBins, wild>>

(* The parent resizes a large block, which is unlinked meanwhile; it stays *)
(* large whatever its size.                                                *)
ReallocLarge(a, si) ==
  /\ Usable /\ a[1] \in DOMAIN large
  /\ resizes < MaxResizes /\ resizes' = resizes + 1
  /\ \/ /\ large' = [large EXCEPT ![a[1]] = ChunkFor(si)]
        /\ heap_size' = heap_size - large[a[1]] + ChunkFor(si)
        /\ live' = [live EXCEPT ![a] = si]
        /\ UNCHANGED failed
     \/ /\ "realloc" \in Fails
        /\ large' = Without(large, {a[1]})
        /\ heap_size' = heap_size - large[a[1]]
        /\ failed' = TRUE /\ UNCHANGED live
  /\ UNCHANGED <<chunk, bins, heaps, memErr, staleBins, wild>>

(* When it returns NULL the caller still owns the old block. *)
Realloc(a, si) ==
  /\ Usable /\ staleBins = {} /\ a \in DOMAIN chunk
  /\ resizes < MaxResizes /\ resizes' = resizes + 1
  /\ \E ok \in ParentHas("realloc") :
       /\ LET r == ReallocChunk(mem, a, si, ok) IN
            /\ HeapsOf(r[1]) \subseteq 1 .. MaxHeaps
            /\ Become(r[1])
            /\ live' = IF r[2] = NULL THEN live ELSE With(Without(live, {a}), r[2], si)
            /\ failed' = (failed \/ r[2] = NULL)
  /\ UNCHANGED <<memErr, staleBins, wild>>

ForgetEverything ==
  /\ ~wild /\ ~memErr
  /\ chunk' = <<>> /\ heaps' = {} /\ large' = <<>> /\ heap_size' = 0
  /\ live' = <<>> /\ failed' = FALSE
  /\ UNCHANGED <<resizes, memErr, wild>>

(* reset_bin_mem_context: the heaps go and the bins are emptied. *)
Reset == ForgetEverything /\ bins' = EmptyBins /\ staleBins' = {}

(* clr_bin_mem_context: the heaps go, the bins stay as they are.  staleBins *)
(* says which of them point into the heaps; where to does not matter.       *)
Clear ==
  /\ ForgetEverything
  /\ staleBins' = staleBins \union {b \in DOMAIN bins : bins[b] # <<>>}
  /\ bins' = EmptyBins

Next ==
  \/ \E si \in Sizes : Alloc(si) \/ AllocFromFreed(si)
  \/ \E a \in DOMAIN live :
       \/ Free(a) \/ FreeLarge(a) \/ FreeLost(a)
       \/ \E si \in ReSizes : Realloc(a, si) \/ ReallocLarge(a, si)
  \/ Reset \/ Clear

Spec == Init /\ [][Next]_vars

-----------------------------------------------------------------------------
(* Properties *)

(* Every variable keeps its type; a context never holds less than nothing. *)
TypeOK ==
  /\ chunk \in [DOMAIN chunk -> [size : 1 .. Step, used : BOOLEAN, next : BOOLEAN,
                                 prev : BOOLEAN, prev_size : 0 .. Step]]
  /\ DOMAIN chunk \subseteq heaps \X (0 .. Step - 1)
  /\ \A b \in 0 .. MaxBin : ToSet(bins[b]) \subseteq (1 .. MaxHeaps) \X (0 .. Step - 1)
  /\ heaps \subseteq 1 .. MaxHeaps /\ DOMAIN large \subseteq 1 .. MaxHeaps
  /\ heap_size \in (IF failed THEN Int ELSE Nat) /\ failed \in BOOLEAN /\ resizes \in 0 .. MaxResizes
  /\ DOMAIN live \subseteq (1 .. MaxHeaps) \X (0 .. Step - 1)
  /\ memErr \in BOOLEAN /\ wild \in BOOLEAN
  /\ staleBins \subseteq 0 .. MaxBin

(* The chunks of a heap tile it: one starts at its first byte, the next one *)
(* where the last one ends, up to the heap's end, and no two overlap.  The  *)
(* boundary tags of two neighbours agree: following next or prev_size never *)
(* leaves the heap or lands inside a chunk, after any sequence of splits    *)
(* and merges, also when calls failed on the way.                           *)
Tiling ==
  /\ \A a \in DOMAIN chunk :
       /\ chunk[a].size >= MINSIZE
       /\ chunk[a].prev <=> a[2] > 0
       /\ IF chunk[a].next
          THEN /\ After(mem, a) \in DOMAIN chunk
               /\ chunk[After(mem, a)].prev_size = chunk[a].size
          ELSE a[2] + chunk[a].size = Step
       /\ \A b \in DOMAIN chunk : a[1] = b[1] /\ a[2] < b[2] => a[2] + chunk[a].size <= b[2]
  /\ \A h \in heaps : <<h, 0>> \in DOMAIN chunk

(* A free chunk is in exactly one list, once: bins[0] or the bin of its    *)
(* size; a chunk in use is in none.  (Bins that survived a clear aside.)   *)
FiledOnce ==
  staleBins = {} /\ ~failed =>
    /\ \A b \in DOMAIN bins : ToSet(bins[b]) \subseteq DOMAIN chunk
    /\ LET filed == UNION {{b} \X DOMAIN bins[b] : b \in DOMAIN bins}
       IN \A a \in DOMAIN chunk :
            LET where == {w \in filed : bins[w[1]][w[2]] = a}
            IN IF chunk[a].used THEN where = {}
               ELSE /\ Cardinality(where) = 1
                    /\ \A w \in where : w[1] \in {0, bin_index(chunk[a].size)}

(* The blocks in use are exactly the used chunks and the large blocks, and *)
(* each has room for what was asked, behind its header: no call takes away *)
(* or shrinks the block of another caller, and no freed block stays used.  *)
LiveBlocksFit ==
  ~failed =>
    /\ {a \in DOMAIN live : a[1] \notin DOMAIN large} = {a \in DOMAIN chunk : chunk[a].used}
    /\ {a[1] : a \in DOMAIN live} \intersect DOMAIN large = DOMAIN large
    /\ \A a \in DOMAIN live :
         HeadSize + live[a] <= IF a[1] \in DOMAIN large THEN large[a[1]] ELSE chunk[a].size

(* heap_size is what the context holds from its parent. *)
HeapAccounting ==
  ~failed => heap_size = Step * Cardinality(heaps) + MapThenSumSet(LAMBDA h : large[h], DOMAIN large)

(* bins[0] is for the chunk that was split last: TryBin0 and the tests     *)
(* against bins[0].next and bins[0].prev take it for a list of at most     *)
(* one.  (The last branch of bin_mem_realloc can put a second one there.)  *)
LastSplitOnly == resizes = 0 => Len(bins[0]) <= 1

(* Until the first realloc free chunks are merged: no two are neighbours,  *)
(* and a heap nobody uses is kept only when it is the only one.            *)
Coalesced ==
  resizes = 0 /\ staleBins = {} =>
    /\ \A a \in DOMAIN chunk : chunk[a].next => chunk[a].used \/ chunk[After(mem, a)].used
    /\ Cardinality(heaps) > 1 => \A a \in DOMAIN chunk : chunk[a].size < Step

(* "Check whether the next chunk's previous chunk is the current one"      *)
(* (kci_bin_mem.cpp, SAFE_FREE): the check never fires for a caller that   *)
(* frees each of its blocks once.                                          *)
SafeFree == ~failed => ~memErr

(* The heaps are sound after any sequence of calls: tiled by chunks whose  *)
(* tags agree, so that the check of a free never fires.                    *)
HeapsSound == TypeOK /\ Tiling /\ SafeFree

(* Nothing is counted twice or forgotten: neither a free chunk in the bins *)
(* nor a heap or a large block in heap_size.                               *)
Accounted == FiledOnce /\ HeapAccounting

(* Without realloc memory is not broken up further than the callers' own   *)
(* blocks require, and bins[0] is as its users take it.                    *)
FewFragments == LastSplitOnly /\ Coalesced
=============================================================================
