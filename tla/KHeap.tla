------------------------------- MODULE KHeap --------------------------------
(***************************************************************************)
(* The kernel heap, kernel/mm/kheap.c: a doubly linked list of blocks that *)
(* tiles the mapped part of the heap range.  Addresses are offsets from    *)
(* HEAP_VIRT_START, so 0 is the address of the first block and NULL is     *)
(* -1.  A block at b has its header in b .. b+HDR-1 and its payload behind *)
(* it; kmalloc hands out b+HDR.                                            *)
(*                                                                         *)
(* The functions never sleep and no interrupt handler calls them, so each  *)
(* call is one step.                                                       *)
(***************************************************************************)
EXTENDS Integers, FiniteSets

CONSTANTS
  HDR,        \* sizeof(struct block_header)
  Align,      \* the 16 of align_up(size, 16)
  MinSplit,   \* MIN_SPLIT_REMAINDER
  PageSize,   \* VMM_PAGE_SIZE
  HeapMax,    \* HEAP_MAX_BYTES
  Sizes,      \* the sizes callers ask kmalloc for
  Frames,     \* physical frames left for the heap when it starts
  MaxTables   \* most page tables vmm_map adds while the heap grows once

NULL == -1

(* sizeof and page size as the build fixes them, up to scale.              *)
ASSUME ShapeAssumption ==
  /\ HDR \in Nat \ {0}
  /\ Align \in Nat \ {0}
  /\ MinSplit \in Nat
  /\ PageSize \in Nat \ {0}
  /\ HeapMax \in Nat
  /\ Sizes \subseteq Nat
  /\ Frames \in Nat
  /\ MaxTables \in Nat

VARIABLES
  hdr,        \* the block headers: address |-> [free, size, prev, next]
  head,       \* g_head
  tail,       \* g_tail
  mapped,     \* g_heap_mapped_end - HEAP_VIRT_START
  used,       \* g_used_bytes
  freeBytes,  \* g_free_bytes
  frames,     \* frames pmm_alloc_frame can still return
  live,       \* the allocations callers hold: pointer |-> requested size
  panicked    \* "no", or which panic() stopped the machine

vars == <<hdr, head, tail, mapped, used, freeBytes, frames, live, panicked>>
heapVars == <<hdr, head, tail, mapped, used, freeBytes, frames, live>>

Blocks == DOMAIN hdr
Address == Nat \cup {NULL}
Header == [free : BOOLEAN, size : Nat, prev : Address, next : Address]
End(b) == b + HDR + hdr[b].size

-----------------------------------------------------------------------------
(* align_up(n, Align); pages_needed * VMM_PAGE_SIZE in expand_heap.        *)
AlignDown(n) == (n \div Align) * Align  \* mutant
AlignUp(n) == ((n + Align - 1) \div Align) * Align
GrowBytes(n) == ((HDR + n + PageSize - 1) \div PageSize) * PageSize

(* find_free_block: the list runs in address order, so its first match is  *)
(* the fitting block with the lowest address.                              *)
FitsEvenUsed(b, n) == hdr[b].size >= n  \* mutant
Fits(b, n) == hdr[b].free /\ hdr[b].size >= n
FirstFit(b, n) == /\ Fits(b, n)
                  /\ \A c \in Blocks : c < b => ~Fits(c, n)

(* maybe_split(b, n) on a list h: cut the surplus off into a new free      *)
(* block, unless the surplus could not hold a header and MinSplit bytes.   *)
MustSplitAnySurplus(h, b, n) == h[b].size - n > 0  \* mutant
MustSplit(h, b, n) == h[b].size - n >= HDR + MinSplit
SplitAt(b, n) == b + HDR + n
(* Mutant: the block behind the new one still points back at b.           *)
SplitForgetsPrev(h, b, n) ==
  [x \in DOMAIN h \cup {SplitAt(b, n)} |->
     IF x = b
       THEN [h[b] EXCEPT !.size = n, !.next = SplitAt(b, n)]
     ELSE IF x = SplitAt(b, n)
       THEN [free |-> TRUE, size |-> h[b].size - n - HDR,
             prev |-> b, next |-> h[b].next]
     ELSE h[x]]
Split(h, b, n) ==
  [x \in DOMAIN h \cup {SplitAt(b, n)} |->
     IF x = b
       THEN [h[b] EXCEPT !.size = n, !.next = SplitAt(b, n)]
     ELSE IF x = SplitAt(b, n)
       THEN [free |-> TRUE, size |-> h[b].size - n - HDR,
             prev |-> b, next |-> h[b].next]
     ELSE IF x = h[b].next
       THEN [h[x] EXCEPT !.prev = SplitAt(b, n)]
     ELSE h[x]]

(* The block kmalloc leaves behind for its caller.                         *)
TakeLeavesFree(h, b, n) ==  \* mutant
  IF MustSplit(h, b, n) THEN Split(h, b, n) ELSE h
Take(h, b, n) ==
  LET cut == IF MustSplit(h, b, n) THEN Split(h, b, n) ELSE h
  IN  [cut EXCEPT ![b].free = FALSE]

(* What maybe_split does to g_tail and gives back to g_free_bytes.         *)
TailAfterTake(h, t, b, n) ==
  IF MustSplit(h, b, n) /\ h[b].next = NULL THEN SplitAt(b, n) ELSE t
Remainder(h, b, n) ==
  IF MustSplit(h, b, n) THEN h[b].size - n - HDR ELSE 0
Taken(h, b, n) == IF MustSplit(h, b, n) THEN n ELSE h[b].size

(* expand_heap: the list with a free block of grow bytes appended.         *)
Appended(grow) ==
  [x \in Blocks \cup {mapped} |->
     IF x = mapped
       THEN [free |-> TRUE, size |-> grow - HDR, prev |-> tail, next |-> NULL]
     ELSE IF x = tail
       THEN [hdr[x] EXCEPT !.next = mapped]
     ELSE hdr[x]]

HandOut(p, n) ==
  live' = [q \in DOMAIN live \cup {p} |-> IF q = p THEN n ELSE live[q]]

Stop(why) == panicked' = why /\ UNCHANGED heapVars

-----------------------------------------------------------------------------
(* kheap_init: nothing is mapped before the first kmalloc.                 *)
Init ==
  /\ hdr = [b \in {} |-> [free |-> TRUE, size |-> 0, prev |-> NULL, next |-> NULL]]
  /\ head = NULL
  /\ tail = NULL
  /\ mapped = 0
  /\ used = 0
  /\ freeBytes = 0
  /\ frames = Frames
  /\ live = [p \in {} |-> 0]
  /\ panicked = "no"

(* kmalloc(n) served from the list.  kmalloc(0) returns NULL and changes   *)
(* nothing, so it is a stuttering step.                                    *)
KmallocFit(n) ==
  \E b \in Blocks :
    /\ FirstFit(b, AlignUp(n))
    /\ hdr' = Take(hdr, b, AlignUp(n))
    /\ tail' = TailAfterTake(hdr, tail, b, AlignUp(n))
    /\ freeBytes' = freeBytes - hdr[b].size + Remainder(hdr, b, AlignUp(n))
    /\ used' = used + Taken(hdr, b, AlignUp(n))
    /\ HandOut(b + HDR, n)
    /\ UNCHANGED <<head, mapped, frames, panicked>>

NoFit(n) == \A b \in Blocks : ~Fits(b, AlignUp(n))
Pages(n) == GrowBytes(AlignUp(n)) \div PageSize
OverLimit(n) == mapped + GrowBytes(AlignUp(n)) > HeapMax

(* kmalloc(n) that grows the heap: expand_heap maps fresh pages behind the *)
(* old end as one free block, which is then taken like any other.          *)
KmallocGrow(n) ==
  /\ NoFit(n)
  /\ ~OverLimit(n)
  /\ \E t \in 0..MaxTables :
       /\ Pages(n) + t <= frames
       /\ frames' = frames - Pages(n) - t
  /\ LET need  == AlignUp(n)
         grown == Appended(GrowBytes(need))
     IN  /\ hdr' = Take(grown, mapped, need)
         /\ tail' = TailAfterTake(grown, mapped, mapped, need)
         /\ freeBytes' = freeBytes + Remainder(grown, mapped, need)
         /\ used' = used + Taken(grown, mapped, need)
  /\ head' = IF tail = NULL THEN mapped ELSE head
  /\ mapped' = mapped + GrowBytes(AlignUp(n))
  /\ HandOut(mapped + HDR, n)
  /\ UNCHANGED panicked

(* The two panics of expand_heap.                                          *)
KmallocOverLimit(n) == NoFit(n) /\ OverLimit(n) /\ Stop("heap limit")
KmallocNoFrames(n) ==
  /\ NoFit(n) /\ ~OverLimit(n)
  /\ Pages(n) + MaxTables > frames
  /\ Stop("out of physical memory")

Kmalloc(n) ==
  \/ KmallocFit(n) \/ KmallocGrow(n)
  \/ KmallocOverLimit(n) \/ KmallocNoFrames(n)

-----------------------------------------------------------------------------
(* kfree's two merges.  Absorb(h, b) appends the block after b to b.       *)
Absorb(h, b) ==
  LET n == h[b].next IN
  [x \in DOMAIN h \ {n} |->
     IF x = b
       THEN [h[b] EXCEPT !.size = @ + HDR + h[n].size, !.next = h[n].next]
     ELSE IF x = h[n].next
       THEN [h[x] EXCEPT !.prev = b]
     ELSE h[x]]

Released(b) == [hdr EXCEPT ![b].free = TRUE]
NextIsFree(h, b) == h[b].next # NULL /\ h[h[b].next].free
PrevIsFree(h, b) == h[b].prev # NULL /\ h[h[b].prev].free

MergeNext(h, b) == IF NextIsFree(h, b) THEN Absorb(h, b) ELSE h
NoMergePrev(h, b) == h  \* mutant
MergePrev(h, b) == IF PrevIsFree(h, b) THEN Absorb(h, h[b].prev) ELSE h

(* The block that holds b's bytes after both merges, and what the merges   *)
(* do to g_tail and to g_free_bytes.                                       *)
Survivor(h, b) == IF PrevIsFree(h, b) THEN h[b].prev ELSE b
TailAfterMerge(h, b) ==
  LET s == Survivor(h, b)
      n == IF NextIsFree(h, b) THEN h[h[b].next].next ELSE h[b].next
  IN  IF (NextIsFree(h, b) \/ PrevIsFree(h, b)) /\ n = NULL THEN s ELSE tail
HeadersLost(h, b) == 0  \* mutant
MergedHeaders(h, b) ==
  (IF NextIsFree(h, b) THEN HDR ELSE 0) + (IF PrevIsFree(h, b) THEN HDR ELSE 0)

(* kfree of a pointer kmalloc returned and nobody freed since.  kfree(NULL)*)
(* changes nothing.                                                        *)
Kfree(p) ==
  LET b == p - HDR
  IN  /\ hdr' = MergePrev(MergeNext(Released(b), b), b)
      /\ tail' = TailAfterMerge(hdr, b)
      /\ used' = used - hdr[b].size
      /\ freeBytes' = freeBytes + hdr[b].size + MergedHeaders(hdr, b)
      /\ live' = [q \in DOMAIN live \ {p} |-> live[q]]
      /\ UNCHANGED <<head, mapped, frames, panicked>>

(* kfree of a pointer whose block is free: the double-free panic.          *)
KfreeTwice(b) == hdr[b].free /\ Stop("double free")

Next ==
  /\ panicked = "no"
  /\ \/ \E n \in Sizes \ {0} : Kmalloc(n)
     \/ \E p \in DOMAIN live : Kfree(p)
     \/ \E b \in Blocks : KfreeTwice(b)

Spec == Init /\ [][Next]_vars

-----------------------------------------------------------------------------
(* Types.  The two counters are uint64_t in the code; that they never pass *)
(* below zero is part of Accounting.                                       *)
TypeOK ==
  /\ Blocks \subseteq Nat /\ IsFiniteSet(Blocks)
  /\ hdr \in [Blocks -> Header]
  /\ head \in Address /\ tail \in Address
  /\ mapped \in Nat
  /\ used \in Int /\ freeBytes \in Int
  /\ frames \in Nat
  /\ DOMAIN live \subseteq Nat /\ live \in [DOMAIN live -> Sizes]
  /\ panicked \in {"no", "heap limit", "out of physical memory", "double free"}

(* Each block ends where the next one begins and the last one ends at the  *)
(* end of the mapped range, so splitting, growing and merging neither lose *)
(* bytes nor let two blocks share one.                                     *)
BlocksTile ==
  /\ mapped > 0 => 0 \in Blocks
  /\ \A b \in Blocks : \/ End(b) = mapped
                       \/ End(b) < mapped /\ End(b) \in Blocks
  /\ \A b, c \in Blocks : b < c => End(b) <= c

(* The list is threaded in address order in both directions, and g_head    *)
(* and g_tail are its ends: what find_free_block walks and kfree merges    *)
(* along is all of the heap.                                               *)
LinksFollowAddresses ==
  /\ \A b \in Blocks :
       /\ hdr[b].next = IF End(b) = mapped THEN NULL ELSE End(b)
       /\ b = 0 => hdr[b].prev = NULL
       /\ b # 0 => /\ hdr[b].prev \in Blocks
                   /\ End(hdr[b].prev) = b
  /\ head = IF mapped = 0 THEN NULL ELSE 0
  /\ IF mapped = 0 THEN tail = NULL
                   ELSE tail \in Blocks /\ End(tail) = mapped

(* Both: through every split, growth and merge the list is the heap.       *)
BlockList == BlocksTile /\ LinksFollowAddresses

(* Between calls no two neighbours are both free: merging in kfree never   *)
(* leaves a pair behind, and a heap grown behind a free tail does not make *)
(* one either.                                                             *)
Coalesced ==
  \A b \in Blocks :
    hdr[b].free /\ hdr[b].next # NULL => ~hdr[hdr[b].next].free

(* Every pointer a caller holds heads a used block that has the bytes it   *)
(* asked for, and every used block is held: nothing is leaked inside the   *)
(* heap and nothing is handed out twice.                                   *)
LiveIsUsed ==
  /\ \A p \in DOMAIN live :
       /\ p - HDR \in Blocks
       /\ ~hdr[p - HDR].free
       /\ hdr[p - HDR].size >= live[p]
  /\ \A b \in Blocks : ~hdr[b].free => b + HDR \in DOMAIN live

(* The bytes of two allocations callers hold never meet, and never reach   *)
(* into a block header or past the mapped range.                           *)
NoOverlap ==
  \A p \in DOMAIN live :
    /\ p + live[p] <= mapped
    /\ \A b \in Blocks : b + HDR <= p \/ p + live[p] <= b

(* used + free + the headers account for every mapped byte, which the      *)
(* double counting that the comment in kmalloc recalls would break.        *)
Accounting == used + freeBytes + HDR * Cardinality(Blocks) = mapped

(* A kmalloc or kfree never moves, resizes or frees a block some other     *)
(* caller goes on holding.                                                 *)
Untouched ==
  \A p \in DOMAIN live \cap DOMAIN live' :
    hdr'[p - HDR].size = hdr[p - HDR].size /\ live'[p] = live[p]

OthersUntouched == [][Untouched]_vars
=============================================================================
