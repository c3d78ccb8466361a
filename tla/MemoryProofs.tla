---------------------------- MODULE MemoryProofs ----------------------------
(***************************************************************************)
(* Proofs about the ownership of page frames, for every memory map, layout *)
(* of the page tables and set of programs.                                 *)
(***************************************************************************)
EXTENDS Memory, FiniteSetTheorems, TLAPS

(* What an owner has came from pmm_alloc_frame.                            *)
FromPmm == Owned \subseteq Managed(mmap)

FramesInv == OwnedOnce /\ NothingLost /\ CounterExact /\ FromPmm

(* What a loop still has to do.                                            *)
NoRepeat(s) == \A i, j \in DOMAIN s : s[i] = s[j] => i = j
LoopsInv ==
  /\ doing \in {"idle", "run"} => todo = << >>
  /\ doing = "load" => Members(todo) \subseteq UserPages \cup {Bad}
  /\ doing \in {"bin", "heap"} => Members(todo) \subseteq KernelPages
  /\ doing = "bin" => goal <= Len(BinPages)
  /\ doing = "heap" => goal <= Len(HeapPages)
  /\ doing = "unload" => NoRepeat(todo) /\ Members(todo) \subseteq UserPages \ Huge
  /\ frame # 0 => /\ doing \in {"load", "bin", "heap"}
                  /\ todo # << >>
                  /\ Head(todo) # Bad

(* What track_page keeps; elf64_unload meets each page once.               *)
TrackedInv ==
  /\ Members(tracked) \subseteq UserPages \ Huge
  /\ NoRepeat(tracked)
  /\ doing \in {"load", "run"} => Members(tracked) \subseteq DOMAIN pte

IInv == TypeOK /\ FramesInv /\ LoopsInv /\ TrackedInv /\ NothingStays

-----------------------------------------------------------------------------
(* Sequences as the loops use them.                                        *)
LEMMA TailMembers ==
  ASSUME NEW S, NEW s \in Seq(S), s # << >>
  PROVE  /\ Head(s) \in S /\ Tail(s) \in Seq(S)
         /\ Head(s) \in Members(s)
         /\ Members(s) = {Head(s)} \cup Members(Tail(s))
         /\ NoRepeat(s) => NoRepeat(Tail(s)) /\ Head(s) \notin Members(Tail(s))
<1>1. /\ Len(s) \in Nat \ {0} /\ DOMAIN s = 1 .. Len(s)
      /\ Head(s) = s[1] /\ Head(s) \in S
      /\ Tail(s) \in Seq(S) /\ DOMAIN Tail(s) = 1 .. Len(s) - 1
      /\ \A i \in 1 .. Len(s) - 1 : Tail(s)[i] = s[i + 1]
  OBVIOUS
<1>2. Members(s) \subseteq {Head(s)} \cup Members(Tail(s))
  <2> SUFFICES ASSUME NEW i \in DOMAIN s
               PROVE  s[i] \in {Head(s)} \cup Members(Tail(s))
    BY DEF Members
  <2>1. CASE i = 1
    BY <2>1, <1>1
  <2>2. CASE i # 1
    <3>1. i - 1 \in DOMAIN Tail(s) /\ Tail(s)[i - 1] = s[i]
      BY <1>1, <2>2
    <3> QED
      BY <3>1 DEF Members
  <2> QED
    BY <2>1, <2>2
<1>3. Members(Tail(s)) \subseteq Members(s)
  <2> SUFFICES ASSUME NEW i \in DOMAIN Tail(s)
               PROVE  Tail(s)[i] \in Members(s)
    BY DEF Members
  <2>1. i + 1 \in DOMAIN s /\ Tail(s)[i] = s[i + 1]
    BY <1>1
  <2> QED
    BY <2>1 DEF Members
<1>4. Head(s) \in Members(s)
  BY <1>1 DEF Members
<1>5. ASSUME NoRepeat(s) PROVE NoRepeat(Tail(s))
  BY <1>1, <1>5 DEF NoRepeat
<1>6. ASSUME NoRepeat(s) PROVE Head(s) \notin Members(Tail(s))
  BY <1>1, <1>6 DEF NoRepeat, Members
<1> QED
  BY <1>1, <1>2, <1>3, <1>4, <1>5, <1>6

LEMMA AppendMembers ==
  ASSUME NEW S, NEW s \in Seq(S), NEW e \in S
  PROVE  /\ Append(s, e) \in Seq(S)
         /\ Len(Append(s, e)) = Len(s) + 1
         /\ Members(Append(s, e)) = Members(s) \cup {e}
         /\ NoRepeat(s) /\ e \notin Members(s) => NoRepeat(Append(s, e))
<1> DEFINE a == Append(s, e)
<1>1. /\ Len(s) \in Nat /\ DOMAIN s = 1 .. Len(s)
      /\ a \in Seq(S) /\ Len(a) = Len(s) + 1 /\ DOMAIN a = 1 .. Len(s) + 1
      /\ \A i \in 1 .. Len(s) : a[i] = s[i]
      /\ a[Len(s) + 1] = e
  OBVIOUS
<1> HIDE DEF a
<1>2. Members(a) = Members(s) \cup {e}
  BY <1>1 DEF Members
<1>3. NoRepeat(s) /\ e \notin Members(s) => NoRepeat(a)
  BY <1>1 DEF NoRepeat, Members
<1> QED
  BY <1>1, <1>2, <1>3 DEF a

LEMMA ConcatMembers ==
  ASSUME NEW S, NEW s \in Seq(S), NEW t \in Seq(S)
  PROVE  s \o t \in Seq(S) /\ Members(s \o t) \subseteq Members(s) \cup Members(t)
<1> DEFINE c == s \o t
<1>1. /\ Len(s) \in Nat /\ DOMAIN s = 1 .. Len(s)
      /\ Len(t) \in Nat /\ DOMAIN t = 1 .. Len(t)
      /\ c \in Seq(S) /\ DOMAIN c = 1 .. Len(s) + Len(t)
      /\ \A i \in 1 .. Len(s) + Len(t) :
           c[i] = IF i <= Len(s) THEN s[i] ELSE t[i - Len(s)]
  OBVIOUS
<1> HIDE DEF c
<1>2. ASSUME NEW i \in DOMAIN c PROVE c[i] \in Members(s) \cup Members(t)
  <2>1. CASE i <= Len(s)
    BY <1>1, <2>1 DEF Members
  <2>2. CASE i > Len(s)
    <3>1. i - Len(s) \in DOMAIN t /\ c[i] = t[i - Len(s)]
      BY <1>1, <2>2
    <3> QED
      BY <3>1 DEF Members
  <2> QED
    BY <1>1, <2>1, <2>2
<1>3. Members(c) \subseteq Members(s) \cup Members(t)
  BY <1>2 DEF Members
<1> QED
  BY <1>1, <1>3 DEF c

LEMMA SubSeqMembers ==
  ASSUME NEW S, NEW s \in Seq(S), NEW m \in Nat, NEW n \in Nat, m + n <= Len(s)
  PROVE  /\ SubSeq(s, m + 1, m + n) \in Seq(S)
         /\ Members(SubSeq(s, m + 1, m + n)) \subseteq Members(s)
<1> DEFINE c == SubSeq(s, m + 1, m + n)
<1>1. /\ Len(s) \in Nat /\ DOMAIN s = 1 .. Len(s)
      /\ c \in Seq(S) /\ DOMAIN c = 1 .. n
      /\ \A i \in 1 .. n : c[i] = s[m + i] /\ m + i \in 1 .. Len(s)
  OBVIOUS
<1> HIDE DEF c
<1>2. Members(c) \subseteq Members(s)
  BY <1>1 DEF Members
<1> QED
  BY <1>1, <1>2 DEF c

-----------------------------------------------------------------------------
(* The bitmap and its counter.                                             *)
LEMMA BitsFinite ==
  /\ IsFiniteSet(Bits)
  /\ Cardinality(Bits) = BitmapBits
  /\ \A S : IsFiniteSet(Bits \ S)
<1>1. IsFiniteSet(Bits) /\ Cardinality(Bits) = BitmapBits
  BY LayoutAssumption, FS_Interval DEF Bits
<1>2. ASSUME NEW S PROVE IsFiniteSet(Bits \ S)
  BY <1>1, FS_Difference
<1> QED
  BY <1>1, <1>2

LEMMA AllocFrame ==
  ASSUME TypeOK, CounterExact, NEW f, Alloc(f)
  PROVE  /\ f \in Bits /\ f \in Managed(mmap) /\ f \notin used
         /\ used' = used \cup {f} /\ used' \subseteq Bits
         /\ freeFrames' \in Int
         /\ CounterExact'
<1>1. f \in Bits /\ f \in Managed(mmap) /\ f \notin used
  BY DEF Alloc, IsLowest, Free, Managed
<1>2. Bits \ used' = (Bits \ used) \ {f}
  BY DEF Alloc
<1>3. IsFiniteSet(Bits \ used)
  BY BitsFinite
<1>4. Cardinality(Bits \ used') = Cardinality(Bits \ used) - 1
  BY <1>1, <1>2, <1>3, FS_RemoveElement
<1> QED
  BY <1>1, <1>4 DEF Alloc, CounterExact, TypeOK, TypeOfFrames

LEMMA FreedFrame ==
  ASSUME TypeOK, CounterExact, NEW f, FreeFrame(f), ~FreePanics(f)
  PROVE  /\ used' \subseteq Bits /\ freeFrames' \in Int /\ CounterExact'
<1>1. f \in Bits /\ f \in used
  BY DEF FreePanics, TypeOK, TypeOfFrames
<1>2. Bits \ used' = (Bits \ used) \cup {f} /\ f \notin Bits \ used
  BY <1>1 DEF FreeFrame
<1>3. IsFiniteSet(Bits \ used)
  BY BitsFinite
<1>4. Cardinality(Bits \ used') = Cardinality(Bits \ used) + 1
  BY <1>2, <1>3, FS_AddElement
<1> QED
  BY <1>4 DEF FreeFrame, CounterExact, TypeOK, TypeOfFrames

(* Frame 0 is never handed out, so 0 can mean that there is none.          *)
LEMMA FrameZeroTaken ==
  ASSUME NEW m, 0 \in Bits
  PROVE  0 \in BootUsed(m)
<1> DEFINE r == [start |-> 0, end |-> FrameSize]
           q == (FrameSize + FrameSize - 1) \div FrameSize
           c == (FrameSize + FrameSize - 1) % FrameSize
<1>1. FrameSize \in Nat /\ FrameSize > 0
  BY LayoutAssumption
<1>2. q \in Int /\ c \in 0 .. FrameSize - 1 /\ FrameSize + FrameSize - 1 = FrameSize * q + c
  BY <1>1
<1>3. q >= 1
  <2> HIDE DEF q, c
  <2>1. FrameSize * q >= FrameSize
    BY <1>1, <1>2
  <2>2. ASSUME q <= 0 PROVE FrameSize * q <= 0
    BY <1>1, <1>2, <2>2
  <2> QED
    BY <1>1, <1>2, <2>1, <2>2
<1>4. RoundUp(FrameSize) = q /\ RoundDown(0) = 0
  BY <1>1 DEF RoundUp, RoundDown
<1>5. 0 \in MarkedUsed(r)
  <2> HIDE DEF q
  <2>1. r.start = 0 /\ r.end = FrameSize
    OBVIOUS
  <2> HIDE DEF r
  <2>2. /\ r.start < r.end
        /\ RoundDown(r.start) <= 0 /\ 0 < RoundUp(r.end)
    BY <1>1, <1>2, <1>3, <1>4, <2>1
  <2> QED
    BY <2>2 DEF MarkedUsed
<1> QED
  BY <1>5 DEF BootUsed

-----------------------------------------------------------------------------
LEMMA InitIInv == Init => IInv
<1> SUFFICES ASSUME Init PROVE IInv
  OBVIOUS
<1> USE DEF Init
<1>1. used \subseteq Bits
  BY DEF BootUsed, MarkedUsed
<1>2. CounterExact
  <2>1. Bits \cap used = used
    BY <1>1
  <2>2. Cardinality(Bits \ used) = Cardinality(Bits) - Cardinality(Bits \cap used)
    BY BitsFinite, FS_Difference
  <2> QED
    BY <2>1, <2>2, BitsFinite DEF CounterExact
<1>3. freeFrames \in Int
  <2>1. IsFiniteSet(Bits \ used)
    BY BitsFinite
  <2> QED
    BY <2>1, <1>2, FS_CardinalityType DEF CounterExact
<1>4. << >> \in Seq(Page) /\ << >> \in Seq(Page \cup {Bad}) /\ Len(<< >>) = 0
  OBVIOUS
<1>5. DOMAIN table = {} /\ DOMAIN pte = {} /\ DOMAIN tracked = {}
  OBVIOUS
<1>6. TypeOK
  <2>1. Len(BinPages) \in Nat /\ Len(HeapPages) \in Nat /\ MaxTracked \in Nat
    BY LayoutAssumption
  <2>2. TypeOfMap /\ TypeOfFrames
    BY <1>1, <1>3 DEF TypeOfMap, TypeOfFrames
  <2>3. TypeOfTables
    BY <1>5 DEF TypeOfTables
  <2>4. tracked \in Seq(Page) /\ Len(tracked) <= MaxTracked /\ todo \in Seq(Page \cup {Bad})
    BY <1>4, <2>1
  <2>5. binNext \in 0 .. Len(BinPages) /\ heapEnd \in 0 .. Len(HeapPages) /\ goal \in Nat
    BY <2>1
  <2>6. TypeOfLoops
    BY <2>4, <2>5 DEF TypeOfLoops
  <2> QED
    BY <2>2, <2>3, <2>6 DEF TypeOK
<1>7. Owned = {}
  BY <1>5 DEF Owned, TableFrames, PageFrames, InHand
<1>8. FramesInv
  BY <1>2, <1>5, <1>7
  DEF FramesInv, OwnedOnce, NothingLost, FromPmm, Owned, TableFrames, PageFrames, InHand
<1>9. LoopsInv /\ TrackedInv /\ NothingStays
  BY <1>5
  DEF LoopsInv, TrackedInv, NothingStays, UserMapped, Tracked, NoRepeat, Members
<1> QED
  BY <1>6, <1>8, <1>9 DEF IInv

(* A step that leaves the frames and tables alone keeps what is said of    *)
(* them.                                                                   *)
LEMMA FramesKept ==
  ASSUME FramesInv, UNCHANGED <<mmap, used, freeFrames, table, pte, frame>>,
         panicked' = "no" => panicked = "no"
  PROVE  FramesInv'
BY DEF FramesInv, OwnedOnce, NothingLost, CounterExact, FromPmm, Owned,
       TableFrames, PageFrames, InHand

(* A machine that panics in the middle of a loop.                          *)
LEMMA PanicKeeps ==
  ASSUME IInv, NEW what, Panic(what), panicked = "no", UNCHANGED frameVars,
         what \in {"heap limit", "no frame for the heap", "no frame for a table",
                  "huge page", "already mapped", "exception"}
  PROVE  IInv'
<1> USE DEF Panic, frameVars
<1>1. TypeOK'
  BY DEF IInv, TypeOK, TypeOfMap, TypeOfFrames, TypeOfTables, TypeOfLoops
<1>2. FramesInv'
  BY FramesKept DEF IInv
<1>3. LoopsInv' /\ TrackedInv' /\ NothingStays'
  BY DEF IInv, LoopsInv, TrackedInv, NothingStays, UserMapped, Tracked
<1> QED
  BY <1>1, <1>2, <1>3 DEF IInv

LEMMA TableOutOfReachKeeps ==
  ASSUME IInv, TableOutOfReach
  PROVE  IInv'
<1>1. PICK f \in Free : f >= Window /\ Alloc(f)
  BY DEF TableOutOfReach
<1>2. /\ used' \subseteq Bits /\ freeFrames' \in Int /\ CounterExact'
  BY <1>1, AllocFrame DEF IInv, FramesInv
<1> USE DEF TableOutOfReach, Panic
<1>3. TypeOK'
  BY <1>2 DEF IInv, TypeOK, TypeOfMap, TypeOfFrames, TypeOfTables, TypeOfLoops
<1>4. FramesInv'
  <2>1. UNCHANGED <<mmap, table, pte, frame>>
    OBVIOUS
  <2> HIDE DEF TableOutOfReach, Panic
  <2>3. OwnedOnce' /\ FromPmm'
    BY <2>1
    DEF IInv, FramesInv, OwnedOnce, FromPmm, Owned, TableFrames, PageFrames, InHand
  <2>2. NothingLost'
    BY DEF NothingLost, TableOutOfReach, Panic
  <2> QED
    BY <1>2, <2>2, <2>3 DEF FramesInv
<1>5. LoopsInv' /\ TrackedInv' /\ NothingStays'
  BY DEF IInv, LoopsInv, TrackedInv, NothingStays, UserMapped, Tracked
<1> QED
  BY <1>2, <1>3, <1>4, <1>5 DEF IInv

-----------------------------------------------------------------------------
(* The loops begin.                                                        *)
LEMMA RunKeeps ==
  ASSUME IInv, Run
  PROVE  IInv'
<1>1. PICK file \in Files : /\ Begin("load", file \o Stack)
                           /\ tracked' = << >> /\ goal' = goal
  BY DEF Run
<1> USE <1>1 DEF Begin
<1>2. file \in Seq(Page \cup {Bad}) /\ Stack \in Seq(Page \cup {Bad})
  BY LayoutAssumption
<1>3. /\ file \o Stack \in Seq(Page \cup {Bad})
      /\ Members(file \o Stack) \subseteq Members(file) \cup Members(Stack)
  BY <1>2, ConcatMembers
<1>4. Members(file) \cup Members(Stack) \subseteq UserPages \cup {Bad}
  <2>1. ASSUME NEW p \in Members(file), p # Bad PROVE p \in UserPages
    BY <2>1, Zenon DEF UserPages
  <2>2. Members(Stack) \subseteq UserPages
    BY Zenon DEF UserPages
  <2> QED
    BY <2>1, <2>2
<1>5. << >> \in Seq(Page) /\ Len(<< >>) = 0 /\ Members(<< >>) = {} /\ NoRepeat(<< >>)
  BY DEF Members, NoRepeat
<1>6. TypeOK'
  BY <1>3, <1>5, LayoutAssumption
  DEF IInv, TypeOK, TypeOfMap, TypeOfFrames, TypeOfTables, TypeOfLoops
<1>7. FramesInv'
  BY FramesKept DEF IInv
<1>8. LoopsInv' /\ TrackedInv'
  BY <1>3, <1>4, <1>5 DEF IInv, LoopsInv, TrackedInv
<1>9. NothingStays'
  BY <1>5 DEF IInv, NothingStays, UserMapped, Tracked
<1> QED
  BY <1>6, <1>7, <1>8, <1>9 DEF IInv

LEMMA KernelLoopBegins ==
  ASSUME IInv, NEW what \in {"bin", "heap"}, NEW pages \in Seq(Page),
         Begin(what, pages), Members(pages) \subseteq KernelPages,
         goal' \in Nat, tracked' = tracked,
         what = "bin" => goal' <= Len(BinPages),
         what = "heap" => goal' <= Len(HeapPages)
  PROVE  IInv'
<1> USE DEF Begin
<1>1. pages \in Seq(Page \cup {Bad})
  OBVIOUS
<1>2. TypeOK'
  BY <1>1 DEF IInv, TypeOK, TypeOfMap, TypeOfFrames, TypeOfTables, TypeOfLoops
<1>3. FramesInv'
  BY FramesKept DEF IInv
<1>4. LoopsInv' /\ TrackedInv'
  BY DEF IInv, LoopsInv, TrackedInv
<1>5. NothingStays'
  BY DEF IInv, NothingStays, UserMapped, Tracked
<1> QED
  BY <1>2, <1>3, <1>4, <1>5 DEF IInv

LEMMA LoadBinKeeps ==
  ASSUME IInv, LoadBin
  PROVE  IInv'
<1>1. PICK n \in 1 .. MaxRequest :
        /\ binNext + n <= Len(BinPages)
        /\ Begin("bin", SubSeq(BinPages, binNext + 1, binNext + n))
        /\ goal' = binNext + n
        /\ tracked' = tracked
  BY DEF LoadBin
<1>2. BinPages \in Seq(Page) /\ binNext \in Nat /\ n \in Nat
  <2>1. BinPages \in Seq(Page) /\ MaxRequest \in Nat
    BY LayoutAssumption
  <2>2. binNext \in 0 .. Len(BinPages)
    BY DEF IInv, TypeOK, TypeOfLoops
  <2> QED
    BY <2>1, <2>2
<1>3. /\ SubSeq(BinPages, binNext + 1, binNext + n) \in Seq(Page)
      /\ Members(SubSeq(BinPages, binNext + 1, binNext + n)) \subseteq KernelPages
  BY <1>1, <1>2, SubSeqMembers DEF KernelPages
<1>4. goal' \in Nat /\ goal' <= Len(BinPages)
  BY <1>1, <1>2
<1> QED
  BY <1>1, <1>3, <1>4, KernelLoopBegins

LEMMA GrowHeapKeeps ==
  ASSUME IInv, GrowHeap
  PROVE  IInv'
<1>1. PICK n \in 1 .. MaxRequest :
        /\ heapEnd + n <= Len(HeapPages)
        /\ Begin("heap", SubSeq(HeapPages, heapEnd + 1, heapEnd + n))
        /\ goal' = heapEnd + n
        /\ tracked' = tracked
  BY DEF GrowHeap
<1>2. HeapPages \in Seq(Page) /\ heapEnd \in Nat /\ n \in Nat
  <2>1. HeapPages \in Seq(Page) /\ MaxRequest \in Nat
    BY LayoutAssumption
  <2>2. heapEnd \in 0 .. Len(HeapPages)
    BY DEF IInv, TypeOK, TypeOfLoops
  <2> QED
    BY <2>1, <2>2
<1>3. /\ SubSeq(HeapPages, heapEnd + 1, heapEnd + n) \in Seq(Page)
      /\ Members(SubSeq(HeapPages, heapEnd + 1, heapEnd + n)) \subseteq KernelPages
  BY <1>1, <1>2, SubSeqMembers DEF KernelPages
<1>4. goal' \in Nat /\ goal' <= Len(HeapPages)
  BY <1>1, <1>2
<1> QED
  BY <1>1, <1>3, <1>4, KernelLoopBegins

-----------------------------------------------------------------------------
(* The body of the loops.                                                  *)
LEMMA TakeFrameKeeps ==
  ASSUME IInv, TakeFrame
  PROVE  IInv'
<1>1. PICK f \in Free : Alloc(f) /\ frame' = f
  BY DEF TakeFrame
<1>2. /\ f \in Bits /\ f \in Managed(mmap) /\ f \notin used
      /\ used' = used \cup {f} /\ used' \subseteq Bits
      /\ freeFrames' \in Int /\ CounterExact'
  BY <1>1, AllocFrame DEF IInv, FramesInv
<1>3. /\ UNCHANGED <<mmap, table, pte, tracked, binNext, heapEnd, doing, todo,
                     goal, leaky, panicked>>
      /\ panicked = "no" /\ doing \in {"load", "bin", "heap"}
      /\ todo # << >> /\ frame = 0 /\ Head(todo) # Bad
  BY DEF TakeFrame, WantsFrame, Mapping
<1>4. f # 0
  <2>1. 0 \in Bits => 0 \in used
    BY <1>3, FrameZeroTaken DEF IInv, FramesInv, NothingLost
  <2> QED
    BY <1>2, <2>1
<1>5. used = BootUsed(mmap) \cup TableFrames \cup PageFrames
  BY <1>3 DEF IInv, FramesInv, NothingLost, Owned, InHand
<1>6. TableFrames' = TableFrames /\ PageFrames' = PageFrames /\ InHand' = {f}
  BY <1>1, <1>3, <1>4 DEF TableFrames, PageFrames, InHand
<1>7. OwnedOnce'
  BY <1>2, <1>3, <1>5, <1>6 DEF IInv, FramesInv, OwnedOnce, Owned
<1>8. NothingLost' /\ FromPmm'
  BY <1>2, <1>3, <1>5, <1>6 DEF IInv, FramesInv, NothingLost, FromPmm, Owned
<1>9. TypeOK'
  BY <1>1, <1>2, <1>3
  DEF IInv, TypeOK, TypeOfMap, TypeOfFrames, TypeOfTables, TypeOfLoops
<1>10. LoopsInv' /\ TrackedInv' /\ NothingStays'
  BY <1>3 DEF IInv, LoopsInv, TrackedInv, NothingStays, UserMapped, Tracked
<1> QED
  BY <1>2, <1>7, <1>8, <1>9, <1>10 DEF IInv, FramesInv

LEMMA AddTableKeeps ==
  ASSUME IInv, AddTable
  PROVE  IInv'
<1>1. PICK i \in Missing(Head(todo)), f \in Free :
        /\ Alloc(f)
        /\ table' = [t \in DOMAIN table \cup {Path[Head(todo)][i]} |->
                       IF t \in DOMAIN table THEN table[t] ELSE f]
  BY DEF AddTable
<1> DEFINE n == Path[Head(todo)][i]
<1>2. /\ f \in Bits /\ f \in Managed(mmap) /\ f \notin used
      /\ used' = used \cup {f} /\ used' \subseteq Bits
      /\ freeFrames' \in Int /\ CounterExact'
  BY <1>1, AllocFrame DEF IInv, FramesInv
<1>3. /\ UNCHANGED <<mmap, pte, tracked, binNext, heapEnd, doing, todo, goal,
                     frame, leaky, panicked>>
      /\ panicked = "no" /\ doing \in {"load", "bin", "heap"}
      /\ todo # << >> /\ frame # 0
  BY DEF AddTable, Walking, Mapping
<1>4. n \in Table /\ n \notin DOMAIN table
  <2>1. todo \in Seq(Page \cup {Bad}) /\ Head(todo) # Bad
    BY <1>3 DEF IInv, TypeOK, TypeOfLoops, LoopsInv
  <2>2. Head(todo) \in Page
    BY <1>3, <2>1, TailMembers
  <2>3. Path[Head(todo)] \in Seq(Table)
    BY <2>2, LayoutAssumption
  <2> QED
    BY <2>3 DEF Missing
<1> HIDE DEF n
<1>5. /\ DOMAIN table' = DOMAIN table \cup {n}
      /\ \A t \in DOMAIN table : table'[t] = table[t]
      /\ table'[n] = f
  BY <1>1, <1>4 DEF n
<1>6. used = BootUsed(mmap) \cup Owned
  BY <1>3 DEF IInv, FramesInv, NothingLost
<1>7. TableFrames' = TableFrames \cup {f} /\ PageFrames' = PageFrames /\ InHand' = InHand
  BY <1>3, <1>4, <1>5 DEF TableFrames, PageFrames, InHand
<1>8. OwnedOnce'
  <2>1. \A t \in DOMAIN table : table[t] # f
    BY <1>2, <1>6 DEF Owned, TableFrames
  <2>2. \A t, u \in DOMAIN table' : table'[t] = table'[u] => t = u
    BY <1>5, <2>1 DEF IInv, FramesInv, OwnedOnce
  <2>3. \A p, q \in DOMAIN pte' : pte'[p] = pte'[q] => p = q
    BY <1>3 DEF IInv, FramesInv, OwnedOnce
  <2> QED
    BY <1>2, <1>3, <1>6, <1>7, <2>2, <2>3 DEF IInv, FramesInv, OwnedOnce, Owned
<1>9. NothingLost' /\ FromPmm'
  BY <1>2, <1>3, <1>6, <1>7 DEF IInv, FramesInv, NothingLost, FromPmm, Owned
<1>10. TypeOK'
  <2>1. TypeOfTables'
    BY <1>2, <1>3, <1>4, <1>5 DEF IInv, TypeOK, TypeOfTables
  <2> QED
    BY <1>2, <1>3, <2>1 DEF IInv, TypeOK, TypeOfMap, TypeOfFrames, TypeOfLoops
<1>11. LoopsInv' /\ TrackedInv' /\ NothingStays'
  BY <1>3 DEF IInv, LoopsInv, TrackedInv, NothingStays, UserMapped, Tracked
<1> QED
  BY <1>2, <1>8, <1>9, <1>10, <1>11 DEF IInv, FramesInv

LEMMA GiveUpKeeps ==
  ASSUME IInv, GiveUp, doing \in {"load", "bin"}, panicked = "no",
         frame = 0
  PROVE  IInv'
<1> USE DEF GiveUp
<1>1. << >> \in Seq(Page \cup {Bad})
  OBVIOUS
<1>2. TypeOK'
  BY <1>1 DEF IInv, TypeOK, TypeOfMap, TypeOfFrames, TypeOfTables, TypeOfLoops
<1>3. FramesInv'
  BY FramesKept DEF IInv
<1>4. LoopsInv' /\ TrackedInv'
  BY DEF IInv, LoopsInv, TrackedInv
<1>5. NothingStays'
  <2>1. doing = "load" /\ tracked = << >> => Members(tracked) = {}
    BY DEF Members
  <2>2. CASE doing = "load"
    BY <2>1, <2>2 DEF IInv, NothingStays, UserMapped, Tracked
  <2>3. CASE doing = "bin"
    BY <2>3 DEF IInv, NothingStays, UserMapped, Tracked
  <2> QED
    BY <2>2, <2>3
<1> QED
  BY <1>2, <1>3, <1>4, <1>5 DEF IInv

LEMMA EnterPageKeeps ==
  ASSUME IInv, EnterPage
  PROVE  IInv'
<1> DEFINE v == Head(todo)
<1>1. /\ panicked = "no" /\ doing \in {"load", "bin", "heap"}
      /\ todo # << >> /\ frame # 0 /\ v \notin DOMAIN pte /\ v \notin Huge
      /\ pte' = [p \in DOMAIN pte \cup {v} |->
                   IF p \in DOMAIN pte THEN pte[p] ELSE frame]
      /\ tracked' = IF doing = "load" THEN Track(v) ELSE tracked
      /\ leaky' = (leaky \/ (doing = "load" /\ Len(tracked) >= MaxTracked))
      /\ frame' = 0 /\ todo' = Tail(todo)
      /\ UNCHANGED <<mmap, used, freeFrames, table, binNext, heapEnd, doing,
                     goal, panicked>>
  BY DEF EnterPage, Walking, Walked, Mapping
<1>2. /\ todo \in Seq(Page \cup {Bad}) /\ tracked \in Seq(Page)
      /\ Len(tracked) \in Nat /\ Len(tracked) <= MaxTracked /\ MaxTracked \in Nat
      /\ v # Bad /\ frame \in Bits
  BY <1>1, LayoutAssumption
  DEF IInv, TypeOK, TypeOfFrames, TypeOfLoops, LoopsInv, Bits
<1>3. /\ v \in Page /\ Tail(todo) \in Seq(Page \cup {Bad})
      /\ v \in Members(todo) /\ Members(Tail(todo)) \subseteq Members(todo)
  BY <1>1, <1>2, TailMembers
<1>4. /\ doing = "load" => v \in UserPages
      /\ doing # "load" => v \in KernelPages
  BY <1>1, <1>2, <1>3 DEF IInv, LoopsInv
<1> HIDE DEF v
<1>5. /\ DOMAIN pte' = DOMAIN pte \cup {v}
      /\ \A p \in DOMAIN pte : pte'[p] = pte[p]
      /\ pte'[v] = frame
  BY <1>1
<1>6. PageFrames' = PageFrames \cup {frame} /\ TableFrames' = TableFrames
      /\ InHand = {frame} /\ InHand' = {}
  BY <1>1, <1>5 DEF PageFrames, TableFrames, InHand
<1>7. FramesInv'
  <2>1. \A p \in DOMAIN pte : pte[p] # frame
    BY <1>6 DEF IInv, FramesInv, OwnedOnce, PageFrames
  <2>2. \A p, q \in DOMAIN pte' : pte'[p] = pte'[q] => p = q
    BY <1>5, <2>1 DEF IInv, FramesInv, OwnedOnce
  <2>3. \A t, u \in DOMAIN table' : table'[t] = table'[u] => t = u
    BY <1>1 DEF IInv, FramesInv, OwnedOnce
  <2>4. Owned' = Owned
    BY <1>6 DEF Owned
  <2>5. OwnedOnce'
    BY <1>1, <1>6, <2>2, <2>3, <2>4 DEF IInv, FramesInv, OwnedOnce
  <2> QED
    BY <1>1, <2>4, <2>5 DEF IInv, FramesInv, NothingLost, CounterExact, FromPmm
<1>8. /\ tracked' \in Seq(Page) /\ Len(tracked') <= MaxTracked
      /\ TrackedInv'
      /\ doing = "load" /\ Len(tracked) < MaxTracked
           => Members(tracked') = Members(tracked) \cup {v}
  <2>1. CASE doing = "load" /\ Len(tracked) < MaxTracked
    <3>1. tracked' = Append(tracked, v)
      BY <1>1, <2>1 DEF Track
    <3>2. Members(tracked) \subseteq DOMAIN pte /\ NoRepeat(tracked)
          /\ Members(tracked) \subseteq UserPages \ Huge
      BY <2>1 DEF IInv, TrackedInv
    <3>3. v \notin Members(tracked)
      BY <1>1, <3>2
    <3>4. /\ tracked' \in Seq(Page) /\ Len(tracked') = Len(tracked) + 1
          /\ Members(tracked') = Members(tracked) \cup {v}
          /\ NoRepeat(tracked')
      BY <1>2, <1>3, <3>1, <3>2, <3>3, AppendMembers
    <3> QED
      BY <1>1, <1>2, <1>4, <1>5, <2>1, <3>2, <3>4 DEF TrackedInv
  <2>2. CASE ~(doing = "load" /\ Len(tracked) < MaxTracked)
    <3>1. tracked' = tracked
      BY <1>1, <2>2 DEF Track
    <3> QED
      BY <1>1, <1>2, <1>5, <2>2, <3>1 DEF IInv, TrackedInv
  <2> QED
    BY <2>1, <2>2
<1>9. TypeOK'
  <2>1. TypeOfTables'
    BY <1>1, <1>2, <1>3, <1>5 DEF IInv, TypeOK, TypeOfTables
  <2>2. TypeOfLoops'
    BY <1>1, <1>3, <1>8 DEF IInv, TypeOK, TypeOfLoops
  <2>3. TypeOfMap' /\ TypeOfFrames'
    BY <1>1 DEF IInv, TypeOK, TypeOfMap, TypeOfFrames
  <2> QED
    BY <2>1, <2>2, <2>3 DEF TypeOK
<1>10. LoopsInv'
  BY <1>1, <1>3 DEF IInv, LoopsInv
<1>11. NothingStays'
  <2> SUFFICES ASSUME ~leaky' PROVE UserMapped' = Tracked'
    BY DEF NothingStays
  <2>0. ~leaky /\ ~(doing = "load" /\ Len(tracked) >= MaxTracked)
    BY <1>1, Zenon
  <2>1. ~leaky /\ (doing = "load" => Len(tracked) < MaxTracked)
    BY <1>2, <2>0
  <2>2. UserMapped = Tracked
    BY <2>1 DEF IInv, NothingStays
  <2>3. CASE doing = "load"
    <3>1. v \notin KernelPages
      BY <1>4, <2>3, LayoutAssumption
    <3>2. Members(tracked') = Members(tracked) \cup {v}
      BY <1>8, <2>1, <2>3
    <3> QED
      BY <1>1, <1>5, <2>2, <2>3, <3>1, <3>2 DEF UserMapped, Tracked
  <2>4. CASE doing # "load"
    <3>1. v \in KernelPages
      BY <1>4, <2>4
    <3> QED
      BY <1>1, <1>5, <2>2, <2>4, <3>1 DEF UserMapped, Tracked
  <2> QED
    BY <2>3, <2>4
<1> QED
  BY <1>7, <1>8, <1>9, <1>10, <1>11 DEF IInv

-----------------------------------------------------------------------------
(* The loops end.                                                          *)
LEMMA FinishKeeps ==
  ASSUME IInv, EnterProgram \/ BinLoaded \/ HeapGrown \/ Unloaded
  PROVE  IInv'
<1>1. /\ panicked = "no" /\ todo = << >>
      /\ UNCHANGED <<mmap, used, freeFrames, table, pte, todo, goal, frame,
                     leaky, panicked>>
  BY DEF EnterProgram, BinLoaded, HeapGrown, Unloaded, Finish
<1>2. frame = 0
  BY <1>1 DEF IInv, LoopsInv
<1>3. FramesInv'
  BY <1>1, FramesKept DEF IInv
<1>4. << >> \in Seq(Page) /\ Len(<< >>) = 0 /\ Members(<< >>) = {} /\ NoRepeat(<< >>)
  BY DEF Members, NoRepeat
<1>5. MaxTracked \in Nat
  BY LayoutAssumption
<1>6. TypeOfMap' /\ TypeOfFrames' /\ TypeOfTables'
  BY <1>1 DEF IInv, TypeOK, TypeOfMap, TypeOfFrames, TypeOfTables
<1>7. CASE EnterProgram
  <2> USE <1>7 DEF EnterProgram, Finish
  <2>1. TypeOfLoops'
    BY <1>1 DEF IInv, TypeOK, TypeOfLoops
  <2>2. LoopsInv' /\ TrackedInv'
    BY <1>1, <1>2 DEF IInv, LoopsInv, TrackedInv
  <2>3. NothingStays'
    BY <1>1 DEF IInv, NothingStays, UserMapped, Tracked
  <2> QED
    BY <1>3, <1>6, <2>1, <2>2, <2>3 DEF IInv, TypeOK
<1>8. CASE BinLoaded
  <2> USE <1>8 DEF BinLoaded, Finish
  <2>1. TypeOfLoops'
    <3>1. goal \in Nat /\ goal <= Len(BinPages) /\ Len(BinPages) \in Nat
      BY LayoutAssumption DEF IInv, TypeOK, TypeOfLoops, LoopsInv
    <3> QED
      BY <1>1, <3>1 DEF IInv, TypeOK, TypeOfLoops
  <2>2. LoopsInv' /\ TrackedInv'
    BY <1>1, <1>2 DEF IInv, LoopsInv, TrackedInv
  <2>3. NothingStays'
    BY <1>1 DEF IInv, NothingStays, UserMapped, Tracked
  <2> QED
    BY <1>3, <1>6, <2>1, <2>2, <2>3 DEF IInv, TypeOK
<1>9. CASE HeapGrown
  <2> USE <1>9 DEF HeapGrown, Finish
  <2>1. TypeOfLoops'
    <3>1. goal \in Nat /\ goal <= Len(HeapPages) /\ Len(HeapPages) \in Nat
      BY LayoutAssumption DEF IInv, TypeOK, TypeOfLoops, LoopsInv
    <3> QED
      BY <1>1, <3>1 DEF IInv, TypeOK, TypeOfLoops
  <2>2. LoopsInv' /\ TrackedInv'
    BY <1>1, <1>2 DEF IInv, LoopsInv, TrackedInv
  <2>3. NothingStays'
    BY <1>1 DEF IInv, NothingStays, UserMapped, Tracked
  <2> QED
    BY <1>3, <1>6, <2>1, <2>2, <2>3 DEF IInv, TypeOK
<1>10. CASE Unloaded
  <2> USE <1>10 DEF Unloaded, Finish
  <2>1. TypeOfLoops'
    BY <1>1, <1>4, <1>5 DEF IInv, TypeOK, TypeOfLoops
  <2>2. LoopsInv' /\ TrackedInv'
    BY <1>1, <1>2, <1>4 DEF IInv, LoopsInv, TrackedInv
  <2>3. NothingStays'
    BY <1>1, <1>4 DEF IInv, NothingStays, UserMapped, Tracked
  <2> QED
    BY <1>3, <1>6, <2>1, <2>2, <2>3 DEF IInv, TypeOK
<1> QED
  BY <1>7, <1>8, <1>9, <1>10

LEMMA SysExitKeeps ==
  ASSUME IInv, SysExit
  PROVE  IInv'
<1> USE DEF SysExit
<1>1. tracked \in Seq(Page) /\ tracked \in Seq(Page \cup {Bad})
  BY DEF IInv, TypeOK, TypeOfLoops
<1>2. TypeOK'
  BY <1>1 DEF IInv, TypeOK, TypeOfMap, TypeOfFrames, TypeOfTables, TypeOfLoops
<1>3. FramesInv'
  BY FramesKept DEF IInv
<1>4. LoopsInv' /\ TrackedInv'
  BY DEF IInv, LoopsInv, TrackedInv
<1>5. NothingStays'
  BY DEF IInv, NothingStays, UserMapped, Tracked
<1> QED
  BY <1>2, <1>3, <1>4, <1>5 DEF IInv

(* Every page that elf64_unload meets holds a frame in use.                *)
LEMMA UnloadPageKeeps ==
  ASSUME IInv, UnloadPage
  PROVE  IInv' /\ panicked' = "no"
<1> DEFINE v == Head(todo)
<1>1. /\ panicked = "no" /\ doing = "unload" /\ todo # << >>
      /\ Unmap(v) /\ todo' = Tail(todo)
      /\ UNCHANGED <<mmap, table, tracked, binNext, heapEnd, doing, goal, frame,
                     leaky>>
  BY DEF UnloadPage
<1>2. /\ todo \in Seq(Page \cup {Bad}) /\ NoRepeat(todo)
      /\ Members(todo) \subseteq UserPages \ Huge /\ frame = 0
  BY <1>1 DEF IInv, TypeOK, TypeOfLoops, LoopsInv
<1>3. /\ Tail(todo) \in Seq(Page \cup {Bad}) /\ NoRepeat(Tail(todo))
      /\ Members(todo) = {v} \cup Members(Tail(todo))
      /\ v \notin Members(Tail(todo))
  BY <1>1, <1>2, TailMembers
<1>4. v \in UserPages /\ v \notin KernelPages /\ v \notin Huge
  BY <1>2, <1>3, LayoutAssumption
<1> HIDE DEF v
<1>5. /\ panicked' = "no"
      /\ DOMAIN pte' = DOMAIN pte \ {v}
      /\ \A p \in DOMAIN pte' : pte'[p] = pte[p]
      /\ DOMAIN pte' \subseteq DOMAIN pte
      /\ used' \subseteq Bits /\ freeFrames' \in Int
      /\ FramesInv'
  <2>1. CASE v \notin DOMAIN pte
    <3>1. UNCHANGED <<pte, used, freeFrames, panicked>>
      BY <1>1, <1>4, <2>1 DEF Unmap, Translated
    <3>2. FramesInv'
      BY <1>1, <3>1, FramesKept DEF IInv
    <3> QED
      BY <1>1, <2>1, <3>1, <3>2 DEF IInv, TypeOK, TypeOfFrames
  <2>2. CASE v \in DOMAIN pte
    <3>1. used = BootUsed(mmap) \cup Owned
      BY <1>1 DEF IInv, FramesInv, NothingLost
    <3>2. pte[v] \in PageFrames /\ pte[v] \in Owned
      BY <2>2 DEF PageFrames, Owned
    <3>3. ~FreePanics(pte[v])
      BY <3>1, <3>2 DEF FreePanics, IInv, FramesInv, FromPmm
    <3>4. pte' = Removed(v) /\ panicked' = panicked /\ FreeFrame(pte[v])
      BY <1>1, <1>4, <2>2, <3>3 DEF Unmap, Translated
    <3>5. used' \subseteq Bits /\ freeFrames' \in Int /\ CounterExact'
      BY <3>3, <3>4, FreedFrame DEF IInv, FramesInv
    <3>6. DOMAIN pte' = DOMAIN pte \ {v} /\ \A p \in DOMAIN pte' : pte'[p] = pte[p]
      BY <3>4 DEF Removed
    <3>7. /\ PageFrames' = PageFrames \ {pte[v]}
          /\ TableFrames' = TableFrames /\ InHand' = {} /\ InHand = {}
      BY <1>1, <1>2, <2>2, <3>6
      DEF PageFrames, TableFrames, InHand, IInv, FramesInv, OwnedOnce
    <3>8. Owned' = Owned \ {pte[v]}
      BY <3>2, <3>7 DEF Owned, IInv, FramesInv, OwnedOnce
    <3>9. OwnedOnce'
      <4>1. \A p, q \in DOMAIN pte' : pte'[p] = pte'[q] => p = q
        BY <3>6 DEF IInv, FramesInv, OwnedOnce
      <4>2. \A t, u \in DOMAIN table' : table'[t] = table'[u] => t = u
        BY <1>1 DEF IInv, FramesInv, OwnedOnce
      <4> QED
        BY <1>1, <3>7, <3>8, <4>1, <4>2 DEF IInv, FramesInv, OwnedOnce
    <3>10. NothingLost' /\ FromPmm'
      <4>1. pte[v] \notin BootUsed(mmap)
        BY <3>2 DEF IInv, FramesInv, OwnedOnce
      <4>2. used' = used \ {pte[v]}
        BY <3>4 DEF FreeFrame
      <4> QED
        BY <1>1, <3>1, <3>8, <4>1, <4>2 DEF IInv, FramesInv, NothingLost, FromPmm
    <3> QED
      BY <1>1, <3>4, <3>5, <3>6, <3>9, <3>10 DEF FramesInv
  <2> QED
    BY <2>1, <2>2
<1>6. TypeOK'
  <2>1. TypeOfTables'
    BY <1>1, <1>5 DEF IInv, TypeOK, TypeOfTables
  <2>2. TypeOfLoops'
    BY <1>1, <1>3, <1>5 DEF IInv, TypeOK, TypeOfLoops
  <2>3. TypeOfMap' /\ TypeOfFrames'
    BY <1>1, <1>5 DEF IInv, TypeOK, TypeOfMap, TypeOfFrames
  <2> QED
    BY <2>1, <2>2, <2>3 DEF TypeOK
<1>7. LoopsInv' /\ TrackedInv'
  BY <1>1, <1>2, <1>3 DEF IInv, LoopsInv, TrackedInv
<1>8. NothingStays'
  BY <1>1, <1>3, <1>4, <1>5 DEF IInv, NothingStays, UserMapped, Tracked
<1> QED
  BY <1>5, <1>6, <1>7, <1>8 DEF IInv

-----------------------------------------------------------------------------
(* IInv is inductive.                                                      *)
THEOREM InductiveInvariant == Spec => []IInv
<1>1. IInv /\ [Next]_vars => IInv'
  <2> SUFFICES ASSUME IInv, [Next]_vars PROVE IInv'
    OBVIOUS
  <2>1. CASE Run
    BY <2>1, RunKeeps
  <2>2. CASE LoadBin
    BY <2>2, LoadBinKeeps
  <2>3. CASE GrowHeap
    BY <2>3, GrowHeapKeeps
  <2>4. CASE HeapLimit
    BY <2>4, PanicKeeps DEF HeapLimit
  <2>5. CASE TakeFrame
    BY <2>5, TakeFrameKeeps
  <2>6. CASE NoFrame
    BY <2>6, GiveUpKeeps DEF NoFrame, WantsFrame, Mapping
  <2>7. CASE NoFrameForHeap
    BY <2>7, PanicKeeps DEF NoFrameForHeap, WantsFrame, Mapping
  <2>8. CASE RejectFile
    <3>1. panicked = "no" /\ doing \in {"load", "bin", "heap"} /\ todo # << >>
          /\ Head(todo) = Bad /\ GiveUp
      BY <2>8 DEF RejectFile, Mapping
    <3>2. Bad \in Members(todo)
      BY <3>1, TailMembers DEF IInv, TypeOK, TypeOfLoops
    <3>3. Bad \notin KernelPages
      BY LayoutAssumption DEF KernelPages, Members
    <3>4. doing = "load" /\ frame = 0
      BY <3>1, <3>2, <3>3 DEF IInv, LoopsInv
    <3> QED
      BY <3>1, <3>4, GiveUpKeeps
  <2>9. CASE AddTable
    BY <2>9, AddTableKeeps
  <2>10. CASE TableOutOfReach
    BY <2>10, TableOutOfReachKeeps
  <2>11. CASE NoFrameForTable
    BY <2>11, PanicKeeps DEF NoFrameForTable, Walking, Mapping
  <2>12. CASE HugePage
    BY <2>12, PanicKeeps DEF HugePage, Walking, Mapping
  <2>13. CASE AlreadyMapped
    BY <2>13, PanicKeeps DEF AlreadyMapped, Walking, Mapping
  <2>14. CASE EnterPage
    BY <2>14, EnterPageKeeps
  <2>15. CASE EnterProgram \/ BinLoaded \/ HeapGrown \/ Unloaded
    BY <2>15, FinishKeeps
  <2>16. CASE SysExit
    BY <2>16, SysExitKeeps
  <2>17. CASE Exception
    BY <2>17, PanicKeeps DEF Exception
  <2>18. CASE UnloadPage
    BY <2>18, UnloadPageKeeps
  <2>19. CASE UNCHANGED vars
    <3> USE <2>19 DEF vars
    <3>1. TypeOK'
      BY DEF IInv, TypeOK, TypeOfMap, TypeOfFrames, TypeOfTables, TypeOfLoops
    <3>2. FramesInv'
      BY FramesKept DEF IInv
    <3>3. LoopsInv' /\ TrackedInv' /\ NothingStays'
      BY DEF IInv, LoopsInv, TrackedInv, NothingStays, UserMapped, Tracked
    <3> QED
      BY <3>1, <3>2, <3>3 DEF IInv
  <2> QED
    BY <2>1, <2>2, <2>3, <2>4, <2>5, <2>6, <2>7, <2>8, <2>9, <2>10, <2>11,
       <2>12, <2>13, <2>14, <2>15, <2>16, <2>17, <2>18, <2>19 DEF Next
<1> QED
  BY InitIInv, <1>1, PTL DEF Spec

(* The variables of the memory management keep their types: g_free_frames, *)
(* g_tracked_pages and the page tables of kernel/mm and kernel/elf.        *)
THEOREM TypeCorrect == Spec => []TypeOK
<1>1. IInv => TypeOK
  BY DEF IInv
<1> QED
  BY <1>1, InductiveInvariant, PTL

(* Whatever is loaded, run, read by loadbin or allocated on the heap, no   *)
(* frame backs two pages, or a page and a page table, or a page and        *)
(* something from before the boot ended.                                   *)
THEOREM FramesOwnedOnce == Spec => []OwnedOnce
<1>1. IInv => OwnedOnce
  BY DEF IInv, FramesInv
<1> QED
  BY <1>1, InductiveInvariant, PTL

(* The bitmap of pmm.c and the page tables never disagree on which frames  *)
(* are in use.                                                             *)
THEOREM NoFrameLost == Spec => []NothingLost
<1>1. IInv => NothingLost
  BY DEF IInv, FramesInv
<1> QED
  BY <1>1, InductiveInvariant, PTL

(* g_free_frames is exact after every call of pmm_alloc_frame and          *)
(* pmm_free_frame.                                                         *)
THEOREM CounterAlwaysExact == Spec => []CounterExact
<1>1. IInv => CounterExact
  BY DEF IInv, FramesInv
<1> QED
  BY <1>1, InductiveInvariant, PTL

(* A program that exits leaves no page behind, whatever was loaded before, *)
(* unless a load failed half way or outgrew the table of tracked pages.    *)
THEOREM ProgramsLeaveNothing == Spec => []NothingStays
<1>1. IInv => NothingStays
  BY DEF IInv
<1> QED
  BY <1>1, InductiveInvariant, PTL

(* elf64_unload never runs into a panic of vmm_unmap or pmm_free_frame.    *)
THEOREM UnloadSafe == Spec => []UnloadNeverPanics
<1> USE DEF UnloadNeverPanics
<1>1. Init => UnloadNeverPanics
  BY DEF Init
<1>2. IInv /\ UnloadNeverPanics /\ [Next]_vars => UnloadNeverPanics'
  <2> SUFFICES ASSUME IInv, UnloadNeverPanics, [Next]_vars
               PROVE  UnloadNeverPanics'
    OBVIOUS
  <2>1. CASE UnloadPage
    BY <2>1, UnloadPageKeeps
  <2>2. CASE Run \/ LoadBin \/ GrowHeap
    BY <2>2 DEF Run, LoadBin, GrowHeap, Begin
  <2>3. CASE HeapLimit \/ NoFrameForHeap \/ TableOutOfReach \/ NoFrameForTable
    BY <2>3 DEF HeapLimit, NoFrameForHeap, TableOutOfReach, NoFrameForTable, Panic
  <2>4. CASE HugePage \/ AlreadyMapped \/ Exception
    BY <2>4 DEF HugePage, AlreadyMapped, Exception, Panic
  <2>5. CASE TakeFrame \/ NoFrame \/ RejectFile \/ AddTable \/ EnterPage
    BY <2>5 DEF TakeFrame, NoFrame, RejectFile, GiveUp, AddTable, EnterPage
  <2>6. CASE EnterProgram \/ BinLoaded \/ HeapGrown \/ SysExit \/ Unloaded
    BY <2>6 DEF EnterProgram, BinLoaded, HeapGrown, SysExit, Unloaded, Finish
  <2>7. CASE UNCHANGED vars
    BY <2>7 DEF vars
  <2> QED
    BY <2>1, <2>2, <2>3, <2>4, <2>5, <2>6, <2>7 DEF Next
<1> QED
  BY <1>1, <1>2, InductiveInvariant, PTL DEF Spec

-----------------------------------------------------------------------------
(* Rounding to frames, for any size of a frame.                            *)
LEMMA Scale ==
  ASSUME NEW k \in Nat, NEW x \in Int, NEW y \in Int, x <= y
  PROVE  k * x <= k * y
<1>1. PICK d \in Nat : y = x + d
  <2>1. y - x \in Nat /\ y = x + (y - x)
    OBVIOUS
  <2> QED
    BY <2>1
<1>2. k * d >= 0 /\ k * d \in Int
  OBVIOUS
<1>3. k * (x + d) = k * x + k * d
  OBVIOUS
<1> QED
  BY <1>1, <1>2, <1>3

LEMMA AboveRoundUp ==
  ASSUME NEW a \in Nat, NEW f \in Nat, RoundUp(a) <= f
  PROVE  a <= FrameSize * f
<1> DEFINE q == (a + FrameSize - 1) \div FrameSize
           c == (a + FrameSize - 1) % FrameSize
<1>1. FrameSize \in Nat /\ FrameSize > 0
  BY LayoutAssumption
<1>2. q \in Int /\ c \in 0 .. FrameSize - 1 /\ a + FrameSize - 1 = FrameSize * q + c
  BY <1>1
<1>3. q <= f
  BY DEF RoundUp
<1> HIDE DEF q, c
<1>4. FrameSize * q <= FrameSize * f
  BY <1>1, <1>2, <1>3, Scale
<1> QED
  BY <1>1, <1>2, <1>4

LEMMA BelowRoundDown ==
  ASSUME NEW a \in Nat, NEW f \in Nat, f < RoundDown(a)
  PROVE  FrameSize * f + FrameSize <= a
<1> DEFINE q == a \div FrameSize
           c == a % FrameSize
<1>1. FrameSize \in Nat /\ FrameSize > 0
  BY LayoutAssumption
<1>2. q \in Int /\ c \in 0 .. FrameSize - 1 /\ a = FrameSize * q + c
  BY <1>1
<1>3. f + 1 <= q
  BY <1>2 DEF RoundDown
<1> HIDE DEF q, c
<1>4. FrameSize * (f + 1) <= FrameSize * q
  BY <1>1, <1>2, <1>3, Scale
<1>5. FrameSize * (f + 1) = FrameSize * f + FrameSize
  BY <1>1
<1> QED
  BY <1>1, <1>2, <1>4, <1>5

(* The rounding of pmm_init is right for every memory map: a frame handed  *)
(* out lies in memory called available and touches nothing reserved.       *)
THEOREM OwnedFramesSafe == Spec => []SafeFrames
<1>1. IInv => SafeFrames
  <2> SUFFICES ASSUME IInv, NEW f \in Owned, NEW b \in 0 .. FrameSize - 1
               PROVE  LET byte == f * FrameSize + b
                          In(r) == r.start <= byte /\ byte < r.end
                      IN  /\ byte >= FrameSize
                          /\ \E r \in mmap.avail : In(r)
                          /\ \A r \in mmap.reserved : ~In(r)
    BY DEF SafeFrames
  <2> DEFINE byte == f * FrameSize + b
             zero == [start |-> 0, end |-> FrameSize]
  <2>1. FrameSize \in Nat /\ FrameSize > 0
    BY LayoutAssumption
  <2>2. f \in Bits /\ f \in Nat /\ f \notin BootUsed(mmap)
    BY DEF IInv, FramesInv, OwnedOnce, FromPmm, Managed, Bits
  <2>3. /\ \A r \in mmap.avail : r.start \in Nat /\ r.end \in Nat
        /\ \A r \in mmap.reserved : r.start \in Nat /\ r.end \in Nat
    <3>1. mmap \in [avail : SUBSET ByteRange, reserved : SUBSET ByteRange]
      BY LayoutAssumption DEF IInv, TypeOK, TypeOfMap
    <3> QED
      BY <3>1 DEF ByteRange
  <2>4. /\ byte \in Nat /\ FrameSize * f \in Nat
        /\ byte = FrameSize * f + b
        /\ FrameSize * f <= byte /\ byte < FrameSize * f + FrameSize
    BY <2>1, <2>2
  <2> HIDE DEF byte
  <2>5. PICK r \in mmap.avail : f \in MarkedFree(r)
    BY <2>2 DEF BootUsed
  <2>6. r.start <= byte /\ byte < r.end
    <3>1. RoundUp(r.start) <= f /\ f < RoundDown(r.end)
      BY <2>5 DEF MarkedFree
    <3>2. r.start <= FrameSize * f /\ FrameSize * f + FrameSize <= r.end
      BY <2>2, <2>3, <3>1, AboveRoundUp, BelowRoundDown
    <3> QED
      BY <2>3, <2>4, <3>2, <2>1
  <2>7. ASSUME NEW s, s.start \in Nat, s.end \in Nat, f \notin MarkedUsed(s)
        PROVE  ~(s.start <= byte /\ byte < s.end)
    <3> SUFFICES ASSUME s.start < s.end PROVE byte < s.start \/ s.end <= byte
      BY <2>4, <2>7
    <3>1. RoundDown(s.start) \in Int /\ RoundUp(s.end) \in Int
      BY <2>1, <2>7 DEF RoundDown, RoundUp
    <3>2. f < RoundDown(s.start) \/ RoundUp(s.end) <= f
      BY <2>2, <2>7, <3>1 DEF MarkedUsed
    <3>3. FrameSize * f + FrameSize <= s.start \/ s.end <= FrameSize * f
      BY <2>2, <2>7, <3>2, AboveRoundUp, BelowRoundDown
    <3> QED
      BY <2>1, <2>4, <2>7, <3>3
  <2>8. \A s \in mmap.reserved \cup {zero} : f \notin MarkedUsed(s)
    BY <2>2 DEF BootUsed
  <2>9. byte >= FrameSize
    <3>1. zero.start = 0 /\ zero.end = FrameSize
      OBVIOUS
    <3> HIDE DEF zero
    <3>2. ~(0 <= byte /\ byte < FrameSize)
      BY <2>1, <2>7, <2>8, <3>1
    <3> QED
      BY <2>1, <2>4, <3>2
  <2>10. \A s \in mmap.reserved : ~(s.start <= byte /\ byte < s.end)
    BY <2>3, <2>7, <2>8
  <2> QED
    BY <2>6, <2>9, <2>10 DEF byte
<1> QED
  BY <1>1, InductiveInvariant, PTL
=============================================================================
