------------------------------- MODULE Memory -------------------------------
(***************************************************************************)
(* Who owns which page frame: the bitmap of kernel/mm/pmm.c, the page      *)
(* tables of kernel/mm/vmm.c, and everything that maps pages once the      *)
(* machine is up: the ELF loader with process_run and SYS_EXIT, the        *)
(* shell's loadbin, and the heap when it grows.                            *)
(*                                                                         *)
(* All of them run in the shell's thread and no interrupt handler maps or  *)
(* unmaps anything.  The loops are cut into steps, one per frame taken,    *)
(* page table added, page entered or page removed.                         *)
(***************************************************************************)
EXTENDS Integers, Sequences, FiniteSets

CONSTANTS
  FrameSize,   \* PMM_FRAME_SIZE = VMM_PAGE_SIZE
  BitmapBits,  \* PMM_BITMAP_BITS
  Maps,        \* the machines: [avail, reserved], sets of byte ranges
  Window,      \* frames below it lie in the static map (phys_to_ptr)
  Page,        \* virtual pages
  Table,       \* page tables that boot.S does not build
  Path,        \* page |-> the Tables a walk to it goes through, top first
  Huge,        \* pages inside the 2 MiB pages of boot.S
  Bad,         \* a header or segment that elf64_load rejects
  Files,       \* ELF files: the pages of their segments in order, or Bad
  Stack,       \* the pages of the user stack in order
  BinPages,    \* the pages from BINARY_LOAD_VIRT_BASE on
  HeapPages,   \* the pages from HEAP_VIRT_START up to HEAP_MAX_BYTES
  MaxRequest,  \* most pages one loadbin or one expand_heap asks for
  MaxTracked   \* MAX_TRACKED_PAGES

Bits == 0 .. BitmapBits - 1
ByteRange == [start : Nat, end : Nat]
Members(s) == {s[i] : i \in DOMAIN s}
UserPages == ((UNION {Members(file) : file \in Files}) \ {Bad}) \cup Members(Stack)
KernelPages == Members(BinPages) \cup Members(HeapPages)

(* Programs are linked to addresses that the kernel does not use.          *)
ASSUME LayoutAssumption ==
  /\ FrameSize \in Nat \ {0}
  /\ BitmapBits \in Nat
  /\ Maps \subseteq [avail : SUBSET ByteRange, reserved : SUBSET ByteRange]
  /\ Window \in Nat
  /\ Path \in [Page -> Seq(Table)]
  /\ Huge \subseteq Page
  /\ Bad \notin Page
  /\ Files \subseteq Seq(Page \cup {Bad})
  /\ Stack \in Seq(Page)
  /\ BinPages \in Seq(Page)
  /\ HeapPages \in Seq(Page)
  /\ UserPages \cap KernelPages = {}
  /\ MaxRequest \in Nat
  /\ MaxTracked \in Nat

VARIABLES
  mmap,        \* the machine's memory map
  used,        \* the set bits of g_bitmap
  freeFrames,  \* g_free_frames
  table,       \* the page tables added: Table |-> its frame
  pte,         \* present entries of the lowest level: page |-> frame
  tracked,     \* g_tracked_pages up to g_tracked_count
  binNext,     \* g_binary_load_next, as pages of BinPages mapped for good
  heapEnd,     \* g_heap_mapped_end, as pages of HeapPages
  doing,       \* what the shell's thread is in
  todo,        \* the pages its loop has still to handle
  goal,        \* binNext or heapEnd once the loop ends
  frame,       \* the frame in hand between pmm_alloc_frame and vmm_map, or 0
  leaky,       \* history: a load failed half way or a page went untracked
  panicked     \* "no", or which panic() stopped the machine

frameVars == <<used, freeFrames>>
vars == <<mmap, used, freeFrames, table, pte, tracked, binNext, heapEnd,
          doing, todo, goal, frame, leaky, panicked>>

-----------------------------------------------------------------------------
(* mark_range_free rounds inward, mark_range_used outward.                 *)
RoundUp(byte) == (byte + FrameSize - 1) \div FrameSize
RoundDown(byte) == byte \div FrameSize
MarkedFree(r) == {f \in Bits : RoundUp(r.start) <= f /\ f < RoundDown(r.end)}
MarkedUsedTight(r) ==  \* mutant
  {f \in Bits : r.start < r.end /\ RoundDown(r.start) <= f /\ f < RoundDown(r.end)}
MarkedUsed(r) ==
  {f \in Bits : r.start < r.end /\ RoundDown(r.start) <= f /\ f < RoundUp(r.end)}

(* pmm_init: everything is used but the available regions, and of those    *)
(* again the first frame, the kernel, the boot information and the module. *)
BootUsed(m) ==
  (Bits \ UNION {MarkedFree(r) : r \in m.avail})
    \cup UNION {MarkedUsed(r) :
                  r \in m.reserved \cup {[start |-> 0, end |-> FrameSize]}}

(* The frames below g_total_frames.                                        *)
Managed(m) == {f \in Bits : \E r \in m.avail : f < RoundDown(r.end)}

-----------------------------------------------------------------------------
(* pmm_alloc_frame: the lowest clear bit.                                  *)
Free == Managed(mmap) \ used
IsLowest(f) == f \in Free /\ \A g \in Free : f <= g
AllocKeepsBit(f) ==  \* mutant
  /\ IsLowest(f)
  /\ used' = used
  /\ freeFrames' = freeFrames - 1
Alloc(f) ==
  /\ IsLowest(f)
  /\ used' = used \cup {f}
  /\ freeFrames' = freeFrames - 1

(* pmm_free_frame, when it does not panic.                                 *)
FreePanics(f) == f \notin Managed(mmap) \/ f \notin used
FreeFrameUncounted(f) ==  \* mutant
  /\ used' = used \ {f}
  /\ freeFrames' = freeFrames
FreeFrame(f) ==
  /\ used' = used \ {f}
  /\ freeFrames' = freeFrames + 1

Panic(what) ==
  /\ panicked' = what
  /\ UNCHANGED <<mmap, table, pte, tracked, binNext, heapEnd, doing, todo,
                 goal, frame, leaky>>

Init ==
  /\ mmap \in Maps
  /\ used = BootUsed(mmap)
  /\ freeFrames = BitmapBits - Cardinality(used)
  /\ table = << >>
  /\ pte = << >>
  /\ tracked = << >>
  /\ binNext = 0
  /\ heapEnd = 0
  /\ doing = "idle"
  /\ todo = << >>
  /\ goal = 0
  /\ frame = 0
  /\ leaky = FALSE
  /\ panicked = "no"

-----------------------------------------------------------------------------
(* The three loops that map pages begin.                                   *)
Begin(what, pages) ==
  /\ panicked = "no"
  /\ doing = "idle"
  /\ doing' = what
  /\ todo' = pages
  /\ UNCHANGED <<mmap, used, freeFrames, table, pte, binNext, heapEnd, frame,
                 leaky, panicked>>

(* cmd_run and editor_try_run call elf64_load, which forgets the pages     *)
(* tracked before.                                                         *)
Run ==
  \E file \in Files :
    /\ Begin("load", file \o Stack)
    /\ tracked' = << >>
    /\ goal' = goal

(* cmd_loadbin; BinPages bounds the addresses the model has for it.        *)
LoadBin ==
  \E n \in 1 .. MaxRequest :
    /\ binNext + n <= Len(BinPages)
    /\ Begin("bin", SubSeq(BinPages, binNext + 1, binNext + n))
    /\ goal' = binNext + n
    /\ tracked' = tracked

(* expand_heap, below its limit and above.                                 *)
GrowHeap ==
  \E n \in 1 .. MaxRequest :
    /\ heapEnd + n <= Len(HeapPages)
    /\ Begin("heap", SubSeq(HeapPages, heapEnd + 1, heapEnd + n))
    /\ goal' = heapEnd + n
    /\ tracked' = tracked

HeapLimit ==
  /\ panicked = "no"
  /\ doing = "idle"
  /\ heapEnd + MaxRequest > Len(HeapPages)
  /\ Panic("heap limit")
  /\ UNCHANGED frameVars

-----------------------------------------------------------------------------
(* The body of the loops: pmm_alloc_frame, then vmm_map.                   *)
Mapping == panicked = "no" /\ doing \in {"load", "bin", "heap"} /\ todo # << >>
WantsFrame == Mapping /\ frame = 0 /\ Head(todo) # Bad

TakeFrame ==
  /\ WantsFrame
  /\ \E f \in Free : Alloc(f) /\ frame' = f
  /\ UNCHANGED <<mmap, table, pte, tracked, binNext, heapEnd, doing, todo,
                 goal, leaky, panicked>>

(* Without a frame elf64_load returns -1 and loadbin gives up, with the    *)
(* pages mapped so far left as they are; expand_heap panics.               *)
GiveUp ==
  /\ doing' = "idle"
  /\ todo' = << >>
  /\ leaky' = (leaky \/ (doing = "load" /\ tracked # << >>))
  /\ UNCHANGED <<mmap, used, freeFrames, table, pte, tracked, binNext, heapEnd,
                 goal, frame, panicked>>

NoFrame ==
  /\ WantsFrame
  /\ doing # "heap"
  /\ Free = {}
  /\ GiveUp

NoFrameForHeap ==
  /\ WantsFrame
  /\ doing = "heap"
  /\ Free = {}
  /\ Panic("no frame for the heap")
  /\ UNCHANGED frameVars

(* elf64_load returns -1 at a header or segment it rejects.                *)
RejectFile ==
  /\ Mapping
  /\ Head(todo) = Bad
  /\ GiveUp

(* step_create, from the top of the walk down to the page's table.         *)
Walking == Mapping /\ frame # 0
Missing(p) == {i \in DOMAIN Path[p] : Path[p][i] \notin DOMAIN table}
Walked(p) == p \notin Huge /\ Missing(p) = {}

AddTable ==
  /\ Walking
  /\ Head(todo) \notin Huge
  /\ \E i \in Missing(Head(todo)), f \in Free :
       /\ \A j \in Missing(Head(todo)) : i <= j
       /\ f < Window
       /\ Alloc(f)
       /\ table' = [t \in DOMAIN table \cup {Path[Head(todo)][i]} |->
                      IF t \in DOMAIN table THEN table[t] ELSE f]
  /\ UNCHANGED <<mmap, pte, tracked, binNext, heapEnd, doing, todo, goal,
                 frame, leaky, panicked>>

TableOutOfReach ==
  /\ Walking
  /\ Head(todo) \notin Huge
  /\ Missing(Head(todo)) # {}
  /\ \E f \in Free : f >= Window /\ Alloc(f)
  /\ Panic("outside the static map")

NoFrameForTable ==
  /\ Walking
  /\ Head(todo) \notin Huge
  /\ Missing(Head(todo)) # {}
  /\ Free = {}
  /\ Panic("no frame for a table")
  /\ UNCHANGED frameVars

HugePage ==
  /\ Walking
  /\ Head(todo) \in Huge
  /\ Panic("huge page")
  /\ UNCHANGED frameVars

AlreadyMapped ==
  /\ Walking
  /\ Walked(Head(todo))
  /\ Head(todo) \in DOMAIN pte
  /\ Panic("already mapped")
  /\ UNCHANGED frameVars

(* track_page.                                                             *)
TrackUnbounded(p) == Append(tracked, p)  \* mutant
TrackSegmentsOnly(p) ==  \* mutant
  IF p \in Members(Stack) THEN tracked ELSE Append(tracked, p)
Track(p) == IF Len(tracked) < MaxTracked THEN Append(tracked, p) ELSE tracked

EnterPage ==
  /\ Walking
  /\ Walked(Head(todo))
  /\ Head(todo) \notin DOMAIN pte
  /\ pte' = [p \in DOMAIN pte \cup {Head(todo)} |->
               IF p \in DOMAIN pte THEN pte[p] ELSE frame]
  /\ tracked' = IF doing = "load" THEN Track(Head(todo)) ELSE tracked
  /\ leaky' = (leaky \/ (doing = "load" /\ Len(tracked) >= MaxTracked))
  /\ frame' = 0
  /\ todo' = Tail(todo)
  /\ UNCHANGED <<mmap, used, freeFrames, table, binNext, heapEnd, doing, goal,
                 panicked>>

-----------------------------------------------------------------------------
(* The loops end: process_run enters the program, g_binary_load_next and   *)
(* g_heap_mapped_end advance.                                              *)
Finish(what, next) ==
  /\ panicked = "no"
  /\ doing = what
  /\ todo = << >>
  /\ doing' = next
  /\ UNCHANGED <<mmap, used, freeFrames, table, pte, todo, goal, frame, leaky,
                 panicked>>

EnterProgram == Finish("load", "run") /\ UNCHANGED <<tracked, binNext, heapEnd>>
BinLoaded == /\ Finish("bin", "idle")
             /\ binNext' = goal
             /\ UNCHANGED <<tracked, heapEnd>>
HeapGrown == /\ Finish("heap", "idle")
             /\ heapEnd' = goal
             /\ UNCHANGED <<tracked, binNext>>

(* The program ends by SYS_EXIT, which brings process_run back and into    *)
(* elf64_unload, or by an exception, on which isr_handler panics.          *)
SysExit ==
  /\ panicked = "no"
  /\ doing = "run"
  /\ doing' = "unload"
  /\ todo' = tracked
  /\ UNCHANGED <<mmap, used, freeFrames, table, pte, tracked, binNext, heapEnd,
                 goal, frame, leaky, panicked>>

Exception ==
  /\ panicked = "no"
  /\ doing = "run"
  /\ Panic("exception")
  /\ UNCHANGED frameVars

(* One page of elf64_unload: vmm_get_phys, vmm_unmap, pmm_free_frame.      *)
(* vmm_get_phys translates the pages of the boot map too, which vmm_unmap  *)
(* refuses.                                                                *)
Translated(p) == p \in Huge \/ p \in DOMAIN pte
Removed(p) == [q \in DOMAIN pte \ {p} |-> pte[q]]
UnmapKeepsFrame(p) ==  \* mutant
  /\ pte' = Removed(p)
  /\ UNCHANGED <<used, freeFrames, panicked>>
Unmap(p) ==
  IF ~Translated(p)
    THEN UNCHANGED <<pte, used, freeFrames, panicked>>
  ELSE IF p \in Huge
    THEN panicked' = "unmap of a huge page" /\ UNCHANGED <<pte, used, freeFrames>>
  ELSE /\ pte' = Removed(p)
       /\ IF FreePanics(pte[p])
            THEN panicked' = "double free" /\ UNCHANGED frameVars
            ELSE panicked' = panicked /\ FreeFrame(pte[p])

UnloadPage ==
  /\ panicked = "no"
  /\ doing = "unload"
  /\ todo # << >>
  /\ Unmap(Head(todo))
  /\ todo' = Tail(todo)
  /\ UNCHANGED <<mmap, table, tracked, binNext, heapEnd, doing, goal, frame,
                 leaky>>

Unloaded ==
  /\ Finish("unload", "idle")
  /\ tracked' = << >>
  /\ UNCHANGED <<binNext, heapEnd>>

Next ==
  \/ Run \/ LoadBin \/ GrowHeap \/ HeapLimit
  \/ TakeFrame \/ NoFrame \/ NoFrameForHeap \/ RejectFile
  \/ AddTable \/ TableOutOfReach \/ NoFrameForTable \/ HugePage
  \/ AlreadyMapped \/ EnterPage
  \/ EnterProgram \/ BinLoaded \/ HeapGrown
  \/ SysExit \/ Exception \/ UnloadPage \/ Unloaded

Spec == Init /\ [][Next]_vars

-----------------------------------------------------------------------------
TypeOfMap == mmap \in Maps
TypeOfFrames == used \subseteq Bits /\ freeFrames \in Int /\ frame \in Bits \cup {0}
TypeOfTables ==
  /\ DOMAIN table \subseteq Table /\ \A t \in DOMAIN table : table[t] \in Bits
  /\ DOMAIN pte \subseteq Page /\ \A p \in DOMAIN pte : pte[p] \in Bits
TypeOfLoops ==
  /\ tracked \in Seq(Page) /\ Len(tracked) <= MaxTracked
  /\ binNext \in 0 .. Len(BinPages)
  /\ heapEnd \in 0 .. Len(HeapPages)
  /\ doing \in {"idle", "load", "bin", "heap", "run", "unload"}
  /\ todo \in Seq(Page \cup {Bad})
  /\ goal \in Nat
  /\ leaky \in BOOLEAN
  /\ panicked \in {"no", "heap limit", "no frame for the heap",
                   "outside the static map", "no frame for a table",
                   "huge page", "already mapped", "exception", "double free",
                   "unmap of a huge page"}

(* The variables have their types: g_free_frames never goes below zero     *)
(* unseen, g_tracked_pages is never written behind its end.                *)
TypeOK == TypeOfMap /\ TypeOfFrames /\ TypeOfTables /\ TypeOfLoops

TableFrames == {table[t] : t \in DOMAIN table}
PageFrames == {pte[p] : p \in DOMAIN pte}
InHand == IF frame = 0 THEN {} ELSE {frame}
Owned == TableFrames \cup PageFrames \cup InHand

(* No frame has two owners: it backs one page, or is one page table, or is *)
(* in the hand of one loop, and it is none of those taken at boot.  The    *)
(* bitmap, vmm_map and elf64_unload together promise it.                   *)
OwnedOnce ==
  /\ \A p, q \in DOMAIN pte : pte[p] = pte[q] => p = q
  /\ \A t, u \in DOMAIN table : table[t] = table[u] => t = u
  /\ TableFrames \cap PageFrames = {}
  /\ InHand \cap (TableFrames \cup PageFrames) = {}
  /\ Owned \cap BootUsed(mmap) = {}

(* While the machine runs the bitmap has a bit set for the frames in use,  *)
(* and for no other: none leaks out of every table.                        *)
NothingLost == panicked = "no" => used = BootUsed(mmap) \cup Owned

(* g_free_frames, which the shell reports, counts the clear bits.          *)
CounterExact == freeFrames = Cardinality(Bits \ used)

(* What pmm_init's rounding is for: no byte of a frame that was handed out *)
(* lies outside the memory the boot loader called available, or in the     *)
(* kernel, the boot information, the module or the first frame.            *)
SafeFrames ==
  \A f \in Owned, b \in 0 .. FrameSize - 1 :
    LET byte == f * FrameSize + b
        In(r) == r.start <= byte /\ byte < r.end
    IN  /\ byte >= FrameSize
        /\ \E r \in mmap.avail : In(r)
        /\ \A r \in mmap.reserved : ~In(r)

(* elf64_unload gives back what elf64_load took: unless a load failed half *)
(* way or went over MAX_TRACKED_PAGES, the user pages mapped are those tracked    *)
(* for the program loading, running or just ended, and none is left when   *)
(* the shell is back.                                                      *)
UserMapped == DOMAIN pte \ KernelPages
Tracked ==
  IF doing \in {"load", "run"} THEN Members(tracked)
  ELSE IF doing = "unload" THEN Members(todo)
  ELSE {}
NothingStays == ~leaky => UserMapped = Tracked

(* The panics of vmm_unmap and pmm_free_frame are for errors of the        *)
(* kernel, and elf64_unload makes none: every page it unmaps is one that   *)
(* can be, and every frame it returns is in range and in use.              *)
UnloadNeverPanics == panicked \notin {"double free", "unmap of a huge page"}

(* include/elf64.h:62: whatever is in the file, elf64_load does not panic. *)
LoadNeverPanics ==
  doing = "load" => panicked \notin {"huge page", "already mapped"}

=============================================================================
