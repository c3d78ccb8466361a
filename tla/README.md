# ApexOS in TLA+

ApexOS is a small x86-64 kernel in C: one CPU, a 100 Hz timer that may preempt
kernel threads, a shell that polls the keyboard, a heap, a FAT32 volume in a RAM
disk, a loader for ring-3 programs, a text editor, a script interpreter and a
network stack without threads of its own. This directory holds TLA+ modules
translated from that source, the TLC configurations that check them, and the
proofs TLAPS checks.

1 Inventory – 2 Modules – 3 Runs – 4 Proofs – 5 Findings – 6 Seen on the way –
7 Not modelled

## 1. Inventory

| part (under `src/kernel/`) | state | operations | talks to |
|---|---|---|---|
| heap, `mm/kheap.c` | block list, `g_head`, `g_tail`, mapped end, two byte counters | `kmalloc`, `kfree` | `vmm_map`, `pmm_alloc_frame`; called by the shell, the editor, packages, `task_create` |
| threads, `task.c`, `arch/x86_64/{context.S,idt.c,isr_stubs.S,pit.c}` | `g_tasks`, `g_current`, `g_main_ctx`, the preemption flag, RFLAGS.IF, the PIC's in-service bit | `task_create`, `task_yield`, `scheduler_tick`, `scheduler_set_preemption` | the timer interrupt switches stacks under whatever code runs |
| FAT32, `fs/fat32.c` | FAT, directory slots, clusters | write, read, delete, mkdir, rmdir, list, format, mount | the RAM disk; called by the shell, the editor, packages |
| keyboard, `arch/x86_64/keyboard.c` | event ring, three modifier flags | IRQ1 handler, `keyboard_read_key` | the handler and the polling shell share the ring without a lock |
| frames, page tables, `mm/{pmm,vmm}.c` | bitmap and its counter; four levels of tables | alloc/free frame, map/unmap/translate | heap, loader, RAM disk, framebuffer |
| programs, `elf/elf64_loader.c`, `process.c`, `syscall.c` | tracked pages, `g_in_user_program`, the return point | load, unload, run, `SYS_EXIT` | frames, page tables, the scheduler's `process_is_active` |
| network card, `drivers/net/rtl8139.c` | receive ring, its read pointer CAPR, interrupt status register | `rtl8139_poll`, send | polled from inside the calls that wait; its interrupt is entered at the wrong vector |
| network, `net/*.c` | ARP cache and the one pending request, the address, one UDP callback, the DNS result, one TCP connection | resolve, send, receive handlers, DHCP at boot, DNS, connect | handlers send, and sending may resolve and so poll again |
| shell and scripts, `shell/shell.c` | line and history ring, variables, users, current directory, one static table of script lines | commands, `exec_block`, `read_line` | all of the above |
| text editor, `shell/editor.c` | lines, cursor, scroll, modified flag, status | keys, load, save, run | FAT32, loader, heap |
| packages, `apxp/*.c` | none across calls | parse, install, download | FAT32, network |
| serial log, `arch/x86_64/serial.c` | log ring and its 32-bit position | write, read for `dmesg` | everyone writes, also from interrupts |
| console, framebuffer, RTC, PCI, boot, library, tools | screen position, hardware set-up | drawing, formatting | – |

What is hard here, and what makes each part correct:

* **Threads.** Three control flows meet: voluntary yields, switches made inside
  the timer's interrupt, and the shell, which has no slot of its own. Nothing
  disables interrupts in `task_yield`, and `k_longjmp` restores registers but
  not the interrupt flag. *Correct*: no thread's place is ever stored under
  another's name; every ready thread is run again, the shell included, after at
  most one turn of every other; with preemption on, no task can keep the CPU.
* **Heap.** Sequential, but its errors surface many calls after they were made.
  *Correct*: the blocks tile the mapped memory, the list runs through all of
  them in both directions, neighbours are merged, a held pointer is never handed
  out again, moved or shrunk, and the counters tell the truth.
* **FAT32.** Sequential; each call is many writes, and those that can fail (no
  free cluster) fail in the middle. *Correct*: clusters are neither leaked nor
  shared, lookup sees every entry, and a call does to the tree a caller sees
  what `fat32.h` says, or nothing. An overwrite that fails breaks all of this.
* **Keyboard.** An interrupt handler and a reader both write the tail index.
  The timer may suspend the reader, so any number of interrupts may hit one read.
  *Correct*: keys come in order, once, and only a full ring loses any.
* **Frames, page tables, programs.** A load that fails half way, or at the last
  frame; addresses that lie in the boot map; the panics on double map and double
  free. *Correct*: each frame has one owner, the bitmap and the page tables agree,
  a program that exits leaves nothing mapped.
* **Network.** Whatever waits polls, whatever is polled may send, and sending may
  wait: calls nest, over one global slot for the request being waited for.
  Answers come late, twice, in another order or not at all, and have to meet
  state that the next call has already taken over. *Correct*: the card's memory
  is read only where a frame is, an address is entered as its owner's, a late
  answer belongs to nobody, and every call returns.
* **Shell and scripts.** Blocks within blocks, over lines that executing them
  changes, in a table that a nested script replaces. *Correct*: a script does what
  its text says, and comes to its end.
* **Editor.** Every key shifts a table of lines with limits; what the status line
  says has to be true of a file that may not have been written. *Correct*: the
  buffer is the text a user thinks he is editing; "unmodified" means saved.

`PROJECT.json` lists each of these hazards at its line, with the properties about it.

## 2. Modules

| module | models | role |
|---|---|---|
| `KHeap`, `KHeapProofs` | `kheap.c` | heap; theorems about it |
| `Task`, `TaskProofs` | `task.c`, `context.S`, dispatch and return of interrupts | threads, timer, interrupt flag; theorems |
| `MCTask` | – | a history variable that counts switches waited for |
| `FileStore` | what `fat32.h` promises | abstract specification: a tree of directories |
| `Fat32`, `Fat32Proofs` | `fat32.c` | the volume, implements `FileStore`; theorems, the refinement among them |
| `MCFat32` | – | for TLC: contents, symmetry, view |
| `Keyboard`, `KeyboardProofs` | `keyboard.c` | handler and reader over the ring; theorems |
| `Memory`, `MemoryProofs` | `pmm.c`, `vmm.c`, `elf64_loader.c`, `process.c`, the mapping loops of `kheap.c` and `shell.c` | frames, page tables and all that takes them; theorems |
| `MCMemory` | – | for TLC: two memory maps, a layout, programs |
| `Net`, `NetProofs` | `rtl8139_poll`, `net/*.c` | the network stack and the link; theorems |
| `MCNet` | – | for TLC: three hosts, the server's offer, an unasked-for ping, what a turned ring reads as |
| `TextBuffer` | what an editor promises | abstract specification: a text with a cursor |
| `Editor`, `EditorProofs` | `editor.c` | the editor, implements `TextBuffer`; theorems, the refinement among them |
| `MCEditor` | – | for TLC: files |
| `Shell`, `ShellProofs` | `shell.c` | prompt, history, commands, scripts; theorems |
| `MCShell` | – | for TLC: scripts as syntax trees, and what they mean |

Each module names in its comments the function an action stands for;
`PROJECT.json` gives the lines. Operators commented "mutant" are not part of the
specifications: each is a definition with one plausible bug, used to see that the
property named for it in `PROJECT.json` notices.

**KHeap.** The block headers are a function from addresses to records, so the
list is in the state exactly as the code keeps it, `prev`, `next`, `g_head` and
`g_tail` included. One call is one step: no interrupt handler allocates, and the
tasks the kernel creates do not. `KmallocFit` serves a request from the list
(first fit, split), `KmallocGrow` maps pages and splits the new block, the last
two disjuncts of `Kmalloc` are the panics of `expand_heap`, `Kfree` frees and
merges, `KfreeTwice` panics. Growing may cost up to `MaxTables` further frames,
as `vmm_map` may allocate page tables; the code does not bound by which call.
`vmm_map` also panics when a table's frame is missing: with the code's own check
of each page's frame that is one action, `KmallocNoFrames`. `live`, the pointers
callers hold, is not in the code: it is what the properties compare with.

**Task.** The CPU executes the top frame of one thread's stack. A context is
the stack `k_setjmp` saved, together with whose stack it is, so that storing one
thread's place under another's name is a state the model can reach.
`task_yield` is three steps, `Save`, `Pick` and `Jump`, as the timer can
hit between them; its local variables are kept in the frame. `Timer` pushes an
interrupt frame and clears IF; `Handle` sends the EOI and runs `scheduler_tick`;
`Iret` restores IF; `Jump` does not. A tick may hit anywhere, `task_yield` included; `torn` is
history and tells that one has hit inside a voluntary yield. From then on a
place may be saved twice or lost, and a saved stack, here a value, is in the code
memory that whoever runs on it overwrites: what the model does after such a
tick is only part of what the machine may do. Which tasks yield and which ever
return are constants. Only the shell creates tasks (it is the only caller of
`task_create`), and the shell never yields by itself. `process_is_active` is
false throughout: a ring-3 program excludes switches altogether.

**Fat32.** A call is one step: the shell is the only caller, and a device error
panics. The FAT maps clusters to successors; a directory's clusters hold slots.
Sizes count clusters. Failure paths are part of each action: `WriteNew` frees
the partial chain, `WriteOver` has freed the old one before. After a failed
overwrite the entry names freed clusters. No call looks whether one does:
`alloc_cluster` hands them to the next file or directory, and from then on the
volume is `crossed` (history): an entry names a chain that another owns,
deleting it frees the other's clusters, a directory can be freed with its
entries in it and later be extended by a cluster of its own chain, which makes
the chain a cycle. The calls go on being modelled there, from every directory a
caller may still be in (`Callers`), `MaxCrossed` calls far; a call that walks over a
cycle panics and has no step. `FileStore` says what the code makes of its promise:
`Lose` for the file whose overwrite failed, and `Ruin` for a call that needs
room while such a file is there, after which nothing is promised.

**Keyboard.** The handler is one step (interrupts do not nest: gates clear IF);
the reader is one step per access of a volatile variable. An event is the number
of its push, which makes order and duplicates visible. Any number of interrupts
may hit within one `keyboard_read_key`. `overwritten` is history: a push replaced the
event whose index the reader had loaded and which it had not read yet.

**Memory.** `used` is the bitmap as the set of its set bits, `pte` the present
entries of the lowest level, `table` the tables `vmm_map` has added; `Path` says
which of those a walk to a page passes, `Huge` which pages the boot map covers
with 2 MiB entries. `elf64_load`, `loadbin` and `expand_heap` are one loop body,
entered by `Run`, `LoadBin` and `GrowHeap`: `TakeFrame`, `AddTable` for each table
missing, `EnterPage`, with every way each of them fails (`NoFrame`,
`NoFrameForHeap`, `RejectFile`, and the panics). `todo` is what the loop has left,
`frame` the frame between `pmm_alloc_frame` and `vmm_map`. `SysExit` is the jump
out of ring 3 into `elf64_unload`, `UnloadPage` one round of its loop. A file is
the sequence of the pages of its segments, with `Bad` where the loader rejects the
header or a segment. `leaky` is history, for the two leaks the code admits.
`Init` is `pmm_init` over a choice of memory maps, with frames of `FrameSize`
bytes, so that regions may begin and end inside one. What the drivers map at
boot is left out: it never moves afterwards. The layout is a constant, and the
two runs differ in it: `MCMemory` takes what `version.md` says of release 1.1, user
addresses outside the boot map, so that programs do run and end; `MCMemoryCode`
takes the code's own, where the stack lies inside. The theorems hold for both.

**Net.** Everything runs on the shell's thread, and what runs is a stack of calls
in progress, since each wait polls and each poll may send. `stack` is that stack:
`ip_send` (`send`), the wait of `arp_resolve` (`wait`), of `net_dns_resolve`
(`answer`), the loop of `net_tcp_connect` (`spin`), the polls of `net_init`
(`boot`), and `rtl8139_poll` before and after it has read the interrupt status
(`poll`, then `take` or `none`). `ArpResolve` is `arp_resolve` with what `ip_send` does
with its answer; `Take` takes one frame and runs the handler of its kind to where
it sends or returns; `BadStatus` skips one place instead, where no frame is found; `HttpGet` is the rest of `net_http_get` as far as it gets.
`Arrive` is the card: it puts a frame into its ring and sets ROK, between any two
steps. The ring is a function from places to frames. The code reads at the raw CAPR, which is 16 bytes
before the place to read, in a buffer it takes for 64 KiB: so CAPR starts `Lag`
places before the ring, `Space` places make up 64 KiB, and the first four notices
find zeros, a bad status, and move CAPR by 4 bytes each; they yield no frame, and as
a poll takes one frame and clears the notice of all, that backlog never shrinks.
The ring the card uses has 8 KiB (`RingSize` frames). When a frame does not fit before its end,
the card goes on at its start and the code does not: from there (`turned`) a poll
finds a bad status or any frame of `Garbage`. The link is `wire`, the set of the frames that may arrive: what has once been provoked
may arrive any number of times, in any order, or never. `Answers` is what hosts
say to a packet, the one part that models code outside this repository. `Tick`
lets a deadline pass; deadlines are set in the order of the calls, so the
outermost is due first. A MAC is the name of its host. All queries have one number, so `HandleDns` takes any answer. `conn`, `peer` and
`crossed` are history: which call of `net_http_get` connected last, which one was answered,
and whether a request was sent while an outer call waited for another.

**Editor.** A row is what the code reads as a C string; each key is an action, with
the scrolling that `render` does after it. `Load` and `Saved` are the two folds over
the file's bytes and the lines, with their limits. `F2` and `CtrlR` write the file,
which may fail and then, as in `Fat32`, loses a file that existed. `TextBuffer`
knows no lines: it is a text, a position and a file, and a key inserts, deletes
before or behind the cursor, or moves. The refinement maps the table of lines to
the text with newlines between them. `forgotten` is history: Ctrl+R has cleared
`modified` although its save failed.

**Shell.** A line is the sequence of its words; `read_line` and the history ring
are `Type`, `RubOut`, `KeyUp`, `KeyDown`, `Enter`. `Effect` is what each command does to
`world`: volume, directory, variables, users, and what is printed. `exec_block`
is a stack of activations over the one `table` of lines, one action per kind of
line and per round of a loop; `RunScript` overwrites the table under the outer
activation, as `cmd_sh` does, and `CutLine` is what tokenizing in place leaves of a
line. `MCShell` has the scripts as syntax trees, `Text` turns one into lines, and
`Means` says what it means without reference to lines or activations.

## 3. Runs

| run | bounds | question | distinct states |
|---|---|---|---|
| `MCKHeap` | 3 pages of 20 units, header 4, sizes 0, 1, 7, 18 | heap properties over all call sequences | 409,093 |
| `MCTask` | 3 tasks: one yields and ends, one ends, one computes for ever; five frames on a stack; ticks anywhere | every thread keeps its place, waits a bounded number of turns, and is run again, until a tick inside a yield | 20,871 |
| `MCTaskRace` | 2 tasks that yield; ticks anywhere | finding 1 | – |
| `MCFat32` | 4 clusters, 2 slots each, 2 names, files of 0–2 clusters, 2 calls on a crossed volume | soundness of the volume and refinement of `FileStore` | 11,863 |
| `MCKeyboard` | ring of 4 (3 events), 9 events, any number of them within a read | order and loss | 8,292 |
| `MCMemory` | 16 frames of 2 bytes, 2 memory maps, 6 files, stack of 2 pages, 3 tracked pages | ownership of frames, loading and unloading | 34,609 |
| `MCMemoryCode` | same, with the code's addresses | finding 2 | – |
| `MCNet` | 3 hosts, 2 calls, 5 arriving frames, ring of 4, 1 place before it, 6 places in all, cache of 2, 2 tries, one segment of buffer | stale memory, wrong addresses, late answers, and that calls return | 790,633 |
| `MCEditor` | 3 lines of up to 2 characters, 2 on the screen, save buffer of 9, one save | the text, the flag, reading back, refinement of `TextBuffer` | 134,567 |
| `MCEditorRun` | same, the file a program | finding 3 | – |
| `MCShell` | 5 scripts and one too long, 12 lines, 3 of them entered, history of 2 | history, meaning and end of scripts | 58,975 |
| `MCShellLoops` | the demonstration script | finding 4 | – |

*What the properties are.* `TypeOK` in each. **Heap**: `BlockList` (the list is
threaded through a tiling of the heap), `Coalesced`, `LiveIsUsed`, `NoOverlap`,
`Accounting`, and `OthersUntouched`, no call changes a block that somebody else
holds. **Threads**: `OwnContexts`, `ShellInterruptible`, `BoundedWaiting`, and under
fairness `ReadyRuns`, `ShellComesBack`. **Volume**: `VolumeSound`, five parts about
chains, sizes, the end mark, names and dots; `ImplementsFileStore`. **Keyboard**:
`InOrder`, `NothingLostUnlessFull`. **Memory**: `OwnedOnce`, `NothingLost`,
`CounterExact`, `SafeFrames`, `NothingStays`, `UnloadNeverPanics`. **Network**:
`NeverReadsStale`, `CacheTruthful`, `OwnConnection`, `AddressStable`, and under
fairness `CallsReturn`. **Editor**: `UnmodifiedIsSaved`, `SavedIsReadBack`,
`ImplementsTextBuffer`. **Shell**: `HistoryShows`, `ScriptsAsWritten`, and under
fairness `ScriptsEnd`.

*Why these bounds are enough.* Heap: one unit is 8 bytes, so header, alignment
and the split threshold have their true ratios; only the page is smaller. The
sizes give an allocation that leaves less than a splittable remainder, one that
leaves more, and one that needs two pages; three pages let a block be freed with
none, either or both of its neighbours free, at the list's ends and in its
middle, and both the limit and the frames run out. Threads: two tasks exhibit
every pair of switch kinds; the third shows waiting behind a finished one.
`MaxFrames` bounds the depth of interrupts nested on one stack: a switch made
inside the handler leaves a stack with one interrupt frame and one `task_yield`
on it, so five frames are a limit only behind a tick inside a yield. Volume:
with two slots per cluster, `.` and `..` fill a subdirectory's first cluster, so every
file in it needs directory extension; four clusters can be used up
by each kind of call, and the root's directory grows to a second cluster and
keeps it. A volume is crossed within a few calls of being full, and the
calls on it that `MaxCrossed` admits include the deletion that frees another's chain;
no property but `TypeOK` speaks of them. Keyboard: nine events go round a ring of four more than twice.
Memory: the maps leave 9 and 10 frames, a program with its tables takes 5 or 6, the
heap and `loadbin` up to 8 more, so frames run out at each page and each table
of each loop; `Window` puts the last free frames out of reach of `phys_to_ptr`;
three tracked pages are enough for the small program and too few for the large.
Network: a second call is what a late answer to the first can hurt; five frames
are one whose notice the place before the ring uses up, an offer, the answers to ARP, query and SYN, or in their place
repetitions and a ping that makes a poll resolve an address inside another resolution;
a cache of two is full with three hosts; four frames fill the ring and the fifth turns it. Editor: three lines are a first, a middle and a last one, of which one
is off the screen; the file to open has more lines and longer ones than fit, and
a full text does not fit the save buffer. Shell: the scripts have each kind of
block in each other, in first, middle and last place, with tests that fail and hold, loops
of one and two items, a script in a script, blocks that are never closed, one
variable too many; three lines go round a history of two.

*Symmetry and view.* The names in `MCFat32` are interchangeable: no operation
compares them but for equality. `VIEW InUse` identifies states that differ only in what free
clusters hold, as long as the volume is not crossed; every cluster is written when it is allocated, before anything
reads it, and no property of the run reads a free one. Of a crossed volume the
view keeps every block; that the run meets only some of those is of no consequence, as only `TypeOK` speaks of
them, which is proved. Neither is used with a
liveness property.

*Deadlock* is checked in the task run. It is off for the heap, the memory and the
volume, where a panic stops the machine, and where the model stops following
its environment: crossed volumes at `MaxCrossed`, the typist at `MaxTyped`, `MaxSaves` and `MaxEntered`, the
network at `MaxFrames` and `MaxCalls`.

*Restrictions that matter.* They are in the constants and in the premises of
properties, and each says where the code stops being right:

* `torn`: a tick inside a voluntary `task_yield` is finding 1; after it `OwnContexts` and
  all that follows may fail, so the properties of `MCTask` but for `TypeOK` hold until
  then. The run shows that this window is the only thing wrong with the rotation.
  Until then preemption is on and there is a task whenever a task runs, so every
  such tick is one that switches: the premise leaves out no harmless one.
* `overwritten`: with the ring full and two interrupts between the reader's loads
  of index and event, the second push lands on the very place, the newest event is
  returned first, and `InOrder` fails without this premise. Interrupts anywhere else in the
  read, in any number, leave the order alone.
* `crossed` in `Fat32`: once a call is handed a cluster that a lost file's entry names,
  chains have two owners and neither `VolumeSound` nor the tree is promised.
* `turned`: behind the turn of the card's ring the code reads halves of frames, and an
  address, a MAC or a segment may be anything; `AddressStable`, `CallsReturn` and `TypeOK` have no such premise.
* `CacheTruthful` says nothing of the MACs once a request was `crossed` by one sent from
  inside its wait: then the outer call takes the inner one's answer.
* `UnmodifiedIsSaved` excepts files that a failed save has lost, and those that
  were missing and are, although Ctrl+R has `forgotten` it. What "saved" means is
  `Saved(lines)`, which may be cut at the I/O buffer: `SavedIsReadBack` says for every
  text how much of it opens again.
* `ScriptsAsWritten` is about scripts that execute no line of several words twice,
  test and iterate over no variables, and run no other script. `ScriptsEnd` has no
  such premise, but no script in the run executes itself.

*Fairness.* `Task`: `WF(Kernel)`, the CPU goes on executing kernel code, none of
which waits; `WF(Timer)`, the PIT goes on raising IRQ0, delivered whenever IF is set
and the EOI was sent; `WF(CallYield)`, a task that yields does so again, as the
demo tasks of `shell.c` wait in loops of `task_yield`; a task not in `Yielding` is
never assumed to. Nothing is assumed of `Compute`, `Finish` or the shell: a task
may compute for ever, the user may do nothing. `Net`: `WF(Cpu)`, the loops that poll
go on; `WF(Tick)`, a deadline that stands is reached, since `pit_get_ticks` grows. Nothing is
assumed of the link: it may deliver nothing at all. `Shell`: `WF(Exec)`, a
script's interpreter goes on; nobody need type.

## 4. Proofs

Each theorem holds for every value of the constants that satisfies the named
assumption of its module; a further hypothesis is part of the theorem.

| module | for every | theorems (`Spec => []P`, or the action property) |
|---|---|---|
| `KHeapProofs` | header size, alignment, split threshold, page size, limit, set of sizes, number of frames | `TypeCorrect`, `ListCorrect` (`BlockList`), `CoalescedAlways`, `HeldMeansUsed` (`LiveIsUsed`), `AllocationsDisjoint` (`NoOverlap`), `AccountingAlways`, `HeldBlocksUntouched` (`OthersUntouched`) |
| `MemoryProofs` | frame size, memory map, page-table layout, stack, set of files, limit | `TypeCorrect`, `FramesOwnedOnce`, `NoFrameLost`, `CounterAlwaysExact`, `ProgramsLeaveNothing` (`NothingStays`), `UnloadSafe`, `OwnedFramesSafe` (`SafeFrames`) |
| `TaskProofs` | number of slots, sets of yielding and finishing tasks, depth of stacks; ticks anywhere, all but `TypeCorrect` until `torn` | `TypeCorrect`, `ContextsKept` (`OwnContexts`), `ShellStaysInterruptible`, `RoundRobin` (`BoundedWaiting`) |
| `KeyboardProofs` | ring size, number of keys and of interrupts per read | `TypeCorrect`, `NoKeyLost` (`NothingLostUnlessFull`), `KeysInOrder` (`InOrder`) |
| `NetProofs` | hosts, names, offers, background frames, what a turned ring reads as, cache, ring and the places before it, buffer, retries, number of frames; `OwnConnectionOnly` for at most 625 calls (`FewCalls`) | `TypeCorrect`, `RingNeverStale`, `CacheIsTruthful`, `AddressKept` (`AddressStable`), `OwnConnectionOnly` (`OwnConnection`) |
| `Fat32Proofs` | number of clusters, slots per cluster, names, contents, size, calls on crossed volumes | `TypeCorrect`, `VolumeStaysSound` (`VolumeSound`), `StoresATree` (`ImplementsFileStore`) |
| `EditorProofs` | number and length of lines, window, files, letters | `TypeCorrect`, `UnmodifiedMeansSaved` (`UnmodifiedIsSaved`), `SavedTextReadsBack` (`SavedIsReadBack`), `EditsLikeAText` (`ImplementsTextBuffer`) |
| `ShellProofs` | sets of words and lines, assignments, volume that is a tree at first, limits on lines, history, variables, users, path, script | `TypeCorrect`, `HistoryIsKept` (`HistoryShows`) |

All but `KeyboardProofs` also state the strengthened invariant itself, `InductiveInvariant`.

*Heap.* No property is inductive alone: merging keeps the tiling only if
`next` is the block that begins where this one ends; the links are right only if
the blocks tile; a pointer's block survives a neighbour's merge only if it is
used, which is `LiveIsUsed`; the counters stay exact only if a merge removes
exactly one block. `IInv` joins `TypeOK`, `ListOK` (tiling, links and tail, said
of any list), the place of the head, `Coalesced`, `LiveIsUsed` and `Accounting`.
Three lemmas say what the list operations do to any `ListOK` list: `SplitOK`,
`AppendOK`, `AbsorbOK`. `TakeOK` puts splitting and marking together, `FitTakes`
and `GrowTakes` show that both ways through `kmalloc` are a `Take` from a list,
`KfreeList` follows the two merges of `kfree`, and `NextInv` joins the actions.
`NoOverlap` follows from the invariant (`LiveIsUsed`, tiling), and
`OthersUntouched` from the invariant and the shape of each action.

*Memory.* That a new frame has no other owner follows only if the bitmap
marks every owner's frame (`NothingLost`); that freeing one does not take it from
another owner, only from `OwnedOnce`; that 0 may mean "no frame", from frame 0
being reserved. `NothingStays` needs that a page is tracked once and was not
mapped before, and, while unloading, that the pages still to do are distinct:
`LoopsInv` and `TrackedInv` say so of `todo` and `tracked`. `IInv` joins these with
`FromPmm` (owners have frames below `g_total_frames`), from which
`pmm_free_frame` cannot panic. `SafeFrames` follows from `OwnedOnce`, `FromPmm` and
two lemmas about rounding up and down to frames of any size. The one assumption is
`LayoutAssumption`: user and kernel addresses do not meet.

*Threads.* `OwnContexts` speaks of contexts; one jump later a context is the stack
the CPU is on. So `IInv` says what every stack looks like (`StackOf`: the thread's own code at
the bottom, interrupts above it, a call of `task_yield` only on top, and the
shell's only directly above an interrupt), that every thread away from the CPU
has such a stack as its own (`HasContext`), and what `task_yield`'s locals are
worth at each of its steps. The shell stays interruptible because its saved
stack always ends in an `Iret`. All of this is `Untorn` and holds until `torn`; the types (`Places`) hold
for good, so `IInv` is `Places` and, unless `torn`, `Untorn`. That `Pick` finds somebody is arithmetic: the candidates of one
round are all the slots, the caller's own and the shell's among them.

*Round robin.* `BoundedWaiting` bounds a count of switches, and no bound on
that count alone is preserved: a thread next in the rotation may have waited
long, one just behind may not. `Waits` bounds the sum of what a thread has
waited and the places `Pick` still has to go to reach it (`Ahead`); a switch
moves one of the sum to the other. Between the choice and the jump `current`
and `owner` differ, so the bound is one lower there (`Patience`). A task that is
created takes the shell's place at the end of the round and leaves every
distance as it was.

*Keyboard.* Positions are distances behind the tail (`Around`), which takes `%` out
of the proofs. `KeepsAll`, for any number of interrupts, says what is in the ring while the
reader is at each of its steps, as long as the ring was not overrun. The order needs
another invariant, since it is kept in an overrun ring too: `InRing` says that a place holds the
latest push that fell on it, so that what lies from any place up to the head are the latest
pushes, one after the other. Then each index the reader has in hand has only to lie behind the
event returned last (`Ordered`), which a push can break only by replacing what the index names.

*Network.* Everything rests on what may be called from where. `Shape` says so of the
stack: the queries and SYNs of `net_http_get` are at its bottom and nowhere else,
what the receive path sends lies above a poll, a poll that has read the status
register is on top. With it `FrameInv` (until the ring turns it holds the frames from CAPR, or from
its start while CAPR is before it, to the card's place, and a status bit or a decision to take means that
there is one; after that nothing is said of it), `ConfigInv` (once booted, the address is chosen and the callback is no longer
DHCP's when anything polls), `ArpInv` (what woke a wait answers the request sent last, and
unless they crossed that is every waiting call's), `CacheInv` and `TcpInv` are
preserved by every action. `OwnInv`, for whose a connection is, counts the connects:
the n-th has port `Port(n)`, every segment in flight has the port of its own
connect (`Belongs`), and among 625 connects no two have one port; while a call is on its
way to its SYN's answer, only a SYN's acknowledgement can match.

*Volume.* `VolumeSound` is not inductive: that a head is a directory's or a file's, that slots and data do
not mix and that a chain ends are not in it. `IInv` is `TypeOK` and, unless `Crossed`, a description of the volume, for any
FAT `f`, blocks `b`, directories `D` and heads of chains `H`: `Vol(f, b, D, H)`. The
chains of the heads are linear, share no cluster and hold all that are not free;
a directory's clusters hold slots, a file's hold data; an entry owns what it names,
and every head but the root is owned by one entry. `Chain` is a recursive
function; `Walked` is the one induction about it. Every call comes down to one
step, `Rewired`: one slot of one directory is rewritten, the head it named goes,
the head it names now comes. `RewiredVol` shows that such a step keeps `Vol`, and
the lemmas `...Keeps` bring each call into that form. A subdirectory that is
removed is empty up to its end mark, which is enough only because nothing live
is behind it; `mkdir`, which grows the parent before it fills the new directory,
needs both steps of the FAT at once (`NewDirIs`).

That the volume implements `FileStore` needs, beyond `IInv`, what the tree is
before and after a call. `Shows(f, b, d, t)` says that `t` is the map of directory `d`: its names are
those of the live slots, and each has what its entry stands for (`NodeIn`).
`TreeIs` and `TreeFrom` lead from `Tree` to it and back. Entries
elsewhere go on standing for what they did, as their chains and the
blocks on them are untouched (`NodesStay`). So `Rewired`, which carries the
invariant, also says what happens to the tree (`RewiredTree`): one name of one
directory is bound anew, added or taken out. Per call that is one operation of
`FileStore` or nothing (`Served`). Only an overwrite that fails is `Lose`: its old chain
is free by then. If the file was empty, there was no chain, and nothing changes.
Whether a call crosses chains is decided by the entries it leaves alone (`Spares`): if it
spares them, the lemmas above hold of it (`OthersSpared`); if not, it is `Ruin`, and some
entry that dangled before is the lost file `Ruin` asks for. On a crossed volume `TypeOK` is all there is to
show, and the tree is gone for good.

*Editor.* `TypeOK` is inductive once lines are known to hold no newline and no
zero byte (`TextLine`), which loading and the keys guarantee for different
reasons. The loader, the writer and the text that `TextBuffer` sees are folds. What a fold
computes is proved by induction on the number of its steps, and that from the
least counterexample (`NatMin`, `UpTo`): the induction theorems of the library
cannot be used, but the well-foundedness they rest on can. So the folds of each
operator have their own lemmas (`LoadFold`, `SaveFold`, `FlattenFold`).
`SavedTextReadsBack` is then an induction over the lines, with loading one
line's characters as its step (`LoadLine`); a save that is cut has written what
saving the lines that fit would have (`WrittenAsFits`), and at the limit of lines the last step differs. For the refinement, `At(ls, r, c, A, a, b, B)`
cuts the rows at the cursor: rows `A` above, `a` and `b` left and right of the cursor
in its row, rows `B` below. `Shows` says what the text before and behind the
cursor is; each key changes one of the four parts, or moves a newline between
them, and `TextInsert`, `TextBackspace`, `TextDelete` and `TextMove` say which step of
`TextBuffer` that is.

*Shell.* `IInv` has three parts with little to do with each other. `HistInv`: no
bound on the ring says that it shows the lines entered last, so `HistoryShows`
is part of the invariant itself. `Back` is the ring's `%` written as a case, `Forward` how
the places of all older lines shift when one is added, and `SaidAppend` that the fold
behind `Said` grows by one line. `IsWorld`: what a command changes, as parts
that do not depend on each other (`Standing`, `Shown`, `Values`, `Known`), so that each
command needs one lemma about the part it touches. `rmdir` keeps the volume a
tree because it looks for children; `rm`, `cp` and `mv` because a file has none; and
the shell never stands in what is removed, as only entries of its own directory are.
The path shown is a prefix of the directory because it stops growing for good
once `MaxDepth` is reached. `ScriptInv`: an activation of `exec_block` keeps line numbers of a
table that a script it runs may replace. They stay inside the table because
reading a script never shortens it, and `LoopOver` because a loop's `done` lies
behind its `for`, which `TypeOK` alone does not say.

*Only model-checked.* Liveness (`ReadyRuns`, `ShellComesBack`, `CallsReturn`,
`ScriptsEnd`): fairness and `ENABLED` are outside what the prover handles.
`ScriptsAsWritten` cannot be proved, since what a
syntax tree means is a `RECURSIVE` operator, with which the prover has no arithmetic.

## 5. Findings

1. **A tick inside `task_yield` loses a thread** (`MCTaskRace`). Between
   `g_current = …` (task.c:98, 102) and the jump, the timer saves the running
   stack under the other thread's name.
2. **No program can be loaded** (`MCMemoryCode`). The user stack at 0x7FC000, and
   programs linked to 0x400000, lie inside the boot map's huge pages, where
   `vmm_map` panics. `version.md` says the loader's addresses were moved.
3. **Ctrl+R destroys the program it is to run** (`MCEditorRun`). It saves first,
   as text with C strings, and looks afterwards whether the file is an ELF64;
   `editor.h` says it does so only if the file already is one.
4. **A `for` executes only the first word of each line from its second item on**
   (`MCShellLoops`). `tokenize` cuts the script's own line in place; the shell's
   help and the demonstration script that `main.c` writes show loops of whole commands.

## 6. Seen on the way

Behaviour of the code that no run is about: the models have it and their
properties are stated around it, or it lies below what they abstract. For a
reader who wants to change the code:

* *Threads, heap, volume, keyboard.* A task resumed through a voluntary yield of one that was entered from
  an interrupt may run with IF clear until its next `Iret` (`k_longjmp` keeps the
  flag), so its time slice is not limited; the shell's own is, as it is only
  suspended in interrupts. `kheap.h:13` announces NULL, the code panics when
  memory runs out. A failed overwrite leaves an entry whose clusters are free
  (fat32.c:313). The next file or directory gets them, and deleting either then frees the other's (fat32.c:402);
  a directory freed in this way and entered still can be extended by a cluster of its own chain, and every
  later lookup of a missing name in it panics on the cycle (fat32.c:201). A key may be lost at a full ring that is not the oldest, when
  the handler moves the tail under the reader (keyboard.c:52, 149); two interrupts between the loads of
  index and event of one read may return the newest key first (keyboard.c:148). `main.c:84` adds in 32 bits;
  the temporary mapping of `main.c:231` has the base of `RTL_RXBUF_VIRT`.
* *Card.* IRQ 11 arrives at vector 43, the handler is entered at 51
  (rtl8139.c:160), so frames are taken only by polls; a poll takes one frame and
  clears the notice of all, so frames lag behind. CAPR is used without the 16 bytes it is short of
  (rtl8139.c:191), so the first four notices yield no frame. RCR is set to 0x0F, a ring of 8 KiB
  without the overrun area (rtl8139.c:147), while the code goes round 64 KiB: after the first 8 KiB it reads halves of
  frames or memory nobody writes.
* *Resolution.* A ping answered inside `arp_resolve` may resolve another address
  and overwrite the pending one: the outer call takes the inner one's MAC
  (net.c:156). Pings nest without bound on a 64 KiB stack. A full cache takes no new entry.
* *Protocols.* `net_tcp_connect` does not poll while it waits (tcp.c:63), so no
  download gets past it, although version.md:18 and 23 list one. TCP sequence numbers are not
  compared, and `len - hdr_len` is unsigned. Ports repeat after 625 connects (tcp.c:37). Every DNS
  query from one buffer has the same number (dns.c:75), so a late answer is taken for the next name's. `icmp_handle` answers only
  requests whose checksum field is 0 (icmp.c:10), the IP header's is byte-swapped (ip.c:77),
  those of TCP and UDP lack the final complement. Deadlines are 32-bit sums (dns.c:117,
  http.c:57). Gateway and netmask are stored and not used; what cannot be resolved is
  broadcast. `apxp.c:73` has 64 KiB on the stack.
* *Editor.* Each load and save adds an empty line, and at the limit of lines the
  last one is lost on opening. A text that the save buffer cuts is reported as
  "saved". Ctrl+R clears the flag after a failed save (editor.c:345). Esc leaves without asking.
* *Shell.* `cd ..` is never found, since the name is refused before it is looked up
  (fat32.c:515). `mv A A` deletes A. Tests and items of `for` are not expanded. The
  path shown stops growing at its limit. A script run by a script replaces the outer one's
  lines (shell.c:1521), one that runs itself uses up heap or stack. Commands that
  read a file into `FILE_BUF_SIZE` go on with its real size.

## 7. Not modelled

* Drawing, formatting, string routines, host tools, demonstration programs, the
  RTC and PCI: no state that another part's correctness rests on. The boot
  sequence runs once, in a straight line; what it leaves is each module's `Init`.
* The RAM disk is a range check and a copy: `Fat32` takes it as storage that neither
  fails nor loses a write. Nothing survives a restart.
* The serial log is a ring with one writer that forgets its oldest bytes.
* `fat32_format`'s arithmetic and mounting; 8.3 names; file sizes within a cluster.
* Access rights in page tables, segments and privilege levels; `SYS_READ` and
  `SYS_WRITE`, which are calls of the console and the keyboard in one step.
* Behind `net_tcp_connect`: sending, closing, parsing HTTP and packages. No run of
  the code reaches them over the network. Checksums and lengths of packets: the
  handlers do not look at them, except ICMP's, which `Net` has. The card's set-up and its transmit slots.
* The shell's commands that only print or measure (`wc`, `head`, `tail`, `grep`, `find`,
  `hexdump`, `date`, …). Those that start something else (`run`, `loadbin`, `dlw`,
  `sched`, `nano`) are in that part's module.
* Exceptions in kernel mode, which halt the machine.
