------------------------------- MODULE Fat32 --------------------------------
(***************************************************************************)
(* The FAT32 driver, kernel/fs/fat32.c, on a freshly formatted volume: the *)
(* FAT and the clusters, and the calls that change them.  Only the shell's *)
(* thread calls the driver and a device error panics, so each call is one  *)
(* step; fat_set writes both copies of the FAT, so one stands for both.    *)
(*                                                                         *)
(* A cluster holds a block: the slots of a directory, or a file's data as  *)
(* slots of kind "data".  Sizes count clusters, files fill theirs, and     *)
(* what is in a file reads as no entry of a name in Names.                 *)
(*                                                                         *)
(* crossed is not in the code: it tells that a call has taken a cluster    *)
(* that the entry of another file still names.  That may happen after an   *)
(* overwrite has failed, and then clusters have two owners, directories    *)
(* can be freed with their entries in them, and a chain can become a       *)
(* cycle.  The calls are modelled on such volumes too.  A walk over a      *)
(* cycle panics, unless it finds what it looks for: the call has no step.  *)
(***************************************************************************)
EXTENDS Integers, Sequences, FiniteSets, SequencesExt, FiniteSetsExt

CONSTANTS
  Total,       \* g_total_clusters
  PerCluster,  \* directory entries in a cluster
  Names,       \* 8.3 names callers use
  Contents,    \* what they write: sequences of one item per cluster
  MaxCrossed   \* bound of the model: the calls followed on a crossed volume

ASSUME VolumeAssumption ==
  /\ Total \in Nat \ {0}
  /\ PerCluster \in Nat /\ PerCluster >= 2   \* room for "." and ".."
  /\ \A c \in Contents : c \in Seq(ToSet(c) \ Names)
  /\ MaxCrossed \in Nat

Clusters == 2..Total+1
Root == 2          \* g_root_cluster
Free == 0          \* a FAT value: the cluster is free
EOC == -1          \* a FAT value: the end of a chain

Slot(kind, name, first, size) ==
  [kind |-> kind, name |-> name, first |-> first, size |-> size]
End == Slot("end", "", 0, 0)           \* name[0] = 0x00
Deleted == Slot("deleted", "", 0, 0)   \* name[0] = 0xE5
Data(item) == [i \in 1..PerCluster |-> Slot("data", item, 0, 0)]
Ends(n) == [i \in 1..n |-> End]

VARIABLES
  fat,         \* the FAT
  disk,        \* the blocks in the clusters
  crossed      \* 0, or 1 and the calls since a cluster was taken that an
               \* entry still names

vars == <<fat, disk, crossed>>

-----------------------------------------------------------------------------
(* The chain that starts at c in a FAT f: what every loop over fat_get     *)
(* walks, free_chain included, which comes to a stop on a cycle as it has  *)
(* freed the cluster it started with.                                      *)
Follow(f) == [c \in Clusters \cup {Free, EOC} |-> IF c \in Clusters THEN f[c] ELSE EOC]
Chain(f, c) ==
  LET at[i \in 1..Total+1] == IF i = 1 THEN c ELSE Follow(f)[at[i-1]]
      len == Cardinality({i \in 1..Total+1 : at[i] \in Clusters})
  IN  [i \in 1..len |-> at[i]]
Cyclic(f, c) == Len(Chain(f, c)) > Total

FreeClusters(f) == {c \in Clusters : f[c] = Free}

(* free_chain.                                                             *)
FreeChain(f, start) ==
  LET cs == ToSet(Chain(f, start))
  IN  [c \in Clusters |-> IF c \in cs THEN Free ELSE f[c]]

(* alloc_cluster takes the free cluster with the lowest number.  k calls   *)
(* in a row hand out the k lowest, fewer when the volume runs full.        *)
Nth(cs, i) == CHOOSE c \in cs : Cardinality({e \in cs : e < c}) = i - 1
Alloc(f, k) ==
  [i \in 1..Min({k, Cardinality(FreeClusters(f))}) |-> Nth(FreeClusters(f), i)]

(* The slots of the directory that starts at d, and the first of some      *)
(* positions in it, 0 if there is none.                                    *)
Row(p) == ((p - 1) \div PerCluster) + 1
Col(p) == ((p - 1) % PerCluster) + 1
Flat(blocks, cs) == [p \in 1..PerCluster * Len(cs) |-> blocks[cs[Row(p)]][Col(p)]]
SlotsIn(f, blocks, d) == Flat(blocks, Chain(f, d))
Slots(d) == SlotsIn(fat, disk, d)
FirstSlot(hits) == IF hits = {} THEN 0 ELSE Min(hits)

(* find_entry_location stops at the first 0x00; Absent is its answer 0.    *)
Active(slot) == slot.kind \in {"file", "dir"}
Find(d, n) ==
  LET s == Slots(d)
      p == FirstSlot({q \in DOMAIN s : \/ s[q].kind = "end"
                                       \/ Active(s[q]) /\ s[q].name = n})
  IN  IF p # 0 /\ s[p].kind # "end" THEN p ELSE 0
Absent(d, n) ==
  Find(d, n) = 0 /\ (Cyclic(fat, d) => \E s \in ToSet(Slots(d)) : s.kind = "end")
Entry(d, n) == Slots(d)[Find(d, n)]
HasFile(d, n) == Find(d, n) # 0 /\ Entry(d, n).kind = "file"
HasDir(d, n) == Find(d, n) # 0 /\ Entry(d, n).kind = "dir"

(* Rewrite slot p of d's slots.                                            *)
SetSlot(f, blocks, d, p, s) ==
  [blocks EXCEPT ![Chain(f, d)[Row(p)]][Col(p)] = s]
Erase(d, n) == SetSlot(fat, disk, d, Find(d, n), Deleted)

(* create_entry, given a FAT f and blocks in which clusters have been      *)
(* allocated and written already: the first slot that is 0x00 or 0xE5, or  *)
(* one more cluster for the directory, or nothing when the volume is full. *)
FreeSlot(f, blocks, d) ==
  LET s == SlotsIn(f, blocks, d)
  IN  FirstSlot({p \in DOMAIN s : s[p].kind \in {"end", "deleted"}})
CanCreate(f, blocks, d) == FreeSlot(f, blocks, d) # 0 \/ FreeClusters(f) # {}
CreateEntry(f, blocks, d, s) ==
  IF FreeSlot(f, blocks, d) # 0
    THEN /\ fat' = f
         /\ disk' = SetSlot(f, blocks, d, FreeSlot(f, blocks, d), s)
    ELSE LET c == Min(FreeClusters(f))
         IN  /\ fat' = [[f EXCEPT ![c] = EOC] EXCEPT ![Last(Chain(f, d))] = c]
             /\ disk' = [blocks EXCEPT ![c] = <<s>> \o Ends(PerCluster - 1)]

(* The allocation loop of fat32_write_file: one cluster per item, linked   *)
(* as they come.                                                           *)
Linked(f, cs) ==
  [c \in Clusters |->
     IF c \notin ToSet(cs) THEN f[c]
     ELSE IF c = Last(cs) THEN EOC
     ELSE cs[CHOOSE i \in DOMAIN cs : i > 1 /\ cs[i - 1] = c]]
Written(blocks, cs, content) ==
  [c \in Clusters |->
     IF c \in ToSet(cs) THEN Data(content[CHOOSE i \in DOMAIN cs : cs[i] = c])
     ELSE blocks[c]]
FirstOrEnd(cs) == IF cs = <<>> THEN EOC ELSE cs[1]   \* mutant
First(cs) == IF cs = <<>> THEN 0 ELSE cs[1]

(* dir_is_empty: nothing but "." and "..".                                 *)
FirstClusterEmpty(d) ==   \* mutant
  \A p \in DOMAIN disk[d] : ~Active(disk[d][p])
IsEmpty(d) ==
  LET s == Slots(d)
      p == FirstSlot({q \in DOMAIN s : s[q].kind \in {"end", "data"} \/ Active(s[q])})
  IN  IF p = 0 THEN ~Cyclic(fat, d) ELSE s[p].kind = "end"

-----------------------------------------------------------------------------
Allocated == {c \in Clusters : fat[c] # Free}
EntriesIn(cs) == UNION {{s \in ToSet(disk[c]) : Active(s)} : c \in cs}
Entries == EntriesIn(Allocated)

(* An entry that names a chain that was freed, and what a call does to the *)
(* entries it leaves alone when it allocates the cluster they name.        *)
Dangles(s) == s.first # 0 /\ s.first \notin Allocated
Crossed == crossed > 0
Crosses(left) ==
  crossed' = IF Crossed \/ \E s \in left : Dangles(s) /\ s.first \in Allocated'
               THEN crossed + 1 ELSE 0

-----------------------------------------------------------------------------
(* fat32_format.                                                           *)
Init ==
  /\ fat = [c \in Clusters |-> IF c = Root THEN EOC ELSE Free]
  /\ disk = [c \in Clusters |-> Ends(PerCluster)]
  /\ crossed = 0

(* fat32_write_file(d, n, content) of a name that is new in d.  When the   *)
(* volume runs full the partial chain is freed; what was written stays in  *)
(* the free clusters.                                                      *)
WriteNew(d, n, content) ==
  LET cs == Alloc(fat, Len(content))
      f == Linked(fat, cs)
      blocks == Written(disk, cs, content)
  IN  /\ Absent(d, n)
      /\ IF Len(cs) = Len(content) /\ CanCreate(f, blocks, d)
           THEN CreateEntry(f, blocks, d, Slot("file", n, First(cs), Len(content)))
           ELSE /\ disk' = blocks
                /\ UNCHANGED fat
      /\ Crosses(Entries)

(* The same of a file that exists: its chain is freed before the new one   *)
(* is allocated, and first cluster and size are rewritten at the end, at   *)
(* the place where the entry was found.  When the volume runs full the     *)
(* entry still names the chain that was freed.                             *)
Refer(blocks, d, n, first, size) ==
  [blocks EXCEPT ![Chain(fat, d)[Row(Find(d, n))]][Col(Find(d, n))] =
     Slot(@.kind, @.name, first, size)]
WriteOver(d, n, content) ==
  /\ HasFile(d, n)
  /\ LET f1 == FreeChain(fat, Entry(d, n).first)
         cs == Alloc(f1, Len(content))
         blocks == Written(disk, cs, content)
     IN  IF Len(cs) = Len(content)
           THEN /\ fat' = Linked(f1, cs)
                /\ disk' = Refer(blocks, d, n, First(cs), Len(content))
           ELSE /\ fat' = f1
                /\ disk' = blocks
  /\ Crosses(Entries \ {Entry(d, n)})

(* fat32_delete_file.                                                      *)
DeleteFile(d, n) ==
  /\ HasFile(d, n)
  /\ fat' = FreeChain(fat, Entry(d, n).first)
  /\ disk' = Erase(d, n)
  /\ Crosses({})

(* fat32_mkdir: a cluster with "." and "..", then the entry.               *)
ParentRef(d) == IF d = Root THEN 0 ELSE d
NewDir(c, d) ==
  <<Slot("dot", ".", c, 0), Slot("dot", "..", ParentRef(d), 0)>> \o Ends(PerCluster - 2)
MkDirLeaks(d, n) ==   \* mutant: no free_chain when create_entry fails
  /\ Absent(d, n)
  /\ FreeClusters(fat) # {}
  /\ LET c == Min(FreeClusters(fat))
         f == [fat EXCEPT ![c] = EOC]
         blocks == [disk EXCEPT ![c] = NewDir(c, d)]
     IN  IF CanCreate(f, blocks, d)
           THEN CreateEntry(f, blocks, d, Slot("dir", n, c, 0))
           ELSE disk' = blocks /\ fat' = f
  /\ Crosses(Entries)
MkDir(d, n) ==
  /\ Absent(d, n)
  /\ FreeClusters(fat) # {}
  /\ LET c == Min(FreeClusters(fat))
         f == [fat EXCEPT ![c] = EOC]
         blocks == [disk EXCEPT ![c] = NewDir(c, d)]
     IN  IF CanCreate(f, blocks, d)
           THEN CreateEntry(f, blocks, d, Slot("dir", n, c, 0))
           ELSE disk' = blocks /\ UNCHANGED fat
  /\ Crosses(Entries)

(* fat32_rmdir.                                                            *)
RmDir(d, n) ==
  /\ HasDir(d, n)
  /\ IsEmpty(Entry(d, n).first)
  /\ fat' = FreeChain(fat, Entry(d, n).first)
  /\ disk' = Erase(d, n)
  /\ Crosses({})

-----------------------------------------------------------------------------
(* The directories a caller can be in: those that entries name, and on a   *)
(* crossed volume entries in a freed directory too.                        *)
DirsIn(entries) == {Root} \cup {s.first : s \in {e \in entries : e.kind = "dir"}}
Dirs == DirsIn(Entries)
Callers == IF Crossed THEN DirsIn(EntriesIn(Clusters)) ELSE Dirs

Next ==
  /\ crossed <= MaxCrossed
  /\ \E d \in Callers, n \in Names :
       \/ \E content \in Contents : WriteNew(d, n, content) \/ WriteOver(d, n, content)
       \/ DeleteFile(d, n)
       \/ MkDir(d, n)
       \/ RmDir(d, n)

Spec == Init /\ [][Next]_vars
-----------------------------------------------------------------------------
SlotType == [kind : {"end", "deleted", "file", "dir", "dot", "data"},
             name : Names \cup {"", ".", ".."} \cup UNION {ToSet(c) : c \in Contents},
             first : Clusters \cup {0}, size : Nat]
TypeOK ==
  /\ fat \in [Clusters -> Clusters \cup {Free, EOC}]
  /\ disk \in [Clusters -> [1..PerCluster -> SlotType]]
  /\ crossed \in 0..MaxCrossed+1

(* Every allocated cluster is in the chain of the root or of exactly one   *)
(* entry: nothing is leaked, no two entries share a cluster, no chain runs *)
(* into another or into itself.  An entry left by a failed overwrite names *)
(* a cluster that no other names.                                          *)
Chained(c) == ToSet(Chain(fat, c))
ChainsPartition ==
  LET naming == {s \in Entries : s.first # 0}
      heads == {Root} \cup {s.first : s \in {e \in naming : ~Dangles(e)}}
  IN  /\ UNION {Chained(c) : c \in heads} = Allocated
      /\ \A c, e \in heads : c # e => Chained(c) \cap Chained(e) = {}
      /\ \A s, t \in naming : s.first # Root /\ (s # t => s.first # t.first)
      /\ \A d \in Dirs : \A s \in ToSet(Slots(d)) : s.kind # "data"

(* find_entry_location and list_dir stop at the first 0x00: no entry of a  *)
(* directory lies behind one, in its cluster or in a later one.            *)
NothingBehindEnd ==
  \A d \in Dirs :
    LET s == Slots(d)
    IN  \A p, q \in DOMAIN s : p < q /\ s[p].kind = "end" => ~Active(s[q])

(* A name occurs once in a directory.                                      *)
NamesUnique ==
  \A d \in Dirs :
    LET s == Slots(d)
    IN  \A p, q \in DOMAIN s :
          p # q /\ Active(s[p]) /\ Active(s[q]) => s[p].name # s[q].name

(* A file's chain has the clusters its size needs.                         *)
SizesFit ==
  \A s \in Entries :
    s.kind = "file" /\ ~Dangles(s) => Len(Chain(fat, s.first)) = s.size

(* The ".." of a directory names the directory its entry is in, with 0     *)
(* for the root, and "." names itself.                                     *)
DotsRight ==
  \A d \in Dirs : \A s \in ToSet(Slots(d)) :
    s.kind = "dir" =>
      /\ disk[s.first][1] = Slot("dot", ".", s.first, 0)
      /\ disk[s.first][2] = Slot("dot", "..", IF d = Root THEN 0 ELSE d, 0)

(* All of them, whatever calls succeed and fail, until one is handed a     *)
(* cluster that the entry of a failed overwrite still names.               *)
VolumeSound ==
  ~Crossed => ChainsPartition /\ SizesFit /\ NothingBehindEnd /\ NamesUnique /\ DotsRight

(* The tree a caller sees: fat32_read_file along the chain, fat32_list_dir *)
(* along the slots.                                                        *)
Read(s) == [i \in 1..s.size |-> disk[Chain(fat, s.first)[i]][1].name]
Node(s) ==
  CASE s.kind = "dir" -> <<"dir", s.first>>
    [] s.kind = "file" /\ Dangles(s) -> <<"lost">>
    [] s.kind = "file" /\ ~Dangles(s) -> <<"file", Read(s)>>
Listed(d) ==
  LET s == Slots(d)
  IN  {s[p] : p \in {p \in DOMAIN s : /\ Active(s[p])
                                      /\ \A q \in 1..p-1 : s[q].kind # "end"}}
Tree ==
  [d \in Dirs |->
     [n \in {s.name : s \in Listed(d)} |->
        Node(CHOOSE s \in Listed(d) : s.name = n)]]

(* Of a crossed volume nothing is promised.                                *)
Seen == IF Crossed THEN [d \in {} |-> d] ELSE Tree
Store == INSTANCE FileStore WITH tree <- Seen, DirIds <- Clusters
ImplementsFileStore == Store!Spec
=============================================================================
