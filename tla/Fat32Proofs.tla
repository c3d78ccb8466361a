----------------------------- MODULE Fat32Proofs ----------------------------
(***************************************************************************)
(* Proofs about the FAT32 driver, for a volume of any size.  Until a call  *)
(* takes a cluster that the entry of a failed overwrite still names, no    *)
(* call damages the clusters or the directories; always, the volume is to  *)
(* the callers the tree of FileStore, which says when it may be ruined.    *)
(*                                                                         *)
(* The invariant IInv has two parts: the types, which hold on a crossed    *)
(* volume too, and, as long as the volume is not crossed, Whole, which is  *)
(* Vol of the volume's own state.  Vol(f, b, D, H) says that the FAT f and *)
(* the blocks b hold the directories D and, besides them, the files that   *)
(* start at H \ D.  Its parts:                                             *)
(*                                                                         *)
(*   Chains  the chains of the heads H are chains, share no cluster and    *)
(*           hold every cluster that is not free;                          *)
(*   Blocks  the clusters of a directory hold PerCluster slots, those of a *)
(*           file hold data;                                               *)
(*   Tied    an entry owns what it names (Owns): a directory whose dots    *)
(*           are right, a chain as long as its size says, or, after a      *)
(*           failed overwrite, one free cluster that only it names.  Every *)
(*           head but the root has exactly one such entry;                 *)
(*                                                                         *)
(* and the slots of a directory are in order, no name twice.  VolumeSound  *)
(* is too weak to be kept by the calls: it says nothing of what is in the  *)
(* blocks of a file.                                                       *)
(*                                                                         *)
(* What a FAT says of chains comes from the recursive function in Chain.   *)
(* Walked is the one induction about it, by least counterexample; all else *)
(* argues about sequences of clusters.  Every call comes down to a step    *)
(* Rewired: one slot of one directory is rewritten, the head it named goes *)
(* and the head it names now comes.  RewiredVol proves that such a step    *)
(* keeps Vol.  The calls prepare it (Prepared) with free_chain and         *)
(* alloc_cluster, and end it in the slot's place (InPlace) or in one more  *)
(* cluster of the directory (InNewCluster).                                *)
(*                                                                         *)
(* The same step carries the refinement.  Shows(f, b, d, t) says without a *)
(* CHOOSE that t is the map of directory d: the names of its live slots,   *)
(* each with what its entry stands for (NodeIn).  TreeIs and TreeFrom tie  *)
(* it to Tree, NodesStay proves that the other entries stand for what they *)
(* did, since their chains and the blocks on them are untouched, and       *)
(* RewiredTree concludes what a step Rewired does to the tree: Replanted.  *)
(* Per call that is one operation of FileStore, or nothing (Served).  Of a *)
(* call that crosses chains nothing is proved but that an entry of another *)
(* file dangled before it, which FileStore sees as a lost file (LostIsSeen,*)
(* Ruined): its Ruin allows that step.                                     *)
(***************************************************************************)
EXTENDS Fat32, SequenceTheorems, FiniteSetTheorems, WellFoundedInduction, TLAPS

FatType == [Clusters -> Clusters \cup {Free, EOC}]
DiskType == [Clusters -> Seq(SlotType)]

(* s is the chain of clusters that starts at h.                            *)
IsChain(f, h, s) ==
  /\ s \in Seq(Clusters) /\ s # <<>> /\ s[1] = h
  /\ \A i \in 1..Len(s) - 1 : f[s[i]] = s[i + 1]
  /\ f[s[Len(s)]] = EOC
  /\ \A i, j \in 1..Len(s) : s[i] = s[j] => i = j
On(f, h) == ToSet(Chain(f, h))

(* The chains of the heads H share no cluster and hold all that are taken. *)
Chains(f, H) ==
  /\ H \subseteq Clusters
  /\ \A h \in H : IsChain(f, h, Chain(f, h))
  /\ \A h, k \in H : On(f, h) \cap On(f, k) # {} => h = k
  /\ \A c \in Clusters : f[c] # Free => \E h \in H : c \in On(f, h)

(* What a cluster of a directory holds, and one of a file.                 *)
DirBlock(b) == Len(b) = PerCluster /\ \A i \in 1..Len(b) : b[i].kind # "data"
FileBlock(b) == Len(b) = PerCluster /\ \A i \in 1..Len(b) : b[i].kind = "data"
Blocks(f, b, D, H) ==
  /\ \A h \in D : \A c \in On(f, h) : DirBlock(b[c])
  /\ \A h \in H \ D : \A c \in On(f, h) : FileBlock(b[c])

(* The slots of a directory that are entries.                              *)
Live(S) == {p \in DOMAIN S : Active(S[p])}

(* An entry owns what it names.                                            *)
Owns(f, b, D, H, d, s) ==
  /\ s.kind = "dir" =>
       /\ s.first \in D \ {Root}
       /\ SlotsIn(f, b, s.first)[1] = Slot("dot", ".", s.first, 0)
       /\ SlotsIn(f, b, s.first)[2] = Slot("dot", "..", ParentRef(d), 0)
  /\ s.kind = "file" =>
       /\ s.first \in (H \ D) \cup {0} \cup FreeClusters(f)
       /\ s.first \notin FreeClusters(f) => Len(Chain(f, s.first)) = s.size

(* Every head but the root is owned, and no two entries name a cluster.    *)
Tied(f, b, D, H) ==
  /\ \A d \in D : \A p \in Live(SlotsIn(f, b, d)) : Owns(f, b, D, H, d, SlotsIn(f, b, d)[p])
  /\ \A h \in H \ {Root} :
       \E d \in D : \E p \in Live(SlotsIn(f, b, d)) : SlotsIn(f, b, d)[p].first = h
  /\ \A d, e \in D : \A p \in Live(SlotsIn(f, b, d)), q \in Live(SlotsIn(f, b, e)) :
       LET x == SlotsIn(f, b, d)[p].first
           y == SlotsIn(f, b, e)[q].first
       IN  x = y /\ x # 0 => d = e /\ p = q

NoneBehindEnd(S) == \A p, q \in DOMAIN S : p < q /\ S[p].kind = "end" => ~Active(S[q])
OneOfAName(S) ==
  \A p, q \in DOMAIN S : p # q /\ Active(S[p]) /\ Active(S[q]) => S[p].name # S[q].name

Vol(f, b, D, H) ==
  /\ f \in FatType /\ b \in DiskType
  /\ Root \in D /\ D \subseteq H
  /\ Chains(f, H) /\ Blocks(f, b, D, H) /\ Tied(f, b, D, H)
  /\ \A d \in D : NoneBehindEnd(SlotsIn(f, b, d)) /\ OneOfAName(SlotsIn(f, b, d))
Heads == {Root} \cup {s.first : s \in {e \in Entries : e.first \in Allocated}}
Whole == Vol(fat, disk, Dirs, Heads)
IInv == TypeOK /\ (~Crossed => Whole)

-----------------------------------------------------------------------------
(* The least element of a set of naturals.                                 *)
LEMMA NatMin ==
  ASSUME NEW T \in SUBSET Nat, T # {}
  PROVE  \E m \in T : \A k \in T : m <= k
<1>1. PICK m \in T : \A k \in T : ~(<<k, m>> \in OpToRel(<, Nat))
  BY WFMin, NatLessThanWellFounded, Zenon
<1>2. \A k \in T : ~(k < m)
  BY <1>1, Zenon DEF OpToRel
<1> QED BY <1>2

LEMMA MinIs ==
  ASSUME NEW T \in SUBSET Nat, T # {}
  PROVE  Min(T) \in T /\ \A k \in T : Min(T) <= k
<1>1. \E m \in T : \A k \in T : m <= k
  BY NatMin
<1> QED BY <1>1 DEF Min

(* No chain is longer than the volume.                                     *)
LEMMA ChainFits ==
  ASSUME NEW s \in Seq(Clusters), \A i, j \in 1..Len(s) : s[i] = s[j] => i = j
  PROVE  Len(s) \in 0..Total
<1>1. Len(s) \in Nat /\ s \in [1..Len(s) -> Clusters]
  OBVIOUS
<1>2. s \in Injection(1..Len(s), Clusters)
  BY <1>1 DEF Injection, IsInjective
<1>3. IsFiniteSet(Clusters) /\ Cardinality(Clusters) = Total
  BY VolumeAssumption, FS_Interval DEF Clusters
<1>4. Cardinality(1..Len(s)) <= Total
  BY <1>2, <1>3, FS_Injection
<1>5. Cardinality(1..Len(s)) = Len(s)
  BY <1>1, FS_Interval
<1> QED BY <1>1, <1>4, <1>5, VolumeAssumption

(* What the walk along a FAT from h visits, when s are the clusters on it. *)
LEMMA Walked ==
  ASSUME NEW f \in FatType, NEW h, NEW s \in Seq(Clusters), Len(s) <= Total,
         NEW e, s = <<>> => h = e, s # <<>> => s[1] = h,
         \A i \in 1..Len(s) - 1 : f[s[i]] = s[i + 1],
         s # <<>> => f[s[Len(s)]] = e, e \in {EOC, Free}
  PROVE  Chain(f, h) = s
<1> DEFINE A == CHOOSE at : at = [i \in 1..Total+1 |-> IF i = 1 THEN h ELSE Follow(f)[at[i-1]]]
<1>1. Chain(f, h) = [i \in 1..Cardinality({i \in 1..Total+1 : A[i] \in Clusters}) |-> A[i]]
  BY DEF Chain
<1> DEFINE n == Len(s)
           G == [i \in 1..Total+1 |-> IF i <= n THEN s[i] ELSE IF i = n + 1 THEN e ELSE EOC]
<1>2. /\ n \in Nat /\ Total \in Nat /\ \A i \in 1..n : s[i] \in Clusters
      /\ EOC \notin Clusters /\ Free \notin Clusters
      /\ n = 0 <=> s = <<>>
  BY VolumeAssumption DEF Clusters, EOC, Free
<1>3. /\ \A c \in Clusters : Follow(f)[c] = f[c]
      /\ Follow(f)[e] = EOC /\ Follow(f)[EOC] = EOC
  BY <1>2 DEF Follow
<1>4. \A i \in 1..Total+1 : G[i] = IF i = 1 THEN h ELSE Follow(f)[G[i-1]]
  <2> SUFFICES ASSUME NEW i \in 1..Total+1
               PROVE  G[i] = IF i = 1 THEN h ELSE Follow(f)[G[i-1]]
    OBVIOUS
  <2>1. CASE i = 1
    BY <1>2, <2>1
  <2>2. CASE i # 1 /\ i <= n
    BY <1>2, <1>3, <2>2
  <2>3. CASE i # 1 /\ i = n + 1
    <3>1. G[i] = e /\ n \in 1..n /\ G[i-1] = s[n] /\ s # <<>>
      BY <1>2, <2>3
    <3>2. Follow(f)[s[n]] = f[s[n]]
      BY <3>1, <1>2, <1>3
    <3> QED BY <2>3, <3>1, <3>2
  <2>4. CASE i = n + 2
    BY <1>2, <1>3, <2>4
  <2>5. CASE i > n + 2
    BY <1>2, <1>3, <2>5
  <2> QED BY <1>2, <2>1, <2>2, <2>3, <2>4, <2>5
<1>5. G = [i \in 1..Total+1 |-> IF i = 1 THEN h ELSE Follow(f)[G[i-1]]]
  <2> HIDE DEF G
  <2>1. G = [i \in 1..Total+1 |-> G[i]]
    BY DEF G
  <2> QED BY <1>4, <2>1
<1> HIDE DEF G
<1>6. A = [i \in 1..Total+1 |-> IF i = 1 THEN h ELSE Follow(f)[A[i-1]]]
  BY <1>5
<1> HIDE DEF A
<1>7. \A i \in 1..Total+1 : A[i] = G[i]
  <2> DEFINE Bad == {i \in 1..Total+1 : A[i] # G[i]}
  <2> SUFFICES ASSUME Bad # {} PROVE FALSE
    OBVIOUS
  <2>1. PICK m \in Bad : \A k \in Bad : m <= k
    <3>1. Bad \in SUBSET Nat
      OBVIOUS
    <3> HIDE DEF Bad
    <3> QED BY <3>1, NatMin
  <2>2. m # 1
    BY <1>4, <1>6
  <2>3. m - 1 \in 1..Total+1 /\ m - 1 \notin Bad
    BY <1>2, <2>1, <2>2
  <2>4. A[m-1] = G[m-1]
    BY <2>3
  <2>5. A[m] = Follow(f)[A[m-1]] /\ G[m] = Follow(f)[G[m-1]]
    BY <1>4, <1>6, <2>2
  <2> QED BY <2>4, <2>5
<1>8. {i \in 1..Total+1 : A[i] \in Clusters} = 1..n
  <2>1. \A i \in 1..Total+1 : G[i] \in Clusters <=> i \in 1..n
    BY <1>2 DEF G
  <2>2. 1..n \subseteq 1..Total+1
    BY <1>2
  <2>3. \A i \in 1..Total+1 : A[i] \in Clusters <=> i \in 1..n
    BY <1>7, <2>1
  <2> HIDE DEF n
  <2> QED BY <2>2, <2>3
<1>9. Cardinality(1..n) = n
  <2>1. n \in Nat
    BY <1>2
  <2> HIDE DEF n
  <2>2. Cardinality(1..n) = IF 1 > n THEN 0 ELSE n - 1 + 1
    BY <2>1, FS_Interval
  <2> QED BY <2>1, <2>2
<1>10. \A i \in 1..n : A[i] = s[i]
  BY <1>2, <1>7 DEF G
<1>11. s = [i \in 1..n |-> s[i]]
  BY <1>2
<1> HIDE DEF n
<1>12. Chain(f, h) = [i \in 1..n |-> A[i]]
  BY <1>1, <1>8, <1>9
<1> QED BY <1>10, <1>11, <1>12

(* A chain is what Chain returns, a free cluster is a chain of its own,    *)
(* and nothing follows from 0.                                             *)
LEMMA ChainIs ==
  ASSUME NEW f \in FatType, NEW h, NEW s, IsChain(f, h, s)
  PROVE  Chain(f, h) = s
<1>1. s \in Seq(Clusters) /\ Len(s) <= Total
  BY ChainFits DEF IsChain
<1> QED BY <1>1, Walked DEF IsChain

LEMMA ChainOfFree ==
  ASSUME NEW f \in FatType, NEW c \in FreeClusters(f)
  PROVE  Chain(f, c) = <<c>>
<1>1. c \in Clusters /\ f[c] = Free
  BY DEF FreeClusters
<1>2. <<c>> \in Seq(Clusters) /\ Len(<<c>>) <= Total
  BY <1>1, VolumeAssumption
<1>3. f[<<c>>[Len(<<c>>)]] = Free /\ <<c>> # <<>> /\ <<c>>[1] = c
  BY <1>1
<1>4. \A i \in 1..Len(<<c>>) - 1 : FALSE
  OBVIOUS
<1> QED BY <1>2, <1>3, <1>4, Walked

LEMMA ChainOfZero ==
  ASSUME NEW f \in FatType
  PROVE  Chain(f, 0) = <<>>
<1>1. <<>> \in Seq(Clusters) /\ Len(<<>>) <= Total /\ \A i \in 1..Len(<<>>) - 1 : FALSE
  BY VolumeAssumption
<1> QED BY <1>1, Walked DEF Free

-----------------------------------------------------------------------------
(* The FAT and its chains.                                                 *)

(* What an item of a sequence is.                                          *)
LEMMA InSet ==
  ASSUME NEW s, NEW S, s \in Seq(S), NEW c, c \in ToSet(s)
  PROVE  c \in S /\ \E i \in 1..Len(s) : c = s[i]
  BY DEF ToSet

LEMMA IntoSet ==
  ASSUME NEW s, NEW S, s \in Seq(S), NEW i \in 1..Len(s)
  PROVE  s[i] \in ToSet(s)
  BY DEF ToSet

(* The clusters of a chain are taken, its head among them.                 *)
LEMMA ChainTaken ==
  ASSUME NEW f, NEW h, NEW s, IsChain(f, h, s)
  PROVE  /\ h \in ToSet(s) /\ h \in Clusters
         /\ \A c \in ToSet(s) : c \in Clusters /\ f[c] # Free
<1>1. s \in Seq(Clusters) /\ Len(s) \in Nat /\ Len(s) >= 1 /\ s[1] = h
  BY DEF IsChain
<1>2. Free \notin Clusters /\ EOC # Free
  BY VolumeAssumption DEF Clusters, Free, EOC
<1>3. ASSUME NEW c \in ToSet(s) PROVE c \in Clusters /\ f[c] # Free
  <2>1. PICK i \in 1..Len(s) : c = s[i]
    BY <1>1, InSet
  <2>2. CASE i = Len(s)
    BY <1>1, <1>2, <2>1, <2>2 DEF IsChain
  <2>3. CASE i # Len(s)
    <3>1. i \in 1..Len(s) - 1 /\ i + 1 \in 1..Len(s)
      BY <1>1, <2>3
    <3>2. f[c] = s[i + 1] /\ s[i + 1] \in Clusters
      BY <1>1, <2>1, <3>1 DEF IsChain
    <3> QED BY <1>1, <1>2, <2>1, <3>2
  <2> QED BY <2>2, <2>3
<1>4. h \in ToSet(s)
  BY <1>1, IntoSet
<1> QED BY <1>3, <1>4

LEMMA HeadsTaken ==
  ASSUME NEW f, NEW H, Chains(f, H), NEW h \in H
  PROVE  /\ h \in On(f, h) /\ h \in Clusters /\ f[h] # Free
         /\ \A c \in On(f, h) : c \in Clusters /\ f[c] # Free
  BY ChainTaken DEF Chains, On

(* A chain none of whose clusters is touched stays.                        *)
LEMMA SameChain ==
  ASSUME NEW f, NEW g \in FatType, NEW h, NEW s, IsChain(f, h, s),
         \A c \in ToSet(s) : g[c] = f[c]
  PROVE  IsChain(g, h, s) /\ Chain(g, h) = s
<1>1. s \in Seq(Clusters) /\ Len(s) \in Nat /\ Len(s) >= 1
  BY DEF IsChain
<1>2. \A i \in 1..Len(s) : g[s[i]] = f[s[i]]
  BY <1>1, IntoSet
<1>3. IsChain(g, h, s)
  BY <1>1, <1>2 DEF IsChain
<1> QED BY <1>3, ChainIs

(* The chains of H are the same in both.                                   *)
Same(f, g, H) == \A h \in H : Chain(g, h) = Chain(f, h)

LEMMA SameChains ==
  ASSUME NEW f, NEW g \in FatType, NEW H, Chains(f, H), NEW K \in SUBSET H,
         \A h \in K : \A c \in On(f, h) : g[c] = f[c]
  PROVE  Same(f, g, K) /\ \A h \in K : IsChain(g, h, Chain(g, h)) /\ On(g, h) = On(f, h)
<1>1. ASSUME NEW h \in K PROVE Chain(g, h) = Chain(f, h) /\ IsChain(g, h, Chain(g, h))
  BY SameChain DEF Chains, On
<1> QED BY <1>1 DEF Same, On

(* free_chain, of a head, of an entry that has no clusters, or of one      *)
(* whose chain was freed before.                                           *)
LEMMA FreeChainChains ==
  ASSUME NEW f \in FatType, NEW H, Chains(f, H), NEW x \in H \cup {0} \cup FreeClusters(f)
  PROVE  /\ FreeChain(f, x) \in FatType
         /\ Chains(FreeChain(f, x), H \ {x})
         /\ Same(f, FreeChain(f, x), H \ {x})
         /\ \A c \in Clusters :
              FreeChain(f, x)[c] = IF x \in H /\ c \in On(f, x) THEN Free ELSE f[c]
<1> DEFINE g == FreeChain(f, x)
<1>1. \A c \in Clusters : g[c] = IF c \in On(f, x) THEN Free ELSE f[c]
  BY DEF FreeChain, On
<1>2. g \in FatType
  BY DEF FreeChain, FatType
<1>3. \A c \in Clusters : g[c] = IF x \in H /\ c \in On(f, x) THEN Free ELSE f[c]
  <2>1. CASE x \in H
    BY <2>1, <1>1
  <2>2. CASE x = 0
    <3>1. On(f, x) = {}
      BY <2>2, ChainOfZero DEF On, ToSet
    <3> QED BY <3>1, <1>1
  <2>3. CASE x \in FreeClusters(f)
    <3>1. On(f, x) = {x} /\ f[x] = Free
      BY <2>3, ChainOfFree DEF On, ToSet, FreeClusters
    <3> QED BY <3>1, <1>1
  <2> QED BY <2>1, <2>2, <2>3
<1> HIDE DEF g
<1>4. \A h \in H \ {x} : \A c \in On(f, h) : g[c] = f[c]
  BY <1>3, HeadsTaken DEF Chains
<1>5. Same(f, g, H \ {x}) /\ \A h \in H \ {x} : IsChain(g, h, Chain(g, h)) /\ On(g, h) = On(f, h)
  BY <1>2, <1>4, SameChains
<1>6. \A c \in Clusters : g[c] # Free => \E h \in H \ {x} : c \in On(g, h)
  BY <1>3, <1>5 DEF Chains
<1>7. Chains(g, H \ {x})
  BY <1>5, <1>6 DEF Chains
<1> QED BY <1>2, <1>3, <1>5, <1>7 DEF g

(* The chain of clusters that fat32_write_file allocates.                  *)
Fresh(f, cs) ==
  /\ cs \in Seq(FreeClusters(f))
  /\ \A i, j \in 1..Len(cs) : cs[i] = cs[j] => i = j
HeadOf(cs) == IF cs = <<>> THEN {} ELSE {cs[1]}

LEMMA LinkedChains ==
  ASSUME NEW f \in FatType, NEW H, Chains(f, H), NEW cs, Fresh(f, cs)
  PROVE  /\ Linked(f, cs) \in FatType
         /\ Chains(Linked(f, cs), H \cup HeadOf(cs))
         /\ Same(f, Linked(f, cs), H)
         /\ cs # <<>> => Chain(Linked(f, cs), cs[1]) = cs /\ cs[1] \notin H
         /\ \A c \in Clusters : c \notin ToSet(cs) => Linked(f, cs)[c] = f[c]
         /\ \A c \in ToSet(cs) : Linked(f, cs)[c] # Free
<1> DEFINE g == Linked(f, cs)
           n == Len(cs)
<1>1. /\ n \in Nat /\ \A i \in 1..n : cs[i] \in Clusters /\ f[cs[i]] = Free
      /\ cs \in Seq(Clusters) /\ cs \in Seq(FreeClusters(f))
  BY DEF Fresh, FreeClusters
<1>2. \A c \in Clusters : c \notin ToSet(cs) => g[c] = f[c]
  BY DEF Linked
<1>3. \A c \in ToSet(cs) : c \in Clusters /\ f[c] = Free
  BY <1>1, InSet DEF FreeClusters
<1>4. ASSUME n # 0 PROVE g[cs[n]] = EOC
  BY <1>1, <1>4, IntoSet DEF Linked, Last
<1>5. ASSUME NEW i \in 1..n - 1 PROVE g[cs[i]] = cs[i + 1]
  <2>1. i \in 1..n /\ n \in 1..n /\ i # n /\ i + 1 \in DOMAIN cs /\ i + 1 > 1
    BY <1>1
  <2>2. cs[i] # Last(cs) /\ cs[i] \in ToSet(cs) /\ cs[i] \in Clusters
    BY <1>1, <2>1, IntoSet DEF Fresh, Last
  <2>3. g[cs[i]] = cs[CHOOSE j \in DOMAIN cs : j > 1 /\ cs[j - 1] = cs[i]]
    BY <2>2 DEF Linked
  <2>4. \A j \in DOMAIN cs : j > 1 /\ cs[j - 1] = cs[i] <=> j = i + 1
    BY <1>1, <2>1 DEF Fresh
  <2>5. (CHOOSE j \in DOMAIN cs : j > 1 /\ cs[j - 1] = cs[i]) = i + 1
    BY <2>1, <2>4
  <2> QED BY <2>3, <2>5
<1>6. g \in FatType
  <2>1. ASSUME NEW c \in Clusters PROVE g[c] \in Clusters \cup {Free, EOC}
    <3>1. CASE c \in ToSet(cs)
      <4>1. PICK i \in 1..n : c = cs[i]
        BY <1>1, <3>1, InSet
      <4>2. CASE i = n
        BY <1>1, <1>4, <4>1, <4>2
      <4>3. CASE i # n
        <5>1. i \in 1..n - 1 /\ i + 1 \in 1..n
          BY <1>1, <4>1, <4>3
        <5> QED BY <1>1, <1>5, <4>1, <5>1
      <4> QED BY <4>2, <4>3
    <3>2. CASE c \notin ToSet(cs)
      BY <1>2, <3>2 DEF FatType
    <3> QED BY <3>1, <3>2
  <2>2. g = [c \in Clusters |-> g[c]]
    BY DEF Linked
  <2> HIDE DEF g
  <2> QED BY <2>1, <2>2 DEF FatType
<1> HIDE DEF g
<1>7. Same(f, g, H) /\ \A h \in H : IsChain(g, h, Chain(g, h)) /\ On(g, h) = On(f, h)
  <2>1. \A h \in H : \A c \in On(f, h) : g[c] = f[c]
    BY <1>2, <1>3, HeadsTaken
  <2> QED BY <1>6, <2>1, SameChains
<1>8. ASSUME cs # <<>> PROVE IsChain(g, cs[1], cs) /\ Chain(g, cs[1]) = cs /\ cs[1] \notin H
  <2>1. IsChain(g, cs[1], cs)
    BY <1>1, <1>4, <1>5, <1>8 DEF IsChain, Fresh
  <2>2. cs[1] \notin H
    BY <1>1, <1>8, HeadsTaken
  <2> QED BY <1>6, <2>1, <2>2, ChainIs
<1>9. \A c \in ToSet(cs) : g[c] # Free
  <2>1. CASE cs = <<>>
    BY <2>1 DEF ToSet
  <2>2. CASE cs # <<>>
    BY <2>2, <1>8, ChainTaken
  <2> QED BY <2>1, <2>2
<1>10. Chains(g, H \cup HeadOf(cs))
  <2>1. CASE cs = <<>>
    <3>1. H \cup HeadOf(cs) = H /\ ToSet(cs) = {}
      BY <2>1 DEF HeadOf, ToSet
    <3>2. \A c \in Clusters : g[c] # Free => \E h \in H : c \in On(g, h)
      BY <1>2, <1>7, <3>1 DEF Chains
    <3> QED BY <3>1, <3>2, <1>7 DEF Chains
  <2>2. CASE cs # <<>>
    <3> DEFINE k == cs[1]
    <3>1. /\ HeadOf(cs) = {k} /\ On(g, k) = ToSet(cs) /\ IsChain(g, k, Chain(g, k))
          /\ k \notin H /\ k \in Clusters
      BY <2>2, <1>8, <1>1 DEF HeadOf, On
    <3> HIDE DEF k
    <3>2. \A h \in H : On(g, h) \cap On(g, k) = {}
      BY <1>3, <1>7, <3>1, HeadsTaken
    <3>3. \A c \in Clusters : g[c] # Free => \E h \in H \cup {k} : c \in On(g, h)
      BY <1>2, <1>7, <3>1 DEF Chains
    <3>4. \A h, l \in H \cup {k} : On(g, h) \cap On(g, l) # {} => h = l
      BY <1>7, <3>2 DEF Chains
    <3> QED BY <1>7, <3>1, <3>3, <3>4 DEF Chains
  <2> QED BY <2>1, <2>2
<1> QED BY <1>2, <1>6, <1>7, <1>8, <1>9, <1>10 DEF g

(* One more cluster behind a chain, as create_entry links it.              *)
Grown(f, h, c) == [[f EXCEPT ![c] = EOC] EXCEPT ![Last(Chain(f, h))] = c]

GrownFrom(f, g, H, h, c) ==
  /\ g \in FatType
  /\ Chains(g, H)
  /\ Same(f, g, H \ {h})
  /\ Chain(g, h) = Append(Chain(f, h), c)
  /\ \A x \in Clusters : g[x] = Free <=> f[x] = Free /\ x # c

LEMMA GrownChains ==
  ASSUME NEW f \in FatType, NEW H, Chains(f, H), NEW h \in H, NEW c \in FreeClusters(f)
  PROVE  GrownFrom(f, Grown(f, h, c), H, h, c)
<1> DEFINE g == Grown(f, h, c)
           s == Chain(f, h)
           n == Len(s)
           l == Last(s)
           t == Append(s, c)
<1>1. /\ IsChain(f, h, s) /\ s \in Seq(Clusters) /\ n \in Nat /\ n >= 1
      /\ c \in Clusters /\ f[c] = Free /\ Free \notin Clusters /\ EOC # Free
  BY VolumeAssumption DEF Chains, IsChain, FreeClusters, Clusters, Free, EOC
<1> HIDE DEF s
<1>2. l = s[n] /\ l \in ToSet(s) /\ l \in Clusters /\ f[l] # Free /\ ToSet(s) = On(f, h)
  <2>1. l = s[n] /\ n \in 1..n
    BY <1>1 DEF Last
  <2>2. l \in ToSet(s)
    BY <1>1, <2>1, IntoSet
  <2> QED BY <1>1, <2>1, <2>2, ChainTaken DEF On, s
<1> HIDE DEF l
<1>3. g \in FatType /\ \A x \in Clusters : g[x] = IF x = l THEN c ELSE IF x = c THEN EOC ELSE f[x]
  BY <1>1, <1>2 DEF Grown, FatType, l, s
<1> HIDE DEF g
<1>4. \A x \in Clusters : g[x] = Free <=> f[x] = Free /\ x # c
  BY <1>1, <1>2, <1>3
<1>5. Same(f, g, H \ {h}) /\ \A k \in H \ {h} : IsChain(g, k, Chain(g, k)) /\ On(g, k) = On(f, k)
  <2>1. \A k \in H \ {h} : \A x \in On(f, k) : g[x] = f[x]
    BY <1>1, <1>2, <1>3, HeadsTaken DEF Chains
  <2> QED BY <1>3, <2>1, SameChains
<1>6. /\ t \in Seq(Clusters) /\ Len(t) = n + 1 /\ t[n + 1] = c
      /\ \A i \in 1..n : t[i] = s[i]
  BY <1>1
<1> HIDE DEF t
<1>7. \A i \in 1..n : s[i] # c /\ s[i] \in Clusters /\ s[i] \in ToSet(s)
  <2>1. c \notin ToSet(s)
    BY <1>1, ChainTaken
  <2> QED BY <1>1, <2>1, IntoSet
<1>8. IsChain(g, h, t)
  <2>1. t # <<>> /\ t[1] = h
    BY <1>1, <1>6 DEF IsChain
  <2>2. ASSUME NEW i \in 1..Len(t) - 1 PROVE g[t[i]] = t[i + 1]
    <3>1. i \in 1..n /\ t[i] = s[i]
      BY <1>1, <1>6
    <3>2. CASE i = n
      BY <1>2, <1>3, <1>6, <3>1, <3>2
    <3>3. CASE i # n
      <4>1. i \in 1..n - 1 /\ i + 1 \in 1..n /\ n \in 1..n
        BY <1>1, <3>1, <3>3
      <4>2. s[i] # l /\ f[s[i]] = s[i + 1]
        BY <1>1, <1>2, <3>1, <3>3, <4>1 DEF IsChain
      <4> QED BY <1>3, <1>6, <1>7, <3>1, <4>1, <4>2
    <3> QED BY <3>2, <3>3
  <2>3. g[t[Len(t)]] = EOC
    BY <1>1, <1>2, <1>3, <1>6
  <2>4. ASSUME NEW i \in 1..Len(t), NEW j \in 1..Len(t), t[i] = t[j] PROVE i = j
    <3>1. (i \in 1..n \/ i = n + 1) /\ (j \in 1..n \/ j = n + 1)
      BY <1>1, <1>6
    <3> QED BY <1>1, <1>6, <1>7, <2>4, <3>1 DEF IsChain
  <2> QED BY <1>6, <2>1, <2>2, <2>3, <2>4 DEF IsChain
<1>9. Chain(g, h) = t
  BY <1>3, <1>8, ChainIs
<1>10. On(g, h) = On(f, h) \cup {c}
  <2>1. \A x \in ToSet(t) : x \in ToSet(s) \/ x = c
    <3> SUFFICES ASSUME NEW x \in ToSet(t) PROVE x \in ToSet(s) \/ x = c
      OBVIOUS
    <3>1. PICK i \in 1..Len(t) : x = t[i]
      BY <1>6, InSet
    <3>2. i \in 1..n \/ i = n + 1
      BY <1>1, <1>6, <3>1
    <3> QED BY <1>6, <1>7, <3>1, <3>2
  <2>2. ToSet(s) \subseteq ToSet(t)
    <3> SUFFICES ASSUME NEW x \in ToSet(s) PROVE x \in ToSet(t)
      OBVIOUS
    <3>1. PICK i \in 1..n : x = s[i]
      BY <1>1, InSet
    <3>2. i \in 1..Len(t)
      BY <1>1, <1>6
    <3> QED BY <1>6, <3>1, <3>2, IntoSet
  <2>3. c \in ToSet(t)
    <3>1. n + 1 \in 1..Len(t)
      BY <1>1, <1>6
    <3> QED BY <1>6, <3>1, IntoSet
  <2> QED BY <1>2, <1>9, <2>1, <2>2, <2>3 DEF On
<1>11. Chains(g, H)
  <2>1. \A k \in H : IsChain(g, k, Chain(g, k))
    BY <1>5, <1>8, <1>9
  <2>2. \A k \in H : c \notin On(f, k)
    BY <1>1, HeadsTaken
  <2>3. \A k, m \in H : On(g, k) \cap On(g, m) # {} => k = m
    BY <1>5, <1>10, <2>2 DEF Chains
  <2>4. \A x \in Clusters : g[x] # Free => \E k \in H : x \in On(g, k)
    BY <1>4, <1>5, <1>10 DEF Chains
  <2> QED BY <2>1, <2>3, <2>4 DEF Chains
<1> QED BY <1>3, <1>4, <1>5, <1>9, <1>11 DEF g, t, s, GrownFrom

(* The i-th lowest of some numbers exists as long as there are that many.  *)
LEMMA NthIs ==
  ASSUME NEW S \in SUBSET Nat, IsFiniteSet(S), NEW i \in 1..Cardinality(S)
  PROVE  Nth(S, i) \in S /\ Cardinality({e \in S : e < Nth(S, i)}) = i - 1
<1> DEFINE Below(c) == {e \in S : e < c}
           Has(k) == \E c \in S : Cardinality(Below(c)) = k - 1
           Bad == {k \in 1..Cardinality(S) : ~Has(k)}
<1>1. Cardinality(S) \in Nat /\ \A e \in S : e \in Nat
  BY FS_CardinalityType
<1>2. Bad = {}
  <2> SUFFICES ASSUME Bad # {} PROVE FALSE
    OBVIOUS
  <2>1. PICK m \in Bad : \A k \in Bad : m <= k
    <3>1. Bad \in SUBSET Nat
      OBVIOUS
    <3> HIDE DEF Bad
    <3> QED BY <3>1, NatMin
  <2>2. m \in 1..Cardinality(S) /\ ~Has(m)
    OBVIOUS
  <2>3. CASE m = 1
    <3>1. S # {}
      BY <1>1, <2>2, FS_EmptySet
    <3>2. PICK c \in S : \A e \in S : c <= e
      BY <3>1, NatMin
    <3>3. Below(c) = {}
      <4>1. \A e \in S : ~(e < c)
        BY <1>1, <3>2
      <4> QED BY <4>1
    <3>4. Cardinality(Below(c)) = 1 - 1
      <4> HIDE DEF Below
      <4> QED BY <3>3, FS_EmptySet
    <3>5. Has(1)
      BY <3>4
    <3> QED BY <2>2, <2>3, <3>5
  <2>4. CASE m # 1
    <3>1. m - 1 \in 1..Cardinality(S) /\ m - 1 \notin Bad
      <4>1. m - 1 \in 1..Cardinality(S) /\ ~(m <= m - 1)
        BY <1>1, <2>2, <2>4
      <4> HIDE DEF Bad
      <4> QED BY <2>1, <4>1
    <3>2. PICK c \in S : Cardinality(Below(c)) = (m - 1) - 1
      BY <3>1
    <3> DEFINE L == Below(c) \cup {c}
               U == {e \in S : e > c}
    <3>3. IsFiniteSet(Below(c)) /\ c \notin Below(c)
      BY FS_Subset
    <3>4. Cardinality(L) = m - 1
      <4>1. Cardinality(L) = (m - 1) - 1 + 1
        <5> HIDE DEF Below
        <5> QED BY <3>2, <3>3, FS_AddElement
      <4> QED BY <4>1, <2>2
    <3>5. U # {}
      <4> SUFFICES ASSUME U = {} PROVE FALSE
        OBVIOUS
      <4>1. S = L
        <5>1. \A e \in S : e < c \/ e = c \/ e > c
          BY <1>1
        <5>2. \A e \in S : ~(e > c)
          OBVIOUS
        <5> QED BY <5>1, <5>2
      <4> HIDE DEF L, U
      <4> QED BY <4>1, <3>4, <2>2, <1>1
    <3>6. PICK d \in U : \A e \in U : d <= e
      <4>1. U \in SUBSET Nat
        OBVIOUS
      <4> HIDE DEF U
      <4> QED BY <3>5, <4>1, NatMin
    <3>7. Below(d) = L
      <4>1. \A e \in S : e < d <=> e < c \/ e = c
        BY <1>1, <3>6
      <4> QED BY <4>1
    <3>8. d \in S /\ Cardinality(Below(d)) = m - 1
      <4> HIDE DEF L, Below
      <4> QED BY <3>4, <3>6, <3>7
    <3> HIDE DEF Below
    <3> QED BY <2>2, <3>8
  <2> QED BY <2>3, <2>4
<1>3. Has(i)
  BY <1>2
<1> HIDE DEF Has
<1>4. \E c \in S : Cardinality({e \in S : e < c}) = i - 1
  BY <1>3 DEF Has
<1> QED BY <1>4 DEF Nth

(* What k calls of alloc_cluster hand out.                                 *)
LEMMA AllocFresh ==
  ASSUME NEW f, NEW k \in Nat
  PROVE  Fresh(f, Alloc(f, k)) /\ Len(Alloc(f, k)) \in 0..k
<1> DEFINE S == FreeClusters(f)
           n == Min({k, Cardinality(S)})
<1>1. S \in SUBSET Nat /\ IsFiniteSet(S)
  <2>1. IsFiniteSet(Clusters)
    BY VolumeAssumption, FS_Interval DEF Clusters
  <2>2. S \in SUBSET Clusters /\ Clusters \in SUBSET Nat
    BY VolumeAssumption DEF FreeClusters, Clusters
  <2> QED BY <2>1, <2>2, FS_Subset
<1> HIDE DEF S
<1>2. Cardinality(S) \in Nat
  BY <1>1, FS_CardinalityType
<1>3. n \in 0..k /\ n <= Cardinality(S)
  BY <1>2, MinIs
<1> HIDE DEF n
<1>4. \A i \in 1..n : Nth(S, i) \in S /\ Cardinality({e \in S : e < Nth(S, i)}) = i - 1
  <2> SUFFICES ASSUME NEW i \in 1..n
               PROVE  Nth(S, i) \in S /\ Cardinality({e \in S : e < Nth(S, i)}) = i - 1
    OBVIOUS
  <2>1. i \in 1..Cardinality(S)
    BY <1>2, <1>3
  <2> QED BY <1>1, <2>1, NthIs
<1> DEFINE cs == [i \in 1..n |-> Nth(S, i)]
<1>5. Alloc(f, k) = cs
  BY DEF Alloc, S, n
<1>6. cs \in Seq(S) /\ Len(cs) = n
  <2>1. n \in Nat
    BY <1>3
  <2>2. cs \in [1..n -> S]
    BY <1>4
  <2> HIDE DEF cs
  <2> QED BY <2>1, <2>2, IsASeq
<1>7. ASSUME NEW i \in 1..n, NEW j \in 1..n, cs[i] = cs[j] PROVE i = j
  <2>1. Nth(S, i) = Nth(S, j)
    BY <1>7
  <2>2. i - 1 = j - 1
    BY <1>4, <2>1
  <2> QED BY <1>3, <2>2
<1> HIDE DEF cs
<1> QED BY <1>3, <1>5, <1>6, <1>7 DEF Fresh, S

-----------------------------------------------------------------------------
(* The slots of a directory and the places in its clusters.                *)
LEMMA Quotient ==
  ASSUME NEW q \in Nat, NEW r \in Nat, NEW b \in Nat, b >= 1, r < b,
         NEW a, a = b * q + r
  PROVE  a \div b = q /\ a % b = r
  OBVIOUS

LEMMA Remainder ==
  ASSUME NEW a \in Nat, NEW b \in Nat, b >= 1, NEW q, q = a \div b
  PROVE  /\ q \in Nat
         /\ a % b = a - b * q /\ a - b * q < b /\ a - b * q >= 0
<1>1. q \in Nat
  OBVIOUS
<1>2. b * q <= a /\ a < b * q + b
  OBVIOUS
<1>3. PICK r \in Nat : r = a - b * q
  BY <1>1, <1>2
<1>4. r < b /\ a = b * q + r
  BY <1>1, <1>2, <1>3
<1>5. a % b = r
  BY <1>1, <1>4, Quotient
<1> QED BY <1>1, <1>2, <1>3, <1>5

LEMMA Multiples ==
  ASSUME NEW q \in Nat, NEW n \in Nat, NEW b \in Nat, b >= 1
  PROVE  /\ q < n => b * q + b <= b * n
         /\ b * q < b * n => q < n
  OBVIOUS

(* A slot's row and column, and the slot of a row and a column.            *)
LEMMA PlaceOf ==
  ASSUME NEW n \in Nat, NEW p \in 1..PerCluster * n
  PROVE  /\ Row(p) \in 1..n /\ Col(p) \in 1..PerCluster
         /\ p = PerCluster * (Row(p) - 1) + Col(p)
<1>1. PerCluster \in Nat /\ PerCluster >= 1 /\ PerCluster * n \in Nat
  BY VolumeAssumption
<1>2. PICK a \in Nat : a = p - 1 /\ a < PerCluster * n
  BY <1>1
<1>3. PICK q : q = a \div PerCluster
  OBVIOUS
<1>4. /\ q \in Nat /\ a % PerCluster = a - PerCluster * q
      /\ a - PerCluster * q < PerCluster /\ a - PerCluster * q >= 0
  BY <1>1, <1>3, Remainder
<1>5. PICK r \in Nat : r = a - PerCluster * q
  BY <1>1, <1>4
<1>6. Row(p) = q + 1 /\ Col(p) = r + 1
  BY <1>2, <1>3, <1>4, <1>5 DEF Row, Col
<1>7. PerCluster * q \in Nat /\ PerCluster * q < PerCluster * n
  BY <1>1, <1>2, <1>4
<1>8. q < n
  BY <1>1, <1>4, <1>7, Multiples
<1>9. p = PerCluster * q + r + 1 /\ r < PerCluster
  BY <1>1, <1>2, <1>4, <1>5, <1>7
<1>10. Row(p) - 1 = q
  BY <1>4, <1>6
<1> QED BY <1>1, <1>4, <1>6, <1>7, <1>8, <1>9, <1>10

LEMMA SlotOf ==
  ASSUME NEW n \in Nat, NEW k \in 1..n, NEW j \in 1..PerCluster
  PROVE  /\ PerCluster * (k - 1) + j \in 1..PerCluster * n
         /\ Row(PerCluster * (k - 1) + j) = k /\ Col(PerCluster * (k - 1) + j) = j
<1> DEFINE q == k - 1
           r == j - 1
           p == PerCluster * q + j
<1>1. PerCluster \in Nat /\ PerCluster >= 1 /\ q \in Nat /\ r \in Nat /\ r < PerCluster /\ q < n
  BY VolumeAssumption
<1>2. j = r + 1 /\ k = q + 1
  OBVIOUS
<1>3. PerCluster * q \in Nat /\ PerCluster * n \in Nat
  BY <1>1
<1> HIDE DEF q, r
<1>4. PerCluster * q + PerCluster <= PerCluster * n
  BY <1>1, Multiples
<1>5. p \in 1..PerCluster * n /\ p - 1 = PerCluster * q + r
  BY <1>1, <1>2, <1>3, <1>4
<1>6. (p - 1) \div PerCluster = q /\ (p - 1) % PerCluster = r
  BY <1>1, <1>5, Quotient
<1>7. Row(p) = k /\ Col(p) = j
  BY <1>2, <1>6 DEF Row, Col
<1> QED BY <1>5, <1>7 DEF q

LEMMA FlatIs ==
  ASSUME NEW b, NEW s
  PROVE  /\ DOMAIN Flat(b, s) = 1..PerCluster * Len(s)
         /\ \A p \in 1..PerCluster * Len(s) : Flat(b, s)[p] = b[s[Row(p)]][Col(p)]
  BY DEF Flat, Row, Col

(* The slots of a directory are what its clusters hold.                    *)
DirBlocks(b, s) == \A c \in ToSet(s) : DirBlock(b[c])

LEMMA FlatSlot ==
  ASSUME NEW b \in DiskType, NEW s \in Seq(Clusters), DirBlocks(b, s),
         NEW p \in DOMAIN Flat(b, s)
  PROVE  /\ s[Row(p)] \in ToSet(s) /\ Row(p) \in 1..Len(s) /\ Col(p) \in 1..PerCluster
         /\ Flat(b, s)[p] \in ToSet(b[s[Row(p)]])
         /\ Flat(b, s)[p] \in SlotType /\ Flat(b, s)[p].kind # "data"
<1>1. Len(s) \in Nat /\ p \in 1..PerCluster * Len(s)
  <2>1. DOMAIN Flat(b, s) = 1..PerCluster * Len(s)
    BY FlatIs
  <2> QED BY <2>1
<1>2. Row(p) \in 1..Len(s) /\ Col(p) \in 1..PerCluster
  BY <1>1, PlaceOf
<1> DEFINE c == s[Row(p)]
<1>3. c \in ToSet(s) /\ c \in Clusters
  BY <1>2, IntoSet
<1>4. b[c] \in Seq(SlotType) /\ Len(b[c]) = PerCluster /\ b[c][Col(p)].kind # "data"
  BY <1>2, <1>3 DEF DirBlocks, DirBlock, DiskType
<1>5. b[c][Col(p)] \in ToSet(b[c]) /\ b[c][Col(p)] \in SlotType
  BY <1>2, <1>4, IntoSet
<1> QED BY <1>1, <1>2, <1>3, <1>4, <1>5, FlatIs

LEMMA SlotInFlat ==
  ASSUME NEW b \in DiskType, NEW s \in Seq(Clusters), DirBlocks(b, s),
         NEW c \in ToSet(s), NEW x \in ToSet(b[c])
  PROVE  \E p \in DOMAIN Flat(b, s) : Flat(b, s)[p] = x
<1>1. PICK k \in 1..Len(s) : c = s[k]
  BY InSet
<1>2. Len(s) \in Nat /\ c \in Clusters
  BY <1>1
<1>3. b[c] \in Seq(SlotType) /\ Len(b[c]) = PerCluster
  BY <1>2 DEF DiskType, DirBlocks, DirBlock
<1>4. PICK j \in 1..PerCluster : x = b[c][j]
  BY <1>3, InSet
<1> DEFINE p == PerCluster * (k - 1) + j
<1>5. p \in 1..PerCluster * Len(s) /\ Row(p) = k /\ Col(p) = j
  BY <1>2, SlotOf
<1> HIDE DEF p
<1>6. DOMAIN Flat(b, s) = 1..PerCluster * Len(s) /\ Flat(b, s)[p] = b[s[Row(p)]][Col(p)]
  BY <1>5, FlatIs
<1> QED BY <1>1, <1>4, <1>5, <1>6

LEMMA FlatSame ==
  ASSUME NEW b, NEW e, NEW s \in Seq(Clusters), \A c \in ToSet(s) : e[c] = b[c]
  PROVE  Flat(e, s) = Flat(b, s)
<1>1. ASSUME NEW p \in 1..PerCluster * Len(s)
      PROVE  e[s[Row(p)]][Col(p)] = b[s[Row(p)]][Col(p)]
  <2>1. Row(p) \in 1..Len(s)
    BY PlaceOf
  <2> QED BY <2>1, IntoSet
<1> QED BY <1>1 DEF Flat, Row, Col

(* Writing one slot: nothing else moves.                                   *)
Put(b, s, p, x) == [b EXCEPT ![s[Row(p)]] = [@ EXCEPT ![Col(p)] = x]]

LEMMA FlatPut ==
  ASSUME NEW b \in DiskType, NEW s \in Seq(Clusters), DirBlocks(b, s),
         \A i, j \in 1..Len(s) : s[i] = s[j] => i = j,
         NEW p \in DOMAIN Flat(b, s), NEW x \in SlotType, x.kind # "data"
  PROVE  /\ Put(b, s, p, x) \in DiskType
         /\ DirBlocks(Put(b, s, p, x), s)
         /\ \A c \in Clusters : c \notin ToSet(s) => Put(b, s, p, x)[c] = b[c]
         /\ DOMAIN Flat(Put(b, s, p, x), s) = DOMAIN Flat(b, s)
         /\ Flat(Put(b, s, p, x), s)[p] = x
         /\ \A q \in DOMAIN Flat(b, s) : q # p => Flat(Put(b, s, p, x), s)[q] = Flat(b, s)[q]
<1> DEFINE e == Put(b, s, p, x)
           k == Row(p)
           j == Col(p)
<1>1. /\ Len(s) \in Nat /\ p \in 1..PerCluster * Len(s) /\ DOMAIN Flat(b, s) = 1..PerCluster * Len(s)
      /\ k \in 1..Len(s) /\ j \in 1..PerCluster /\ s[k] \in ToSet(s) /\ s[k] \in Clusters
  <2>1. DOMAIN Flat(b, s) = 1..PerCluster * Len(s)
    BY FlatIs
  <2>2. k \in 1..Len(s) /\ j \in 1..PerCluster /\ s[k] \in ToSet(s)
    BY FlatSlot
  <2> QED BY <2>1, <2>2
<1>2. b[s[k]] \in Seq(SlotType) /\ Len(b[s[k]]) = PerCluster /\ \A i \in 1..PerCluster : b[s[k]][i].kind # "data"
  BY <1>1 DEF DirBlocks, DirBlock, DiskType
<1> DEFINE new == [b[s[k]] EXCEPT ![j] = x]
<1>3. /\ new \in Seq(SlotType) /\ Len(new) = PerCluster /\ new[j] = x
      /\ \A i \in 1..PerCluster : i # j => new[i] = b[s[k]][i]
  <2> DEFINE o == b[s[k]]
  <2> HIDE DEF o
  <2>1. o \in Seq(SlotType) /\ Len(o) = PerCluster
    BY <1>2 DEF o
  <2>2. [o EXCEPT ![j] = x] \in Seq(SlotType) /\ Len([o EXCEPT ![j] = x]) = PerCluster
    BY <1>1, <2>1, ExceptSeq
  <2>3. [o EXCEPT ![j] = x][j] = x /\ \A i \in 1..PerCluster : i # j => [o EXCEPT ![j] = x][i] = o[i]
    BY <1>1, <2>1
  <2> QED BY <2>2, <2>3 DEF o
<1>4. e = [b EXCEPT ![s[k]] = new]
  BY DEF Put
<1> HIDE DEF new, e, k
<1>5. e \in DiskType /\ e[s[k]] = new /\ \A c \in Clusters : c # s[k] => e[c] = b[c]
  BY <1>1, <1>3, <1>4 DEF DiskType
<1>6. DirBlocks(e, s)
  <2> SUFFICES ASSUME NEW c \in ToSet(s) PROVE DirBlock(e[c])
    BY DEF DirBlocks
  <2>1. CASE c = s[k]
    BY <1>2, <1>3, <1>5, <2>1 DEF DirBlock
  <2>2. CASE c # s[k]
    <3>1. c \in Clusters
      BY InSet
    <3> QED BY <1>5, <2>2, <3>1 DEF DirBlocks
  <2> QED BY <2>1, <2>2
<1>7. ASSUME NEW q \in 1..PerCluster * Len(s)
      PROVE  Flat(e, s)[q] = IF q = p THEN x ELSE Flat(b, s)[q]
  <2>1. Flat(e, s)[q] = e[s[Row(q)]][Col(q)] /\ Flat(b, s)[q] = b[s[Row(q)]][Col(q)]
    BY FlatIs
  <2>2. Row(q) \in 1..Len(s) /\ Col(q) \in 1..PerCluster /\ q = PerCluster * (Row(q) - 1) + Col(q)
    BY <1>1, PlaceOf
  <2>3. p = PerCluster * (k - 1) + j
    BY <1>1, PlaceOf DEF k
  <2>4. CASE Row(q) = k /\ Col(q) = j
    BY <1>3, <1>5, <2>1, <2>2, <2>3, <2>4
  <2>5. CASE Row(q) = k /\ Col(q) # j
    BY <1>3, <1>5, <2>1, <2>2, <2>5 DEF k
  <2>6. CASE Row(q) # k
    <3>1. s[Row(q)] # s[k] /\ s[Row(q)] \in Clusters
      BY <1>1, <2>2, <2>6
    <3> QED BY <1>5, <2>1, <2>6, <3>1 DEF k
  <2> QED BY <2>4, <2>5, <2>6
<1>8. DOMAIN Flat(e, s) = DOMAIN Flat(b, s)
  BY FlatIs
<1>9. \A c \in Clusters : c \notin ToSet(s) => e[c] = b[c]
  BY <1>1, <1>5
<1> QED BY <1>1, <1>5, <1>6, <1>7, <1>8, <1>9 DEF e

(* One more cluster: its slots follow the others.                          *)
FlatGrows(b, e, s, c, m) ==
  /\ DOMAIN Flat(e, Append(s, c)) = 1..m + PerCluster
  /\ DOMAIN Flat(b, s) = 1..m
  /\ m \in Nat
  /\ \A q \in 1..m : Flat(e, Append(s, c))[q] = Flat(b, s)[q]
  /\ \A j \in 1..PerCluster : Flat(e, Append(s, c))[m + j] = e[c][j]

LEMMA FlatGrow ==
  ASSUME NEW b, NEW e, NEW s \in Seq(Clusters), NEW c \in Clusters,
         \A x \in ToSet(s) : e[x] = b[x], NEW m, m = PerCluster * Len(s)
  PROVE  FlatGrows(b, e, s, c, m)
<1> DEFINE t == Append(s, c)
           n == Len(s)
<1>1. /\ t \in Seq(Clusters) /\ Len(t) = n + 1 /\ t[n + 1] = c
      /\ \A i \in 1..n : t[i] = s[i]
      /\ n \in Nat
  OBVIOUS
<1>2. PerCluster \in Nat /\ PerCluster >= 1 /\ m \in Nat
  BY <1>1, VolumeAssumption
<1>3. PerCluster * Len(t) = m + PerCluster
  BY <1>1, <1>2
<1>4. DOMAIN Flat(e, t) = 1..m + PerCluster /\ DOMAIN Flat(b, s) = 1..m
  BY <1>3, FlatIs
<1> HIDE DEF t
<1>5. ASSUME NEW q \in 1..m PROVE Flat(e, t)[q] = Flat(b, s)[q]
  <2>1. Row(q) \in 1..n /\ q \in 1..PerCluster * Len(t)
    BY <1>1, <1>2, <1>3, PlaceOf
  <2>2. t[Row(q)] = s[Row(q)] /\ s[Row(q)] \in ToSet(s)
    BY <1>1, <2>1, IntoSet
  <2> QED BY <2>1, <2>2, FlatIs
<1>6. ASSUME NEW j \in 1..PerCluster PROVE Flat(e, t)[m + j] = e[c][j]
  <2> DEFINE q == PerCluster * ((n + 1) - 1) + j
  <2>1. n + 1 \in 1..Len(t) /\ Len(t) \in Nat
    BY <1>1
  <2>2. q \in 1..PerCluster * Len(t) /\ Row(q) = n + 1 /\ Col(q) = j
    BY <2>1, SlotOf
  <2>3. q = m + j
    <3>1. (n + 1) - 1 = n
      BY <1>1
    <3>2. q = PerCluster * n + j
      BY <3>1
    <3> QED BY <3>2
  <2> HIDE DEF q
  <2>4. Flat(e, t)[q] = e[t[n + 1]][j]
    BY <2>2, FlatIs
  <2> QED BY <1>1, <2>3, <2>4
<1> QED BY <1>2, <1>4, <1>5, <1>6 DEF t, FlatGrows

-----------------------------------------------------------------------------
(* One step of the tree: slot p of directory d becomes x.                  *)

(* The slots T are S with x at p, S extended by 0x00 slots if need be; the *)
(* slots before p are all in use.                                          *)
Edited(S, T, p, x) ==
  /\ \E n, m \in Nat : DOMAIN S = 1..n /\ DOMAIN T = 1..m /\ 2 <= n /\ n <= m
  /\ p \in DOMAIN T /\ T[p] = x
  /\ \A q \in DOMAIN S : q # p => T[q] = S[q]
  /\ \A q \in DOMAIN T : q # p /\ q \notin DOMAIN S => T[q] = End
  /\ \A q \in 1..p-1 : q \in DOMAIN S /\ S[q].kind # "end"

LEMMA EditedIs ==
  ASSUME NEW S, NEW T, NEW p, NEW x, NEW n \in Nat, NEW m \in Nat,
         DOMAIN S = 1..n, DOMAIN T = 1..m, 2 <= n, n <= m,
         p \in DOMAIN T, T[p] = x,
         \A q \in DOMAIN S : q # p => T[q] = S[q],
         \A q \in DOMAIN T : q # p /\ q \notin DOMAIN S => T[q] = End,
         \A q \in 1..p-1 : q \in DOMAIN S /\ S[q].kind # "end"
  PROVE  Edited(S, T, p, x)
  BY DEF Edited

LEMMA EndIs == End.kind = "end" /\ ~Active(End)
  BY DEF End, Slot, Active

LEMMA EditedOrder ==
  ASSUME NEW S, NEW T, NEW p, NEW x, Edited(S, T, p, x),
         NoneBehindEnd(S), OneOfAName(S), x.kind # "end",
         Active(x) => \A q \in Live(S) : q # p => S[q].name # x.name
  PROVE  NoneBehindEnd(T) /\ OneOfAName(T)
<1>1. PICK n \in Nat, m \in Nat : DOMAIN S = 1..n /\ DOMAIN T = 1..m
  BY DEF Edited
<1>2. p \in 1..m /\ T[p] = x /\ \A q \in 1..n : q # p => T[q] = S[q]
  BY <1>1 DEF Edited
<1>3. ASSUME NEW q \in 1..m, q # p, Active(T[q]) PROVE q \in 1..n /\ T[q] = S[q]
  BY <1>1, <1>3, EndIs DEF Edited
<1>4. NoneBehindEnd(T)
  <2> SUFFICES ASSUME NEW q \in 1..m, NEW r \in 1..m, q < r, T[q].kind = "end", Active(T[r])
               PROVE  FALSE
    BY <1>1 DEF NoneBehindEnd
  <2>1. q # p
    BY <1>2
  <2>2. CASE r = p
    <3>1. q \in 1..p-1
      BY <2>2
    <3>2. q \in 1..n /\ S[q].kind # "end"
      BY <1>1, <3>1 DEF Edited
    <3> QED BY <1>2, <2>1, <3>2
  <2>3. CASE r # p
    <3>1. r \in 1..n /\ Active(S[r])
      BY <1>3, <2>3
    <3>2. q \in 1..n /\ S[q].kind = "end"
      BY <1>2, <2>1, <3>1
    <3> QED BY <1>1, <3>1, <3>2 DEF NoneBehindEnd
  <2> QED BY <2>2, <2>3
<1>5. OneOfAName(T)
  <2> SUFFICES ASSUME NEW q \in 1..m, NEW r \in 1..m, q # r, Active(T[q]), Active(T[r])
               PROVE  T[q].name # T[r].name
    BY <1>1 DEF OneOfAName
  <2>1. CASE q # p /\ r # p
    BY <1>1, <1>3, <2>1 DEF OneOfAName
  <2>2. CASE q = p
    BY <1>1, <1>2, <1>3, <2>2 DEF Live
  <2>3. CASE r = p
    BY <1>1, <1>2, <1>3, <2>3 DEF Live
  <2> QED BY <2>1, <2>2, <2>3
<1> QED BY <1>4, <1>5

(* What the slot named before, if it was an entry.                         *)
Named(f, b, d, p) ==
  IF p \in Live(SlotsIn(f, b, d)) THEN {SlotsIn(f, b, d)[p].first} ELSE {}

(* No other entry names a cluster that was free and is taken.              *)
OthersDangle(f, b, D, g, d, p) ==
  \A h \in D : \A q \in Live(SlotsIn(f, b, h)) :
    LET y == SlotsIn(f, b, h)[q].first
    IN  ~(h = d /\ q = p) /\ y \in FreeClusters(f) => y \in FreeClusters(g)

(* The step as a whole: the head the slot named goes, the head x names, if *)
(* there is one, comes; the other slots, heads, chains and data stay.            *)
Rewired(f, b, D, H, g, e, E, K, d, p, x, New) ==
  LET Old == Named(f, b, d, p)
  IN
  /\ g \in FatType /\ e \in DiskType /\ Chains(g, K) /\ Blocks(g, e, E, K)
  /\ d \in D /\ d \in E /\ Root \in E
  /\ Edited(SlotsIn(f, b, d), SlotsIn(g, e, d), p, x)
  /\ p \in DOMAIN SlotsIn(f, b, d) => SlotsIn(f, b, d)[p].kind # "dot"
  /\ \A h \in D : h \in E /\ h # d => SlotsIn(g, e, h) = SlotsIn(f, b, h)
  /\ \A h \in E : h \notin D => Live(SlotsIn(g, e, h)) = {}
  /\ \A h \in D : h \in Old => Live(SlotsIn(f, b, h)) = {}
  /\ New \subseteq {x.first} /\ New \cap (H \ Old) = {}
  /\ K = (H \ Old) \cup New
  /\ E = (D \ Old) \cup (IF x.kind = "dir" THEN New ELSE {})
  /\ \A h \in H : h \notin D /\ h \notin Old =>
       Chain(g, h) = Chain(f, h) /\ \A c \in On(f, h) : e[c] = b[c]
  /\ OthersDangle(f, b, D, g, d, p)
  /\ x.kind # "end"
  /\ Active(x) => \A q \in Live(SlotsIn(f, b, d)) : q # p => SlotsIn(f, b, d)[q].name # x.name
  /\ x.kind = "dir" =>
       /\ New = {x.first} /\ x.first # Root
       /\ SlotsIn(g, e, x.first)[1] = Slot("dot", ".", x.first, 0)
       /\ SlotsIn(g, e, x.first)[2] = Slot("dot", "..", ParentRef(d), 0)
  /\ x.kind = "file" =>
       /\ x.first \in New \cup {0} \cup (FreeClusters(g) \cap Old)
       /\ x.first \notin FreeClusters(g) => Len(Chain(g, x.first)) = x.size
  /\ ~Active(x) => New = {}

(* The other entries stay, and what they name is no affair of the step's.  *)
LEMMA RewiredOthers ==
  ASSUME NEW f, NEW b, NEW D, NEW H, Vol(f, b, D, H),
         NEW g, NEW e, NEW E, NEW K, NEW d, NEW p, NEW x, NEW New,
         Rewired(f, b, D, H, g, e, E, K, d, p, x, New)
  PROVE  /\ \A h \in E : \A q \in Live(SlotsIn(g, e, h)) :
              ~(h = d /\ q = p) =>
                /\ h \in D /\ q \in Live(SlotsIn(f, b, h))
                /\ SlotsIn(g, e, h)[q] = SlotsIn(f, b, h)[q]
         /\ \A h \in D : \A q \in Live(SlotsIn(f, b, h)) :
              ~(h = d /\ q = p) =>
                /\ h \in E /\ q \in Live(SlotsIn(g, e, h))
                /\ SlotsIn(g, e, h)[q] = SlotsIn(f, b, h)[q]
         /\ \A h \in D : \A q \in Live(SlotsIn(f, b, h)) :
              ~(h = d /\ q = p) =>
                LET y == SlotsIn(f, b, h)[q].first
                IN  /\ y # 0 => y \notin Named(f, b, d, p)
                    /\ \/ y = 0
                       \/ y \in H \ Named(f, b, d, p)
                       \/ y \in FreeClusters(f) /\ y \in FreeClusters(g)
<1> DEFINE Old == Named(f, b, d, p)
           S(h) == SlotsIn(f, b, h)
           T(h) == SlotsIn(g, e, h)
<1>1. Root \in D /\ D \subseteq H /\ Tied(f, b, D, H)
  BY DEF Vol
<1>2. /\ d \in D /\ d \in E
      /\ Edited(S(d), T(d), p, x)
      /\ \A h \in D : h \in E /\ h # d => T(h) = S(h)
      /\ \A h \in E : h \notin D => Live(T(h)) = {}
      /\ \A h \in D : h \in Old => Live(S(h)) = {}
  BY DEF Rewired
<1>3. E = (D \ Old) \cup (IF x.kind = "dir" THEN New ELSE {})
  BY DEF Rewired
<1>4. OthersDangle(f, b, D, g, d, p)
  BY DEF Rewired
<1>5. /\ \A h \in D : \A q \in Live(S(h)) : Owns(f, b, D, H, h, S(h)[q])
      /\ \A h, k \in D : \A q \in Live(S(h)), r \in Live(S(k)) :
           S(h)[q].first = S(k)[r].first /\ S(h)[q].first # 0 => h = k /\ q = r
  BY <1>1 DEF Tied
<1>6. Old = IF p \in Live(S(d)) THEN {S(d)[p].first} ELSE {}
  BY DEF Named
<1> HIDE DEF Old, S, T
<1>7. ASSUME NEW h \in E, NEW q \in Live(T(h)), ~(h = d /\ q = p)
       PROVE  h \in D /\ q \in Live(S(h)) /\ T(h)[q] = S(h)[q]
  <2>1. h \in D
    BY <1>2, <1>7
  <2>2. CASE h = d
    <3>1. q \in DOMAIN T(d) /\ Active(T(d)[q]) /\ q # p
      BY <1>7, <2>2 DEF Live
    <3>2. q \in DOMAIN S(d)
      BY <1>2, <3>1, EndIs DEF Edited
    <3>3. T(d)[q] = S(d)[q]
      BY <1>2, <3>1, <3>2 DEF Edited
    <3> QED BY <2>1, <2>2, <3>1, <3>2, <3>3 DEF Live
  <2>3. CASE h # d
    BY <1>2, <2>1, <2>3
  <2> QED BY <2>2, <2>3
<1>8. ASSUME NEW h \in D, NEW q \in Live(S(h)), ~(h = d /\ q = p)
       PROVE  h \in E /\ q \in Live(T(h)) /\ T(h)[q] = S(h)[q]
  <2>1. h \in E
    BY <1>2, <1>3
  <2>2. CASE h = d
    <3>1. q \in DOMAIN S(d) /\ Active(S(d)[q]) /\ q # p
      BY <1>8, <2>2 DEF Live
    <3>2. T(d)[q] = S(d)[q]
      BY <1>2, <3>1 DEF Edited
    <3>3. q \in DOMAIN T(d)
      <4>1. DOMAIN S(d) \subseteq DOMAIN T(d)
        BY <1>2 DEF Edited
      <4> QED BY <3>1, <4>1
    <3> QED BY <2>1, <2>2, <3>1, <3>2, <3>3 DEF Live
  <2>3. CASE h # d
    BY <1>2, <2>1, <2>3
  <2> QED BY <2>2, <2>3
(* What the other entries name.                                            *)
<1>9. ASSUME NEW h \in D, NEW q \in Live(S(h)), ~(h = d /\ q = p), S(h)[q].first # 0
       PROVE  S(h)[q].first \notin Old
  BY <1>5, <1>6, <1>9, <1>2
<1>10. ASSUME NEW h \in D, NEW q \in Live(S(h)), ~(h = d /\ q = p)
       PROVE  \/ S(h)[q].first = 0
              \/ S(h)[q].first \in H \ Old
              \/ S(h)[q].first \in FreeClusters(f) /\ S(h)[q].first \in FreeClusters(g)
  <2>1. Owns(f, b, D, H, h, S(h)[q]) /\ Active(S(h)[q])
    BY <1>5 DEF Live
  <2>2. S(h)[q].first \in H \cup {0} \cup FreeClusters(f)
    BY <1>1, <2>1 DEF Owns, Active
  <2>3. S(h)[q].first \in FreeClusters(f) => S(h)[q].first \in FreeClusters(g)
    BY <1>4, <1>10 DEF OthersDangle, S
  <2> QED BY <1>9, <1>10, <2>2, <2>3
<1> QED BY <1>7, <1>8, <1>9, <1>10 DEF Old, S, T

LEMMA RewiredVol ==
  ASSUME NEW f, NEW b, NEW D, NEW H, Vol(f, b, D, H),
         NEW g, NEW e, NEW E, NEW K, NEW d, NEW p, NEW x, NEW New,
         Rewired(f, b, D, H, g, e, E, K, d, p, x, New)
  PROVE  Vol(g, e, E, K)
<1> DEFINE Old == Named(f, b, d, p)
           S(h) == SlotsIn(f, b, h)
           T(h) == SlotsIn(g, e, h)
<1>1. /\ f \in FatType /\ Root \in D /\ D \subseteq H /\ Chains(f, H)
      /\ Tied(f, b, D, H)
      /\ \A h \in D : NoneBehindEnd(S(h)) /\ OneOfAName(S(h))
  BY DEF Vol
<1>2. /\ g \in FatType /\ e \in DiskType /\ Chains(g, K) /\ Blocks(g, e, E, K)
      /\ d \in D /\ d \in E /\ Root \in E
      /\ Edited(S(d), T(d), p, x)
      /\ p \in DOMAIN S(d) => S(d)[p].kind # "dot"
      /\ \A h \in D : h \in E /\ h # d => T(h) = S(h)
      /\ \A h \in E : h \notin D => Live(T(h)) = {}
      /\ \A h \in D : h \in Old => Live(S(h)) = {}
  BY DEF Rewired
<1>3. /\ New \subseteq {x.first} /\ New \cap (H \ Old) = {}
      /\ K = (H \ Old) \cup New
      /\ E = (D \ Old) \cup (IF x.kind = "dir" THEN New ELSE {})
      /\ \A h \in H : h \notin D /\ h \notin Old => Chain(g, h) = Chain(f, h)
  BY DEF Rewired
<1>5. /\ x.kind # "end"
      /\ Active(x) => \A q \in Live(S(d)) : q # p => S(d)[q].name # x.name
      /\ x.kind = "dir" =>
           /\ New = {x.first} /\ x.first # Root
           /\ T(x.first)[1] = Slot("dot", ".", x.first, 0)
           /\ T(x.first)[2] = Slot("dot", "..", ParentRef(d), 0)
      /\ x.kind = "file" =>
           /\ x.first \in New \cup {0} \cup (FreeClusters(g) \cap Old)
           /\ x.first \notin FreeClusters(g) => Len(Chain(g, x.first)) = x.size
      /\ ~Active(x) => New = {}
  BY DEF Rewired
<1>6. p \in DOMAIN T(d) /\ T(d)[p] = x
  BY <1>2 DEF Edited
<1>7. 0 \notin Clusters /\ 0 \notin H /\ 0 \notin K /\ 0 \notin FreeClusters(f) /\ 0 \notin FreeClusters(g)
  BY <1>1, <1>2, VolumeAssumption DEF Chains, Clusters, FreeClusters
<1>8. E \subseteq K
  BY <1>1, <1>3
<1>9. \A h \in K : h \notin FreeClusters(g)
  BY <1>2, HeadsTaken DEF FreeClusters
<1>10. /\ \A h \in D : \A q \in Live(S(h)) : Owns(f, b, D, H, h, S(h)[q])
       /\ \A h \in H \ {Root} : \E k \in D : \E q \in Live(S(k)) : S(k)[q].first = h
       /\ \A h, k \in D : \A q \in Live(S(h)), r \in Live(S(k)) :
            S(h)[q].first = S(k)[r].first /\ S(h)[q].first # 0 => h = k /\ q = r
  BY <1>1 DEF Tied
<1>11. Old = IF p \in Live(S(d)) THEN {S(d)[p].first} ELSE {}
  BY DEF Named
<1> HIDE DEF Old, S, T
<1>12. ASSUME NEW h \in E, NEW q \in Live(T(h)), ~(h = d /\ q = p)
       PROVE  h \in D /\ q \in Live(S(h)) /\ T(h)[q] = S(h)[q]
  BY <1>12, RewiredOthers DEF S, T
<1>13. ASSUME NEW h \in D, NEW q \in Live(S(h)), ~(h = d /\ q = p)
       PROVE  h \in E /\ q \in Live(T(h)) /\ T(h)[q] = S(h)[q]
  BY <1>13, RewiredOthers DEF S, T
(* What the other entries name.                                            *)
<1>14. ASSUME NEW h \in D, NEW q \in Live(S(h)), ~(h = d /\ q = p)
       PROVE  LET y == S(h)[q].first
              IN  /\ y # 0 => y \notin Old
                  /\ \/ y = 0
                     \/ y \in H \ Old
                     \/ y \in FreeClusters(f) /\ y \in FreeClusters(g)
  BY <1>14, RewiredOthers DEF S, T, Old
<1>15. ASSUME NEW h \in D, h \in E, h # Root, NEW i \in {1, 2},
              S(h)[1].kind = "dot" /\ S(h)[2].kind = "dot"
       PROVE  T(h)[i] = S(h)[i]
  <2>1. CASE h = d
    <3>1. i \in DOMAIN S(d)
      BY <1>2 DEF Edited
    <3>2. i # p
      BY <1>2, <1>15, <2>1, <3>1
    <3> QED BY <1>2, <2>1, <3>1, <3>2 DEF Edited
  <2>2. CASE h # d
    BY <1>2, <1>15, <2>2
  <2> QED BY <2>1, <2>2
<1>16. ASSUME NEW h \in E, NEW q \in Live(T(h)) PROVE Owns(g, e, E, K, h, T(h)[q])
  <2>1. CASE h = d /\ q = p
    <3>1. x.kind = "dir" => x.first \in E
      BY <1>3, <1>5
    <3>2. x.kind = "file" => x.first \in (K \ E) \cup {0} \cup FreeClusters(g)
      BY <1>1, <1>3, <1>5
    <3> QED BY <1>5, <1>6, <2>1, <3>1, <3>2 DEF Owns, T
  <2>2. CASE ~(h = d /\ q = p)
    <3> DEFINE s == T(h)[q]
    <3>1. h \in D /\ q \in Live(S(h)) /\ s = S(h)[q]
      BY <1>12, <2>2
    <3>2. Owns(f, b, D, H, h, s)
      BY <1>10, <3>1
    <3>3. /\ s.first # 0 => s.first \notin Old
          /\ \/ s.first = 0
             \/ s.first \in H \ Old
             \/ s.first \in FreeClusters(f) /\ s.first \in FreeClusters(g)
      BY <1>14, <2>2, <3>1
    <3> HIDE DEF s
    <3>4. ASSUME s.kind = "dir"
          PROVE  /\ s.first \in E \ {Root}
                 /\ T(s.first)[1] = Slot("dot", ".", s.first, 0)
                 /\ T(s.first)[2] = Slot("dot", "..", ParentRef(h), 0)
      <4>1. /\ s.first \in D \ {Root}
            /\ S(s.first)[1] = Slot("dot", ".", s.first, 0)
            /\ S(s.first)[2] = Slot("dot", "..", ParentRef(h), 0)
        BY <3>2, <3>4 DEF Owns, S
      <4>2. s.first \in E
        BY <1>1, <1>3, <1>7, <3>3, <4>1
      <4>3. S(s.first)[1].kind = "dot" /\ S(s.first)[2].kind = "dot"
        BY <4>1 DEF Slot
      <4>4. T(s.first)[1] = S(s.first)[1] /\ T(s.first)[2] = S(s.first)[2]
        BY <1>15, <4>1, <4>2, <4>3
      <4> QED BY <4>1, <4>2, <4>4
    <3>5. ASSUME s.kind = "file"
          PROVE  /\ s.first \in (K \ E) \cup {0} \cup FreeClusters(g)
                 /\ s.first \notin FreeClusters(g) => Len(Chain(g, s.first)) = s.size
      <4>1. /\ s.first \in (H \ D) \cup {0} \cup FreeClusters(f)
            /\ s.first \notin FreeClusters(f) => Len(Chain(f, s.first)) = s.size
        BY <3>2, <3>5 DEF Owns
      <4>2. CASE s.first = 0
        BY <1>1, <1>2, <1>7, <4>1, <4>2, ChainOfZero
      <4>3. CASE s.first \in H \ Old
        <5>1. s.first \notin FreeClusters(f)
          BY <1>1, <4>3, HeadsTaken DEF FreeClusters
        <5>2. s.first \notin D
          BY <1>7, <1>1, <4>1, <4>3, <5>1
        <5>3. Chain(g, s.first) = Chain(f, s.first)
          BY <1>3, <4>3, <5>2
        <5>4. s.first \in K /\ s.first \notin E
          BY <1>3, <4>3, <5>2
        <5> QED BY <4>1, <5>1, <5>3, <5>4
      <4>4. CASE s.first \in FreeClusters(g)
        BY <4>4
      <4> QED BY <3>3, <4>2, <4>3, <4>4
    <3> QED BY <3>4, <3>5 DEF Owns, T, s
  <2> QED BY <2>1, <2>2
<1>17. ASSUME NEW h \in K \ {Root}
       PROVE  \E k \in E : \E q \in Live(T(k)) : T(k)[q].first = h
  <2>1. CASE h \in New
    <3>1. Active(x) /\ h = x.first
      BY <1>3, <1>5, <2>1
    <3>2. p \in Live(T(d))
      BY <1>6, <3>1 DEF Live
    <3> QED BY <1>2, <1>6, <3>1, <3>2
  <2>2. CASE h \in H \ Old
    <3>1. PICK k \in D : \E q \in Live(S(k)) : S(k)[q].first = h
      BY <1>10, <2>2
    <3>2. PICK q \in Live(S(k)) : S(k)[q].first = h
      BY <3>1
    <3>3. ~(k = d /\ q = p)
      BY <1>11, <2>2, <3>2
    <3> QED BY <1>13, <3>2, <3>3
  <2> QED BY <1>3, <2>1, <2>2
<1>18. ASSUME NEW h \in E, NEW k \in E, NEW q \in Live(T(h)), NEW r \in Live(T(k)),
              T(h)[q].first = T(k)[r].first /\ T(h)[q].first # 0
       PROVE  h = k /\ q = r
  <2>1. ASSUME NEW l \in E, NEW t \in Live(T(l)), ~(l = d /\ t = p), p \in Live(T(d)),
               T(l)[t].first = x.first /\ x.first # 0
        PROVE  FALSE
    <3>1. l \in D /\ t \in Live(S(l)) /\ T(l)[t] = S(l)[t]
      BY <1>12, <2>1
    <3>2. /\ x.first \notin Old
          /\ x.first \in H \ Old \/ x.first \in FreeClusters(g)
      BY <1>14, <2>1, <3>1
    <3>3. Active(x)
      BY <1>6, <2>1 DEF Live
    <3>4. x.first \in New
      BY <1>5, <2>1, <3>2, <3>3 DEF Active
    <3> QED BY <1>3, <1>9, <3>2, <3>4
  <2>2. CASE h = d /\ q = p
    BY <1>6, <1>18, <2>1, <2>2
  <2>3. CASE k = d /\ r = p
    BY <1>6, <1>18, <2>1, <2>3
  <2>4. CASE ~(h = d /\ q = p) /\ ~(k = d /\ r = p)
    <3>1. /\ h \in D /\ q \in Live(S(h)) /\ T(h)[q] = S(h)[q]
          /\ k \in D /\ r \in Live(S(k)) /\ T(k)[r] = S(k)[r]
      BY <1>12, <2>4
    <3> QED BY <1>10, <1>18, <3>1
  <2> QED BY <2>2, <2>3, <2>4
<1>19. Tied(g, e, E, K)
  BY <1>16, <1>17, <1>18 DEF Tied, T
<1>20. ASSUME NEW h \in E PROVE NoneBehindEnd(T(h)) /\ OneOfAName(T(h))
  <2>1. CASE h = d
    BY <1>1, <1>2, <1>5, <2>1, EditedOrder
  <2>2. CASE h # d /\ h \in D
    BY <1>1, <1>2, <2>2
  <2>3. CASE h \notin D
    BY <1>2, <2>3 DEF Live, NoneBehindEnd, OneOfAName
  <2> QED BY <2>1, <2>2, <2>3
<1> QED BY <1>2, <1>8, <1>19, <1>20 DEF Vol, T

-----------------------------------------------------------------------------
(* The directories and the heads of a volume are those its entries name.   *)
EntriesOf(f, b) ==
  UNION {{s \in ToSet(b[c]) : Active(s)} : c \in {c \in Clusters : f[c] # Free}}
DirsOf(f, b) == {Root} \cup {s.first : s \in {e \in EntriesOf(f, b) : e.kind = "dir"}}
HeadsOf(f, b) ==
  {Root} \cup {s.first : s \in {e \in EntriesOf(f, b) : e.first \in {c \in Clusters : f[c] # Free}}}

LEMMA EntriesAre ==
  ASSUME NEW f, NEW b, NEW D, NEW H, Vol(f, b, D, H)
  PROVE  /\ \A s \in EntriesOf(f, b) :
              \E d \in D : \E p \in Live(SlotsIn(f, b, d)) : s = SlotsIn(f, b, d)[p]
         /\ \A d \in D : \A p \in Live(SlotsIn(f, b, d)) : SlotsIn(f, b, d)[p] \in EntriesOf(f, b)
<1>1. /\ b \in DiskType /\ Chains(f, H) /\ Blocks(f, b, D, H) /\ D \subseteq H
  BY DEF Vol
<1>2. ASSUME NEW d \in D
      PROVE  Chain(f, d) \in Seq(Clusters) /\ DirBlocks(b, Chain(f, d))
  BY <1>1 DEF Chains, IsChain, Blocks, DirBlocks, On
<1>3. ASSUME NEW s \in EntriesOf(f, b)
      PROVE  \E d \in D : \E p \in Live(SlotsIn(f, b, d)) : s = SlotsIn(f, b, d)[p]
  <2>1. PICK c \in Clusters : f[c] # Free /\ s \in ToSet(b[c]) /\ Active(s)
    BY DEF EntriesOf
  <2>2. PICK h \in H : c \in On(f, h)
    BY <1>1, <2>1 DEF Chains
  <2>3. h \in D
    <3> SUFFICES ASSUME h \notin D PROVE FALSE
      OBVIOUS
    <3>1. FileBlock(b[c]) /\ b[c] \in Seq(SlotType)
      BY <1>1, <2>1, <2>2 DEF Blocks, DiskType
    <3>2. PICK i \in 1..Len(b[c]) : s = b[c][i]
      BY <2>1, <3>1, InSet
    <3>3. s.kind = "data"
      BY <3>1, <3>2 DEF FileBlock
    <3> QED BY <2>1, <3>3 DEF Active
  <2>4. PICK p \in DOMAIN Flat(b, Chain(f, h)) : Flat(b, Chain(f, h))[p] = s
    BY <1>1, <1>2, <2>1, <2>2, <2>3, SlotInFlat DEF On
  <2> QED BY <2>1, <2>3, <2>4 DEF SlotsIn, Live
<1>4. ASSUME NEW d \in D, NEW p \in Live(SlotsIn(f, b, d))
      PROVE  SlotsIn(f, b, d)[p] \in EntriesOf(f, b)
  <2> DEFINE s == Chain(f, d)
             c == s[Row(p)]
  <2>1. p \in DOMAIN Flat(b, s) /\ Active(Flat(b, s)[p])
    BY DEF SlotsIn, Live
  <2>2. c \in ToSet(s) /\ Flat(b, s)[p] \in ToSet(b[c])
    BY <1>1, <1>2, <2>1, FlatSlot
  <2>3. c \in Clusters /\ f[c] # Free
    BY <1>1, <2>2, HeadsTaken DEF On
  <2> QED BY <2>1, <2>2, <2>3 DEF EntriesOf, SlotsIn
<1> QED BY <1>3, <1>4

(* What an entry names: a directory, a file's chain, nothing, or clusters  *)
(* that were freed.                                                        *)
LEMMA EntryNames ==
  ASSUME NEW f, NEW b, NEW D, NEW H, Vol(f, b, D, H),
         NEW s \in EntriesOf(f, b)
  PROVE  /\ Active(s) /\ s.first # Root
         /\ s.kind = "dir" => s.first \in D
         /\ s.kind = "file" =>
              /\ s.first \in (H \ D) \cup {0} \cup FreeClusters(f)
              /\ s.first \notin FreeClusters(f) => Len(Chain(f, s.first)) = s.size
<1>1. PICK d \in D : \E p \in Live(SlotsIn(f, b, d)) : s = SlotsIn(f, b, d)[p]
  BY EntriesAre
<1>2. Owns(f, b, D, H, d, s) /\ Active(s) /\ Root \in D /\ Chains(f, H) /\ D \subseteq H
  BY <1>1 DEF Vol, Tied, Live
<1>3. Root # 0 /\ Root \notin FreeClusters(f)
  BY <1>2, HeadsTaken DEF Root, FreeClusters
<1> QED BY <1>2, <1>3 DEF Owns, Active

LEMMA VolDirs ==
  ASSUME NEW f, NEW b, NEW D, NEW H, Vol(f, b, D, H)
  PROVE  DirsOf(f, b) = D /\ HeadsOf(f, b) = H
<1>1. /\ Root \in D /\ D \subseteq H /\ Chains(f, H) /\ H \subseteq Clusters /\ 0 \notin Clusters
      /\ \A h \in H \ {Root} :
           \E d \in D : \E p \in Live(SlotsIn(f, b, d)) : SlotsIn(f, b, d)[p].first = h
  BY VolumeAssumption DEF Vol, Tied, Chains, Clusters
<1>2. \A h \in H : f[h] # Free /\ h \notin FreeClusters(f)
  BY <1>1, HeadsTaken DEF FreeClusters
<1>3. ASSUME NEW h \in H \ {Root}
      PROVE  \E s \in EntriesOf(f, b) : s.first = h /\ (h \in D => s.kind = "dir")
  <2>1. PICK s \in EntriesOf(f, b) : s.first = h
    BY <1>1, EntriesAre
  <2>2. h \in D => s.kind = "dir"
    BY <1>1, <1>2, <2>1, EntryNames DEF Active
  <2> QED BY <2>1, <2>2
<1>4. DirsOf(f, b) \subseteq D
  BY <1>1, EntryNames DEF DirsOf
<1>5. D \subseteq DirsOf(f, b)
  BY <1>1, <1>3 DEF DirsOf
<1>6. HeadsOf(f, b) \subseteq H
  <2> SUFFICES ASSUME NEW s \in EntriesOf(f, b), s.first \in Clusters, f[s.first] # Free
               PROVE  s.first \in H
    BY <1>1 DEF HeadsOf
  <2>1. s.first # 0 /\ s.first \notin FreeClusters(f)
    BY <1>1 DEF FreeClusters
  <2> QED BY <1>1, <2>1, EntryNames DEF Active
<1>7. H \subseteq HeadsOf(f, b)
  <2> SUFFICES ASSUME NEW h \in H \ {Root} PROVE h \in HeadsOf(f, b)
    BY DEF HeadsOf
  <2>1. PICK s \in EntriesOf(f, b) : s.first = h
    BY <1>3
  <2>2. h \in Clusters /\ f[h] # Free
    BY <1>1, <1>2
  <2> QED BY <2>1, <2>2 DEF HeadsOf
<1> QED BY <1>4, <1>5, <1>6, <1>7

(* The operators of the model in these terms.                              *)
LEMMA Terms ==
  /\ Entries = EntriesOf(fat, disk) /\ Dirs = DirsOf(fat, disk) /\ Heads = HeadsOf(fat, disk)
  /\ \A d : Slots(d) = SlotsIn(fat, disk, d)
<1>1. Entries = EntriesOf(fat, disk)
  BY DEF Entries, EntriesIn, EntriesOf, Allocated
<1>2. Dirs = DirsOf(fat, disk)
  BY <1>1 DEF Dirs, DirsIn, DirsOf
<1>3. Heads = HeadsOf(fat, disk)
  BY <1>1 DEF Heads, HeadsOf, Allocated
<1>4. \A d : Slots(d) = SlotsIn(fat, disk, d)
  BY DEF Slots
<1> QED BY <1>1, <1>2, <1>3, <1>4

LEMMA NextTerms ==
  /\ Entries' = EntriesOf(fat', disk') /\ Dirs' = DirsOf(fat', disk')
  /\ Heads' = HeadsOf(fat', disk')
<1>1. Entries' = EntriesOf(fat', disk')
  BY DEF Entries, EntriesIn, EntriesOf, Allocated
<1>2. Dirs' = DirsOf(fat', disk')
  BY <1>1 DEF Dirs, DirsIn, DirsOf
<1>3. Heads' = HeadsOf(fat', disk')
  BY <1>1 DEF Heads, HeadsOf, Allocated
<1> QED BY <1>1, <1>2, <1>3

(* To preserve the invariant, any choice of the directories and heads will *)
(* do.                                                                     *)
LEMMA VolNext ==
  ASSUME NEW E, NEW K, Vol(fat', disk', E, K)
  PROVE  Whole'
<1>1. Dirs' = E /\ Heads' = K
  BY NextTerms, VolDirs
<1> QED BY <1>1 DEF Whole

-----------------------------------------------------------------------------
(* A volume as the invariant describes it is sound.                        *)
LEMMA RowColOfFirst == Row(1) = 1 /\ Col(1) = 1 /\ Row(2) = 1 /\ Col(2) = 2
<1>1. PerCluster \in Nat /\ PerCluster >= 2
  BY VolumeAssumption
<1>2. (1 - 1) \div PerCluster = 0 /\ (1 - 1) % PerCluster = 0
  BY <1>1, Quotient
<1>3. (2 - 1) \div PerCluster = 0 /\ (2 - 1) % PerCluster = 1
  BY <1>1, Quotient
<1> QED BY <1>2, <1>3 DEF Row, Col

(* The first two slots of a directory are in its own first cluster.        *)
LEMMA FirstSlots ==
  ASSUME NEW f, NEW b, NEW H, Chains(f, H), NEW d \in H
  PROVE  /\ 1 \in DOMAIN SlotsIn(f, b, d) /\ 2 \in DOMAIN SlotsIn(f, b, d)
         /\ SlotsIn(f, b, d)[1] = b[d][1] /\ SlotsIn(f, b, d)[2] = b[d][2]
         /\ PerCluster * Len(Chain(f, d)) \in Nat
         /\ PerCluster * Len(Chain(f, d)) >= 2
         /\ DOMAIN SlotsIn(f, b, d) = 1..PerCluster * Len(Chain(f, d))
<1> DEFINE s == Chain(f, d)
           n == PerCluster * Len(s)
<1>1. s \in Seq(Clusters) /\ Len(s) \in Nat /\ Len(s) >= 1 /\ s[1] = d
  BY DEF Chains, IsChain
<1>2. PerCluster \in Nat /\ PerCluster >= 2
  BY VolumeAssumption
<1>3. n \in Nat
  BY <1>1, <1>2
<1>4. n >= 2
  <2> HIDE DEF s
  <2>1. PerCluster * 0 + PerCluster <= PerCluster * Len(s)
    BY <1>1, <1>2, Multiples
  <2> QED BY <1>2, <1>3, <2>1
<1>5. SlotsIn(f, b, d) = Flat(b, s) /\ DOMAIN Flat(b, s) = 1..n
  BY FlatIs DEF SlotsIn
<1>6. 1 \in 1..n /\ 2 \in 1..n
  BY <1>3, <1>4
<1>7. Flat(b, s)[1] = b[s[1]][1] /\ Flat(b, s)[2] = b[s[1]][2]
  BY <1>6, FlatIs, RowColOfFirst
<1> HIDE DEF s
<1> QED BY <1>1, <1>3, <1>4, <1>5, <1>6, <1>7 DEF s

LEMMA SlotCount ==
  ASSUME NEW f, NEW b, NEW H, Chains(f, H), NEW d \in H
  PROVE  \E m \in Nat : /\ 2 <= m /\ m = PerCluster * Len(Chain(f, d))
                        /\ DOMAIN SlotsIn(f, b, d) = 1..m
<1>1. /\ PerCluster * Len(Chain(f, d)) \in Nat
      /\ PerCluster * Len(Chain(f, d)) >= 2
  BY FirstSlots
<1>2. PICK m \in Nat : m = PerCluster * Len(Chain(f, d)) /\ 2 <= m
  BY <1>1
<1>3. DOMAIN SlotsIn(f, b, d) = 1..m
  BY <1>2, FlatIs DEF SlotsIn
<1> QED BY <1>2, <1>3

LEMMA SoundChains == Whole => ChainsPartition
<1> SUFFICES ASSUME Whole PROVE ChainsPartition
  OBVIOUS
<1> DEFINE D == Dirs
           H == Heads
           naming == {s \in Entries : s.first # 0}
           heads == {Root} \cup {s.first : s \in {e \in naming : ~Dangles(e)}}
<1>1. Vol(fat, disk, D, H) /\ Chains(fat, H) /\ Root \in D /\ D \subseteq H /\ disk \in DiskType
  BY DEF Whole, Vol
<1>2. heads = H
  <2>1. {e \in naming : ~Dangles(e)} = {e \in Entries : e.first \in Allocated}
    BY VolumeAssumption DEF Dangles, Allocated, Clusters
  <2> QED BY <2>1 DEF Heads
<1>3. \A s, t \in naming : s.first # Root /\ (s # t => s.first # t.first)
  <2>1. \A s \in Entries : s.first # Root
    BY <1>1, Terms, EntryNames
  <2>2. ASSUME NEW s \in naming, NEW t \in naming, s.first = t.first PROVE s = t
    <3> DEFINE S(d) == SlotsIn(fat, disk, d)
    <3>1. PICK d \in D : \E p \in Live(S(d)) : s = S(d)[p]
      BY <1>1, Terms, EntriesAre
    <3>2. PICK p \in Live(S(d)) : s = S(d)[p]
      BY <3>1
    <3>3. PICK e \in D : \E q \in Live(S(e)) : t = S(e)[q]
      BY <1>1, Terms, EntriesAre
    <3>4. PICK q \in Live(S(e)) : t = S(e)[q]
      BY <3>3
    <3>5. S(d)[p].first = S(e)[q].first /\ S(d)[p].first # 0
      BY <2>2, <3>2, <3>4
    <3>6. d = e /\ p = q
      BY <1>1, <3>2, <3>4, <3>5 DEF Vol, Tied
    <3> QED BY <3>2, <3>4, <3>6
  <2> QED BY <2>1, <2>2
<1> HIDE DEF heads
<1>4. UNION {Chained(c) : c \in heads} = Allocated
  <2>1. \A h \in H : Chained(h) \subseteq Allocated
    BY <1>1, HeadsTaken DEF Chained, On, Allocated
  <2>2. \A c \in Allocated : \E h \in H : c \in Chained(h)
    BY <1>1 DEF Chains, Chained, On, Allocated
  <2> HIDE DEF H
  <2> QED BY <1>2, <2>1, <2>2
<1>5. \A c, e \in heads : c # e => Chained(c) \cap Chained(e) = {}
  <2>1. \A c, e \in H : c # e => Chained(c) \cap Chained(e) = {}
    BY <1>1 DEF Chains, Chained, On
  <2> HIDE DEF H
  <2> QED BY <1>2, <2>1
<1>6. \A d \in Dirs : \A s \in ToSet(Slots(d)) : s.kind # "data"
  <2> SUFFICES ASSUME NEW d \in D, NEW s \in ToSet(Slots(d)) PROVE s.kind # "data"
    OBVIOUS
  <2>1. Chain(fat, d) \in Seq(Clusters) /\ DirBlocks(disk, Chain(fat, d))
    BY <1>1 DEF Vol, Blocks, DirBlocks, On, Chains, IsChain
  <2>2. PICK p \in DOMAIN Flat(disk, Chain(fat, d)) : s = Flat(disk, Chain(fat, d))[p]
    BY Terms DEF ToSet, SlotsIn
  <2> QED BY <1>1, <2>1, <2>2, FlatSlot
<1> QED BY <1>3, <1>4, <1>5, <1>6 DEF ChainsPartition, heads

(* The slots of a directory.                                               *)
LEMMA DirSlots ==
  ASSUME NEW f, NEW b, NEW D, NEW H, Vol(f, b, D, H), NEW d \in D
  PROVE  /\ Chain(f, d) \in Seq(Clusters) /\ DirBlocks(b, Chain(f, d))
         /\ \A i, j \in 1..Len(Chain(f, d)) : Chain(f, d)[i] = Chain(f, d)[j] => i = j
         /\ \A p \in DOMAIN SlotsIn(f, b, d) :
              SlotsIn(f, b, d)[p] \in SlotType /\ SlotsIn(f, b, d)[p].kind # "data"
<1>1. /\ b \in DiskType /\ Chains(f, H) /\ Blocks(f, b, D, H) /\ D \subseteq H
  BY DEF Vol
<1>2. Chain(f, d) \in Seq(Clusters) /\ DirBlocks(b, Chain(f, d))
  BY <1>1 DEF Chains, IsChain, Blocks, DirBlocks, On
<1>3. \A i, j \in 1..Len(Chain(f, d)) : Chain(f, d)[i] = Chain(f, d)[j] => i = j
  BY <1>1 DEF Chains, IsChain
<1>4. \A p \in DOMAIN SlotsIn(f, b, d) :
              SlotsIn(f, b, d)[p] \in SlotType /\ SlotsIn(f, b, d)[p].kind # "data"
  BY <1>1, <1>2, FlatSlot DEF SlotsIn
<1> QED BY <1>2, <1>3, <1>4

LEMMA SoundSizes == Whole => SizesFit
<1> SUFFICES ASSUME Whole, NEW s \in Entries, s.kind = "file", ~Dangles(s)
             PROVE  Len(Chain(fat, s.first)) = s.size
  BY DEF SizesFit
<1>1. s.first \notin FreeClusters(fat)
  <2>1. s.first = 0 \/ s.first \in Allocated
    BY DEF Dangles
  <2> QED BY <2>1, VolumeAssumption DEF Allocated, FreeClusters, Clusters
<1> QED BY <1>1, Terms, EntryNames DEF Whole

LEMMA SoundSlots == Whole => NothingBehindEnd /\ NamesUnique
<1> SUFFICES ASSUME Whole PROVE NothingBehindEnd /\ NamesUnique
  OBVIOUS
<1>1. \A d \in Dirs : NoneBehindEnd(Slots(d)) /\ OneOfAName(Slots(d))
  BY Terms DEF Whole, Vol
<1> QED BY <1>1 DEF NothingBehindEnd, NamesUnique, NoneBehindEnd, OneOfAName

LEMMA SoundDots == Whole => DotsRight
<1> SUFFICES ASSUME Whole, NEW d \in Dirs, NEW s \in ToSet(Slots(d)), s.kind = "dir"
             PROVE  /\ disk[s.first][1] = Slot("dot", ".", s.first, 0)
                    /\ disk[s.first][2] = Slot("dot", "..", ParentRef(d), 0)
  BY DEF DotsRight, ParentRef
<1>1. Vol(fat, disk, Dirs, Heads)
  BY DEF Whole
<1>2. PICK p \in DOMAIN SlotsIn(fat, disk, d) : s = SlotsIn(fat, disk, d)[p]
  BY Terms DEF ToSet
<1>3. p \in Live(SlotsIn(fat, disk, d))
  BY <1>2 DEF Live, Active
<1>4. Owns(fat, disk, Dirs, Heads, d, s)
  BY <1>1, <1>2, <1>3 DEF Vol, Tied
<1>5. /\ s.first \in Heads /\ Chains(fat, Heads)
      /\ SlotsIn(fat, disk, s.first)[1] = Slot("dot", ".", s.first, 0)
      /\ SlotsIn(fat, disk, s.first)[2] = Slot("dot", "..", ParentRef(d), 0)
  BY <1>1, <1>4 DEF Owns, Vol
<1> QED BY <1>5, FirstSlots

LEMMA SoundVolume == IInv => VolumeSound
  BY SoundChains, SoundSizes, SoundSlots, SoundDots DEF VolumeSound, IInv

-----------------------------------------------------------------------------
(* fat32_format.                                                           *)
LEMMA FormatSlots ==
  ASSUME NEW f \in FatType, f = [c \in Clusters |-> IF c = Root THEN EOC ELSE Free],
         NEW b, b = [c \in Clusters |-> Ends(PerCluster)]
  PROVE  /\ b \in DiskType /\ IsChain(f, Root, <<Root>>) /\ Chain(f, Root) = <<Root>>
         /\ DirBlock(b[Root])
         /\ \A p \in DOMAIN SlotsIn(f, b, Root) : SlotsIn(f, b, Root)[p] = End
<1>1. Root \in Clusters /\ PerCluster \in Nat /\ End \in SlotType
  BY VolumeAssumption DEF Clusters, Root, End, Slot, SlotType
<1>2. /\ Ends(PerCluster) \in Seq(SlotType) /\ Len(Ends(PerCluster)) = PerCluster
      /\ \A i \in 1..PerCluster : Ends(PerCluster)[i] = End
  BY <1>1 DEF Ends
<1>3. b \in DiskType /\ b[Root] = Ends(PerCluster)
  BY <1>1, <1>2 DEF DiskType
<1>4. IsChain(f, Root, <<Root>>)
  BY <1>1 DEF IsChain
<1>5. Chain(f, Root) = <<Root>>
  BY <1>4, ChainIs
<1>6. DirBlock(b[Root])
  <2>1. End.kind # "data"
    BY DEF End, Slot
  <2> QED BY <1>2, <1>3, <2>1 DEF DirBlock
<1>7. ASSUME NEW p \in DOMAIN SlotsIn(f, b, Root) PROVE SlotsIn(f, b, Root)[p] = End
  <2>1. SlotsIn(f, b, Root) = Flat(b, <<Root>>) /\ Len(<<Root>>) = 1
    BY <1>5 DEF SlotsIn
  <2>2. p \in 1..PerCluster * 1 /\ Flat(b, <<Root>>)[p] = b[<<Root>>[Row(p)]][Col(p)]
    <3>1. PICK s : s = <<Root>> /\ Len(s) = 1
      BY <2>1
    <3>2. DOMAIN Flat(b, s) = 1..PerCluster * Len(s)
      BY FlatIs
    <3>3. \A q \in 1..PerCluster * Len(s) : Flat(b, s)[q] = b[s[Row(q)]][Col(q)]
      BY FlatIs
    <3>4. p \in 1..PerCluster * Len(s)
      BY <2>1, <3>1, <3>2
    <3>5. Flat(b, s)[p] = b[s[Row(p)]][Col(p)]
      BY <3>3, <3>4
    <3> QED BY <3>1, <3>4, <3>5
  <2>3. Row(p) \in 1..1 /\ Col(p) \in 1..PerCluster
    BY <2>2, PlaceOf
  <2> QED BY <1>2, <1>3, <2>1, <2>2, <2>3
<1> QED BY <1>3, <1>4, <1>5, <1>6, <1>7

LEMMA InitVol ==
  Init => Vol(fat, disk, {Root}, {Root}) /\ Live(SlotsIn(fat, disk, Root)) = {}
<1> SUFFICES ASSUME Init
             PROVE  Vol(fat, disk, {Root}, {Root}) /\ Live(SlotsIn(fat, disk, Root)) = {}
  OBVIOUS
<1>1. fat \in FatType
  BY DEF Init, FatType, EOC, Free
<1>2. /\ disk \in DiskType /\ IsChain(fat, Root, <<Root>>) /\ Chain(fat, Root) = <<Root>>
      /\ DirBlock(disk[Root])
      /\ \A p \in DOMAIN SlotsIn(fat, disk, Root) : SlotsIn(fat, disk, Root)[p] = End
  BY <1>1, FormatSlots DEF Init
<1>3. On(fat, Root) = {Root}
  BY <1>2 DEF On, ToSet
<1>4. Chains(fat, {Root})
  <2>1. Root \in Clusters
    BY VolumeAssumption DEF Clusters, Root
  <2>2. \A c \in Clusters : fat[c] # Free => c = Root
    BY DEF Init
  <2> QED BY <1>2, <1>3, <2>1, <2>2 DEF Chains
<1>5. Blocks(fat, disk, {Root}, {Root})
  BY <1>2, <1>3 DEF Blocks
<1>6. Live(SlotsIn(fat, disk, Root)) = {}
  BY <1>2, EndIs DEF Live
<1>7. Tied(fat, disk, {Root}, {Root})
  BY <1>6 DEF Tied
<1>8. NoneBehindEnd(SlotsIn(fat, disk, Root)) /\ OneOfAName(SlotsIn(fat, disk, Root))
  BY <1>6 DEF NoneBehindEnd, OneOfAName, Live
<1> QED BY <1>1, <1>2, <1>4, <1>5, <1>6, <1>7, <1>8 DEF Vol

LEMMA InitInv == Init => IInv
<1> SUFFICES ASSUME Init PROVE IInv
  OBVIOUS
<1>1. Whole
  BY InitVol, Terms, VolDirs DEF Whole
<1>2. TypeOK
  <2>1. End \in SlotType /\ PerCluster \in Nat
    BY VolumeAssumption DEF End, Slot, SlotType
  <2>2. Ends(PerCluster) \in [1..PerCluster -> SlotType]
    BY <2>1 DEF Ends
  <2>3. crossed \in 0..MaxCrossed + 1
    BY VolumeAssumption DEF Init
  <2> QED BY <2>2, <2>3 DEF Init, TypeOK, EOC, Free
<1> QED BY <1>1, <1>2 DEF IInv

-----------------------------------------------------------------------------
(* The tree a caller sees, and what one step does to it.                   *)

(* What an entry stands for in the tree a caller sees.                     *)
DataIn(f, b, s) == [i \in 1..s.size |-> b[Chain(f, s.first)[i]][1].name]
NodeIn(f, b, s) ==
  IF s.kind = "dir" THEN Store!Dir(s.first)
  ELSE IF s.first \in FreeClusters(f) THEN Store!Lost
  ELSE Store!File(DataIn(f, b, s))

(* t is what a caller sees of directory d.                                 *)
Shows(f, b, d, t) ==
  LET S == SlotsIn(f, b, d)
  IN  /\ t = [n \in {S[p].name : p \in Live(S)} |-> t[n]]
      /\ \A p \in Live(S) : t[S[p].name] = NodeIn(f, b, S[p])

(* Tree for any FAT and blocks.                                            *)
Listing(s) ==
  {s[p] : p \in {p \in DOMAIN s : Active(s[p]) /\ \A q \in 1..p-1 : s[q].kind # "end"}}
ListedIn(f, b, d) == Listing(SlotsIn(f, b, d))
Shown(f, b, s) ==
  CASE s.kind = "dir" -> <<"dir", s.first>>
    [] s.kind = "file" /\ (s.first # 0 /\ s.first \notin {c \in Clusters : f[c] # Free}) -> <<"lost">>
    [] s.kind = "file" /\ ~(s.first # 0 /\ s.first \notin {c \in Clusters : f[c] # Free})
         -> <<"file", DataIn(f, b, s)>>
Showing(f, b, L) == [n \in {s.name : s \in L} |-> Shown(f, b, CHOOSE s \in L : s.name = n)]
TreeOf(f, b) == [d \in DirsOf(f, b) |-> Showing(f, b, ListedIn(f, b, d))]

LEMMA TreeTerms == Tree = TreeOf(fat, disk) /\ Tree' = TreeOf(fat', disk')
<1>1. \A s : Node(s) = Shown(fat, disk, s)
  BY DEF Node, Shown, Read, DataIn, Dangles, Allocated
<1>2. \A d : Listed(d) = ListedIn(fat, disk, d)
  <2>1. \A d : Slots(d) = SlotsIn(fat, disk, d)
    BY Terms
  <2>2. \A d : Listed(d) = Listing(Slots(d))
    BY DEF Listed, Listing
  <2> QED BY <2>1, <2>2 DEF ListedIn
<1>3. Tree = TreeOf(fat, disk)
  <2>1. \A L : [n \in {s.name : s \in L} |-> Node(CHOOSE s \in L : s.name = n)]
               = Showing(fat, disk, L)
    BY <1>1 DEF Showing
  <2>2. Tree = [d \in Dirs |-> Showing(fat, disk, Listed(d))]
    BY <2>1 DEF Tree
  <2> QED BY <1>2, <2>2, Terms DEF TreeOf
<1>4. \A s : Node(s)' = Shown(fat', disk', s)
  BY DEF Node, Shown, Read, DataIn, Dangles, Allocated
<1>5. \A d : Listed(d)' = ListedIn(fat', disk', d)
  <2>1. \A d : Slots(d)' = SlotsIn(fat', disk', d)
    BY DEF Slots, SlotsIn, Flat, Chain, Follow
  <2>2. \A d : Listed(d)' = Listing(Slots(d)')
    BY DEF Listed, Listing
  <2> QED BY <2>1, <2>2 DEF ListedIn
<1>6. Tree' = TreeOf(fat', disk')
  <2>1. \A L : [n \in {s.name : s \in L} |-> Node(CHOOSE s \in L : s.name = n)']
               = Showing(fat', disk', L)
    BY <1>4 DEF Showing
  <2>2. Tree' = [d \in Dirs' |-> Showing(fat', disk', Listed(d)')]
    BY <2>1 DEF Tree
  <2> QED BY <1>5, <2>2, NextTerms DEF TreeOf
<1> QED BY <1>3, <1>6

LEMMA OneShown ==
  ASSUME NEW f, NEW b, NEW d, NEW t, NEW u, Shows(f, b, d, t), Shows(f, b, d, u)
  PROVE  t = u
<1> DEFINE S == SlotsIn(f, b, d)
           N == {S[p].name : p \in Live(S)}
<1>1. t = [n \in N |-> t[n]] /\ u = [n \in N |-> u[n]]
  BY DEF Shows
<1>2. \A p \in Live(S) : t[S[p].name] = NodeIn(f, b, S[p]) /\ u[S[p].name] = NodeIn(f, b, S[p])
  BY DEF Shows
<1> HIDE DEF S
<1>3. \A n \in N : t[n] = u[n]
  BY <1>2
<1> HIDE DEF N
<1> QED BY <1>1, <1>3

LEMMA TreeIs ==
  ASSUME NEW f, NEW b, NEW D, NEW H, Vol(f, b, D, H)
  PROVE  /\ TreeOf(f, b) = [d \in D |-> TreeOf(f, b)[d]]
         /\ \A d \in D : Shows(f, b, d, TreeOf(f, b)[d])
<1>1. TreeOf(f, b) = [d \in D |-> Showing(f, b, ListedIn(f, b, d))]
  BY VolDirs DEF TreeOf
<1>2. ASSUME NEW d \in D PROVE Shows(f, b, d, Showing(f, b, ListedIn(f, b, d)))
  <2> DEFINE S == SlotsIn(f, b, d)
             L == ListedIn(f, b, d)
             t == Showing(f, b, L)
  <2>1. PICK m \in Nat : DOMAIN S = 1..m
    BY SlotCount DEF Vol
  <2>2. NoneBehindEnd(S) /\ OneOfAName(S)
    BY DEF Vol
  <2>3. \A p \in Live(S) : Shown(f, b, S[p]) = NodeIn(f, b, S[p])
    <3> SUFFICES ASSUME NEW p \in Live(S) PROVE Shown(f, b, S[p]) = NodeIn(f, b, S[p])
      OBVIOUS
    <3>1. PICK s : s = S[p] /\ s \in EntriesOf(f, b)
      BY EntriesAre
    <3>2. /\ s.kind = "dir" \/ s.kind = "file"
          /\ s.kind = "file" => s.first \in (H \ D) \cup {0} \cup FreeClusters(f)
      BY <3>1, EntryNames DEF Active
    <3>3. /\ H \subseteq Clusters /\ 0 \notin Clusters
          /\ \A h \in H : f[h] # Free
      <4>1. Chains(f, H) /\ H \subseteq Clusters /\ 0 \notin Clusters
        BY VolumeAssumption DEF Vol, Chains, Clusters
      <4> QED BY <4>1, HeadsTaken
    <3>4. s.kind = "file" =>
            (s.first \in FreeClusters(f)
               <=> s.first # 0 /\ s.first \notin {c \in Clusters : f[c] # Free})
      BY <3>2, <3>3 DEF FreeClusters
    <3>5. Shown(f, b, s) = NodeIn(f, b, s)
      BY <3>2, <3>4 DEF Shown, NodeIn, Store!Dir, Store!Lost, Store!File
    <3> QED BY <3>1, <3>5
  <2>4. ListedIn(f, b, d) = Listing(S)
    BY DEF ListedIn
  <2> HIDE DEF S
  <2>5. \A p \in Live(S) : \A q \in 1..p-1 : S[q].kind # "end"
    BY <2>1, <2>2 DEF NoneBehindEnd, Live
  <2>6. L = {S[p] : p \in Live(S)}
    BY <2>4, <2>5 DEF Listing, Live
  <2> HIDE DEF L
  <2>7. t = [n \in {s.name : s \in L} |-> t[n]]
    BY DEF Showing
  <2>8. {s.name : s \in L} = {S[p].name : p \in Live(S)}
    BY <2>6
  <2>9. ASSUME NEW p \in Live(S) PROVE t[S[p].name] = NodeIn(f, b, S[p])
    <3>1. \A s \in L : s.name = S[p].name => s = S[p]
      BY <2>2, <2>6 DEF OneOfAName, Live
    <3>2. S[p] \in L
      BY <2>6
    <3>3. (CHOOSE s \in L : s.name = S[p].name) = S[p]
      BY <3>1, <3>2
    <3>4. t[S[p].name] = Shown(f, b, S[p])
      BY <3>2, <3>3 DEF Showing
    <3> QED BY <2>3, <3>4
  <2> HIDE DEF t
  <2> QED BY <2>7, <2>8, <2>9 DEF Shows, S, t, L
<1> HIDE DEF Showing
<1> QED BY <1>1, <1>2

LEMMA TreeFrom ==
  ASSUME NEW f, NEW b, NEW D, NEW H, Vol(f, b, D, H),
         NEW T, T = [d \in D |-> T[d]], \A d \in D : Shows(f, b, d, T[d])
  PROVE  TreeOf(f, b) = T
<1>1. \A d \in D : TreeOf(f, b)[d] = T[d]
  BY TreeIs, OneShown
<1> QED BY <1>1, TreeIs

(* What an entry stands for comes from its chain and the clusters in it.   *)
LEMMA NodeSame ==
  ASSUME NEW f, NEW b, NEW g, NEW e, NEW s, NEW cs,
         \/ s.kind = "dir"
         \/ s.first \in FreeClusters(f) /\ s.first \in FreeClusters(g)
         \/ /\ s.first \notin FreeClusters(f) /\ s.first \notin FreeClusters(g)
            /\ Chain(f, s.first) = cs /\ Chain(g, s.first) = cs
            /\ \A i \in 1..s.size : e[cs[i]] = b[cs[i]]
  PROVE  NodeIn(g, e, s) = NodeIn(f, b, s)
<1>1. CASE \/ s.kind = "dir"
           \/ s.first \in FreeClusters(f) /\ s.first \in FreeClusters(g)
  BY <1>1 DEF NodeIn
<1>2. CASE /\ s.first \notin FreeClusters(f) /\ s.first \notin FreeClusters(g)
           /\ Chain(f, s.first) = cs /\ Chain(g, s.first) = cs
           /\ \A i \in 1..s.size : e[cs[i]] = b[cs[i]]
  <2>1. DataIn(g, e, s) = DataIn(f, b, s)
    BY <1>2 DEF DataIn
  <2>2. s.first \notin FreeClusters(f) /\ s.first \notin FreeClusters(g)
    BY <1>2
  <2> QED BY <2>1, <2>2 DEF NodeIn
<1> QED BY <1>1, <1>2

(* A file in clusters that a step leaves alone is the file it was.         *)
LEMMA NewNode ==
  ASSUME NEW g, NEW a, NEW e, NEW K, NEW x, g \in FatType, Chains(g, K),
         x.first \in K \cup {0}, x.first \notin FreeClusters(g),
         Len(Chain(g, x.first)) = x.size,
         x.first \in K => \A c \in On(g, x.first) : e[c] = a[c]
  PROVE  NodeIn(g, e, x) = NodeIn(g, a, x)
<1>1. PICK cs : cs = Chain(g, x.first)
  OBVIOUS
<1>2. \A i \in 1..x.size : e[cs[i]] = a[cs[i]]
  <2>1. CASE x.first = 0
    <3>1. x.size = 0
      BY <2>1, ChainOfZero
    <3> QED BY <3>1
  <2>2. CASE x.first \in K
    <3>1. cs \in Seq(Clusters) /\ x.size = Len(cs)
      BY <1>1, <2>2 DEF Chains, IsChain
    <3> QED BY <1>1, <2>2, <3>1, IntoSet DEF On
  <2> QED BY <2>1, <2>2
<1> QED BY <1>1, <1>2, NodeSame

(* The other entries stand for what they stood for.                        *)
LEMMA NodesStay ==
  ASSUME NEW f, NEW b, NEW D, NEW H, Vol(f, b, D, H),
         NEW g, NEW e, NEW E, NEW K, NEW d, NEW p, NEW x, NEW New,
         Rewired(f, b, D, H, g, e, E, K, d, p, x, New),
         NEW h \in D, NEW q \in Live(SlotsIn(f, b, h)), ~(h = d /\ q = p)
  PROVE  NodeIn(g, e, SlotsIn(f, b, h)[q]) = NodeIn(f, b, SlotsIn(f, b, h)[q])
<1> DEFINE Old == Named(f, b, d, p)
<1>1. PICK s : s = SlotsIn(f, b, h)[q]
  OBVIOUS
<1>2. \/ s.first = 0
      \/ s.first \in H \ Old
      \/ s.first \in FreeClusters(f) /\ s.first \in FreeClusters(g)
  BY <1>1, RewiredOthers
<1>3. /\ s.kind = "dir" \/ s.kind = "file"
      /\ s.kind = "file" =>
           /\ s.first \in (H \ D) \cup {0} \cup FreeClusters(f)
           /\ s.first \notin FreeClusters(f) => Len(Chain(f, s.first)) = s.size
  BY <1>1, EntriesAre, EntryNames DEF Active
<1>4. /\ Chains(f, H) /\ Chains(g, K) /\ 0 \notin Clusters /\ K = (H \ Old) \cup New
      /\ f \in FatType /\ g \in FatType
      /\ \A k \in H : k \notin D /\ k \notin Old =>
           Chain(g, k) = Chain(f, k) /\ \A c \in On(f, k) : e[c] = b[c]
  BY VolumeAssumption DEF Vol, Rewired, Clusters
<1> HIDE DEF Old
<1>5. (\A k \in H : k \notin FreeClusters(f)) /\ (\A k \in K : k \notin FreeClusters(g))
  BY <1>4, HeadsTaken DEF FreeClusters
<1>6. 0 \notin FreeClusters(f) /\ 0 \notin FreeClusters(g)
  BY <1>4 DEF FreeClusters
<1>7. CASE s.kind = "file" /\ s.first = 0
  <2>1. Chain(f, 0) = <<>> /\ Chain(g, 0) = <<>>
    BY <1>4, ChainOfZero
  <2>2. s.size = 0
    BY <1>3, <1>6, <1>7, <2>1
  <2> QED BY <1>1, <1>6, <1>7, <2>1, <2>2, NodeSame
<1>8. CASE s.kind = "file" /\ s.first \in H /\ s.first \notin D /\ s.first \notin Old
  <2>1. PICK cs : cs = Chain(f, s.first) /\ cs = Chain(g, s.first)
    BY <1>4, <1>8
  <2>2. s.first \notin FreeClusters(f) /\ s.first \notin FreeClusters(g)
    BY <1>4, <1>5, <1>8
  <2>3. s.size = Len(cs) /\ cs \in Seq(Clusters)
    BY <1>3, <1>4, <1>8, <2>1, <2>2 DEF Chains, IsChain
  <2>4. \A i \in 1..s.size : e[cs[i]] = b[cs[i]]
    BY <1>4, <1>8, <2>1, <2>3, IntoSet DEF On
  <2>5. NodeIn(g, e, s) = NodeIn(f, b, s)
    <3>1. /\ s.first \notin FreeClusters(f) /\ s.first \notin FreeClusters(g)
          /\ Chain(f, s.first) = cs /\ Chain(g, s.first) = cs
          /\ \A i \in 1..s.size : e[cs[i]] = b[cs[i]]
      BY <2>1, <2>2, <2>4
    <3> QED BY <3>1, NodeSame
  <2> QED BY <1>1, <2>5
<1>9. CASE \/ s.kind = "dir"
           \/ s.first \in FreeClusters(f) /\ s.first \in FreeClusters(g)
  BY <1>1, <1>9, NodeSame
<1> QED BY <1>2, <1>3, <1>4, <1>5, <1>6, <1>7, <1>8, <1>9

(* The map t of a directory with slots S, once slot p holds x, which       *)
(* stands for node.                                                        *)
Rebound(t, S, p, x, node) ==
  LET kept == IF p \in Live(S) THEN Store!Unbind(t, S[p].name) ELSE t
  IN  IF Active(x) THEN Store!Bind(kept, x.name, node) ELSE kept

LEMMA ReboundShown ==
  ASSUME NEW f, NEW b, NEW d, NEW g, NEW e, NEW p, NEW x,
         OneOfAName(SlotsIn(f, b, d)),
         p \in DOMAIN SlotsIn(g, e, d), SlotsIn(g, e, d)[p] = x,
         \A q : q # p => (q \in Live(SlotsIn(f, b, d)) <=> q \in Live(SlotsIn(g, e, d))),
         \A q \in Live(SlotsIn(f, b, d)) : q # p => SlotsIn(g, e, d)[q] = SlotsIn(f, b, d)[q],
         \A q \in Live(SlotsIn(f, b, d)) : q # p =>
           NodeIn(g, e, SlotsIn(f, b, d)[q]) = NodeIn(f, b, SlotsIn(f, b, d)[q]),
         Active(x) => \A q \in Live(SlotsIn(f, b, d)) : q # p => SlotsIn(f, b, d)[q].name # x.name,
         NEW t, Shows(f, b, d, t)
  PROVE  Shows(g, e, d, Rebound(t, SlotsIn(f, b, d), p, x, NodeIn(g, e, x)))
<1> DEFINE S == SlotsIn(f, b, d)
           T == SlotsIn(g, e, d)
           node == NodeIn(g, e, x)
           kept == IF p \in Live(S) THEN Store!Unbind(t, S[p].name) ELSE t
           u == Rebound(t, S, p, x, node)
           N == {S[q].name : q \in Live(S)}
           O == {S[q].name : q \in Live(S) \ {p}}
<1>1. /\ t = [n \in N |-> t[n]]
      /\ \A q \in Live(S) : t[S[q].name] = NodeIn(f, b, S[q])
  BY DEF Shows
<1>2. /\ p \in DOMAIN T /\ T[p] = x
      /\ \A q : q # p => (q \in Live(S) <=> q \in Live(T))
      /\ \A q \in Live(S) : q # p => T[q] = S[q] /\ NodeIn(g, e, S[q]) = NodeIn(f, b, S[q])
      /\ Active(x) => \A q \in Live(S) : q # p => S[q].name # x.name
      /\ OneOfAName(S)
  OBVIOUS
<1> HIDE DEF S, T
<1>3. p \in Live(T) <=> Active(x)
  BY <1>2 DEF Live
<1>4. kept = [n \in O |-> t[n]]
  <2>1. CASE p \in Live(S)
    <3>1. DOMAIN t = N
      BY <1>1
    <3>2. O = N \ {S[p].name}
      BY <1>2, <2>1 DEF OneOfAName, Live
    <3> HIDE DEF N, O
    <3> QED BY <2>1, <3>1, <3>2 DEF Store!Unbind
  <2>2. CASE p \notin Live(S)
    <3>1. O = N
      BY <2>2
    <3> HIDE DEF N, O
    <3> QED BY <1>1, <2>2, <3>1
  <2> QED BY <2>1, <2>2
<1>5. u = IF Active(x) THEN Store!Bind(kept, x.name, node) ELSE kept
  BY DEF Rebound
<1> HIDE DEF kept, u, node
<1>6. u = IF Active(x) THEN [n \in O \cup {x.name} |-> IF n = x.name THEN node ELSE t[n]]
                       ELSE [n \in O |-> t[n]]
  <2>1. DOMAIN kept = O /\ \A n \in O : kept[n] = t[n]
    BY <1>4
  <2> HIDE DEF O
  <2>2. [n \in DOMAIN kept \cup {x.name} |-> IF n = x.name THEN node ELSE kept[n]]
        = [n \in O \cup {x.name} |-> IF n = x.name THEN node ELSE t[n]]
    BY <2>1
  <2>3. Store!Bind(kept, x.name, node)
        = [n \in O \cup {x.name} |-> IF n = x.name THEN node ELSE t[n]]
    BY <2>2 DEF Store!Bind
  <2> QED BY <1>4, <1>5, <2>3
<1> DEFINE M == {T[q].name : q \in Live(T)}
<1>7. M = IF Active(x) THEN O \cup {x.name} ELSE O
  <2>1. \A q \in Live(S) \ {p} : q \in Live(T) /\ T[q].name = S[q].name
    BY <1>2
  <2>2. \A q \in Live(T) : q # p => q \in Live(S) \ {p} /\ T[q].name = S[q].name
    BY <1>2
  <2> QED BY <1>2, <1>3, <2>1, <2>2
<1>8. ASSUME NEW q \in Live(T) PROVE u[T[q].name] = NodeIn(g, e, T[q])
  <2>1. CASE q = p
    <3>1. Active(x) /\ T[q] = x
      BY <1>2, <1>3, <2>1, <1>8
    <3> HIDE DEF O
    <3> QED BY <1>6, <3>1 DEF node
  <2>2. CASE q # p
    <3>1. /\ q \in Live(S) \ {p} /\ T[q] = S[q] /\ NodeIn(g, e, T[q]) = NodeIn(f, b, S[q])
      BY <1>2, <2>2
    <3>2. S[q].name \in O /\ (Active(x) => S[q].name # x.name)
      BY <1>2, <3>1
    <3> HIDE DEF O
    <3>3. u[S[q].name] = t[S[q].name]
      BY <1>6, <3>2
    <3> QED BY <1>1, <3>1, <3>3
  <2> QED BY <2>1, <2>2
<1>9. u = [n \in M |-> u[n]]
  <2> HIDE DEF O, M
  <2> QED BY <1>6, <1>7
<1> QED BY <1>8, <1>9 DEF Shows, S, T, u, node

(* The tree after the step: d's map changes, a new directory is empty.     *)
Replanted(f, b, D, E, d, p, x, node) ==
  [h \in E |-> IF h \notin D THEN Store!Empty
               ELSE IF h = d THEN Rebound(TreeOf(f, b)[d], SlotsIn(f, b, d), p, x, node)
               ELSE TreeOf(f, b)[h]]

LEMMA SameNode ==
  ASSUME NEW f, NEW b, NEW D, NEW E, NEW d, NEW p, NEW x, NEW u, NEW v, Active(x) => u = v
  PROVE  Replanted(f, b, D, E, d, p, x, u) = Replanted(f, b, D, E, d, p, x, v)
<1>1. \A t, S : Rebound(t, S, p, x, u) = Rebound(t, S, p, x, v)
  BY DEF Rebound
<1> QED BY <1>1 DEF Replanted

LEMMA RewiredTree ==
  ASSUME NEW f, NEW b, NEW D, NEW H, Vol(f, b, D, H),
         NEW g, NEW e, NEW E, NEW K, NEW d, NEW p, NEW x, NEW New,
         Rewired(f, b, D, H, g, e, E, K, d, p, x, New)
  PROVE  TreeOf(g, e) = Replanted(f, b, D, E, d, p, x, NodeIn(g, e, x))
<1> DEFINE R == Replanted(f, b, D, E, d, p, x, NodeIn(g, e, x))
           S(h) == SlotsIn(f, b, h)
           T(h) == SlotsIn(g, e, h)
<1>1. Vol(g, e, E, K)
  BY RewiredVol
<1>2. /\ d \in D /\ d \in E /\ Edited(S(d), T(d), p, x)
      /\ \A h \in D : h \in E /\ h # d => T(h) = S(h)
      /\ \A h \in E : h \notin D => Live(T(h)) = {}
      /\ Active(x) => \A q \in Live(S(d)) : q # p => S(d)[q].name # x.name
  BY DEF Rewired
<1>3. \A h \in D : Shows(f, b, h, TreeOf(f, b)[h]) /\ OneOfAName(S(h))
  BY TreeIs DEF Vol
<1>4. /\ \A h \in E : \A q \in Live(T(h)) :
           ~(h = d /\ q = p) => h \in D /\ q \in Live(S(h)) /\ T(h)[q] = S(h)[q]
      /\ \A h \in D : \A q \in Live(S(h)) :
           ~(h = d /\ q = p) => h \in E /\ q \in Live(T(h)) /\ T(h)[q] = S(h)[q]
  BY RewiredOthers
<1>5. \A h \in D : \A q \in Live(S(h)) :
        ~(h = d /\ q = p) => NodeIn(g, e, S(h)[q]) = NodeIn(f, b, S(h)[q])
  BY NodesStay
<1>6. R = [h \in E |-> R[h]]
  BY DEF Replanted
<1>7. ASSUME NEW h \in E PROVE Shows(g, e, h, R[h])
  <2>1. CASE h \notin D
    <3>1. R[h] = Store!Empty
      BY <2>1 DEF Replanted
    <3>2. Live(T(h)) = {}
      BY <1>2, <2>1
    <3>3. Store!Empty = [n \in {T(h)[q].name : q \in Live(T(h))} |-> Store!Empty[n]]
      BY <3>2 DEF Store!Empty
    <3> HIDE DEF R
    <3> QED BY <3>1, <3>2, <3>3 DEF Shows
  <2>2. CASE h \in D /\ h # d
    <3>1. PICK t : t = R[h] /\ t = TreeOf(f, b)[h]
      BY <2>2 DEF Replanted
    <3>2. T(h) = S(h) /\ Shows(f, b, h, t)
      BY <1>2, <1>3, <2>2, <3>1
    <3>3. \A q \in Live(S(h)) : NodeIn(g, e, S(h)[q]) = NodeIn(f, b, S(h)[q])
      BY <1>5, <2>2
    <3>4. Shows(g, e, h, t)
      BY <3>2, <3>3 DEF Shows
    <3> QED BY <3>1, <3>4
  <2>3. CASE h = d
    <3>1. PICK t : t = TreeOf(f, b)[d] /\ R[d] = Rebound(t, S(d), p, x, NodeIn(g, e, x))
      BY <1>2 DEF Replanted
    <3>2. p \in DOMAIN T(d) /\ T(d)[p] = x
      BY <1>2 DEF Edited
    <3>3. \A q : q # p => (q \in Live(S(d)) <=> q \in Live(T(d)))
      BY <1>2, <1>4
    <3>4. \A q \in Live(S(d)) : q # p =>
            T(d)[q] = S(d)[q] /\ NodeIn(g, e, S(d)[q]) = NodeIn(f, b, S(d)[q])
      BY <1>2, <1>4, <1>5
    <3>5. Shows(f, b, d, t) /\ OneOfAName(S(d))
      BY <1>2, <1>3, <3>1
    <3>6. Active(x) => \A q \in Live(S(d)) : q # p => S(d)[q].name # x.name
      BY <1>2
    <3> HIDE DEF R
    <3>7. Shows(g, e, d, Rebound(t, S(d), p, x, NodeIn(g, e, x)))
      BY <3>2, <3>3, <3>4, <3>5, <3>6, ReboundShown
    <3> QED BY <2>3, <3>1, <3>7
  <2> QED BY <2>1, <2>2, <2>3
<1> HIDE DEF R
<1>8. TreeOf(g, e) = R
  BY <1>1, <1>6, <1>7, TreeFrom
<1> QED BY <1>8 DEF R

-----------------------------------------------------------------------------
(* Where a call finds an entry, and where it puts one.                     *)
LEMMA FirstSlotIs ==
  ASSUME NEW T \in SUBSET (Nat \ {0})
  PROVE  /\ FirstSlot(T) = 0 => T = {}
         /\ FirstSlot(T) # 0 => FirstSlot(T) \in T /\ \A q \in T : FirstSlot(T) <= q
<1>1. T # {} => Min(T) \in T /\ Min(T) # 0 /\ \A q \in T : Min(T) <= q
  BY MinIs
<1> QED BY <1>1 DEF FirstSlot

LEMMA FindIs ==
  ASSUME Whole, NEW d \in Dirs, NEW n
  PROVE  /\ Find(d, n) = 0 => \A q \in Live(Slots(d)) : Slots(d)[q].name # n
         /\ Find(d, n) # 0 =>
              /\ Find(d, n) \in Live(Slots(d)) /\ Slots(d)[Find(d, n)].name = n
              /\ \A q \in 1..Find(d, n) - 1 : q \in DOMAIN Slots(d) /\ Slots(d)[q].kind # "end"
<1> DEFINE s == Slots(d)
           T == {q \in DOMAIN s : s[q].kind = "end" \/ (Active(s[q]) /\ s[q].name = n)}
<1>1. PICK m \in Nat : DOMAIN s = 1..m
  BY Terms, FirstSlots DEF Whole, Vol
<1>2. NoneBehindEnd(s)
  BY Terms DEF Whole, Vol
<1>3. Find(d, n) = IF FirstSlot(T) # 0 /\ s[FirstSlot(T)].kind # "end" THEN FirstSlot(T) ELSE 0
  BY DEF Find
<1> HIDE DEF s
<1>4. T \in SUBSET (Nat \ {0})
  BY <1>1
<1>5. T # {} => FirstSlot(T) # 0
  BY <1>4, FirstSlotIs
<1>6. FirstSlot(T) # 0 => FirstSlot(T) \in T /\ \A q \in T : FirstSlot(T) <= q
  BY <1>4, FirstSlotIs
<1> DEFINE p == FirstSlot(T)
<1>7. ASSUME Find(d, n) = 0, NEW q \in Live(s), s[q].name = n PROVE FALSE
  <2>1. q \in T /\ q \in DOMAIN s
    BY <1>7 DEF Live
  <2>2. p # 0 /\ p \in DOMAIN s /\ p <= q
    BY <1>5, <1>6, <2>1
  <2>3. s[p].kind = "end"
    BY <1>3, <1>7, <2>2
  <2>4. p # q /\ p \in Nat /\ q \in Nat
    BY <1>1, <2>1, <2>2, <2>3 DEF Live, Active
  <2> QED BY <1>2, <2>1, <2>2, <2>3, <2>4 DEF NoneBehindEnd, Live
<1>8. ASSUME Find(d, n) # 0
      PROVE  /\ Find(d, n) \in Live(s) /\ s[Find(d, n)].name = n
             /\ \A q \in 1..Find(d, n) - 1 : q \in DOMAIN s /\ s[q].kind # "end"
  <2>1. p # 0 /\ s[p].kind # "end" /\ Find(d, n) = p
    BY <1>3, <1>8
  <2>2. p \in DOMAIN s /\ Active(s[p]) /\ s[p].name = n
    BY <1>6, <2>1
  <2>3. \A q \in T : p <= q
    BY <1>6, <2>1
  <2> HIDE DEF p
  <2>4. p \in 1..m
    BY <1>1, <2>2
  <2>5. ASSUME NEW q \in 1..p - 1 PROVE q \in DOMAIN s /\ s[q].kind # "end"
    <3>1. q \in DOMAIN s /\ ~(p <= q)
      BY <1>1, <2>4
    <3>2. q \notin T
      BY <2>3, <3>1
    <3> QED BY <3>1, <3>2
  <2> QED BY <2>1, <2>2, <2>5 DEF Live
<1> QED BY <1>7, <1>8 DEF s

LEMMA FreeSlotIs ==
  ASSUME Whole, NEW d \in Dirs, NEW g, NEW a, SlotsIn(g, a, d) = Slots(d),
         NEW p, p = FreeSlot(g, a, d)
  PROVE  /\ p = 0 => \A q \in DOMAIN Slots(d) : Slots(d)[q].kind # "end"
         /\ p # 0 =>
              /\ p \in DOMAIN Slots(d) /\ Slots(d)[p].kind \in {"end", "deleted"}
              /\ \A q \in 1..p - 1 : q \in DOMAIN Slots(d) /\ Slots(d)[q].kind # "end"
<1> DEFINE s == Slots(d)
           T == {q \in DOMAIN s : s[q].kind \in {"end", "deleted"}}
<1>1. PICK m \in Nat : DOMAIN s = 1..m
  BY Terms, FirstSlots DEF Whole, Vol
<1>2. p = FirstSlot(T)
  BY DEF FreeSlot
<1> HIDE DEF s
<1>3. T \in SUBSET (Nat \ {0})
  BY <1>1
<1>4. p = 0 => T = {}
  BY <1>2, <1>3, FirstSlotIs
<1>5. p # 0 => p \in T /\ \A q \in T : p <= q
  BY <1>2, <1>3, FirstSlotIs
<1>6. ASSUME p # 0, NEW q \in 1..p - 1 PROVE q \in DOMAIN s /\ s[q].kind # "end"
  <2>1. p \in 1..m
    BY <1>1, <1>5, <1>6
  <2>2. q \in DOMAIN s /\ ~(p <= q)
    BY <1>1, <2>1
  <2> QED BY <1>5, <1>6, <2>2
<1> QED BY <1>4, <1>5, <1>6 DEF s

(* The slots of a directory, one of them rewritten where it is.            *)
LEMMA PutEdited ==
  ASSUME NEW f, NEW b, NEW D, NEW H, Vol(f, b, D, H), NEW d \in D,
         NEW g, Chain(g, d) = Chain(f, d),
         NEW a \in DiskType, \A c \in On(f, d) : a[c] = b[c],
         NEW p \in DOMAIN SlotsIn(f, b, d),
         \A q \in 1..p-1 : q \in DOMAIN SlotsIn(f, b, d) /\ SlotsIn(f, b, d)[q].kind # "end",
         NEW x \in SlotType, x.kind # "data",
         NEW e, e = Put(a, Chain(f, d), p, x)
  PROVE  /\ e \in DiskType /\ \A c \in Clusters : c \notin On(f, d) => e[c] = a[c]
         /\ \A c \in On(f, d) : DirBlock(e[c])
         /\ Edited(SlotsIn(f, b, d), SlotsIn(g, e, d), p, x)
<1> DEFINE s == Chain(f, d)
<1>1. /\ s \in Seq(Clusters) /\ DirBlocks(b, s)
      /\ \A i, j \in 1..Len(s) : s[i] = s[j] => i = j
  BY DirSlots
<1>2. On(f, d) = ToSet(s) /\ SlotsIn(f, b, d) = Flat(b, s) /\ SlotsIn(g, e, d) = Flat(e, s)
  BY DEF On, SlotsIn
<1>3. PICK m \in Nat : 2 <= m /\ DOMAIN Flat(b, s) = 1..m
  <2>1. Chains(f, H) /\ d \in H
    BY DEF Vol
  <2> QED BY <1>2, <2>1, SlotCount
<1>4. Flat(a, s) = Flat(b, s) /\ DirBlocks(a, s)
  BY <1>1, <1>2, FlatSame DEF DirBlocks
<1> HIDE DEF s
<1>5. /\ e \in DiskType /\ DirBlocks(e, s)
      /\ \A c \in Clusters : c \notin ToSet(s) => e[c] = a[c]
      /\ DOMAIN Flat(e, s) = DOMAIN Flat(b, s)
      /\ Flat(e, s)[p] = x
      /\ \A q \in DOMAIN Flat(b, s) : q # p => Flat(e, s)[q] = Flat(b, s)[q]
  BY <1>1, <1>2, <1>4, FlatPut DEF s
<1>6. Edited(Flat(b, s), Flat(e, s), p, x)
  <2>1. /\ p \in DOMAIN Flat(b, s) /\ m <= m
        /\ \A q \in 1..p-1 : q \in DOMAIN Flat(b, s) /\ Flat(b, s)[q].kind # "end"
    BY <1>2, <1>3
  <2> QED BY <1>3, <1>5, <2>1, EditedIs
<1> QED BY <1>2, <1>5, <1>6 DEF DirBlocks

(* The same of a directory that had no room and got one more cluster.      *)
Behind(f, d) == PerCluster * Len(Chain(f, d)) + 1
InTail(a, c, x) == [a EXCEPT ![c] = <<x>> \o Ends(PerCluster - 1)]

LEMMA GrowEdited ==
  ASSUME NEW f, NEW b, NEW D, NEW H, Vol(f, b, D, H), NEW d \in D,
         NEW g, NEW c \in Clusters, c \notin On(f, d), Chain(g, d) = Append(Chain(f, d), c),
         NEW a \in DiskType, \A k \in On(f, d) : a[k] = b[k],
         \A q \in DOMAIN SlotsIn(f, b, d) : SlotsIn(f, b, d)[q].kind # "end",
         NEW x \in SlotType, x.kind # "data",
         NEW e, e = InTail(a, c, x),
         NEW p, p = Behind(f, d)
  PROVE  /\ e \in DiskType /\ \A k \in Clusters : k # c => e[k] = a[k]
         /\ DirBlock(e[c])
         /\ Edited(SlotsIn(f, b, d), SlotsIn(g, e, d), p, x)
<1> DEFINE s == Chain(f, d)
           t == <<x>> \o Ends(PerCluster - 1)
<1>1. s \in Seq(Clusters) /\ DirBlocks(b, s)
  BY DirSlots
<1>2. On(f, d) = ToSet(s) /\ SlotsIn(f, b, d) = Flat(b, s) /\ SlotsIn(g, e, d) = Flat(e, Append(s, c))
  BY DEF On, SlotsIn
<1>3. PICK m \in Nat : 2 <= m /\ m = PerCluster * Len(s) /\ DOMAIN Flat(b, s) = 1..m
  <2>1. Chains(f, H) /\ d \in H
    BY DEF Vol
  <2> QED BY <1>2, <2>1, SlotCount
<1>4. PerCluster \in Nat /\ PerCluster >= 2 /\ End \in SlotType /\ End.kind # "data"
  BY VolumeAssumption DEF SlotType, End, Slot
<1>5. /\ t \in Seq(SlotType) /\ Len(t) = PerCluster /\ t[1] = x
      /\ \A j \in 1..PerCluster : j # 1 => t[j] = End
  <2> DEFINE u == Ends(PerCluster - 1)
  <2>1. /\ u \in Seq(SlotType) /\ Len(u) = PerCluster - 1
        /\ \A i \in 1..PerCluster - 1 : u[i] = End
    BY <1>4 DEF Ends
  <2>2. <<x>> \in Seq(SlotType) /\ Len(<<x>>) = 1 /\ <<x>>[1] = x
    OBVIOUS
  <2> HIDE DEF u
  <2>3. /\ <<x>> \o u \in Seq(SlotType) /\ Len(<<x>> \o u) = PerCluster
        /\ (<<x>> \o u)[1] = x
    BY <1>4, <2>1, <2>2
  <2>4. ASSUME NEW j \in 1..PerCluster, j # 1 PROVE (<<x>> \o u)[j] = End
    <3>1. j - 1 \in 1..PerCluster - 1 /\ (<<x>> \o u)[j] = u[j - 1]
      BY <1>4, <2>1, <2>2, <2>4
    <3> QED BY <2>1, <3>1
  <2> QED BY <2>3, <2>4 DEF u
<1> HIDE DEF t
<1>6. e \in DiskType /\ e[c] = t /\ \A k \in Clusters : k # c => e[k] = a[k]
  BY <1>5 DEF DiskType, t, InTail
<1>7. DirBlock(e[c])
  BY <1>4, <1>5, <1>6 DEF DirBlock
<1> HIDE DEF s
<1>8. \A k \in ToSet(s) : e[k] = b[k]
  <2>1. \A k \in ToSet(s) : k \in Clusters /\ k # c /\ a[k] = b[k]
    BY <1>1, <1>2, InSet
  <2> QED BY <1>6, <2>1
<1>9. /\ DOMAIN Flat(e, Append(s, c)) = 1..m + PerCluster
      /\ \A q \in 1..m : Flat(e, Append(s, c))[q] = Flat(b, s)[q]
      /\ \A j \in 1..PerCluster : Flat(e, Append(s, c))[m + j] = t[j]
  <2>1. FlatGrows(b, e, s, c, m)
    BY <1>1, <1>3, <1>8, FlatGrow
  <2> QED BY <1>6, <2>1 DEF FlatGrows
<1> DEFINE T == Flat(e, Append(s, c))
<1> HIDE DEF T
<1>10. T[p] = x /\ p = m + 1 /\ p \in DOMAIN T
  <2>1. 1 \in 1..PerCluster /\ p = m + 1
    BY <1>3, <1>4 DEF s, Behind
  <2>2. T[m + 1] = t[1]
    BY <1>9, <2>1 DEF T
  <2>3. m + 1 \in 1..m + PerCluster
    BY <1>3, <1>4
  <2> QED BY <1>5, <1>9, <2>1, <2>2, <2>3 DEF T
<1>11. ASSUME NEW q \in DOMAIN T, q # p, q \notin 1..m PROVE T[q] = End
  <2>1. q - m \in 1..PerCluster /\ q - m # 1 /\ q = m + (q - m)
    <3>1. q \in 1..m + PerCluster /\ q # m + 1
      BY <1>9, <1>10, <1>11 DEF T
    <3>2. PICK k \in Nat : k = PerCluster
      BY <1>4
    <3>3. q \in Nat /\ q <= m + k /\ q > m /\ q # m + 1 /\ m \in Nat
      BY <1>3, <1>11, <3>1, <3>2
    <3>4. q - m \in 1..k /\ q - m # 1 /\ q = m + (q - m)
      BY <3>3
    <3> QED BY <3>2, <3>4
  <2> QED BY <1>5, <1>9, <2>1 DEF T
<1>12. m + PerCluster \in Nat /\ m <= m + PerCluster
  BY <1>3, <1>4
<1>13. \A q \in 1..p-1 : q \in 1..m
  BY <1>3, <1>10
<1>14. \A q \in 1..m : q # p /\ T[q] = Flat(b, s)[q]
  <2>1. \A q \in 1..m : q # p
    BY <1>3, <1>10
  <2> QED BY <1>9, <2>1 DEF T
<1>15. Edited(Flat(b, s), T, p, x)
  <2>1. DOMAIN T = 1..m + PerCluster
    BY <1>9 DEF T
  <2>2. \A q \in 1..p-1 : q \in DOMAIN Flat(b, s) /\ Flat(b, s)[q].kind # "end"
    BY <1>2, <1>3, <1>13
  <2> QED BY <1>3, <1>10, <1>11, <1>12, <1>14, <2>1, <2>2, EditedIs
<1> QED BY <1>2, <1>6, <1>7, <1>15 DEF T

(* What a cluster that nobody has holds is nobody's business.              *)
LEMMA FreeBlocks ==
  ASSUME NEW f, NEW b, NEW D, NEW H, Vol(f, b, D, H),
         NEW e \in DiskType, \A c \in Clusters : f[c] # Free => e[c] = b[c]
  PROVE  Vol(f, e, D, H) /\ TreeOf(f, e) = TreeOf(f, b)
<1>1. Chains(f, H) /\ D \subseteq H /\ Blocks(f, b, D, H) /\ Tied(f, b, D, H)
  BY DEF Vol
<1>2. \A h \in H : \A c \in On(f, h) : e[c] = b[c]
  BY <1>1, HeadsTaken
<1>3. Blocks(f, e, D, H)
  BY <1>1, <1>2 DEF Blocks
<1>4. \A d \in D : SlotsIn(f, e, d) = SlotsIn(f, b, d)
  <2> SUFFICES ASSUME NEW d \in D PROVE SlotsIn(f, e, d) = SlotsIn(f, b, d)
    OBVIOUS
  <2>1. Chain(f, d) \in Seq(Clusters) /\ \A c \in ToSet(Chain(f, d)) : e[c] = b[c]
    BY <1>1, <1>2 DEF Chains, IsChain, On
  <2> QED BY <2>1, FlatSame DEF SlotsIn
<1>5. ASSUME NEW d \in D, NEW s, Owns(f, b, D, H, d, s) PROVE Owns(f, e, D, H, d, s)
  BY <1>4, <1>5 DEF Owns
<1>6. Tied(f, e, D, H)
  <2>1. \A d \in D : \A p \in Live(SlotsIn(f, e, d)) : Owns(f, e, D, H, d, SlotsIn(f, e, d)[p])
    BY <1>1, <1>4, <1>5 DEF Tied
  <2>2. \A h \in H \ {Root} :
          \E d \in D : \E p \in Live(SlotsIn(f, e, d)) : SlotsIn(f, e, d)[p].first = h
    BY <1>1, <1>4 DEF Tied
  <2>3. \A d, h \in D : \A p \in Live(SlotsIn(f, e, d)), q \in Live(SlotsIn(f, e, h)) :
          LET x == SlotsIn(f, e, d)[p].first
              y == SlotsIn(f, e, h)[q].first
          IN  x = y /\ x # 0 => d = h /\ p = q
    BY <1>1, <1>4 DEF Tied
  <2> QED BY <2>1, <2>2, <2>3 DEF Tied
<1>7. \A d \in D : NoneBehindEnd(SlotsIn(f, e, d)) /\ OneOfAName(SlotsIn(f, e, d))
  BY <1>4 DEF Vol
<1>8. Vol(f, e, D, H)
  BY <1>1, <1>3, <1>6, <1>7 DEF Vol
<1>9. ASSUME NEW d \in D, NEW p \in Live(SlotsIn(f, b, d))
      PROVE  NodeIn(f, e, SlotsIn(f, b, d)[p]) = NodeIn(f, b, SlotsIn(f, b, d)[p])
  <2>1. PICK s : s = SlotsIn(f, b, d)[p]
    OBVIOUS
  <2>2. /\ s.kind = "dir" \/ s.kind = "file"
        /\ s.kind = "file" =>
             /\ s.first \in H \cup {0} \cup FreeClusters(f)
             /\ s.first \notin FreeClusters(f) => Len(Chain(f, s.first)) = s.size
    BY <2>1, EntriesAre, EntryNames DEF Active
  <2>3. NodeIn(f, e, s) = NodeIn(f, b, s)
    <3>1. CASE s.kind = "dir" \/ s.first \in FreeClusters(f)
      BY <3>1, NodeSame
    <3>2. CASE s.kind = "file" /\ s.first \notin FreeClusters(f)
      <4>1. s.first \in H \cup {0} /\ Len(Chain(f, s.first)) = s.size
        BY <2>2, <3>2
      <4>2. s.first \in H => \A c \in On(f, s.first) : e[c] = b[c]
        BY <1>2
      <4>3. f \in FatType
        BY DEF Vol
      <4> QED BY <1>1, <3>2, <4>1, <4>2, <4>3, NewNode
    <3> QED BY <2>2, <3>1, <3>2
  <2> QED BY <2>1, <2>3
<1>10. TreeOf(f, e) = TreeOf(f, b)
  <2> DEFINE T == TreeOf(f, b)
  <2>1. T = [d \in D |-> T[d]] /\ \A d \in D : Shows(f, b, d, T[d])
    BY TreeIs
  <2> HIDE DEF T
  <2>2. ASSUME NEW d \in D PROVE Shows(f, e, d, T[d])
    <3>1. PICK t : t = T[d] /\ Shows(f, b, d, t)
      BY <2>1
    <3>2. SlotsIn(f, e, d) = SlotsIn(f, b, d)
      BY <1>4
    <3>3. \A p \in Live(SlotsIn(f, b, d)) :
            NodeIn(f, e, SlotsIn(f, b, d)[p]) = NodeIn(f, b, SlotsIn(f, b, d)[p])
      BY <1>9
    <3>4. Shows(f, e, d, t)
      BY <3>1, <3>2, <3>3 DEF Shows
    <3> QED BY <3>1, <3>4
  <2>3. TreeOf(f, e) = T
    BY <1>8, <2>1, <2>2, TreeFrom
  <2> QED BY <2>3 DEF T
<1> QED BY <1>8, <1>10

(* A call before it rewrites the slot: its FAT has the chains it will      *)
(* have, up to one more cluster for d, and its blocks are in place.        *)
Prepared(f, b, D, H, g, a, E, K, d, p, x, New) ==
  LET Old == Named(f, b, d, p)
  IN
  /\ g \in FatType /\ a \in DiskType /\ Chains(g, K) /\ Blocks(g, a, E, K)
  /\ d \in D /\ d \in E /\ Root \in E
  /\ p \in DOMAIN SlotsIn(f, b, d) => SlotsIn(f, b, d)[p].kind # "dot"
  /\ Same(f, g, H \ Old)
  /\ \A h \in H \ Old : \A c \in On(f, h) : a[c] = b[c]
  /\ \A h \in E : h \notin D => Live(SlotsIn(g, a, h)) = {}
  /\ \A h \in D : h \in Old => Live(SlotsIn(f, b, h)) = {}
  /\ New \subseteq {x.first} /\ New \cap (H \ Old) = {}
  /\ K = (H \ Old) \cup New
  /\ E = (D \ Old) \cup (IF x.kind = "dir" THEN New ELSE {})
  /\ x \in SlotType /\ x.kind \notin {"end", "data"}
  /\ Active(x) => \A q \in Live(SlotsIn(f, b, d)) : q # p => SlotsIn(f, b, d)[q].name # x.name
  /\ x.kind = "dir" =>
       /\ Old = {} /\ New = {x.first} /\ x.first # Root
       /\ SlotsIn(g, a, x.first)[1] = Slot("dot", ".", x.first, 0)
       /\ SlotsIn(g, a, x.first)[2] = Slot("dot", "..", ParentRef(d), 0)
  /\ ~Active(x) => New = {}

(* The slots of the other directories stay.                                *)
LEMMA OthersStay ==
  ASSUME NEW f, NEW b, NEW D, NEW H, Vol(f, b, D, H),
         NEW g, NEW a, NEW E, NEW K, NEW d, NEW p, NEW x, NEW New,
         Prepared(f, b, D, H, g, a, E, K, d, p, x, New),
         NEW e, \A h \in E \ {d} : \A c \in On(g, h) : e[c] = a[c]
  PROVE  \A h \in E : h # d =>
           /\ SlotsIn(g, e, h) = SlotsIn(g, a, h)
           /\ h \in D => SlotsIn(g, e, h) = SlotsIn(f, b, h)
<1> DEFINE Old == Named(f, b, d, p)
<1>1. /\ Chains(f, H) /\ D \subseteq H
  BY DEF Vol
<1>2. /\ Chains(g, K) /\ Same(f, g, H \ Old) /\ New \cap (H \ Old) = {}
      /\ \A h \in H \ Old : \A c \in On(f, h) : a[c] = b[c]
      /\ K = (H \ Old) \cup New
      /\ E = (D \ Old) \cup (IF x.kind = "dir" THEN New ELSE {})
  BY DEF Prepared
<1> HIDE DEF Old
<1>3. ASSUME NEW h \in E, h # d PROVE SlotsIn(g, e, h) = SlotsIn(g, a, h)
  <2>1. h \in K
    BY <1>1, <1>2
  <2>2. Chain(g, h) \in Seq(Clusters) /\ \A c \in ToSet(Chain(g, h)) : e[c] = a[c]
    BY <1>2, <1>3, <2>1 DEF Chains, IsChain, On
  <2> QED BY <2>2, FlatSame DEF SlotsIn
<1>4. ASSUME NEW h \in E, h \in D PROVE SlotsIn(g, a, h) = SlotsIn(f, b, h)
  <2>1. h \in H \ Old
    <3>1. x.kind = "dir" => Old = {}
      BY DEF Prepared, Old
    <3> QED BY <1>1, <1>2, <1>4, <3>1
  <2>2. Chain(g, h) = Chain(f, h)
    BY <1>2, <2>1 DEF Same
  <2>3. Chain(f, h) \in Seq(Clusters) /\ \A c \in ToSet(Chain(f, h)) : a[c] = b[c]
    BY <1>1, <1>2, <2>1 DEF Chains, IsChain, On
  <2> QED BY <2>2, <2>3, FlatSame DEF SlotsIn
<1> QED BY <1>3, <1>4

(* A slot of d rewritten where it is.                                      *)
LEMMA InPlace ==
  ASSUME NEW f, NEW b, NEW D, NEW H, Vol(f, b, D, H),
         NEW g, NEW a, NEW E, NEW K, NEW d, NEW p, NEW x, NEW New,
         Prepared(f, b, D, H, g, a, E, K, d, p, x, New),
         OthersDangle(f, b, D, g, d, p),
         x.kind = "file" =>
           /\ x.first \in New \cup {0} \cup (FreeClusters(g) \cap Named(f, b, d, p))
           /\ x.first \notin FreeClusters(g) => Len(Chain(g, x.first)) = x.size,
         p \in DOMAIN SlotsIn(f, b, d),
         \A q \in 1..p-1 : q \in DOMAIN SlotsIn(f, b, d) /\ SlotsIn(f, b, d)[q].kind # "end",
         NEW e, e = Put(a, Chain(f, d), p, x)
  PROVE  /\ Vol(g, e, E, K)
         /\ TreeOf(g, e) = Replanted(f, b, D, E, d, p, x, NodeIn(g, a, x))
<1> DEFINE Old == Named(f, b, d, p)
<1>1. /\ Chains(f, H) /\ D \subseteq H
  BY DEF Vol
<1>2. /\ g \in FatType /\ a \in DiskType /\ Chains(g, K) /\ Blocks(g, a, E, K)
      /\ d \in D /\ d \in E /\ Same(f, g, H \ Old)
      /\ \A h \in H \ Old : \A c \in On(f, h) : a[c] = b[c]
      /\ New \subseteq {x.first} /\ New \cap (H \ Old) = {} /\ K = (H \ Old) \cup New
      /\ E = (D \ Old) \cup (IF x.kind = "dir" THEN New ELSE {})
      /\ x.kind = "dir" => Old = {}
      /\ x \in SlotType /\ x.kind \notin {"end", "data"}
  BY DEF Prepared
<1>3. d \in H \ Old /\ d \in K
  BY <1>1, <1>2
<1> HIDE DEF Old
<1>4. Chain(g, d) = Chain(f, d) /\ On(g, d) = On(f, d)
  BY <1>2, <1>3 DEF Same, On
<1>5. /\ e \in DiskType /\ \A c \in Clusters : c \notin On(f, d) => e[c] = a[c]
      /\ \A c \in On(f, d) : DirBlock(e[c])
      /\ Edited(SlotsIn(f, b, d), SlotsIn(g, e, d), p, x)
  BY <1>2, <1>3, <1>4, PutEdited
<1>6. \A h \in K \ {d} : \A c \in On(g, h) : e[c] = a[c]
  BY <1>2, <1>3, <1>4, <1>5, HeadsTaken DEF Chains
<1>7. Blocks(g, e, E, K)
  <2>1. \A h \in E : \A c \in On(g, h) : DirBlock(e[c])
    BY <1>1, <1>2, <1>4, <1>5, <1>6 DEF Blocks
  <2>2. \A h \in K \ E : \A c \in On(g, h) : FileBlock(e[c])
    BY <1>2, <1>6 DEF Blocks
  <2> QED BY <2>1, <2>2 DEF Blocks
<1>8. \A h \in E : h # d =>
        /\ SlotsIn(g, e, h) = SlotsIn(g, a, h)
        /\ h \in D => SlotsIn(g, e, h) = SlotsIn(f, b, h)
  <2>1. \A h \in E \ {d} : \A c \in On(g, h) : e[c] = a[c]
    BY <1>1, <1>2, <1>6
  <2> QED BY <2>1, OthersStay
<1>9. x.kind = "dir" => x.first # d /\ x.first \in E
  BY <1>1, <1>2, <1>3 DEF Prepared
<1>10. Rewired(f, b, D, H, g, e, E, K, d, p, x, New)
  <2>1. /\ \A h \in D : h \in E /\ h # d => SlotsIn(g, e, h) = SlotsIn(f, b, h)
        /\ \A h \in E : h \notin D => Live(SlotsIn(g, e, h)) = {}
    BY <1>2, <1>8 DEF Prepared
  <2>2. \A h \in H : h \notin D /\ h \notin Old =>
          Chain(g, h) = Chain(f, h) /\ \A c \in On(f, h) : e[c] = b[c]
    <3>1. \A h \in H \ Old : Chain(g, h) = Chain(f, h) /\ On(g, h) = On(f, h)
      BY <1>2 DEF Same, On
    <3> QED BY <1>2, <1>6, <3>1
  <2>3. x.kind = "dir" =>
       /\ New = {x.first} /\ x.first # Root
       /\ SlotsIn(g, e, x.first)[1] = Slot("dot", ".", x.first, 0)
       /\ SlotsIn(g, e, x.first)[2] = Slot("dot", "..", ParentRef(d), 0)
    BY <1>8, <1>9 DEF Prepared
  <2> QED BY <1>2, <1>5, <1>7, <2>1, <2>2, <2>3 DEF Rewired, Prepared, Old
<1>11. Active(x) => NodeIn(g, e, x) = NodeIn(g, a, x)
  <2> SUFFICES ASSUME Active(x) PROVE NodeIn(g, e, x) = NodeIn(g, a, x)
    OBVIOUS
  <2>1. CASE x.kind = "dir" \/ x.first \in FreeClusters(g)
    BY <2>1, NodeSame
  <2>2. CASE x.kind = "file" /\ x.first \notin FreeClusters(g)
    <3>1. x.first \in New \cup {0} /\ Len(Chain(g, x.first)) = x.size
      BY <2>2
    <3>2. x.first \in New => x.first \in K \ {d}
      BY <1>2, <1>3
    <3>3. x.first \in K \cup {0} /\ (x.first \in K => x.first \in K \ {d})
      BY <1>2, <3>1, <3>2, VolumeAssumption DEF Chains, Clusters
    <3>4. x.first \in K => \A c \in On(g, x.first) : e[c] = a[c]
      BY <1>6, <3>3
    <3> QED BY <1>2, <2>2, <3>1, <3>3, <3>4, NewNode
  <2> QED BY <2>1, <2>2 DEF Active
<1>12. TreeOf(g, e) = Replanted(f, b, D, E, d, p, x, NodeIn(g, e, x))
  BY <1>10, RewiredTree
<1>13. TreeOf(g, e) = Replanted(f, b, D, E, d, p, x, NodeIn(g, a, x))
  BY <1>11, <1>12, SameNode
<1> QED BY <1>10, <1>13, RewiredVol

(* An entry behind the last of a directory that had no room: it gets one   *)
(* more cluster.                                                           *)
LEMMA AppendSet ==
  ASSUME NEW S, NEW s \in Seq(S), NEW c \in S
  PROVE  ToSet(Append(s, c)) = ToSet(s) \cup {c}
<1>1. /\ Append(s, c) \in Seq(S) /\ Len(Append(s, c)) = Len(s) + 1
      /\ Append(s, c)[Len(s) + 1] = c /\ Len(s) \in Nat
      /\ \A i \in 1..Len(s) : Append(s, c)[i] = s[i]
  OBVIOUS
<1> DEFINE t == Append(s, c)
<1> HIDE DEF t
<1>2. ASSUME NEW k \in ToSet(t) PROVE k \in ToSet(s) \cup {c}
  <2>1. PICK i \in 1..Len(t) : k = t[i]
    <3>1. t \in Seq(S)
      BY <1>1 DEF t
    <3> QED BY <3>1, InSet
  <2>2. CASE i = Len(s) + 1
    BY <1>1, <2>1, <2>2 DEF t
  <2>3. CASE i # Len(s) + 1
    <3>1. i \in 1..Len(s)
      BY <1>1, <2>1, <2>3 DEF t
    <3>2. k = s[i]
      BY <1>1, <2>1, <3>1 DEF t
    <3> QED BY <3>1, <3>2, IntoSet
  <2> QED BY <2>2, <2>3
<1>3. ASSUME NEW k \in ToSet(s) PROVE k \in ToSet(t)
  <2>1. PICK i \in 1..Len(s) : k = s[i]
    BY InSet
  <2>2. i \in 1..Len(t) /\ k = t[i] /\ t \in Seq(S)
    BY <1>1, <2>1 DEF t
  <2> QED BY <2>2, IntoSet
<1>4. c \in ToSet(t)
  <2>1. Len(s) + 1 \in 1..Len(t) /\ t[Len(s) + 1] = c /\ t \in Seq(S)
    BY <1>1 DEF t
  <2> QED BY <2>1, IntoSet
<1> QED BY <1>2, <1>3, <1>4 DEF t

LEMMA InNewCluster ==
  ASSUME NEW f, NEW b, NEW D, NEW H, Vol(f, b, D, H),
         NEW g, NEW a, NEW E, NEW K, NEW d, NEW p, NEW x, NEW New,
         Prepared(f, b, D, H, g, a, E, K, d, p, x, New),
         NEW c \in FreeClusters(g), OthersDangle(f, b, D, Grown(g, d, c), d, p),
         x.kind = "file" =>
           x.first \in New \cup {0} /\ Len(Chain(g, x.first)) = x.size,
         p = Behind(f, d),
         \A q \in DOMAIN SlotsIn(f, b, d) : SlotsIn(f, b, d)[q].kind # "end",
         NEW e, e = InTail(a, c, x)
  PROVE  /\ Vol(Grown(g, d, c), e, E, K)
         /\ TreeOf(Grown(g, d, c), e) = Replanted(f, b, D, E, d, p, x, NodeIn(g, a, x))
<1> DEFINE Old == Named(f, b, d, p)
           G == Grown(g, d, c)
<1>1. /\ Chains(f, H) /\ D \subseteq H /\ f \in FatType
  BY DEF Vol
<1>2. /\ g \in FatType /\ a \in DiskType /\ Chains(g, K) /\ Blocks(g, a, E, K)
      /\ d \in D /\ d \in E /\ Same(f, g, H \ Old)
      /\ \A h \in H \ Old : \A k \in On(f, h) : a[k] = b[k]
      /\ New \subseteq {x.first} /\ New \cap (H \ Old) = {} /\ K = (H \ Old) \cup New
      /\ E = (D \ Old) \cup (IF x.kind = "dir" THEN New ELSE {})
      /\ x.kind = "dir" => Old = {}
      /\ x \in SlotType /\ x.kind \notin {"end", "data"}
  BY DEF Prepared
<1>3. d \in H \ Old /\ d \in K /\ E \subseteq K
  BY <1>1, <1>2
<1> HIDE DEF Old
<1>4. Chain(g, d) = Chain(f, d) /\ On(g, d) = On(f, d)
  BY <1>2, <1>3 DEF Same, On
<1>5. /\ G \in FatType /\ Chains(G, K) /\ Same(g, G, K \ {d})
      /\ Chain(G, d) = Append(Chain(g, d), c)
      /\ \A k \in Clusters : G[k] = Free <=> g[k] = Free /\ k # c
  <2>1. g \in FatType /\ Chains(g, K) /\ d \in K /\ c \in FreeClusters(g)
    BY <1>2, <1>3
  <2>2. GrownFrom(g, G, K, d, c)
    BY <2>1, GrownChains
  <2> HIDE DEF G
  <2> QED BY <2>2 DEF GrownFrom
<1> HIDE DEF G
<1>6. c \in Clusters /\ \A h \in K : c \notin On(g, h)
  BY <1>2, HeadsTaken DEF FreeClusters
<1>7. /\ e \in DiskType /\ \A k \in Clusters : k # c => e[k] = a[k]
      /\ DirBlock(e[c])
      /\ Edited(SlotsIn(f, b, d), SlotsIn(G, e, d), p, x)
  <2>1. c \notin On(f, d) /\ Chain(G, d) = Append(Chain(f, d), c)
    BY <1>3, <1>4, <1>5, <1>6
  <2>2. \A k \in On(f, d) : a[k] = b[k]
    BY <1>2, <1>3
  <2>3. x \in SlotType /\ x.kind # "data" /\ a \in DiskType /\ d \in D /\ c \in Clusters
    BY <1>2, <1>6
  <2> QED BY <2>1, <2>2, <2>3, GrowEdited
<1>8. /\ \A h \in K \ {d} : On(G, h) = On(g, h) /\ Chain(G, h) = Chain(g, h)
      /\ On(G, d) = On(g, d) \cup {c}
  <2>1. \A h \in K \ {d} : On(G, h) = On(g, h) /\ Chain(G, h) = Chain(g, h)
    BY <1>5 DEF Same, On
  <2>2. Chain(g, d) \in Seq(Clusters)
    BY <1>2, <1>3 DEF Chains, IsChain
  <2>3. ToSet(Append(Chain(g, d), c)) = ToSet(Chain(g, d)) \cup {c}
    BY <1>6, <2>2, AppendSet
  <2> QED BY <1>5, <2>1, <2>3 DEF On
<1>9. \A h \in K \ {d} : \A k \in On(G, h) : e[k] = a[k]
  BY <1>2, <1>6, <1>7, <1>8, HeadsTaken
<1>10. Blocks(G, e, E, K)
  <2>1. \A h \in E \ {d} : \A k \in On(G, h) : DirBlock(e[k])
    BY <1>2, <1>3, <1>8, <1>9 DEF Blocks
  <2>2. \A k \in On(G, d) : DirBlock(e[k])
    <3>1. \A k \in On(g, d) : DirBlock(a[k]) /\ k \in Clusters /\ k # c
      BY <1>2, <1>3, <1>6, HeadsTaken DEF Blocks
    <3> QED BY <1>7, <1>8, <3>1
  <2>3. \A h \in K \ E : \A k \in On(G, h) : FileBlock(e[k])
    BY <1>2, <1>8, <1>9 DEF Blocks
  <2> QED BY <2>1, <2>2, <2>3 DEF Blocks
<1>11. \A h \in E : h # d =>
        /\ SlotsIn(G, e, h) = SlotsIn(g, a, h)
        /\ h \in D => SlotsIn(G, e, h) = SlotsIn(f, b, h)
  <2>1. \A h \in E \ {d} : \A k \in On(g, h) : e[k] = a[k]
    BY <1>3, <1>8, <1>9
  <2>2. \A h \in E : h # d =>
          /\ SlotsIn(g, e, h) = SlotsIn(g, a, h)
          /\ h \in D => SlotsIn(g, e, h) = SlotsIn(f, b, h)
    BY <2>1, OthersStay
  <2>3. \A h \in E : h # d => SlotsIn(G, e, h) = SlotsIn(g, e, h)
    BY <1>3, <1>8 DEF SlotsIn
  <2> QED BY <2>2, <2>3
<1>12. x.kind = "dir" => x.first # d /\ x.first \in E
  BY <1>1, <1>2, <1>3 DEF Prepared
<1>13. x.kind = "file" =>
         /\ x.first \in New \cup {0}
         /\ x.first \notin FreeClusters(G) => Len(Chain(G, x.first)) = x.size
  <2> SUFFICES ASSUME x.kind = "file" PROVE Len(Chain(G, x.first)) = x.size /\ x.first \in New \cup {0}
    OBVIOUS
  <2>1. CASE x.first = 0
    <3>1. Chain(G, 0) = Chain(g, 0)
      BY <1>2, <1>5, ChainOfZero
    <3> QED BY <2>1, <3>1
  <2>2. CASE x.first \in New
    <3>1. x.first \in K \ {d}
      BY <1>2, <1>3, <2>2
    <3> QED BY <1>8, <2>2, <3>1
  <2> QED BY <2>1, <2>2
<1>14. Rewired(f, b, D, H, G, e, E, K, d, p, x, New)
  <2>1. /\ \A h \in D : h \in E /\ h # d => SlotsIn(G, e, h) = SlotsIn(f, b, h)
        /\ \A h \in E : h \notin D => Live(SlotsIn(G, e, h)) = {}
    BY <1>2, <1>11 DEF Prepared
  <2>2. \A h \in H : h \notin D /\ h \notin Old =>
          Chain(G, h) = Chain(f, h) /\ \A k \in On(f, h) : e[k] = b[k]
    <3>1. \A h \in H \ Old : Chain(g, h) = Chain(f, h) /\ On(g, h) = On(f, h)
      BY <1>2 DEF Same, On
    <3>2. \A h \in H : h \notin D /\ h \notin Old => h \in K \ {d}
      BY <1>2
    <3>3. \A h \in K \ {d} : Chain(G, h) = Chain(g, h) /\ \A k \in On(g, h) : e[k] = a[k]
      BY <1>8, <1>9
    <3> QED BY <1>2, <3>1, <3>2, <3>3
  <2>3. x.kind = "dir" =>
       /\ New = {x.first} /\ x.first # Root
       /\ SlotsIn(G, e, x.first)[1] = Slot("dot", ".", x.first, 0)
       /\ SlotsIn(G, e, x.first)[2] = Slot("dot", "..", ParentRef(d), 0)
    BY <1>11, <1>12 DEF Prepared
  <2>4. OthersDangle(f, b, D, G, d, p)
    BY DEF G
  <2> QED BY <1>2, <1>5, <1>7, <1>10, <1>13, <2>1, <2>2, <2>3, <2>4 DEF Rewired, Prepared, Old
<1>15. Active(x) => NodeIn(G, e, x) = NodeIn(g, a, x)
  <2> SUFFICES ASSUME x.kind = "file" PROVE NodeIn(G, e, x) = NodeIn(g, a, x)
    BY NodeSame DEF Active
  <2>1. x.first \in New \cup {0} /\ Len(Chain(g, x.first)) = x.size
    OBVIOUS
  <2>2. x.first \in New => x.first \in K \ {d}
    BY <1>2, <1>3
  <2>3. 0 \notin Clusters /\ 0 \notin K /\ K \subseteq Clusters
    BY <1>2, VolumeAssumption DEF Chains, Clusters
  <2>4. x.first \notin FreeClusters(g) /\ x.first \notin FreeClusters(G)
    <3>1. \A h \in K : h \notin FreeClusters(g) /\ h \notin FreeClusters(G)
      BY <1>2, <1>5, HeadsTaken DEF FreeClusters
    <3> QED BY <2>1, <2>2, <2>3, <3>1 DEF FreeClusters
  <2>5. Chain(G, x.first) = Chain(g, x.first)
    BY <1>2, <1>5, <1>8, <2>1, <2>2, ChainOfZero
  <2>6. x.first \in K => \A k \in On(g, x.first) : e[k] = a[k]
    BY <1>8, <1>9, <2>1, <2>2, <2>3
  <2>7. NodeIn(g, e, x) = NodeIn(g, a, x)
    BY <1>2, <2>1, <2>2, <2>4, <2>6, NewNode
  <2>8. NodeIn(G, e, x) = NodeIn(g, e, x)
    BY <2>4, <2>5, NodeSame
  <2> QED BY <2>7, <2>8
<1>16. TreeOf(G, e) = Replanted(f, b, D, E, d, p, x, NodeIn(G, e, x))
  BY <1>14, RewiredTree
<1>17. TreeOf(G, e) = Replanted(f, b, D, E, d, p, x, NodeIn(g, a, x))
  BY <1>15, <1>16, SameNode
<1> QED BY <1>14, <1>17, RewiredVol DEF G

-----------------------------------------------------------------------------
(* The calls.  Each keeps the invariant and does to the tree what one      *)
(* operation of the abstract store does, or leaves it alone.               *)
Served == Store!Step(Tree, Tree') \/ Tree' = Tree

(* What find_entry_location finds is what the tree has at the name.        *)
LEMMA FindTree ==
  ASSUME Whole, NEW d \in Dirs, NEW n
  PROVE  /\ Tree = [h \in Dirs |-> Tree[h]] /\ \A h \in Dirs : Shows(fat, disk, h, Tree[h])
         /\ Tree[d] = [m \in DOMAIN Tree[d] |-> Tree[d][m]]
         /\ Find(d, n) = 0 => n \notin DOMAIN Tree[d]
         /\ Find(d, n) # 0 => /\ n \in DOMAIN Tree[d]
                              /\ Tree[d][n] = NodeIn(fat, disk, Entry(d, n))
<1> DEFINE S == SlotsIn(fat, disk, d)
           t == Tree[d]
<1>1. Tree = [h \in Dirs |-> Tree[h]] /\ \A h \in Dirs : Shows(fat, disk, h, Tree[h])
  BY TreeTerms, TreeIs DEF Whole
<1>2. /\ t = [m \in {S[p].name : p \in Live(S)} |-> t[m]]
      /\ \A p \in Live(S) : t[S[p].name] = NodeIn(fat, disk, S[p])
  BY <1>1 DEF Shows
<1>3. Slots(d) = S
  BY Terms
<1> HIDE DEF S, t
<1>4. DOMAIN t = {S[p].name : p \in Live(S)} /\ t = [m \in DOMAIN t |-> t[m]]
  BY <1>2
<1>5. Find(d, n) = 0 => n \notin DOMAIN t
  BY <1>3, <1>4, FindIs
<1>6. Find(d, n) # 0 => n \in DOMAIN t /\ t[n] = NodeIn(fat, disk, Entry(d, n))
  BY <1>2, <1>3, <1>4, FindIs DEF Entry
<1> QED BY <1>1, <1>4, <1>5, <1>6 DEF t

(* What a call that crosses no chains leaves to the entries it does not    *)
(* rewrite.                                                                *)
Spares(left) == \A s \in left : Dangles(s) => s.first \notin Allocated'

LEMMA OthersSpared ==
  ASSUME Whole, NEW d \in Dirs, NEW p, NEW left, Spares(left),
         \/ left = Entries
         \/ /\ p \in Live(SlotsIn(fat, disk, d))
            /\ left = Entries \ {SlotsIn(fat, disk, d)[p]}
  PROVE  OthersDangle(fat, disk, Dirs, fat', d, p)
<1> DEFINE S(h) == SlotsIn(fat, disk, h)
<1> SUFFICES ASSUME NEW h \in Dirs, NEW q \in Live(S(h)), ~(h = d /\ q = p),
                    S(h)[q].first \in FreeClusters(fat)
             PROVE  S(h)[q].first \in FreeClusters(fat')
  BY DEF OthersDangle
<1>1. PICK s : s = S(h)[q] /\ s \in Entries
  BY Terms, EntriesAre DEF Whole
<1>2. Dangles(s) /\ s.first \in Clusters
  BY <1>1, VolumeAssumption DEF FreeClusters, Allocated, Clusters, Dangles
<1>3. s \in left
  <2>1. ASSUME p \in Live(S(d)), s = S(d)[p] PROVE FALSE
    <3>1. S(h)[q].first = S(d)[p].first /\ S(h)[q].first # 0
      BY <1>1, <1>2, <2>1 DEF Dangles
    <3>2. Tied(fat, disk, Dirs, Heads)
      BY DEF Whole, Vol
    <3> QED BY <2>1, <3>1, <3>2 DEF Tied
  <2> QED BY <1>1, <2>1
<1>4. s.first \notin Allocated'
  BY <1>2, <1>3 DEF Spares
<1>5. Allocated' = {c \in Clusters : fat'[c] # Free}
  BY DEF Allocated
<1> QED BY <1>1, <1>2, <1>4, <1>5 DEF FreeClusters

LEMMA SetSlotIs ==
  ASSUME NEW g, NEW a, NEW d, NEW p, NEW x
  PROVE  SetSlot(g, a, d, p, x) = Put(a, Chain(g, d), p, x)
  BY DEF SetSlot, Put

(* The tree with node at a new name n in d, and the rest as it is: E are   *)
(* the directories now, one more when node is a new one.                   *)
Planted(E, d, n, node) ==
  [h \in E |-> IF h \notin Dirs THEN Store!Empty
               ELSE IF h = d THEN Store!Bind(Tree[d], n, node) ELSE Tree[h]]

LEMMA PlantedIs ==
  ASSUME NEW E, NEW d \in Dirs, NEW p, p \notin Live(SlotsIn(fat, disk, d)),
         NEW x, Active(x), NEW node
  PROVE  Replanted(fat, disk, Dirs, E, d, p, x, node) = Planted(E, d, x.name, node)
<1>1. \A t : Rebound(t, SlotsIn(fat, disk, d), p, x, node) = Store!Bind(t, x.name, node)
  BY DEF Rebound
<1>2. TreeOf(fat, disk) = Tree
  BY TreeTerms
<1> QED BY <1>1, <1>2 DEF Replanted, Planted

(* create_entry, after what its caller did to the FAT and the clusters.    *)
LEMMA CreateKeeps ==
  ASSUME Whole, Spares(Entries), NEW d \in Dirs,
         NEW g, NEW a, NEW E, NEW K, NEW x, NEW New,
         Chain(g, d) = Chain(fat, d), SlotsIn(g, a, d) = Slots(d),
         \A p : (p \in DOMAIN Slots(d) => Slots(d)[p].kind \in {"end", "deleted"})
                  => Prepared(fat, disk, Dirs, Heads, g, a, E, K, d, p, x, New),
         x.kind = "file" => x.first \in New \cup {0} /\ Len(Chain(g, x.first)) = x.size,
         CanCreate(g, a, d), CreateEntry(g, a, d, x), Active(x)
  PROVE  Whole' /\ Tree' = Planted(E, d, x.name, NodeIn(g, a, x))
<1>1. Vol(fat, disk, Dirs, Heads) /\ Slots(d) = SlotsIn(fat, disk, d) /\ d \in Heads /\ Chains(fat, Heads)
  BY Terms DEF Whole, Vol
<1>2. CASE FreeSlot(g, a, d) # 0
  <2> DEFINE p == FreeSlot(g, a, d)
  <2>1. fat' = g /\ disk' = Put(a, Chain(fat, d), p, x)
    BY <1>2, SetSlotIs DEF CreateEntry
  <2>2. /\ p \in DOMAIN Slots(d) /\ Slots(d)[p].kind \in {"end", "deleted"}
        /\ \A q \in 1..p - 1 : q \in DOMAIN Slots(d) /\ Slots(d)[q].kind # "end"
    BY <1>2, FreeSlotIs
  <2> HIDE DEF p
  <2>3. Prepared(fat, disk, Dirs, Heads, g, a, E, K, d, p, x, New)
    BY <2>2
  <2>4. OthersDangle(fat, disk, Dirs, g, d, p)
    BY <2>1, OthersSpared
  <2>5. /\ Vol(g, disk', E, K)
        /\ TreeOf(g, disk') = Replanted(fat, disk, Dirs, E, d, p, x, NodeIn(g, a, x))
    BY <1>1, <2>1, <2>2, <2>3, <2>4, InPlace
  <2>6. p \notin Live(SlotsIn(fat, disk, d))
    BY <1>1, <2>2 DEF Live, Active
  <2>7. Tree' = Planted(E, d, x.name, NodeIn(g, a, x))
    BY <2>1, <2>5, <2>6, PlantedIs, TreeTerms
  <2> QED BY <2>1, <2>5, <2>7, VolNext
<1>3. CASE FreeSlot(g, a, d) = 0
  <2> DEFINE c == Min(FreeClusters(g))
             p == Behind(fat, d)
  <2>1. c \in FreeClusters(g)
    <3>1. FreeClusters(g) # {} /\ FreeClusters(g) \in SUBSET Nat
      BY <1>3, VolumeAssumption DEF CanCreate, FreeClusters, Clusters
    <3> QED BY <3>1, MinIs
  <2>2. fat' = Grown(g, d, c) /\ disk' = InTail(a, c, x)
    BY <1>3 DEF CreateEntry, Grown, InTail
  <2>3. p \notin DOMAIN Slots(d)
    <3>1. PICK m \in Nat : m = PerCluster * Len(Chain(fat, d)) /\ DOMAIN Slots(d) = 1..m
      BY <1>1, SlotCount
    <3> QED BY <3>1 DEF Behind
  <2>4. \A q \in DOMAIN Slots(d) : Slots(d)[q].kind # "end"
    BY <1>3, FreeSlotIs
  <2> HIDE DEF c
  <2>5. Prepared(fat, disk, Dirs, Heads, g, a, E, K, d, p, x, New)
    BY <2>3
  <2>6. OthersDangle(fat, disk, Dirs, Grown(g, d, c), d, p)
    BY <2>2, OthersSpared
  <2>7. /\ Vol(fat', disk', E, K)
        /\ TreeOf(fat', disk') = Replanted(fat, disk, Dirs, E, d, p, x, NodeIn(g, a, x))
    <3> HIDE DEF p
    <3>1. p = Behind(fat, d)
      BY DEF p
    <3>2. /\ Vol(Grown(g, d, c), disk', E, K)
          /\ TreeOf(Grown(g, d, c), disk') = Replanted(fat, disk, Dirs, E, d, p, x, NodeIn(g, a, x))
      BY <1>1, <2>1, <2>2, <2>4, <2>5, <2>6, <3>1, InNewCluster
    <3> QED BY <2>2, <3>2
  <2>8. p \notin Live(SlotsIn(fat, disk, d))
    BY <1>1, <2>3 DEF Live
  <2> HIDE DEF p
  <2>9. Tree' = Planted(E, d, x.name, NodeIn(g, a, x))
    BY <2>7, <2>8, PlantedIs, TreeTerms
  <2> QED BY <2>7, <2>9, VolNext
<1> QED BY <1>2, <1>3

(* The clusters of a file that is being written.                           *)
LEMMA WrittenBlocks ==
  ASSUME NEW content \in Contents, NEW f, NEW cs, Fresh(f, cs), Len(cs) <= Len(content),
         NEW b \in DiskType
  PROVE  /\ Written(b, cs, content) \in DiskType
         /\ \A c \in ToSet(cs) : FileBlock(Written(b, cs, content)[c])
         /\ \A c \in Clusters : c \notin ToSet(cs) => Written(b, cs, content)[c] = b[c]
         /\ \A i \in 1..Len(cs) : Written(b, cs, content)[cs[i]] = Data(content[i])
<1> DEFINE a == Written(b, cs, content)
           at(c) == CHOOSE i \in DOMAIN cs : cs[i] = c
<1>1. cs \in Seq(FreeClusters(f)) /\ Len(cs) \in Nat /\ DOMAIN cs = 1..Len(cs)
  BY DEF Fresh
<1>2. content \in Seq(ToSet(content) \ Names)
  BY VolumeAssumption
<1>3. ASSUME NEW c \in ToSet(cs) PROVE c \in Clusters /\ a[c] \in Seq(SlotType) /\ FileBlock(a[c])
  <2>1. c \in Clusters /\ \E i \in DOMAIN cs : cs[i] = c
    BY <1>1, InSet DEF FreeClusters
  <2>2. at(c) \in DOMAIN cs
    BY <2>1
  <2>3. a[c] = Data(content[at(c)])
    BY <2>1 DEF Written
  <2> HIDE DEF a, at
  <2>4. at(c) \in 1..Len(content)
    BY <1>1, <1>2, <2>2
  <2>5. content[at(c)] \in ToSet(content)
    BY <1>2, <2>4, IntoSet
  <2>6. PICK item \in ToSet(content) : a[c] = Data(item)
    BY <2>3, <2>5
  <2>7. PICK y : y = Slot("data", item, 0, 0)
    OBVIOUS
  <2>8. y \in SlotType /\ y.kind = "data"
    BY <2>7 DEF Slot, SlotType
  <2>9. a[c] = [i \in 1..PerCluster |-> y]
    BY <2>6, <2>7 DEF Data
  <2>10. PerCluster \in Nat
    BY VolumeAssumption
  <2>11. PICK z : z = [i \in 1..PerCluster |-> y]
    OBVIOUS
  <2>12. z \in Seq(SlotType) /\ Len(z) = PerCluster /\ \A i \in 1..PerCluster : z[i] = y
    BY <2>8, <2>10, <2>11
  <2> QED BY <2>1, <2>8, <2>9, <2>11, <2>12 DEF FileBlock
<1>4. \A c \in Clusters : c \notin ToSet(cs) => a[c] = b[c]
  BY DEF Written
<1>5. a \in DiskType
  <2>1. \A c \in Clusters : a[c] \in Seq(SlotType)
    BY <1>3, <1>4 DEF DiskType
  <2>2. a = [c \in Clusters |-> a[c]]
    BY DEF Written
  <2> HIDE DEF a
  <2> QED BY <2>1, <2>2 DEF DiskType
<1>6. ASSUME NEW i \in 1..Len(cs) PROVE a[cs[i]] = Data(content[i])
  <2>1. cs[i] \in ToSet(cs) /\ cs[i] \in Clusters
    BY <1>1, IntoSet DEF FreeClusters
  <2>2. at(cs[i]) = i
    BY <1>1 DEF Fresh
  <2> QED BY <2>1, <2>2 DEF Written
<1> QED BY <1>3, <1>4, <1>5, <1>6

(* A file that is written to clusters that were free has a chain and       *)
(* blocks of its own.                                                      *)
NewFile(f, b, D, H, cs, content) ==
  LET g == Linked(f, cs)
      a == Written(b, cs, content)
  IN
  /\ g \in FatType /\ a \in DiskType
  /\ Chains(g, H \cup HeadOf(cs)) /\ Blocks(g, a, D, H \cup HeadOf(cs)) /\ Same(f, g, H)
  /\ \A h \in H : \A c \in On(f, h) : a[c] = b[c]
  /\ HeadOf(cs) \subseteq {First(cs)} /\ HeadOf(cs) \cap H = {}
  /\ First(cs) \in HeadOf(cs) \cup {0} /\ First(cs) \in Clusters \cup {0}
  /\ Len(Chain(g, First(cs))) = Len(content)
  /\ \A i \in 1..Len(content) : a[Chain(g, First(cs))[i]] = Data(content[i])

LEMMA NewFileIs ==
  ASSUME NEW f \in FatType, NEW H, Chains(f, H), NEW D, D \subseteq H,
         NEW b \in DiskType, Blocks(f, b, D, H),
         NEW content \in Contents, NEW cs, Fresh(f, cs), Len(cs) = Len(content)
  PROVE  NewFile(f, b, D, H, cs, content)
<1> DEFINE g == Linked(f, cs)
           a == Written(b, cs, content)
           K == H \cup HeadOf(cs)
<1>1. cs \in Seq(FreeClusters(f)) /\ Len(cs) \in Nat /\ Len(cs) <= Len(content)
  BY DEF Fresh
<1>2. /\ a \in DiskType /\ \A c \in ToSet(cs) : FileBlock(a[c])
      /\ \A c \in Clusters : c \notin ToSet(cs) => a[c] = b[c]
      /\ \A i \in 1..Len(cs) : a[cs[i]] = Data(content[i])
  BY <1>1, WrittenBlocks
<1>3. /\ g \in FatType /\ Chains(g, K) /\ Same(f, g, H)
      /\ cs # <<>> => Chain(g, cs[1]) = cs /\ cs[1] \notin H
  BY LinkedChains
<1> HIDE DEF g, a
<1>4. \A h \in H : \A c \in On(f, h) : c \in Clusters /\ c \notin ToSet(cs) /\ a[c] = b[c]
  <2>1. \A c \in ToSet(cs) : f[c] = Free
    BY <1>1, InSet DEF FreeClusters
  <2> QED BY <1>2, <2>1, HeadsTaken
<1>5. Blocks(g, a, D, K)
  <2>1. \A h \in H : On(g, h) = On(f, h)
    BY <1>3 DEF Same, On
  <2>2. \A h \in HeadOf(cs) : On(g, h) = ToSet(cs) /\ h \notin H
    BY <1>3 DEF HeadOf, On
  <2>3. \A h \in D : \A c \in On(g, h) : DirBlock(a[c])
    BY <1>4, <2>1 DEF Blocks
  <2>4. ASSUME NEW h \in K \ D, NEW c \in On(g, h) PROVE FileBlock(a[c])
    <3>1. CASE h \in H
      BY <1>4, <2>1, <2>4, <3>1 DEF Blocks
    <3>2. CASE h \in HeadOf(cs)
      BY <1>2, <2>2, <2>4, <3>2
    <3> QED BY <2>4, <3>1, <3>2
  <2> QED BY <2>3, <2>4 DEF Blocks
<1>6. HeadOf(cs) \subseteq {First(cs)} /\ First(cs) \in HeadOf(cs) \cup {0} /\ HeadOf(cs) \cap H = {}
  BY <1>3 DEF HeadOf, First
<1>7. First(cs) \in Clusters \cup {0} /\ Len(Chain(g, First(cs))) = Len(content)
  <2>1. CASE cs = <<>>
    <3>1. First(cs) = 0 /\ Len(content) = 0
      BY <2>1 DEF First
    <3> QED BY <1>3, <3>1, ChainOfZero
  <2>2. CASE cs # <<>>
    <3>1. First(cs) = cs[1] /\ cs[1] \in FreeClusters(f)
      BY <1>1, <2>2 DEF First
    <3> QED BY <1>3, <2>2, <3>1 DEF FreeClusters
  <2> QED BY <2>1, <2>2
<1>8. \A i \in 1..Len(content) : a[Chain(g, First(cs))[i]] = Data(content[i])
  <2> SUFFICES ASSUME NEW i \in 1..Len(content)
               PROVE  a[Chain(g, First(cs))[i]] = Data(content[i])
    OBVIOUS
  <2>1. i \in 1..Len(cs) /\ cs # <<>>
    BY <1>1
  <2>2. Chain(g, First(cs)) = cs
    BY <1>3, <2>1 DEF First
  <2> QED BY <1>2, <2>1, <2>2
<1> QED BY <1>2, <1>3, <1>4, <1>5, <1>6, <1>7, <1>8 DEF NewFile, g, a

(* It stands for its content.                                              *)
LEMMA FileNode ==
  ASSUME NEW f, NEW b, NEW D, NEW H, NEW content \in Contents, NEW cs,
         NewFile(f, b, D, H, cs, content),
         NEW x, x.kind = "file", x.first = First(cs), x.size = Len(content)
  PROVE  NodeIn(Linked(f, cs), Written(b, cs, content), x) = Store!File(content)
<1> DEFINE g == Linked(f, cs)
           a == Written(b, cs, content)
           s == Chain(g, First(cs))
<1>1. /\ Chains(g, H \cup HeadOf(cs)) /\ First(cs) \in HeadOf(cs) \cup {0}
      /\ \A i \in 1..Len(content) : a[s[i]] = Data(content[i])
  BY DEF NewFile
<1> HIDE DEF g, a
<1>2. First(cs) \notin FreeClusters(g)
  BY <1>1, HeadsTaken, VolumeAssumption DEF FreeClusters, Clusters
<1>3. content \in Seq(ToSet(content) \ Names)
  BY VolumeAssumption
<1>4. \A i \in 1..Len(content) : a[s[i]][1].name = content[i]
  <2>1. \A item : Data(item)[1].name = item
    BY VolumeAssumption DEF Data, Slot
  <2> QED BY <1>1, <2>1
<1> HIDE DEF s
<1>5. [i \in 1..Len(content) |-> a[s[i]][1].name] = content
  BY <1>3, <1>4
<1>6. DataIn(g, a, x) = content
  BY <1>5 DEF DataIn, s
<1> QED BY <1>2, <1>6 DEF NodeIn, g, a

(* The slots of a directory whose chain a call leaves alone.               *)
LEMMA SlotsStay ==
  ASSUME Whole, NEW d \in Dirs, NEW g, Same(fat, g, Heads),
         NEW a, \A h \in Heads : \A c \in On(fat, h) : a[c] = disk[c]
  PROVE  Chain(g, d) = Chain(fat, d) /\ SlotsIn(g, a, d) = Slots(d)
<1>1. d \in Heads /\ Chains(fat, Heads)
  BY DEF Whole, Vol
<1>2. PICK s : s = Chain(fat, d) /\ s = Chain(g, d)
  BY <1>1 DEF Same
<1>3. s \in Seq(Clusters) /\ \A c \in ToSet(s) : a[c] = disk[c]
  BY <1>1, <1>2 DEF Chains, IsChain, On
<1>4. Flat(a, s) = Flat(disk, s)
  BY <1>3, FlatSame
<1> QED BY <1>2, <1>4 DEF Slots, SlotsIn

(* A file at a name that was new is written.                               *)
LEMMA PlantWrites ==
  ASSUME Whole, NEW d \in Dirs, NEW n \in Names, NEW content \in Contents, Find(d, n) = 0,
         Tree' = Planted(Dirs, d, n, Store!File(content))
  PROVE  Served
<1> DEFINE dir == Store!Bind(Tree[d], n, Store!File(content))
<1>1. Tree = [h \in Dirs |-> Tree[h]] /\ n \notin DOMAIN Tree[d]
  BY FindTree
<1>2. Tree' = [Tree EXCEPT ![d] = dir]
  <2> HIDE DEF dir
  <2>1. Planted(Dirs, d, n, Store!File(content)) = [h \in Dirs |-> IF h = d THEN dir ELSE Tree[h]]
    BY DEF Planted, dir
  <2> QED BY <1>1, <2>1
<1>3. Store!Write(Tree, Tree', d, n, content)
  BY <1>1, <1>2 DEF Store!Write, Store!HasDir, Store!Has
<1> QED BY <1>1, <1>3 DEF Served, Store!Step

LEMMA WriteNewKeeps ==
  ASSUME Whole, Spares(Entries), NEW d \in Dirs, NEW n \in Names, NEW content \in Contents,
         WriteNew(d, n, content)
  PROVE  Whole' /\ Served
<1> DEFINE cs == Alloc(fat, Len(content))
           g == Linked(fat, cs)
           a == Written(disk, cs, content)
           x == Slot("file", n, First(cs), Len(content))
           New == HeadOf(cs)
<1>1. Len(content) \in Nat
  BY VolumeAssumption
<1>2. Fresh(fat, cs) /\ Len(cs) <= Len(content)
  BY <1>1, AllocFresh
<1>3. /\ Find(d, n) = 0
      /\ IF Len(cs) = Len(content) /\ CanCreate(g, a, d)
           THEN CreateEntry(g, a, d, x)
           ELSE disk' = a /\ fat' = fat
  BY DEF WriteNew, Absent
<1> HIDE DEF cs
<1>4. /\ Vol(fat, disk, Dirs, Heads) /\ fat \in FatType /\ disk \in DiskType
      /\ Chains(fat, Heads) /\ Blocks(fat, disk, Dirs, Heads)
      /\ Root \in Dirs /\ Dirs \subseteq Heads
  BY DEF Whole, Vol
<1>5. CASE ~(Len(cs) = Len(content) /\ CanCreate(g, a, d))
  <2>1. disk' = a /\ fat' = fat
    BY <1>3, <1>5
  <2>2. a \in DiskType /\ \A c \in Clusters : c \notin ToSet(cs) => a[c] = disk[c]
    BY <1>2, <1>4, WrittenBlocks
  <2> HIDE DEF a
  <2>3. \A c \in ToSet(cs) : fat[c] = Free
    BY <1>2, InSet DEF Fresh, FreeClusters
  <2>4. Vol(fat, a, Dirs, Heads) /\ TreeOf(fat, a) = TreeOf(fat, disk)
    BY <1>4, <2>2, <2>3, FreeBlocks
  <2> QED BY <2>1, <2>4, VolNext, TreeTerms DEF Served
<1>6. CASE Len(cs) = Len(content) /\ CanCreate(g, a, d)
  <2>1. CreateEntry(g, a, d, x) /\ CanCreate(g, a, d)
    BY <1>3, <1>6
  <2>2. NewFile(fat, disk, Dirs, Heads, cs, content)
    BY <1>2, <1>4, <1>6, NewFileIs
  <2>3. /\ g \in FatType /\ a \in DiskType
        /\ Chains(g, Heads \cup New) /\ Blocks(g, a, Dirs, Heads \cup New) /\ Same(fat, g, Heads)
        /\ \A h \in Heads : \A c \in On(fat, h) : a[c] = disk[c]
        /\ New \subseteq {First(cs)} /\ New \cap Heads = {}
        /\ First(cs) \in New \cup {0} /\ First(cs) \in Clusters \cup {0}
        /\ Len(Chain(g, First(cs))) = Len(content)
    BY <2>2 DEF NewFile
  <2>4. x.kind = "file" /\ x.name = n /\ x.first = First(cs) /\ x.size = Len(content)
    BY DEF Slot
  <2>5. x \in SlotType
    BY <1>1, <2>3 DEF Slot, SlotType
  <2>6. NodeIn(g, a, x) = Store!File(content)
    BY <2>2, <2>4, FileNode
  <2> HIDE DEF g, a, x, New
  <2>7. ASSUME NEW p, p \in DOMAIN Slots(d) => Slots(d)[p].kind \in {"end", "deleted"}
        PROVE  Prepared(fat, disk, Dirs, Heads, g, a, Dirs, Heads \cup New, d, p, x, New)
    <3>1. Named(fat, disk, d, p) = {} /\ Slots(d) = SlotsIn(fat, disk, d)
      BY <2>7, Terms DEF Named, Live, Active
    <3>2. \A q \in Live(SlotsIn(fat, disk, d)) : SlotsIn(fat, disk, d)[q].name # n
      BY <1>3, <3>1, FindIs
    <3> QED BY <1>4, <2>3, <2>4, <2>5, <2>7, <3>1, <3>2 DEF Prepared, Active
  <2>8. Chain(g, d) = Chain(fat, d) /\ SlotsIn(g, a, d) = Slots(d)
    BY <1>4, <2>3, SlotsStay
  <2>9. Whole' /\ Tree' = Planted(Dirs, d, n, Store!File(content))
    <3>1. Active(x)
      BY <2>4 DEF Active
    <3> QED BY <2>1, <2>3, <2>4, <2>6, <2>7, <2>8, <3>1, CreateKeeps
  <2> QED BY <1>3, <2>9, PlantWrites
<1> QED BY <1>5, <1>6

(* What find_entry_location found.                                         *)
LEMMA EntryIs ==
  ASSUME Whole, NEW d \in Dirs, NEW n, Find(d, n) # 0, NEW p, p = Find(d, n),
         NEW x, x = Entry(d, n)
  PROVE  /\ p \in Live(SlotsIn(fat, disk, d)) /\ p \in DOMAIN SlotsIn(fat, disk, d)
         /\ x = SlotsIn(fat, disk, d)[p] /\ x \in SlotType /\ Active(x)
         /\ \A q \in 1..p-1 : q \in DOMAIN SlotsIn(fat, disk, d) /\ SlotsIn(fat, disk, d)[q].kind # "end"
         /\ \A q \in Live(SlotsIn(fat, disk, d)) : q # p => SlotsIn(fat, disk, d)[q].name # x.name
         /\ Named(fat, disk, d, p) = {x.first} /\ x.first # Root
         /\ x.kind = "dir" => x.first \in Dirs
         /\ x.kind = "file" =>
              /\ x.first \in (Heads \ Dirs) \cup {0} \cup FreeClusters(fat)
              /\ x.first \notin FreeClusters(fat) => Len(Chain(fat, x.first)) = x.size
<1> DEFINE S == SlotsIn(fat, disk, d)
<1>1. Slots(d) = S /\ Vol(fat, disk, Dirs, Heads) /\ OneOfAName(S)
  BY Terms DEF Whole, Vol
<1>2. /\ p \in Live(S) /\ S[p].name = n
      /\ \A q \in 1..p - 1 : q \in DOMAIN S /\ S[q].kind # "end"
  BY <1>1, FindIs
<1>3. x = S[p] /\ p \in DOMAIN S /\ Active(x)
  BY <1>1, <1>2 DEF Entry, Live
<1>4. x \in EntriesOf(fat, disk) /\ x \in SlotType
  BY <1>1, <1>2, <1>3, EntriesAre, DirSlots
<1> HIDE DEF S
<1>5. \A q \in Live(S) : q # p => S[q].name # x.name
  BY <1>1, <1>2, <1>3 DEF OneOfAName, Live
<1>6. Named(fat, disk, d, p) = {x.first}
  BY <1>2, <1>3 DEF Named, S
<1>7. /\ x.first # Root
      /\ x.kind = "dir" => x.first \in Dirs
      /\ x.kind = "file" =>
           /\ x.first \in (Heads \ Dirs) \cup {0} \cup FreeClusters(fat)
           /\ x.first \notin FreeClusters(fat) => Len(Chain(fat, x.first)) = x.size
  BY <1>1, <1>4, EntryNames
<1> QED BY <1>2, <1>3, <1>4, <1>5, <1>6, <1>7 DEF S

(* The chain of an entry, freed.                                           *)
Freed(f, g, b, D, H, x) ==
  /\ g \in FatType /\ Chains(g, H \ {x}) /\ Same(f, g, H \ {x})
  /\ Blocks(g, b, D \ {x}, H \ {x})
  /\ FreeClusters(f) \subseteq FreeClusters(g)
  /\ x \in H => x \in FreeClusters(g)
  /\ \A h \in H \ {x} : On(g, h) = On(f, h)

LEMMA FreedIs ==
  ASSUME Whole, NEW x \in Heads \cup {0} \cup FreeClusters(fat)
  PROVE  Freed(fat, FreeChain(fat, x), disk, Dirs, Heads, x)
<1> DEFINE g == FreeChain(fat, x)
<1>1. /\ fat \in FatType /\ Chains(fat, Heads) /\ Blocks(fat, disk, Dirs, Heads)
      /\ Dirs \subseteq Heads
  BY DEF Whole, Vol
<1>2. /\ g \in FatType /\ Chains(g, Heads \ {x}) /\ Same(fat, g, Heads \ {x})
      /\ \A c \in Clusters : g[c] = IF x \in Heads /\ c \in On(fat, x) THEN Free ELSE fat[c]
  BY <1>1, FreeChainChains
<1> HIDE DEF g
<1>3. \A h \in Heads \ {x} : On(g, h) = On(fat, h)
  BY <1>2 DEF Same, On
<1>4. Blocks(g, disk, Dirs \ {x}, Heads \ {x})
  BY <1>1, <1>3 DEF Blocks
<1>5. FreeClusters(fat) \subseteq FreeClusters(g)
  BY <1>2 DEF FreeClusters
<1>6. x \in Heads => x \in FreeClusters(g)
  BY <1>1, <1>2, HeadsTaken DEF FreeClusters
<1> QED BY <1>2, <1>3, <1>4, <1>5, <1>6 DEF Freed, g

(* fat32_delete_file and fat32_rmdir: the entry of an empty directory, or  *)
(* of any file, goes with its chain.                                       *)
LEMMA RemoveKeeps ==
  ASSUME Whole, NEW d \in Dirs, NEW n, Find(d, n) # 0, NEW x, x = Entry(d, n),
         x.first \in Dirs => Live(SlotsIn(fat, disk, x.first)) = {},
         fat' = FreeChain(fat, x.first), disk' = Erase(d, n)
  PROVE  /\ Whole'
         /\ Tree' = [h \in Dirs \ {x.first} |->
                       IF h = d THEN Store!Unbind(Tree[d], n) ELSE Tree[h]]
<1>1. PICK p : p = Find(d, n)
  OBVIOUS
<1> DEFINE S == SlotsIn(fat, disk, d)
           g == FreeChain(fat, x.first)
           E == Dirs \ {x.first}
           K == Heads \ {x.first}
<1>2. /\ p \in Live(S) /\ p \in DOMAIN S /\ x = S[p] /\ Active(x)
      /\ \A q \in 1..p-1 : q \in DOMAIN S /\ S[q].kind # "end"
      /\ Named(fat, disk, d, p) = {x.first} /\ x.first # Root
      /\ x.first \in Heads \cup {0} \cup FreeClusters(fat)
  <2>1. Dirs \subseteq Heads
    BY DEF Whole, Vol
  <2> QED BY <1>1, <2>1, EntryIs DEF Active
<1>3. Freed(fat, g, disk, Dirs, Heads, x.first)
  BY <1>2, FreedIs
<1>4. /\ Vol(fat, disk, Dirs, Heads) /\ disk \in DiskType /\ Root \in Dirs
      /\ Dirs \subseteq Heads
  BY DEF Whole, Vol
<1>5. disk' = Put(disk, Chain(fat, d), p, Deleted)
  BY <1>1, SetSlotIs DEF Erase
<1>6. /\ Deleted.kind = "deleted" /\ Deleted \in SlotType /\ ~Active(Deleted)
      /\ {} \subseteq {Deleted.first}
  BY DEF Deleted, Slot, SlotType, Active
<1> HIDE DEF g
<1>7. d \in E
  BY <1>2
<1>8. Prepared(fat, disk, Dirs, Heads, g, disk, E, K, d, p, Deleted, {})
  <2>1. S[p].kind # "dot"
    BY <1>2 DEF Active
  <2> HIDE DEF S
  <2> QED BY <1>2, <1>3, <1>4, <1>6, <1>7, <2>1 DEF Prepared, Freed, S
<1>9. OthersDangle(fat, disk, Dirs, g, d, p)
  BY <1>3 DEF Freed, OthersDangle
<1>10. /\ Vol(g, disk', E, K)
       /\ TreeOf(g, disk') = Replanted(fat, disk, Dirs, E, d, p, Deleted, NodeIn(g, disk, Deleted))
  <2> HIDE DEF S, E, K
  <2> QED BY <1>2, <1>4, <1>5, <1>6, <1>8, <1>9, InPlace DEF S
<1>11. Tree' = [h \in E |-> IF h = d THEN Store!Unbind(Tree[d], n) ELSE Tree[h]]
  <2>1. S[p].name = n
    BY <1>1, Terms, FindIs
  <2>2. \A t, node : Rebound(t, S, p, Deleted, node) = Store!Unbind(t, n)
    BY <1>2, <1>6, <2>1 DEF Rebound
  <2>3. TreeOf(fat, disk) = Tree /\ Tree' = TreeOf(g, disk')
    BY TreeTerms DEF g
  <2> QED BY <1>10, <2>2, <2>3 DEF Replanted
<1> QED BY <1>10, <1>11, VolNext DEF g

LEMMA DeleteFileKeeps ==
  ASSUME Whole, NEW d \in Dirs, NEW n \in Names, DeleteFile(d, n)
  PROVE  Whole' /\ Served
<1>1. /\ Find(d, n) # 0 /\ Entry(d, n).kind = "file"
      /\ fat' = FreeChain(fat, Entry(d, n).first) /\ disk' = Erase(d, n)
  BY DEF DeleteFile, HasFile
<1>2. Entry(d, n).first \notin Dirs
  <2>1. Entry(d, n).first \in (Heads \ Dirs) \cup {0} \cup FreeClusters(fat)
    BY <1>1, EntryIs
  <2>2. \A h \in Dirs : h \in Clusters /\ fat[h] # Free
    BY HeadsTaken DEF Whole, Vol
  <2> QED BY <2>1, <2>2, VolumeAssumption DEF FreeClusters, Clusters
<1>3. Whole' /\ Tree' = [h \in Dirs |-> IF h = d THEN Store!Unbind(Tree[d], n) ELSE Tree[h]]
  <2>1. Dirs \ {Entry(d, n).first} = Dirs
    BY <1>2
  <2> QED BY <1>1, <1>2, <2>1, RemoveKeeps
<1>4. Tree = [h \in Dirs |-> Tree[h]] /\ Store!HasFile(Tree, d, n)
  <2>1. NodeIn(fat, disk, Entry(d, n))[1] # "dir"
    BY <1>1 DEF NodeIn, Store!Lost, Store!File
  <2> QED BY <1>1, <2>1, FindTree DEF Store!HasFile, Store!Has
<1> DEFINE dir == Store!Unbind(Tree[d], n)
<1>5. Tree' = [Tree EXCEPT ![d] = dir]
  <2> HIDE DEF dir
  <2>1. Tree' = [h \in Dirs |-> IF h = d THEN dir ELSE Tree[h]]
    BY <1>3 DEF dir
  <2> QED BY <1>4, <2>1
<1>6. Store!Delete(Tree, Tree', d, n) /\ d \in DOMAIN Tree
  BY <1>4, <1>5 DEF Store!Delete
<1> QED BY <1>3, <1>6 DEF Served, Store!Step

LEMMA RmDirKeeps ==
  ASSUME Whole, NEW d \in Dirs, NEW n \in Names, RmDir(d, n)
  PROVE  Whole' /\ Served
<1> DEFINE x == Entry(d, n)
           S == SlotsIn(fat, disk, x.first)
<1>1. /\ Find(d, n) # 0 /\ x.kind = "dir" /\ IsEmpty(x.first)
      /\ fat' = FreeChain(fat, x.first) /\ disk' = Erase(d, n)
  BY DEF RmDir, HasDir
<1>2. x.first \in Dirs
  BY <1>1, EntryIs
<1>3. Live(S) = {}
  <2> SUFFICES ASSUME NEW q \in Live(S) PROVE FALSE
    OBVIOUS
  <2> DEFINE T == {r \in DOMAIN S : S[r].kind \in {"end", "data"} \/ Active(S[r])}
             p == FirstSlot(T)
  <2>1. PICK m \in Nat : DOMAIN S = 1..m
    BY <1>2, SlotCount DEF Whole, Vol
  <2>2. NoneBehindEnd(S)
    BY <1>2 DEF Whole, Vol
  <2>3. p # 0 => S[p].kind = "end"
    BY <1>1, Terms DEF IsEmpty
  <2> HIDE DEF S
  <2>4. T \in SUBSET (Nat \ {0}) /\ q \in T
    BY <2>1 DEF Live
  <2>5. p # 0 /\ p \in T /\ p <= q
    BY <2>4, FirstSlotIs
  <2>6. p # q
    BY <2>3, <2>5 DEF Live, Active
  <2>7. p \in 1..m /\ q \in 1..m
    BY <2>1, <2>4, <2>5
  <2> HIDE DEF p
  <2>8. p < q
    BY <2>5, <2>6, <2>7
  <2> QED BY <2>1, <2>2, <2>3, <2>5, <2>7, <2>8 DEF NoneBehindEnd, Live
<1>4. Whole' /\ Tree' = [h \in Dirs \ {x.first} |->
                           IF h = d THEN Store!Unbind(Tree[d], n) ELSE Tree[h]]
  BY <1>1, <1>3, RemoveKeeps
<1>5. /\ Tree = [h \in Dirs |-> Tree[h]] /\ DOMAIN Tree = Dirs
      /\ Store!HasDir(Tree, d, n) /\ Tree[d][n][2] = x.first
  <2>1. NodeIn(fat, disk, x)[1] = "dir" /\ NodeIn(fat, disk, x)[2] = x.first
    BY <1>1 DEF NodeIn, Store!Dir
  <2>2. Tree = [h \in Dirs |-> Tree[h]] /\ n \in DOMAIN Tree[d] /\ Tree[d][n] = NodeIn(fat, disk, x)
    BY <1>1, FindTree
  <2> HIDE DEF x
  <2> QED BY <2>1, <2>2 DEF Store!HasDir, Store!Has
<1>6. Tree[x.first] = Store!Empty
  <2>1. PICK t : t = Tree[x.first] /\ Shows(fat, disk, x.first, t)
    BY <1>2, FindTree
  <2>2. t = [m \in {} |-> t[m]]
    BY <1>3, <2>1 DEF Shows
  <2> QED BY <2>1, <2>2 DEF Store!Empty
<1>7. Store!RemoveDir(Tree, Tree', d, n)
  <2> HIDE DEF x
  <2> QED BY <1>4, <1>5, <1>6 DEF Store!RemoveDir
<1> QED BY <1>4, <1>5, <1>7 DEF Served, Store!Step

LEMMA PutSame ==
  ASSUME NEW f, NEW b, NEW D, NEW H, Vol(f, b, D, H), NEW d \in D,
         NEW p \in DOMAIN SlotsIn(f, b, d),
         NEW a \in DiskType, \A c \in On(f, d) : a[c] = b[c]
  PROVE  Put(a, Chain(f, d), p, SlotsIn(f, b, d)[p]) = a
<1> DEFINE s == Chain(f, d)
           x == SlotsIn(f, b, d)[p]
           k == s[Row(p)]
           j == Col(p)
<1>1. s \in Seq(Clusters) /\ DirBlocks(b, s) /\ b \in DiskType
  BY DirSlots DEF Vol
<1>2. SlotsIn(f, b, d) = Flat(b, s)
  BY DEF SlotsIn
<1>3. k \in ToSet(s) /\ k \in Clusters /\ x = b[k][j]
  <2>1. Row(p) \in 1..Len(s) /\ k \in ToSet(s)
    BY <1>1, <1>2, FlatSlot
  <2>2. p \in 1..PerCluster * Len(s)
    BY <1>2, FlatIs
  <2> QED BY <1>1, <1>2, <2>1, <2>2, FlatIs
<1>4. x = a[k][j] /\ a[k] \in Seq(SlotType)
  BY <1>3 DEF On, DiskType
<1> HIDE DEF s, x, k, j
<1>5. [a[k] EXCEPT ![j] = x] = a[k]
  BY <1>4
<1>6. [a EXCEPT ![k] = a[k]] = a
  BY <1>3 DEF DiskType
<1> QED BY <1>5, <1>6 DEF Put, s, x, k, j

(* The map of a directory in which an entry is replaced by one of the same *)
(* name.                                                                   *)
LEMMA OverIs ==
  ASSUME Whole, NEW d \in Dirs, NEW n, Find(d, n) # 0, NEW p, p = Find(d, n),
         NEW x, Active(x), x.name = n, NEW node
  PROVE  Replanted(fat, disk, Dirs, Dirs, d, p, x, node)
         = [Tree EXCEPT ![d] = Store!Bind(Tree[d], n, node)]
<1> DEFINE S == SlotsIn(fat, disk, d)
           dir == Store!Bind(Tree[d], n, node)
<1>1. p \in Live(S) /\ S[p].name = n
  BY Terms, FindIs
<1>2. \A t : Rebound(t, S, p, x, node) = Store!Bind(Store!Unbind(t, n), n, node)
  BY <1>1 DEF Rebound
<1>3. \A t : Store!Bind(Store!Unbind(t, n), n, node) = Store!Bind(t, n, node)
  <2> SUFFICES ASSUME NEW t PROVE Store!Bind(Store!Unbind(t, n), n, node) = Store!Bind(t, n, node)
    OBVIOUS
  <2>1. PICK u : u = Store!Unbind(t, n)
    OBVIOUS
  <2>2. DOMAIN u = DOMAIN t \ {n} /\ \A m \in DOMAIN t \ {n} : u[m] = t[m]
    BY <2>1 DEF Store!Unbind
  <2>3. DOMAIN u \cup {n} = DOMAIN t \cup {n}
    BY <2>2
  <2>4. Store!Bind(u, n, node) = Store!Bind(t, n, node)
    BY <2>2, <2>3 DEF Store!Bind
  <2> QED BY <2>1, <2>4
<1>4. Tree = [h \in Dirs |-> Tree[h]] /\ TreeOf(fat, disk) = Tree
  BY FindTree, TreeTerms
<1>5. Rebound(Tree[d], S, p, x, node) = dir
  BY <1>2, <1>3
<1> HIDE DEF S, dir
<1>6. Replanted(fat, disk, Dirs, Dirs, d, p, x, node) = [h \in Dirs |-> IF h = d THEN dir ELSE Tree[h]]
  BY <1>4, <1>5 DEF Replanted, S
<1>7. [h \in Dirs |-> IF h = d THEN dir ELSE Tree[h]] = [Tree EXCEPT ![d] = dir]
  BY <1>4
<1> QED BY <1>6, <1>7 DEF dir

(* Rewriting first cluster and size of a file's entry.                     *)
LEMMA ReferIs ==
  ASSUME Whole, NEW d \in Dirs, NEW n, NEW p, p = Find(d, n),
         p \in DOMAIN SlotsIn(fat, disk, d), NEW o, o = SlotsIn(fat, disk, d)[p],
         o \in SlotType, o.kind = "file", o.name = n,
         NEW a \in DiskType, \A c \in On(fat, d) : a[c] = disk[c],
         NEW first, NEW size
  PROVE  Refer(a, d, n, first, size) = Put(a, Chain(fat, d), p, Slot("file", n, first, size))
<1> DEFINE s == Chain(fat, d)
           k == s[Row(p)]
           j == Col(p)
<1>1. s \in Seq(Clusters) /\ DirBlocks(disk, s) /\ disk \in DiskType
  BY DirSlots DEF Whole, Vol
<1>2. SlotsIn(fat, disk, d) = Flat(disk, s)
  BY DEF SlotsIn
<1>3. k \in ToSet(s) /\ k \in Clusters /\ j \in 1..PerCluster /\ o = disk[k][j]
  <2>1. Row(p) \in 1..Len(s) /\ k \in ToSet(s) /\ j \in 1..PerCluster
    BY <1>1, <1>2, FlatSlot
  <2>2. p \in 1..PerCluster * Len(s)
    BY <1>2, FlatIs
  <2> QED BY <1>1, <1>2, <2>1, <2>2, FlatIs
<1>4. o = a[k][j]
  BY <1>3 DEF On
<1> HIDE DEF s, k, j
<1>5. s = Chain(fat, d) /\ k = s[Row(p)] /\ j = Col(p)
  BY DEF s, k, j
<1>6. Refer(a, d, n, first, size)
      = [a EXCEPT ![k] = [@ EXCEPT ![j] = Slot(a[k][j].kind, a[k][j].name, first, size)]]
  BY <1>5 DEF Refer
<1> QED BY <1>4, <1>5, <1>6 DEF Put

LEMMA WriteOverKeeps ==
  ASSUME Whole, NEW d \in Dirs, NEW n \in Names, NEW content \in Contents,
         WriteOver(d, n, content), Spares(Entries \ {Entry(d, n)})
  PROVE  Whole' /\ Served
<1>1. PICK p, o : p = Find(d, n) /\ o = Entry(d, n)
  OBVIOUS
<1> DEFINE S == SlotsIn(fat, disk, d)
           f1 == FreeChain(fat, o.first)
           H1 == Heads \ {o.first}
           cs == Alloc(f1, Len(content))
           a == Written(disk, cs, content)
           x == Slot("file", n, First(cs), Len(content))
<1>2. /\ p # 0 /\ o.kind = "file"
      /\ IF Len(cs) = Len(content)
           THEN fat' = Linked(f1, cs) /\ disk' = Refer(a, d, n, First(cs), Len(content))
           ELSE fat' = f1 /\ disk' = a
  BY <1>1 DEF WriteOver, HasFile
<1>3. /\ p \in Live(S) /\ p \in DOMAIN S /\ o = S[p] /\ o \in SlotType /\ Active(o)
      /\ \A q \in 1..p-1 : q \in DOMAIN S /\ S[q].kind # "end"
      /\ \A q \in Live(S) : q # p => S[q].name # o.name
      /\ Named(fat, disk, d, p) = {o.first}
      /\ o.first \in (Heads \ Dirs) \cup {0} \cup FreeClusters(fat)
      /\ o.first \notin FreeClusters(fat) => Len(Chain(fat, o.first)) = o.size
  BY <1>1, <1>2, EntryIs
<1>4. Freed(fat, f1, disk, Dirs, Heads, o.first)
  BY <1>3, FreedIs
<1>5. /\ Vol(fat, disk, Dirs, Heads) /\ fat \in FatType /\ disk \in DiskType
      /\ Root \in Dirs /\ Dirs \subseteq Heads /\ Chains(fat, Heads)
  BY DEF Whole, Vol
<1>6. o.first \notin Dirs
  <2>1. \A h \in Dirs : h \in Clusters /\ fat[h] # Free
    BY <1>5, HeadsTaken
  <2> QED BY <1>3, <2>1, VolumeAssumption DEF FreeClusters, Clusters
<1>7. /\ f1 \in FatType /\ Chains(f1, H1) /\ Same(fat, f1, H1)
      /\ Blocks(f1, disk, Dirs, H1)
      /\ FreeClusters(fat) \subseteq FreeClusters(f1)
      /\ o.first \in Heads => o.first \in FreeClusters(f1)
      /\ \A h \in H1 : On(f1, h) = On(fat, h)
      /\ Dirs \subseteq H1
  <2>1. Dirs \ {o.first} = Dirs
    BY <1>6
  <2> HIDE DEF f1
  <2> QED BY <1>4, <1>5, <2>1 DEF Freed
<1>8. Fresh(f1, cs) /\ Len(cs) <= Len(content) /\ Len(content) \in Nat
  <2>1. Len(content) \in Nat
    BY VolumeAssumption
  <2> QED BY <2>1, AllocFresh
<1>9. OthersDangle(fat, disk, Dirs, fat', d, p)
  BY <1>1, <1>3, OthersSpared
<1> HIDE DEF f1, cs
<1>10. Store!HasFile(Tree, d, n) /\ ~Store!HasDir(Tree, d, n) /\ d \in DOMAIN Tree
  <2>1. NodeIn(fat, disk, o)[1] # "dir"
    BY <1>2 DEF NodeIn, Store!Lost, Store!File
  <2>2. Tree = [h \in Dirs |-> Tree[h]] /\ n \in DOMAIN Tree[d] /\ Tree[d][n] = NodeIn(fat, disk, o)
    BY <1>1, <1>2, FindTree
  <2> QED BY <2>1, <2>2 DEF Store!HasFile, Store!HasDir, Store!Has
<1>11. CASE Len(cs) = Len(content)
  <2> DEFINE g == Linked(f1, cs)
             New == HeadOf(cs)
  <2>1. fat' = g /\ disk' = Refer(a, d, n, First(cs), Len(content))
    BY <1>2, <1>11
  <2>2. NewFile(f1, disk, Dirs, H1, cs, content)
    BY <1>5, <1>7, <1>8, <1>11, NewFileIs
  <2>3. /\ g \in FatType /\ a \in DiskType
        /\ Chains(g, H1 \cup New) /\ Blocks(g, a, Dirs, H1 \cup New) /\ Same(f1, g, H1)
        /\ \A h \in H1 : \A c \in On(f1, h) : a[c] = disk[c]
        /\ New \subseteq {First(cs)} /\ New \cap H1 = {}
        /\ First(cs) \in New \cup {0} /\ First(cs) \in Clusters \cup {0}
        /\ Len(Chain(g, First(cs))) = Len(content)
    BY <2>2 DEF NewFile
  <2>4. x.kind = "file" /\ x.name = n /\ x.first = First(cs) /\ x.size = Len(content)
    BY DEF Slot
  <2>5. x \in SlotType
    BY <1>8, <2>3 DEF Slot, SlotType
  <2>6. \A q \in Live(S) : q # p => S[q].name # n
    <3>1. Slots(d)[p].name = n
      BY <1>1, <1>2, FindIs
    <3> QED BY <1>3, <3>1, Terms
  <2>7. Same(fat, g, H1)
    BY <1>7, <2>3 DEF Same
  <2>8. \A h \in H1 : \A c \in On(fat, h) : a[c] = disk[c]
    BY <1>7, <2>3
  <2>9. NodeIn(g, a, x) = Store!File(content)
    BY <2>2, <2>4, FileNode
  <2> HIDE DEF g, a, New
  <2>14. disk' = Put(a, Chain(fat, d), p, x)
    <3>1. d \in H1
      BY <1>5, <1>6
    <3>2. o.name = n
      BY <1>1, <1>2, <1>3, Terms, FindIs
    <3> HIDE DEF S
    <3> QED BY <1>1, <1>2, <1>3, <1>5, <2>1, <2>3, <2>8, <3>1, <3>2, ReferIs DEF S
  <2> HIDE DEF x, S
  <2>10. Prepared(fat, disk, Dirs, Heads, g, a, Dirs, H1 \cup New, d, p, x, New)
    BY <1>3, <1>5, <1>6, <2>3, <2>4, <2>5, <2>6, <2>7, <2>8 DEF Prepared, Active, S
  <2>11. /\ Vol(g, disk', Dirs, H1 \cup New)
         /\ TreeOf(g, disk') = Replanted(fat, disk, Dirs, Dirs, d, p, x, NodeIn(g, a, x))
    BY <1>3, <1>5, <1>9, <2>1, <2>3, <2>4, <2>10, <2>14, InPlace DEF S
  <2>12. Tree' = [Tree EXCEPT ![d] = Store!Bind(Tree[d], n, Store!File(content))]
    <3>1. Active(x)
      BY <2>4 DEF Active
    <3> QED BY <1>1, <1>2, <2>1, <2>4, <2>9, <2>11, <3>1, OverIs, TreeTerms
  <2>13. Store!Write(Tree, Tree', d, n, content)
    BY <1>10, <2>12 DEF Store!Write
  <2> QED BY <1>10, <2>1, <2>11, <2>13, VolNext DEF Served, Store!Step
<1>12. CASE Len(cs) # Len(content)
  <2>1. fat' = f1 /\ disk' = a
    BY <1>2, <1>12
  <2>2. a \in DiskType /\ \A c \in Clusters : c \notin ToSet(cs) => a[c] = disk[c]
    BY <1>5, <1>8, WrittenBlocks
  <2> HIDE DEF a, S
  <2>3. \A h \in H1 : \A c \in On(f1, h) : a[c] = disk[c]
    <3>1. \A c \in ToSet(cs) : f1[c] = Free
      BY <1>8, InSet DEF Fresh, FreeClusters
    <3> QED BY <1>7, <2>2, <3>1, HeadsTaken
  <2>4. Blocks(f1, a, Dirs, H1)
    BY <1>7, <2>3 DEF Blocks
  <2>5. \A h \in H1 : \A c \in On(fat, h) : a[c] = disk[c]
    BY <1>7, <2>3
  <2>6. Prepared(fat, disk, Dirs, Heads, f1, a, Dirs, H1, d, p, o, {})
    BY <1>2, <1>3, <1>5, <1>6, <1>7, <2>2, <2>4, <2>5 DEF Prepared, Active, S
  <2>7. /\ o.first \in {0} \cup FreeClusters(f1)
        /\ o.first \notin FreeClusters(f1) => Len(Chain(f1, o.first)) = o.size
    <3>1. o.first \in {0} \cup FreeClusters(f1)
      BY <1>3, <1>7
    <3>2. o.first = 0 => Chain(f1, o.first) = Chain(fat, o.first)
      BY <1>5, <1>7, ChainOfZero
    <3> QED BY <1>3, <1>7, <3>1, <3>2
  <2>8. a = Put(a, Chain(fat, d), p, o)
    <3>1. d \in H1
      BY <1>5, <1>6
    <3> QED BY <1>3, <1>5, <2>2, <2>5, <3>1, PutSame DEF S
  <2>9. /\ Vol(f1, a, Dirs, H1)
        /\ TreeOf(f1, a) = Replanted(fat, disk, Dirs, Dirs, d, p, o, NodeIn(f1, a, o))
    BY <1>3, <1>5, <1>9, <2>1, <2>6, <2>7, <2>8, InPlace DEF S
  <2>10. Tree' = [Tree EXCEPT ![d] = Store!Bind(Tree[d], n, NodeIn(f1, a, o))]
    <3>1. o.name = n
      BY <1>1, <1>2, <1>3, Terms, FindIs DEF S
    <3> QED BY <1>1, <1>2, <1>3, <2>1, <2>9, <3>1, OverIs, TreeTerms
  <2>11. CASE o.first \in FreeClusters(f1)
    <3>1. NodeIn(f1, a, o) = Store!Lost
      BY <1>2, <2>11 DEF NodeIn
    <3>2. Store!Lose(Tree, Tree', d, n)
      BY <1>10, <2>10, <3>1 DEF Store!Lose
    <3> QED BY <1>10, <2>1, <2>9, <3>2, VolNext DEF Served, Store!Step
  <2>12. CASE o.first = 0
    <3>1. 0 \notin FreeClusters(fat) /\ 0 \notin FreeClusters(f1)
      BY VolumeAssumption DEF FreeClusters, Clusters
    <3>2. Chain(fat, 0) = <<>> /\ Chain(f1, 0) = <<>>
      BY <1>5, <1>7, ChainOfZero
    <3>3. o.size = 0
      BY <1>3, <2>12, <3>1, <3>2
    <3>4. NodeIn(f1, a, o) = NodeIn(fat, disk, o)
      BY <2>12, <3>1, <3>2, <3>3, NodeSame
    <3>5. PICK t : /\ t = Tree[d] /\ Tree = [h \in Dirs |-> Tree[h]]
                   /\ t = [m \in DOMAIN t |-> t[m]] /\ n \in DOMAIN t
                   /\ t[n] = NodeIn(f1, a, o)
      BY <1>1, <1>2, <3>4, FindTree
    <3>6. Store!Bind(t, n, NodeIn(f1, a, o)) = t
      BY <3>5 DEF Store!Bind
    <3>7. Tree' = Tree
      BY <2>10, <3>5, <3>6
    <3> QED BY <2>1, <2>9, <3>7, VolNext DEF Served
  <2> QED BY <2>7, <2>11, <2>12
<1> QED BY <1>11, <1>12

(* The cluster of a new directory: "." and "..", and no entries.           *)
LEMMA NewDirIs ==
  ASSUME NEW c \in Clusters, NEW d \in Clusters, NEW t, t = NewDir(c, d)
  PROVE  /\ t \in Seq(SlotType) /\ DirBlock(t) /\ \A y \in ToSet(t) : ~Active(y)
         /\ t[1] = Slot("dot", ".", c, 0) /\ t[2] = Slot("dot", "..", ParentRef(d), 0)
<1> DEFINE x == Slot("dot", ".", c, 0)
           y == Slot("dot", "..", ParentRef(d), 0)
           u == Ends(PerCluster - 2)
           n == PerCluster - 2
<1>1. PerCluster \in Nat /\ n \in Nat /\ PerCluster = n + 2
  BY VolumeAssumption
<1>2. /\ x \in SlotType /\ y \in SlotType /\ End \in SlotType
  BY DEF Slot, SlotType, ParentRef, End
<1>3. /\ x.kind # "data" /\ y.kind # "data" /\ End.kind # "data"
      /\ ~Active(x) /\ ~Active(y) /\ ~Active(End)
  BY DEF Slot, End, Active
<1>4. /\ u \in Seq(SlotType) /\ Len(u) = n /\ \A i \in 1..n : u[i] = End
  BY <1>1, <1>2 DEF Ends
<1>5. t = <<x, y>> \o u
  BY DEF NewDir
<1> HIDE DEF x, y, u, n
<1>6. <<x, y>> \in Seq(SlotType) /\ Len(<<x, y>>) = 2
  BY <1>2
<1>7. /\ t \in Seq(SlotType) /\ Len(t) = n + 2 /\ t[1] = x /\ t[2] = y
  BY <1>1, <1>2, <1>4, <1>5, <1>6
<1>8. ASSUME NEW i \in 1..n + 2, i # 1, i # 2 PROVE t[i] = End
  <2>1. i - 2 \in 1..n /\ t[i] = u[i - 2]
    BY <1>1, <1>4, <1>5, <1>6, <1>8
  <2> QED BY <1>4, <2>1
<1>9. \A i \in 1..n + 2 : t[i].kind # "data" /\ ~Active(t[i])
  BY <1>3, <1>7, <1>8
<1>10. DirBlock(t)
  BY <1>1, <1>7, <1>9 DEF DirBlock
<1>11. \A z \in ToSet(t) : ~Active(z)
  BY <1>7, <1>9, InSet
<1> QED BY <1>7, <1>10, <1>11 DEF x, y

(* A directory is made in a cluster that was free.                         *)
LEMMA PlantMakes ==
  ASSUME Whole, NEW d \in Dirs, NEW n \in Names, Find(d, n) = 0,
         NEW c \in Clusters, c \notin Heads,
         Tree' = Planted(Dirs \cup {c}, d, n, Store!Dir(c))
  PROVE  Served
<1> DEFINE dir == Store!Bind(Tree[d], n, Store!Dir(c))
<1>1. Tree = [h \in Dirs |-> Tree[h]] /\ n \notin DOMAIN Tree[d]
  BY FindTree
<1>2. c \notin Dirs
  BY DEF Whole, Vol
<1>3. DOMAIN Tree = Dirs
  BY <1>1
<1>4. Tree' = [h \in Dirs \cup {c} |-> IF h = c THEN Store!Empty ELSE IF h = d THEN dir ELSE Tree[h]]
  <2> HIDE DEF dir
  <2>1. Planted(Dirs \cup {c}, d, n, Store!Dir(c))
        = [h \in Dirs \cup {c} |-> IF h \notin Dirs THEN Store!Empty ELSE IF h = d THEN dir ELSE Tree[h]]
    BY DEF Planted, dir
  <2> QED BY <1>2, <2>1
<1>5. Store!MakeDir(Tree, Tree', d, n)
  <2>1. ~Store!Has(Tree, d, n)
    BY <1>1 DEF Store!Has
  <2>2. /\ c \in Clusters \ DOMAIN Tree
        /\ Tree' = [e \in DOMAIN Tree \cup {c} |->
                      IF e = c THEN Store!Empty
                      ELSE IF e = d THEN Store!Bind(Tree[d], n, Store!Dir(c)) ELSE Tree[e]]
    BY <1>2, <1>3, <1>4
  <2> QED BY <2>1, <2>2 DEF Store!MakeDir
<1> QED BY <1>3, <1>5 DEF Served, Store!Step

LEMMA MkDirKeeps ==
  ASSUME Whole, Spares(Entries), NEW d \in Dirs, NEW n \in Names, MkDir(d, n)
  PROVE  Whole' /\ Served
<1>1. PICK c : c = Min(FreeClusters(fat))
  OBVIOUS
<1> DEFINE g == [fat EXCEPT ![c] = EOC]
           a == [disk EXCEPT ![c] = NewDir(c, d)]
           x == Slot("dir", n, c, 0)
           E == Dirs \cup {c}
           K == Heads \cup {c}
           S == SlotsIn(fat, disk, d)
<1>2. /\ Find(d, n) = 0 /\ FreeClusters(fat) # {}
      /\ IF CanCreate(g, a, d) THEN CreateEntry(g, a, d, x) ELSE disk' = a /\ fat' = fat
  BY <1>1 DEF MkDir, Absent
<1>3. /\ Vol(fat, disk, Dirs, Heads) /\ fat \in FatType /\ disk \in DiskType
      /\ Root \in Dirs /\ Dirs \subseteq Heads /\ Chains(fat, Heads) /\ Heads \subseteq Clusters
      /\ Blocks(fat, disk, Dirs, Heads)
  BY DEF Whole, Vol, Chains
<1>4. c \in FreeClusters(fat) /\ c \in Clusters /\ fat[c] = Free
  <2>1. FreeClusters(fat) \in SUBSET Nat
    BY VolumeAssumption DEF FreeClusters, Clusters
  <2> QED BY <1>1, <1>2, <2>1, MinIs DEF FreeClusters
<1>5. PICK t : t = NewDir(c, d)
  OBVIOUS
<1>6. /\ t \in Seq(SlotType) /\ DirBlock(t) /\ \A y \in ToSet(t) : ~Active(y)
      /\ t[1] = Slot("dot", ".", c, 0) /\ t[2] = Slot("dot", "..", ParentRef(d), 0)
  BY <1>3, <1>4, <1>5, NewDirIs
<1>7. /\ a \in DiskType /\ a[c] = t /\ \A k \in Clusters : k # c => a[k] = disk[k]
  BY <1>3, <1>4, <1>5, <1>6 DEF DiskType
<1>8. CASE ~CanCreate(g, a, d)
  <2>1. disk' = a /\ fat' = fat
    BY <1>2, <1>8
  <2> HIDE DEF a
  <2>2. Vol(fat, a, Dirs, Heads) /\ TreeOf(fat, a) = TreeOf(fat, disk)
    BY <1>3, <1>4, <1>7, FreeBlocks
  <2> QED BY <2>1, <2>2, VolNext, TreeTerms DEF Served
<1>9. CASE CanCreate(g, a, d)
  <2>1. CreateEntry(g, a, d, x)
    BY <1>2, <1>9
  <2>2. Fresh(fat, <<c>>) /\ HeadOf(<<c>>) = {c} /\ <<c>> # <<>> /\ <<c>>[1] = c /\ ToSet(<<c>>) = {c}
    BY <1>4 DEF Fresh, HeadOf, ToSet
  <2>3. g = Linked(fat, <<c>>)
    <3>1. Last(<<c>>) = c
      BY DEF Last
    <3> QED BY <1>3, <1>4, <2>2, <3>1 DEF Linked, FatType
  <2>4. /\ g \in FatType /\ Chains(g, K) /\ Same(fat, g, Heads)
        /\ Chain(g, c) = <<c>> /\ c \notin Heads
    <3> HIDE DEF g
    <3>1. <<c>> # <<>> => Chain(Linked(fat, <<c>>), <<c>>[1]) = <<c>> /\ <<c>>[1] \notin Heads
      BY <1>3, <2>2, LinkedChains
    <3>2. /\ Linked(fat, <<c>>) \in FatType /\ Chains(Linked(fat, <<c>>), Heads \cup HeadOf(<<c>>))
          /\ Same(fat, Linked(fat, <<c>>), Heads)
      BY <1>3, <2>2, LinkedChains
    <3> QED BY <2>2, <2>3, <3>1, <3>2
  <2>5. On(g, c) = {c} /\ \A h \in Heads : On(g, h) = On(fat, h)
    BY <2>2, <2>4 DEF Same, On
  <2>6. \A h \in Heads : \A k \in On(fat, h) : a[k] = disk[k]
    BY <1>3, <1>4, <1>7, HeadsTaken
  <2> HIDE DEF g, a
  <2>7. Blocks(g, a, E, K)
    <3>1. \A h \in Dirs : \A k \in On(g, h) : DirBlock(a[k])
      BY <1>3, <2>5, <2>6 DEF Blocks
    <3>2. \A k \in On(g, c) : DirBlock(a[k])
      BY <1>6, <1>7, <2>5
    <3>3. \A h \in Heads \ Dirs : \A k \in On(g, h) : FileBlock(a[k])
      BY <1>3, <2>5, <2>6 DEF Blocks
    <3> QED BY <2>4, <3>1, <3>2, <3>3 DEF Blocks
  <2>8. /\ SlotsIn(g, a, c)[1] = Slot("dot", ".", c, 0)
        /\ SlotsIn(g, a, c)[2] = Slot("dot", "..", ParentRef(d), 0)
    <3>1. SlotsIn(g, a, c)[1] = a[c][1] /\ SlotsIn(g, a, c)[2] = a[c][2]
      BY <2>4, FirstSlots
    <3> QED BY <1>6, <1>7, <3>1
  <2>9. Live(SlotsIn(g, a, c)) = {}
    <3> SUFFICES ASSUME NEW q \in Live(SlotsIn(g, a, c)) PROVE FALSE
      OBVIOUS
    <3>1. PICK s : s = <<c>> /\ s \in Seq(Clusters) /\ ToSet(s) = {c}
      <4>1. <<c>> \in Seq(Clusters)
        BY <1>4
      <4> HIDE DEF a
      <4> QED BY <2>2, <4>1, Zenon
    <3>2. SlotsIn(g, a, c) = Flat(a, s) /\ DirBlocks(a, s)
      BY <1>6, <1>7, <2>4, <3>1 DEF SlotsIn, DirBlocks
    <3>3. q \in DOMAIN Flat(a, s) /\ Active(Flat(a, s)[q])
      BY <3>2 DEF Live
    <3>4. s[Row(q)] \in ToSet(s) /\ Flat(a, s)[q] \in ToSet(a[s[Row(q)]])
      BY <1>7, <3>1, <3>2, <3>3, FlatSlot
    <3> QED BY <1>6, <1>7, <3>1, <3>3, <3>4
  <2>10. x.kind = "dir" /\ x.name = n /\ x.first = c /\ x \in SlotType /\ c # Root
    <3>1. c # Root
      BY <1>3, <2>4
    <3> QED BY <1>4, <3>1 DEF Slot, SlotType
  <2>11. NodeIn(g, a, x) = Store!Dir(c) /\ Active(x)
    BY <2>10 DEF NodeIn, Active
  <2> HIDE DEF x, S, E, K
  <2>12. ASSUME NEW p, p \in DOMAIN Slots(d) => Slots(d)[p].kind \in {"end", "deleted"}
        PROVE  Prepared(fat, disk, Dirs, Heads, g, a, E, K, d, p, x, {c})
    <3>1. Named(fat, disk, d, p) = {} /\ Slots(d) = SlotsIn(fat, disk, d)
      BY <2>12, Terms DEF Named, Live, Active
    <3>2. \A q \in Live(SlotsIn(fat, disk, d)) : SlotsIn(fat, disk, d)[q].name # n
      BY <1>2, <3>1, FindIs
    <3> QED BY <1>3, <1>7, <2>4, <2>6, <2>7, <2>8, <2>9, <2>10, <2>12, <3>1, <3>2
            DEF Prepared, Active, E, K
  <2>13. Chain(g, d) = Chain(fat, d) /\ SlotsIn(g, a, d) = Slots(d)
    BY <2>4, <2>6, SlotsStay
  <2>14. Whole' /\ Tree' = Planted(E, d, n, Store!Dir(c))
    BY <1>9, <2>1, <2>10, <2>11, <2>12, <2>13, CreateKeeps
  <2> QED BY <1>2, <1>4, <2>4, <2>14, PlantMakes DEF E
<1> QED BY <1>8, <1>9

-----------------------------------------------------------------------------
(* The types, which every call keeps on every volume, crossed ones too: an *)
(* EXCEPT at a place there is none changes nothing.                        *)
Full == [Clusters -> [1..PerCluster -> SlotType]]

LEMMA PutTypes ==
  ASSUME NEW b \in Full, NEW k, NEW j, NEW x, x \in SlotType \/ x = b[k][j]
  PROVE  [b EXCEPT ![k] = [@ EXCEPT ![j] = x]] \in Full
<1>1. CASE k \in Clusters
  <2>1. PICK o : o = b[k] /\ o \in [1..PerCluster -> SlotType]
    BY <1>1 DEF Full
  <2>2. [o EXCEPT ![j] = x] \in [1..PerCluster -> SlotType]
    <3>1. CASE j \in 1..PerCluster
      BY <2>1, <3>1
    <3>2. CASE j \notin 1..PerCluster
      BY <2>1, <3>2
    <3> QED BY <3>1, <3>2
  <2> QED BY <1>1, <2>1, <2>2 DEF Full
<1>2. CASE k \notin Clusters
  BY <1>2 DEF Full
<1> QED BY <1>1, <1>2

LEMMA SetSlotTypes ==
  ASSUME NEW b \in Full, NEW g, NEW d, NEW p, NEW x \in SlotType
  PROVE  SetSlot(g, b, d, p, x) \in Full
<1>1. PICK k, j : k = Chain(g, d)[Row(p)] /\ j = Col(p)
  OBVIOUS
<1>2. SetSlot(g, b, d, p, x) = [b EXCEPT ![k] = [@ EXCEPT ![j] = x]]
  BY <1>1 DEF SetSlot
<1>3. [b EXCEPT ![k] = [@ EXCEPT ![j] = x]] \in Full
  BY PutTypes, Zenon
<1> QED BY <1>2, <1>3, Zenon

LEMMA ReferTypes ==
  ASSUME NEW b \in Full, NEW d, NEW n, NEW first \in Clusters \cup {0}, NEW size \in Nat
  PROVE  Refer(b, d, n, first, size) \in Full
<1>1. PICK k, j : k = Chain(fat, d)[Row(Find(d, n))] /\ j = Col(Find(d, n))
  OBVIOUS
<1>2. PICK x : x = Slot(b[k][j].kind, b[k][j].name, first, size)
  OBVIOUS
<1>3. Refer(b, d, n, first, size) = [b EXCEPT ![k] = [b[k] EXCEPT ![j] = x]]
  BY <1>1, <1>2 DEF Refer
<1>4. CASE k \in Clusters
  <2>1. PICK o : o = b[k] /\ o \in [1..PerCluster -> SlotType]
    BY <1>4 DEF Full
  <2>2. [o EXCEPT ![j] = x] \in [1..PerCluster -> SlotType]
    <3>1. CASE j \in 1..PerCluster
      <4>1. o[j] \in SlotType
        BY <2>1, <3>1
      <4>2. x \in SlotType
        BY <1>2, <2>1, <4>1 DEF SlotType, Slot
      <4> QED BY <2>1, <4>2
    <3>2. CASE j \notin 1..PerCluster
      BY <2>1, <3>2
    <3> QED BY <3>1, <3>2
  <2> QED BY <1>3, <1>4, <2>1, <2>2 DEF Full
<1>5. CASE k \notin Clusters
  BY <1>3, <1>5 DEF Full
<1> QED BY <1>4, <1>5

LEMMA LeastFree ==
  ASSUME NEW g, FreeClusters(g) # {}
  PROVE  Min(FreeClusters(g)) \in Clusters
<1>1. FreeClusters(g) \in SUBSET Nat
  BY VolumeAssumption DEF FreeClusters, Clusters
<1> QED BY <1>1, MinIs DEF FreeClusters

LEMMA CreateTypes ==
  ASSUME NEW g \in FatType, NEW a \in Full, NEW d, NEW x \in SlotType,
         CanCreate(g, a, d), CreateEntry(g, a, d, x)
  PROVE  fat' \in FatType /\ disk' \in Full
<1>1. CASE FreeSlot(g, a, d) # 0
  BY <1>1, SetSlotTypes DEF CreateEntry
<1>2. CASE FreeSlot(g, a, d) = 0
  <2>1. PICK c : c = Min(FreeClusters(g)) /\ c \in Clusters
    BY <1>2, LeastFree DEF CanCreate
  <2>2. PICK t : t = <<x>> \o Ends(PerCluster - 1)
    OBVIOUS
  <2>3. t \in [1..PerCluster -> SlotType]
    <3> DEFINE u == Ends(PerCluster - 1)
               m == PerCluster - 1
    <3>1. m \in Nat /\ PerCluster = m + 1
      BY VolumeAssumption
    <3>5. End \in SlotType
      BY DEF SlotType, End, Slot
    <3>2. u \in Seq(SlotType) /\ Len(u) = m
      BY <3>1, <3>5 DEF Ends
    <3>3. <<x>> \in Seq(SlotType) /\ Len(<<x>>) = 1
      OBVIOUS
    <3> HIDE DEF u, m
    <3>4. t \in Seq(SlotType) /\ Len(t) = m + 1
      BY <2>2, <3>1, <3>2, <3>3 DEF u
    <3> QED BY <3>1, <3>4
  <2>4. PICK l : l = Last(Chain(g, d))
    OBVIOUS
  <2>5. fat' = [[g EXCEPT ![c] = EOC] EXCEPT ![l] = c] /\ disk' = [a EXCEPT ![c] = t]
    BY <1>2, <2>1, <2>2, <2>4 DEF CreateEntry
  <2>6. [g EXCEPT ![c] = EOC] \in FatType
    BY <2>1 DEF FatType
  <2>7. fat' \in FatType
    BY <2>1, <2>5, <2>6 DEF FatType
  <2> QED BY <2>1, <2>3, <2>5, <2>7 DEF Full
<1> QED BY <1>1, <1>2

LEMMA WriteTypes ==
  ASSUME NEW f \in FatType, NEW b \in Full, NEW content \in Contents,
         NEW cs, cs = Alloc(f, Len(content))
  PROVE  /\ Linked(f, cs) \in FatType /\ Written(b, cs, content) \in Full
         /\ First(cs) \in Clusters \cup {0} /\ Len(content) \in Nat
<1>1. content \in Seq(ToSet(content) \ Names) /\ Len(content) \in Nat
  BY VolumeAssumption
<1>2. Fresh(f, cs) /\ Len(cs) <= Len(content)
  BY <1>1, AllocFresh
<1>3. /\ cs \in Seq(Clusters) /\ Len(cs) \in Nat /\ DOMAIN cs = 1..Len(cs)
      /\ \A i \in 1..Len(cs) : cs[i] \in Clusters
  BY <1>2 DEF Fresh, FreeClusters
<1>4. \A c \in ToSet(cs) : \E i \in 1..Len(cs) : c = cs[i]
  BY <1>3, InSet
<1>5. ASSUME NEW c \in Clusters PROVE Linked(f, cs)[c] \in Clusters \cup {Free, EOC}
  <2>1. CASE c \in ToSet(cs) /\ c # Last(cs)
    <3>1. PICK i \in 1..Len(cs) : c = cs[i]
      BY <1>4, <2>1
    <3>2. i # Len(cs)
      BY <2>1, <3>1 DEF Last
    <3>3. i + 1 \in DOMAIN cs /\ i + 1 > 1 /\ cs[(i + 1) - 1] = c
      <4>1. i \in 1..Len(cs) /\ (i + 1) - 1 = i /\ i + 1 > 1
        BY <3>1
      <4>2. i + 1 \in 1..Len(cs)
        <5>1. PICK l \in Nat : l = Len(cs)
          BY <1>3
        <5>2. i \in 1..l /\ i # l
          BY <3>2, <4>1, <5>1
        <5>3. i + 1 \in 1..l
          BY <5>2
        <5> QED BY <5>1, <5>3
      <4>3. cs[(i + 1) - 1] = c
        BY <3>1, <4>1
      <4> QED BY <1>3, <4>1, <4>2, <4>3
    <3>4. PICK j : j = CHOOSE m \in DOMAIN cs : m > 1 /\ cs[m - 1] = c
      OBVIOUS
    <3>5. j \in DOMAIN cs
      BY <3>3, <3>4
    <3>6. Linked(f, cs)[c] = cs[j]
      BY <2>1, <3>4 DEF Linked
    <3> QED BY <1>3, <3>5, <3>6
  <2>2. CASE c \in ToSet(cs) /\ c = Last(cs)
    BY <2>2 DEF Linked
  <2>3. CASE c \notin ToSet(cs)
    BY <2>3 DEF Linked, FatType
  <2> QED BY <2>1, <2>2, <2>3
<1>6. Linked(f, cs) \in FatType
  BY <1>5 DEF Linked, FatType
<1>7. ASSUME NEW c \in Clusters PROVE Written(b, cs, content)[c] \in [1..PerCluster -> SlotType]
  <2>1. CASE c \in ToSet(cs)
    <3>1. PICK i : i = CHOOSE m \in DOMAIN cs : cs[m] = c
      OBVIOUS
    <3>2. i \in 1..Len(content)
      <4>1. i \in DOMAIN cs
        BY <1>3, <1>4, <2>1, <3>1
      <4> QED BY <1>1, <1>2, <1>3, <4>1
    <3>3. content[i] \in ToSet(content)
      BY <1>1, <3>2, IntoSet
    <3>4. Slot("data", content[i], 0, 0) \in SlotType
      BY <3>3 DEF Slot, SlotType
    <3>5. Written(b, cs, content)[c] = Data(content[i])
      BY <2>1, <3>1 DEF Written
    <3> QED BY <3>4, <3>5 DEF Data
  <2>2. CASE c \notin ToSet(cs)
    BY <2>2 DEF Written, Full
  <2> QED BY <2>1, <2>2
<1>8. Written(b, cs, content) \in Full
  BY <1>7 DEF Written, Full
<1>9. First(cs) \in Clusters \cup {0}
  BY <1>3 DEF First
<1> QED BY <1>1, <1>6, <1>8, <1>9

LEMMA NewDirTypes ==
  ASSUME NEW c \in Clusters, NEW d \in Clusters \cup {0}
  PROVE  NewDir(c, d) \in [1..PerCluster -> SlotType]
<1> DEFINE x == Slot("dot", ".", c, 0)
           y == Slot("dot", "..", ParentRef(d), 0)
           u == Ends(PerCluster - 2)
           n == PerCluster - 2
<1>1. PerCluster \in Nat /\ n \in Nat /\ PerCluster = n + 2
  BY VolumeAssumption
<1>2. x \in SlotType /\ y \in SlotType /\ End \in SlotType
  BY DEF Slot, SlotType, ParentRef, End
<1>3. u \in Seq(SlotType) /\ Len(u) = n
  BY <1>1, <1>2 DEF Ends
<1>4. NewDir(c, d) = <<x, y>> \o u
  BY DEF NewDir
<1> HIDE DEF x, y, u, n
<1>5. <<x, y>> \in Seq(SlotType) /\ Len(<<x, y>>) = 2
  BY <1>2
<1>6. PICK v : v = <<x, y>>
  OBVIOUS
<1>7. v \in Seq(SlotType) /\ Len(v) = 2
  BY <1>5, <1>6
<1>8. PICK w : w = v \o u
  OBVIOUS
<1>9. w \in Seq(SlotType) /\ Len(w) = n + 2
  <2>1. w \in Seq(SlotType) /\ Len(w) = Len(v) + Len(u)
    <3>1. v \in Seq(SlotType) /\ u \in Seq(SlotType)
      BY <1>3, <1>7
    <3> QED BY <1>8, <3>1, ConcatProperties, Zenon
  <2>2. PICK k, l : k = Len(v) /\ l = Len(u) /\ k = 2 /\ l = n
    BY <1>3, <1>7
  <2>3. k + l = n + 2
    BY <1>1, <2>2
  <2> QED BY <2>1, <2>2, <2>3
<1>10. w \in [1..PerCluster -> SlotType]
  BY <1>1, <1>9
<1> QED BY <1>4, <1>6, <1>8, <1>10

LEMMA CallersAre ==
  ASSUME TypeOK, NEW d \in Callers
  PROVE  d \in Clusters \cup {0}
<1>1. Root \in Clusters
  BY VolumeAssumption DEF Clusters, Root
<1>2. \A c \in Clusters : \A s \in ToSet(disk[c]) : s.first \in Clusters \cup {0}
  <2> SUFFICES ASSUME NEW c \in Clusters, NEW i \in DOMAIN disk[c]
               PROVE  disk[c][i].first \in Clusters \cup {0}
    BY DEF ToSet
  <2>1. disk[c][i] \in SlotType
    BY DEF TypeOK
  <2> QED BY <2>1 DEF SlotType
<1>3. \A s \in EntriesIn(Clusters) : s.first \in Clusters \cup {0}
  BY <1>2 DEF EntriesIn
<1>4. Entries \subseteq EntriesIn(Clusters)
  BY DEF Entries, EntriesIn, Allocated
<1> QED BY <1>1, <1>3, <1>4 DEF Callers, Dirs, DirsIn

LEMMA WriteNewTypes ==
  ASSUME TypeOK, NEW d, NEW n \in Names, NEW content \in Contents, WriteNew(d, n, content)
  PROVE  fat' \in FatType /\ disk' \in Full
<1> DEFINE cs == Alloc(fat, Len(content))
           g == Linked(fat, cs)
           a == Written(disk, cs, content)
           x == Slot("file", n, First(cs), Len(content))
<1>1. fat \in FatType /\ disk \in Full
  BY DEF TypeOK, FatType, Full
<1>2. g \in FatType /\ a \in Full /\ First(cs) \in Clusters \cup {0} /\ Len(content) \in Nat
  BY <1>1, WriteTypes
<1>3. x \in SlotType
  BY <1>2 DEF Slot, SlotType
<1>4. \/ CanCreate(g, a, d) /\ CreateEntry(g, a, d, x)
      \/ disk' = a /\ fat' = fat
  BY DEF WriteNew
<1> HIDE DEF g, a, x
<1> QED BY <1>1, <1>2, <1>3, <1>4, CreateTypes

LEMMA FreeChainTypes == \A f \in FatType : \A c : FreeChain(f, c) \in FatType
  BY DEF FreeChain, FatType

LEMMA WriteOverTypes ==
  ASSUME TypeOK, NEW d, NEW n \in Names, NEW content \in Contents, WriteOver(d, n, content)
  PROVE  fat' \in FatType /\ disk' \in Full
<1> DEFINE f1 == FreeChain(fat, Entry(d, n).first)
           cs == Alloc(f1, Len(content))
           a == Written(disk, cs, content)
<1>1. f1 \in FatType /\ disk \in Full
  BY FreeChainTypes DEF TypeOK, FatType, Full
<1>2. \/ fat' = Linked(f1, cs) /\ disk' = Refer(a, d, n, First(cs), Len(content))
      \/ fat' = f1 /\ disk' = a
  BY DEF WriteOver
<1> HIDE DEF f1
<1>3. /\ Linked(f1, cs) \in FatType /\ a \in Full /\ First(cs) \in Clusters \cup {0}
      /\ Len(content) \in Nat
  BY <1>1, WriteTypes
<1> HIDE DEF a, cs
<1> QED BY <1>1, <1>2, <1>3, ReferTypes

LEMMA RemoveTypes ==
  ASSUME TypeOK, NEW d, NEW n, NEW c, fat' = FreeChain(fat, c), disk' = Erase(d, n)
  PROVE  fat' \in FatType /\ disk' \in Full
<1>1. fat \in FatType /\ disk \in Full /\ Deleted \in SlotType
  BY DEF TypeOK, FatType, Full, Deleted, Slot, SlotType
<1> QED BY <1>1, FreeChainTypes, SetSlotTypes DEF Erase

LEMMA MkDirTypes ==
  ASSUME TypeOK, NEW d \in Clusters \cup {0}, NEW n \in Names, MkDir(d, n)
  PROVE  fat' \in FatType /\ disk' \in Full
<1>1. PICK c : c = Min(FreeClusters(fat)) /\ c \in Clusters
  BY LeastFree DEF MkDir
<1>2. PICK t : t = NewDir(c, d) /\ t \in [1..PerCluster -> SlotType]
  BY <1>1, NewDirTypes
<1> DEFINE g == [fat EXCEPT ![c] = EOC]
           a == [disk EXCEPT ![c] = NewDir(c, d)]
           x == Slot("dir", n, c, 0)
<1>3. fat \in FatType /\ disk \in Full
  BY DEF TypeOK, FatType, Full
<1>4. g \in FatType /\ a \in Full
  BY <1>1, <1>2, <1>3 DEF FatType, Full
<1>5. x \in SlotType
  BY <1>1 DEF Slot, SlotType
<1>6. \/ CanCreate(g, a, d) /\ CreateEntry(g, a, d, x)
      \/ disk' = a /\ fat' = fat
  BY <1>1 DEF MkDir
<1> HIDE DEF g, a, x
<1> QED BY <1>3, <1>4, <1>5, <1>6, CreateTypes

LEMMA TypesKept ==
  ASSUME TypeOK, [Next]_vars
  PROVE  TypeOK'
<1>1. CASE UNCHANGED vars
  BY <1>1 DEF vars, TypeOK
<1>2. CASE Next
  <2>1. PICK d \in Callers, n \in Names :
          /\ crossed <= MaxCrossed
          /\ \/ \E content \in Contents : WriteNew(d, n, content) \/ WriteOver(d, n, content)
             \/ DeleteFile(d, n)
             \/ MkDir(d, n)
             \/ RmDir(d, n)
    BY <1>2 DEF Next
  <2>2. d \in Clusters \cup {0}
    BY CallersAre
  <2>3. fat' \in FatType /\ disk' \in Full
    <3>1. ASSUME NEW content \in Contents, WriteNew(d, n, content)
          PROVE  fat' \in FatType /\ disk' \in Full
      BY <3>1, WriteNewTypes
    <3>2. ASSUME NEW content \in Contents, WriteOver(d, n, content)
          PROVE  fat' \in FatType /\ disk' \in Full
      BY <3>2, WriteOverTypes
    <3>3. CASE DeleteFile(d, n)
      BY <3>3, RemoveTypes DEF DeleteFile
    <3>4. CASE MkDir(d, n)
      BY <2>2, <3>4, MkDirTypes
    <3>5. CASE RmDir(d, n)
      BY <3>5, RemoveTypes DEF RmDir
    <3> QED BY <2>1, <3>1, <3>2, <3>3, <3>4, <3>5
  <2>4. crossed' \in {crossed + 1, 0}
    <3>1. ASSUME NEW left, Crosses(left) PROVE crossed' \in {crossed + 1, 0}
      BY <3>1 DEF Crosses
    <3> QED BY <2>1, <3>1 DEF WriteNew, WriteOver, DeleteFile, MkDir, RmDir
  <2>5. crossed' \in 0..MaxCrossed + 1
    BY <2>1, <2>4, VolumeAssumption DEF TypeOK
  <2> QED BY <2>3, <2>5 DEF TypeOK, FatType, Full
<1> QED BY <1>1, <1>2

-----------------------------------------------------------------------------
(* The invariant holds in every state, and with it what the runs check.    *)

(* A call that crosses no chains spares the entries it leaves alone, and   *)
(* one that does has taken a cluster of a file that was lost.              *)
LEMMA CrossesIs ==
  ASSUME TypeOK, NEW left, Crosses(left)
  PROVE  /\ ~Crossed' => ~Crossed /\ Spares(left)
         /\ ~Crossed /\ Crossed' => \E s \in left : Dangles(s)
<1>1. crossed \in Nat
  BY VolumeAssumption DEF TypeOK
<1>2. Crossed' <=> crossed' > 0
  BY DEF Crossed
<1> QED BY <1>1, <1>2 DEF Crosses, Crossed, Spares

LEMMA LostIsSeen ==
  ASSUME Whole, NEW d \in Dirs, NEW n, NEW s \in Entries, Dangles(s),
         Find(d, n) # 0 => s # Entry(d, n)
  PROVE  \E e \in DOMAIN Tree : \E m \in DOMAIN Tree[e] :
           <<e, m>> # <<d, n>> /\ Tree[e][m] = Store!Lost
<1> DEFINE S(h) == SlotsIn(fat, disk, h)
<1>1. PICK e \in Dirs : \E q \in Live(S(e)) : s = S(e)[q]
  BY Terms, EntriesAre DEF Whole
<1>2. PICK q \in Live(S(e)) : s = S(e)[q]
  BY <1>1
<1>3. PICK t : t = Tree[e] /\ Shows(fat, disk, e, t) /\ DOMAIN Tree = Dirs
  BY FindTree
<1>4. s.name \in DOMAIN t /\ t[s.name] = NodeIn(fat, disk, s)
  BY <1>2, <1>3 DEF Shows
<1>5. NodeIn(fat, disk, s) = Store!Lost
  <2>1. s \in EntriesOf(fat, disk) /\ Vol(fat, disk, Dirs, Heads)
    BY Terms DEF Whole
  <2>2. /\ s.kind = "dir" \/ s.kind = "file"
        /\ s.kind = "dir" => s.first \in Dirs
        /\ s.kind = "file" => s.first \in (Heads \ Dirs) \cup {0} \cup FreeClusters(fat)
    BY <2>1, EntryNames DEF Active
  <2>3. \A h \in Heads : h \in Allocated
    <3>1. Chains(fat, Heads)
      BY <2>1 DEF Vol
    <3> QED BY <3>1, HeadsTaken DEF Chains, Allocated
  <2>4. Dirs \subseteq Heads
    BY <2>1 DEF Vol
  <2>5. s.kind = "file" /\ s.first \in FreeClusters(fat)
    BY <2>2, <2>3, <2>4 DEF Dangles
  <2> QED BY <2>5 DEF NodeIn
<1>6. <<e, s.name>> # <<d, n>>
  <2> SUFFICES ASSUME e = d, s.name = n PROVE FALSE
    OBVIOUS
  <2>1. Slots(d) = S(d) /\ OneOfAName(S(d))
    BY Terms DEF Whole, Vol
  <2>2. Find(d, n) # 0 /\ Find(d, n) \in Live(S(d)) /\ S(d)[Find(d, n)].name = n
    BY <1>2, <2>1, FindIs
  <2>3. Find(d, n) = q
    BY <1>2, <2>1, <2>2 DEF OneOfAName, Live
  <2> QED BY <1>2, <2>1, <2>2, <2>3 DEF Entry
<1> QED BY <1>3, <1>4, <1>5, <1>6

LEMMA Ruined ==
  ASSUME TypeOK, Whole, ~Crossed, Crossed', NEW d \in Dirs, NEW n \in Names,
         \/ Crosses(Entries) /\ Find(d, n) = 0
         \/ Crosses(Entries \ {Entry(d, n)})
  PROVE  Store!Step(Seen, Seen')
<1>1. Seen = Tree /\ Seen' = Store!Ruins
  BY DEF Seen, Store!Ruins
<1>2. PICK s \in Entries : Dangles(s) /\ (Find(d, n) # 0 => s # Entry(d, n))
  BY CrossesIs
<1>3. d \in DOMAIN Tree
  BY FindTree
<1>4. Store!Ruin(Tree, Store!Ruins, d, n)
  BY <1>2, LostIsSeen DEF Store!Ruin
<1> QED BY <1>1, <1>3, <1>4 DEF Store!Step

LEMMA NextServes ==
  ASSUME IInv, [Next]_vars
  PROVE  IInv' /\ (Store!Step(Seen, Seen') \/ Seen' = Seen)
<1>1. TypeOK /\ TypeOK'
  BY TypesKept DEF IInv
<1>2. CASE UNCHANGED vars
  <2>1. Vol(fat, disk, Dirs, Heads) => Vol(fat', disk', Dirs, Heads)
    BY <1>2 DEF vars
  <2>2. Tree' = Tree
    BY <1>2, TreeTerms DEF vars
  <2>3. Crossed' = Crossed
    BY <1>2 DEF vars, Crossed
  <2>4. Whole => Whole'
    BY <2>1, VolNext DEF Whole
  <2>5. Seen' = Seen
    BY <2>2, <2>3 DEF Seen
  <2> QED BY <1>1, <2>3, <2>4, <2>5 DEF IInv
<1>3. CASE Crossed /\ Next
  <2>1. \A left : Crosses(left) => Crossed'
    BY <1>1, <1>3, CrossesIs
  <2>2. Crossed'
    BY <1>3, <2>1 DEF Next, WriteNew, WriteOver, DeleteFile, MkDir, RmDir
  <2>3. Seen' = Seen
    BY <1>3, <2>2 DEF Seen
  <2> QED BY <1>1, <2>2, <2>3 DEF IInv
<1>4. CASE ~Crossed /\ Next
  <2>1. Whole
    BY <1>4 DEF IInv
  <2>2. PICK d \in Dirs, n \in Names :
          \/ \E content \in Contents : WriteNew(d, n, content) \/ WriteOver(d, n, content)
          \/ DeleteFile(d, n)
          \/ MkDir(d, n)
          \/ RmDir(d, n)
    BY <1>4 DEF Next, Callers
  <2>3. ASSUME ~Crossed', Whole' /\ Served
        PROVE  IInv' /\ (Store!Step(Seen, Seen') \/ Seen' = Seen)
    BY <1>1, <1>4, <2>3 DEF IInv, Served, Seen
  <2>4. ASSUME Crossed', Store!Step(Seen, Seen')
        PROVE  IInv' /\ (Store!Step(Seen, Seen') \/ Seen' = Seen)
    BY <1>1, <2>4 DEF IInv
  <2>5. ASSUME NEW content \in Contents, WriteNew(d, n, content)
        PROVE  IInv' /\ (Store!Step(Seen, Seen') \/ Seen' = Seen)
    <3>1. Crosses(Entries) /\ Find(d, n) = 0
      BY <2>5 DEF WriteNew, Absent
    <3>2. CASE Crossed'
      BY <1>1, <1>4, <2>1, <2>4, <3>1, <3>2, Ruined
    <3>3. CASE ~Crossed'
      BY <1>1, <2>1, <2>3, <2>5, <3>1, <3>3, CrossesIs, WriteNewKeeps
    <3> QED BY <3>2, <3>3
  <2>6. ASSUME NEW content \in Contents, WriteOver(d, n, content)
        PROVE  IInv' /\ (Store!Step(Seen, Seen') \/ Seen' = Seen)
    <3>1. Crosses(Entries \ {Entry(d, n)})
      BY <2>6 DEF WriteOver
    <3>2. CASE Crossed'
      BY <1>1, <1>4, <2>1, <2>4, <3>1, <3>2, Ruined
    <3>3. CASE ~Crossed'
      BY <1>1, <2>1, <2>3, <2>6, <3>1, <3>3, CrossesIs, WriteOverKeeps
    <3> QED BY <3>2, <3>3
  <2>7. ASSUME Crosses({}) PROVE ~Crossed'
    BY <1>1, <1>4, <2>7, CrossesIs
  <2>8. CASE DeleteFile(d, n)
    <3>1. ~Crossed'
      BY <2>7, <2>8 DEF DeleteFile
    <3> QED BY <2>1, <2>3, <2>8, <3>1, DeleteFileKeeps
  <2>9. CASE MkDir(d, n)
    <3>1. Crosses(Entries) /\ Find(d, n) = 0
      BY <2>9 DEF MkDir, Absent
    <3>2. CASE Crossed'
      BY <1>1, <1>4, <2>1, <2>4, <3>1, <3>2, Ruined
    <3>3. CASE ~Crossed'
      BY <1>1, <2>1, <2>3, <2>9, <3>1, <3>3, CrossesIs, MkDirKeeps
    <3> QED BY <3>2, <3>3
  <2>10. CASE RmDir(d, n)
    <3>1. ~Crossed'
      BY <2>7, <2>10 DEF RmDir
    <3> QED BY <2>1, <2>3, <2>10, <3>1, RmDirKeeps
  <2> QED BY <2>2, <2>5, <2>6, <2>8, <2>9, <2>10
<1> QED BY <1>2, <1>3, <1>4

LEMMA InitTree == Init => Seen = [d \in {Root} |-> Store!Empty]
<1> SUFFICES ASSUME Init PROVE Tree = [d \in {Root} |-> Store!Empty] /\ ~Crossed
  BY DEF Seen
<1>1. Vol(fat, disk, {Root}, {Root}) /\ Live(SlotsIn(fat, disk, Root)) = {}
  BY InitVol
<1>2. Tree = [d \in {Root} |-> Tree[d]] /\ Shows(fat, disk, Root, Tree[Root])
  BY <1>1, TreeTerms, TreeIs
<1>3. Tree[Root] = Store!Empty
  <2>1. PICK t : t = Tree[Root] /\ Shows(fat, disk, Root, t)
    BY <1>2
  <2>2. t = [m \in {} |-> t[m]]
    BY <1>1, <2>1 DEF Shows
  <2> QED BY <2>1, <2>2 DEF Store!Empty
<1>4. ~Crossed
  BY DEF Init, Crossed
<1> QED BY <1>2, <1>3, <1>4

(* Every state of the volume is one the invariant describes.  Well typed   *)
(* it always is; and until a call takes a cluster that the entry of        *)
(* another file still names, the chains of the root and of what the        *)
(* entries name partition the clusters that are taken, every block is of   *)
(* its owner's kind, and no two entries name one cluster.                  *)
THEOREM InductiveInvariant == Spec => []IInv
<1> QED BY InitInv, NextServes, PTL DEF Spec

(* The FAT holds clusters, free marks and ends of chains, and the blocks   *)
(* hold well-formed slots, whatever fat32_write_file, fat32_delete_file,   *)
(* fat32_mkdir and fat32_rmdir do, on a crossed volume too.                *)
THEOREM TypeCorrect == Spec => []TypeOK
<1>1. IInv => TypeOK
  BY DEF IInv
<1> QED BY <1>1, InductiveInvariant, PTL

(* On a volume of any size: calls leak no cluster, cross no two chains,    *)
(* hide no entry behind a 0x00, double no name, break no ".." and give no  *)
(* file more or fewer clusters than its size.  That stays so when an       *)
(* overwrite fails and its entry names clusters that were freed, and in    *)
(* the calls after it, until alloc_cluster hands such a cluster to another *)
(* file or directory; it says nothing of the volume after that.            *)
THEOREM VolumeStaysSound == Spec => []VolumeSound
<1>1. IInv => VolumeSound
  BY SoundVolume
<1> QED BY <1>1, InductiveInvariant, PTL

(* What kernel/fs/fat32.c gives its callers, on a volume of any size: each *)
(* call does to the tree of directories and files they see what one        *)
(* operation of FileStore does, or leaves it alone.  A file that was being *)
(* overwritten when the volume ran full is lost, and as long as it is      *)
(* there, a call that allocates may ruin the whole tree.                   *)
THEOREM StoresATree == Spec => ImplementsFileStore
<1>1. IInv /\ [Next]_vars => [Store!Next]_Seen
  <2>1. Store!Step(Seen, Seen') => Store!Next
    BY DEF Store!Next, Seen
  <2> QED BY <2>1, NextServes
<1>2. Init => Store!Init
  BY InitTree DEF Store!Init, Seen
<1>3. Spec => Store!Init /\ [][Store!Next]_Seen
  BY <1>1, <1>2, InductiveInvariant, PTL DEF Spec
<1> QED BY <1>3 DEF ImplementsFileStore, Store!Spec
=============================================================================
