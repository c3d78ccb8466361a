---------------------------- MODULE KHeapProofs -----------------------------
(***************************************************************************)
(* Proofs about the kernel heap for every header size, alignment, page     *)
(* size, limit and sequence of calls. The invariants of the module KHeap   *)
(* are not inductive one by one; IInv joins them, with the order of the    *)
(* list, into one that is. One lemma per list operation (split, append,    *)
(* absorb) carries the order of the list over; the rest of the file is one *)
(* lemma per action and the theorems.                                      *)
(***************************************************************************)
EXTENDS KHeap, FiniteSetTheorems, TLAPS

(* Rounding up to a multiple of a positive k never goes below the value.   *)
LEMMA RoundUp ==
  ASSUME NEW k \in Nat \ {0}, NEW n \in Nat
  PROVE  /\ ((n + k - 1) \div k) * k \in Nat
         /\ ((n + k - 1) \div k) * k >= n
<1> DEFINE m == n + k - 1
           q == m \div k
           r == m % k
<1>1. m \in Nat
  OBVIOUS
<1>2. q \in Int /\ r \in 0..(k-1)
  BY <1>1
<1>3. m = k * q + r
  BY <1>1
<1>4. k * q = m - r
  BY <1>1, <1>2, <1>3
<1>5. k * q >= n
  BY <1>2, <1>4
<1>6. q * k = k * q
  BY <1>2
<1> QED
  BY <1>4, <1>5, <1>6, <1>1, <1>2

-----------------------------------------------------------------------------
(* ListOK(h, top, t): h is a list of blocks that tiles 0 .. top-1 and ends *)
(* in t.  It is BlocksTile and LinksFollowAddresses said of any list, so   *)
(* that one lemma per list operation serves both kmalloc and kfree.        *)
EndOf(h, b) == b + HDR + h[b].size

Tiles(h, top) ==
  /\ top > 0 => 0 \in DOMAIN h
  /\ \A b \in DOMAIN h : \/ EndOf(h, b) = top
                         \/ EndOf(h, b) < top /\ EndOf(h, b) \in DOMAIN h
  /\ \A b, c \in DOMAIN h : b < c => EndOf(h, b) <= c

Linked(h, top) ==
  \A b \in DOMAIN h :
    /\ h[b].next = IF EndOf(h, b) = top THEN NULL ELSE EndOf(h, b)
    /\ b = 0 => h[b].prev = NULL
    /\ b # 0 => h[b].prev \in DOMAIN h /\ EndOf(h, h[b].prev) = b

EndsIn(h, top, t) ==
  IF top = 0 THEN t = NULL ELSE t \in DOMAIN h /\ EndOf(h, t) = top

IsList(h) == DOMAIN h \subseteq Nat /\ h \in [DOMAIN h -> Header]

ListOK(h, top, t) ==
  /\ IsList(h)
  /\ Tiles(h, top)
  /\ Linked(h, top)
  /\ EndsIn(h, top, t)

(* Splitting a block keeps the list in order.                              *)
LEMMA SplitOK ==
  ASSUME NEW h, NEW top \in Nat, NEW t, ListOK(h, top, t),
         NEW b \in DOMAIN h, NEW n \in Nat, MustSplit(h, b, n)
  PROVE  /\ ListOK(Split(h, b, n), top,
                   IF h[b].next = NULL THEN SplitAt(b, n) ELSE t)
         /\ SplitAt(b, n) \in Nat \ DOMAIN h
         /\ DOMAIN Split(h, b, n) = DOMAIN h \cup {SplitAt(b, n)}
<1> DEFINE s == SplitAt(b, n)
           g == Split(h, b, n)
<1>1. /\ b \in Nat /\ h[b] \in Header /\ h[b].size \in Nat
      /\ s \in Nat /\ b < s /\ s < EndOf(h, b) /\ EndOf(h, b) \in Nat
      /\ h[b].size - n - HDR \in Nat
  BY ShapeAssumption DEF ListOK, IsList, MustSplit, SplitAt, EndOf, Header
<1>2. s \notin DOMAIN h
  BY <1>1 DEF ListOK, Tiles, IsList
<1>3. DOMAIN g = DOMAIN h \cup {s}
  BY DEF Split
<1>4. \A x \in DOMAIN h : h[x] \in Header
  BY DEF ListOK, IsList
<1>5. /\ g[b] \in Header
      /\ g[b].size = n /\ g[b].next = s
      /\ g[b].prev = h[b].prev /\ g[b].free = h[b].free
  <2>1. g[b] = [h[b] EXCEPT !.size = n, !.next = s]
    BY <1>3 DEF Split
  <2> QED
    BY <1>1, <2>1 DEF Header, Address
<1>6. /\ g[s] \in Header
      /\ g[s].size = h[b].size - n - HDR /\ g[s].next = h[b].next
      /\ g[s].prev = b /\ g[s].free = TRUE
  <2>1. g[s] = [free |-> TRUE, size |-> h[b].size - n - HDR,
                prev |-> b, next |-> h[b].next]
    BY <1>1, <1>3 DEF Split
  <2> QED
    BY <1>1, <2>1 DEF Header, Address
<1>7. \A x \in DOMAIN h \ {b} :
         /\ g[x] \in Header
         /\ g[x].size = h[x].size /\ g[x].next = h[x].next
         /\ g[x].prev = IF x = h[b].next THEN b + HDR + n ELSE h[x].prev
         /\ g[x].free = h[x].free
  <2> TAKE x \in DOMAIN h \ {b}
  <2>1. g[x] = IF x = h[b].next THEN [h[x] EXCEPT !.prev = s] ELSE h[x]
    BY <1>2, <1>3 DEF Split
  <2>2. CASE x = h[b].next
    <3>1. g[x] = [h[x] EXCEPT !.prev = s]
      BY <2>1, <2>2
    <3> QED
      BY <1>1, <1>4, <2>2, <3>1 DEF Header, Address, SplitAt
  <2>3. CASE x # h[b].next
    <3>1. g[x] = h[x]
      BY <2>1, <2>3
    <3> QED
      BY <1>4, <2>3, <3>1
  <2> QED
    BY <2>2, <2>3
<1>8. /\ IsList(g)
      /\ EndOf(g, b) = s /\ EndOf(g, s) = EndOf(h, b)
      /\ \A x \in DOMAIN h : x # b => EndOf(g, x) = EndOf(h, x)
  <2>1. IsList(g)
    <3>1. DOMAIN g \subseteq Nat
      BY <1>1, <1>3 DEF ListOK, IsList
    <3>2. \A x \in DOMAIN g : g[x] \in Header
      BY <1>3, <1>5, <1>6, <1>7
    <3>3. g = [x \in DOMAIN g |-> g[x]]
      BY DEF Split
    <3> QED
      BY <3>1, <3>2, <3>3 DEF IsList
  <2> QED
    BY <1>1, <1>5, <1>6, <1>7, <2>1, ShapeAssumption DEF EndOf, SplitAt
<1>9. Tiles(g, top)
  BY <1>1, <1>2, <1>3, <1>8, ShapeAssumption DEF ListOK, Tiles, IsList
<1>10. Linked(g, top)
  <2>1. h[b].next = IF EndOf(h, b) = top THEN NULL ELSE EndOf(h, b)
    BY DEF ListOK, Linked
  <2>2. g[b].next = IF EndOf(g, b) = top THEN NULL ELSE EndOf(g, b)
    <3>1. s # top
      BY <1>1 DEF ListOK, Tiles
    <3> QED
      BY <1>5, <1>8, <3>1
  <2>3. g[s].next = IF EndOf(g, s) = top THEN NULL ELSE EndOf(g, s)
    BY <1>6, <1>8, <2>1
  <2>4. s # 0 /\ g[s].prev \in DOMAIN g /\ EndOf(g, g[s].prev) = s
    BY <1>1, <1>3, <1>6, <1>8
  <2>5. (b = 0 => g[b].prev = NULL)
        /\ (b # 0 => g[b].prev \in DOMAIN g /\ EndOf(g, g[b].prev) = b)
    BY <1>1, <1>3, <1>4, <1>5, <1>8, ShapeAssumption
       DEF ListOK, Linked, EndOf, Header, IsList
  <2>6. ASSUME NEW x \in DOMAIN h \ {b}
        PROVE  /\ g[x].next = IF EndOf(g, x) = top THEN NULL ELSE EndOf(g, x)
               /\ x = 0 => g[x].prev = NULL
               /\ x # 0 => g[x].prev \in DOMAIN g /\ EndOf(g, g[x].prev) = x
    <3>1. g[x].next = IF EndOf(g, x) = top THEN NULL ELSE EndOf(g, x)
      BY <1>7, <1>8 DEF ListOK, Linked
    <3>2. CASE x = h[b].next
      <4>1. x = EndOf(h, b) /\ x # 0
        BY <1>1, <2>1, <3>2 DEF NULL, ListOK, IsList
      <4> QED
        BY <1>3, <1>7, <1>8, <3>1, <3>2, <4>1 DEF SplitAt
    <3>3. CASE x # h[b].next
      <4>1. x # 0 => h[x].prev # b
        <5>1. ASSUME x # 0, h[x].prev = b PROVE FALSE
          <6>1. EndOf(h, b) = x
            BY <5>1 DEF ListOK, Linked
          <6>2. x # top
            BY <1>4, <6>1, ShapeAssumption DEF ListOK, Tiles, EndOf, Header, IsList
          <6> QED
            BY <2>1, <3>3, <6>1, <6>2
        <5> QED BY <5>1
      <4> QED
        BY <1>3, <1>7, <1>8, <3>1, <3>3, <4>1 DEF ListOK, Linked
    <3> QED
      BY <3>2, <3>3
  <2> QED
    BY <1>3, <2>2, <2>3, <2>4, <2>5, <2>6 DEF Linked
<1>11. EndsIn(g, top, IF h[b].next = NULL THEN s ELSE t)
  BY <1>1, <1>3, <1>8 DEF ListOK, EndsIn, Linked, Tiles, IsList, NULL
<1> QED
  BY <1>1, <1>2, <1>3, <1>8, <1>9, <1>10, <1>11 DEF ListOK

(* Taking a free block for n bytes keeps the list in order; what it does   *)
(* to the blocks, block by block.                                          *)
TookFrom(g, h, b, n) ==
  /\ DOMAIN h \subseteq DOMAIN g
  /\ ~g[b].free /\ g[b].size = Taken(h, b, n) /\ g[b].size >= n
  /\ \A x \in DOMAIN h \ {b} : g[x].free = h[x].free /\ g[x].size = h[x].size
  /\ \A x \in DOMAIN g \ DOMAIN h : /\ g[x].free /\ g[b].next = x
                                    /\ g[x].next = h[b].next
  /\ DOMAIN g = DOMAIN h => g[b].next = h[b].next
  /\ DOMAIN g = IF MustSplit(h, b, n)
                  THEN DOMAIN h \cup {SplitAt(b, n)} ELSE DOMAIN h
  /\ MustSplit(h, b, n) => SplitAt(b, n) \in Nat \ DOMAIN h
  /\ \A x \in DOMAIN h \ {b} : g[x].next = h[x].next

(* Handing a block out, split or whole, keeps the list in order and the    *)
(* block at least as large as what was asked for.                          *)
LEMMA TakeOK ==
  ASSUME NEW h, NEW top \in Nat, NEW t, ListOK(h, top, t),
         NEW b \in DOMAIN h, NEW n \in Nat, h[b].size >= n
  PROVE  /\ ListOK(Take(h, b, n), top, TailAfterTake(h, t, b, n))
         /\ TookFrom(Take(h, b, n), h, b, n)
<1> DEFINE cut == IF MustSplit(h, b, n) THEN Split(h, b, n) ELSE h
           g == Take(h, b, n)
           tt == TailAfterTake(h, t, b, n)
<1>0. h[b] \in Header /\ b \in Nat
  BY DEF ListOK, IsList
<1>1. ListOK(cut, top, tt) /\ DOMAIN h \subseteq DOMAIN cut
  <2>1. CASE MustSplit(h, b, n)
    <3>1. tt = IF h[b].next = NULL THEN SplitAt(b, n) ELSE t
      BY <2>1 DEF TailAfterTake
    <3>2. /\ ListOK(Split(h, b, n), top, IF h[b].next = NULL THEN SplitAt(b, n) ELSE t)
          /\ DOMAIN Split(h, b, n) = DOMAIN h \cup {SplitAt(b, n)}
      BY <2>1, SplitOK
    <3>3. cut = Split(h, b, n)
      BY <2>1
    <3> HIDE DEF cut, tt
    <3> QED
      BY <3>1, <3>2, <3>3
  <2>2. CASE ~MustSplit(h, b, n)
    BY <2>2 DEF TailAfterTake
  <2> QED
    BY <2>1, <2>2
<1>2. g = [cut EXCEPT ![b].free = FALSE]
  BY DEF Take
<1>3. /\ DOMAIN g = DOMAIN cut
      /\ g[b] = [cut[b] EXCEPT !.free = FALSE]
      /\ \A x \in DOMAIN cut \ {b} : g[x] = cut[x]
  BY <1>1, <1>2 DEF ListOK, IsList
<1>4. /\ g[b] \in Header /\ ~g[b].free /\ g[b].size = cut[b].size
      /\ g[b].next = cut[b].next /\ g[b].prev = cut[b].prev
  <2>1. cut[b] \in Header
    BY <1>1 DEF ListOK, IsList
  <2>2. g[b] = [cut[b] EXCEPT !.free = FALSE]
    BY <1>3
  <2> HIDE DEF cut, g
  <2> QED
    BY <2>1, <2>2 DEF Header
<1>5. \A x \in DOMAIN cut : g[x].size = cut[x].size /\ g[x].next = cut[x].next
                          /\ g[x].prev = cut[x].prev /\ g[x] \in Header
  BY <1>1, <1>3, <1>4 DEF ListOK, IsList
<1>6. ListOK(g, top, tt)
  <2>1. IsList(g)
    <3>1. g = [x \in DOMAIN g |-> g[x]]
      BY <1>2
    <3> QED
      BY <1>1, <1>3, <1>5, <3>1 DEF ListOK, IsList
  <2>2. \A x \in DOMAIN cut : EndOf(g, x) = EndOf(cut, x)
    BY <1>5 DEF EndOf
  <2>3. Tiles(g, top)
    BY <1>1, <1>3, <2>2 DEF ListOK, Tiles
  <2>4. Linked(g, top)
    BY <1>1, <1>3, <1>5, <2>2 DEF ListOK, Linked
  <2>5. EndsIn(g, top, tt)
    BY <1>1, <1>3, <2>2 DEF ListOK, EndsIn
  <2> QED
    BY <2>1, <2>3, <2>4, <2>5 DEF ListOK
<1>7. ASSUME MustSplit(h, b, n) PROVE TookFrom(g, h, b, n)
  <2> DEFINE s == SplitAt(b, n)
  <2>1. cut = Split(h, b, n) /\ DOMAIN cut = DOMAIN h \cup {s} /\ s \in Nat \ DOMAIN h
    BY <1>7, SplitOK
  <2>2. cut[b].size = n /\ cut[b].next = s
    <3>1. cut[b] = [h[b] EXCEPT !.size = n, !.next = s]
      BY <2>1 DEF Split
    <3> QED
      BY <1>0, <3>1 DEF Header
  <2>3. cut[s].free /\ cut[s].next = h[b].next
    <3>1. cut[s] = [free |-> TRUE, size |-> h[b].size - n - HDR,
                    prev |-> b, next |-> h[b].next]
      BY <2>1 DEF Split
    <3> QED
      BY <3>1
  <2>4. \A x \in DOMAIN h \ {b} : cut[x].free = h[x].free /\ cut[x].size = h[x].size
                                /\ cut[x].next = h[x].next
    <3> TAKE x \in DOMAIN h \ {b}
    <3>1. cut[x] = [h[x] EXCEPT !.prev = s] \/ cut[x] = h[x]
      BY <2>1 DEF Split
    <3>2. h[x] \in Header
      BY DEF ListOK, IsList
    <3> QED
      BY <3>1, <3>2 DEF Header
  <2>5. Taken(h, b, n) = n
    BY <1>7 DEF Taken
  <2>6. \A x \in DOMAIN h \ {b} : g[x] = cut[x]
    BY <1>3, <2>1
  <2>7. g[s] = cut[s]
    BY <1>3, <2>1
  <2>8. \A x \in DOMAIN h \ {b} : g[x].free = h[x].free /\ g[x].size = h[x].size
                                /\ g[x].next = h[x].next
    BY <2>4, <2>6
  <2>9. \A x \in DOMAIN g \ DOMAIN h : x = s
    BY <1>3, <2>1
  <2> QED
    BY <1>3, <1>4, <1>7, <2>1, <2>2, <2>3, <2>5, <2>7, <2>8, <2>9 DEF TookFrom
<1>8. ASSUME ~MustSplit(h, b, n) PROVE TookFrom(g, h, b, n)
  <2>1. cut = h /\ Taken(h, b, n) = h[b].size
    BY <1>8 DEF Taken
  <2> QED
    BY <1>0, <1>3, <1>4, <1>8, <2>1 DEF Header, TookFrom
<1> QED
  BY <1>6, <1>7, <1>8

(* Appending fresh pages behind the last block keeps the list in order.    *)
AppendedTo(g, grow) ==
  /\ mapped \notin Blocks
  /\ DOMAIN g = Blocks \cup {mapped}
  /\ g[mapped].free /\ g[mapped].size = grow - HDR /\ g[mapped].next = NULL
  /\ \A x \in Blocks : /\ g[x].free = hdr[x].free /\ g[x].size = hdr[x].size
                       /\ x # tail => g[x].next = hdr[x].next
                       /\ x = tail => g[x].next = mapped

(* expand_heap appends a block that keeps the list in order.               *)
LEMMA AppendOK ==
  ASSUME NEW grow \in Nat, grow >= HDR, mapped \in Nat,
         ListOK(hdr, mapped, tail), mapped = 0 => Blocks = {}
  PROVE  /\ ListOK(Appended(grow), mapped + grow, mapped)
         /\ AppendedTo(Appended(grow), grow)
<1> DEFINE g == Appended(grow)
<1>1. \A x \in Blocks : /\ hdr[x] \in Header /\ x \in Nat /\ EndOf(hdr, x) \in Nat
                        /\ x < EndOf(hdr, x) /\ EndOf(hdr, x) <= mapped
  BY ShapeAssumption DEF ListOK, IsList, Tiles, EndOf, Header, Blocks
<1>2. mapped \notin Blocks
  BY <1>1
<1>3. DOMAIN g = Blocks \cup {mapped}
  BY DEF Appended
<1>4. /\ g[mapped] \in Header /\ g[mapped].free /\ g[mapped].size = grow - HDR
      /\ g[mapped].prev = tail /\ g[mapped].next = NULL
  <2>1. g[mapped] = [free |-> TRUE, size |-> grow - HDR, prev |-> tail, next |-> NULL]
    BY DEF Appended
  <2>2. grow - HDR \in Nat
    BY ShapeAssumption
  <2>3. tail \in Address
    BY <1>1 DEF ListOK, EndsIn, Address, Blocks
  <2> QED
    BY <2>1, <2>2, <2>3 DEF Header, Address
<1>5. \A x \in Blocks :
         /\ g[x] \in Header /\ g[x].free = hdr[x].free /\ g[x].size = hdr[x].size
         /\ g[x].prev = hdr[x].prev
         /\ g[x].next = IF x = tail THEN mapped ELSE hdr[x].next
  <2> TAKE x \in Blocks
  <2>1. g[x] = IF x = tail THEN [hdr[x] EXCEPT !.next = mapped] ELSE hdr[x]
    BY <1>2 DEF Appended
  <2>2. hdr[x] \in Header
    BY <1>1
  <2>3. CASE x = tail
    <3>1. g[x] = [hdr[x] EXCEPT !.next = mapped]
      BY <2>1, <2>3
    <3> QED
      BY <2>2, <2>3, <3>1 DEF Header, Address
  <2>4. CASE x # tail
    BY <2>1, <2>2, <2>4
  <2> QED
    BY <2>3, <2>4
<1>6. /\ \A x \in Blocks : EndOf(g, x) = EndOf(hdr, x)
      /\ EndOf(g, mapped) = mapped + grow
  BY <1>4, <1>5, ShapeAssumption DEF EndOf
<1>7. mapped + grow \in Nat /\ mapped + grow > mapped
  BY ShapeAssumption
<1>8. IsList(g)
  <2>1. \A x \in DOMAIN g : x \in Nat /\ g[x] \in Header
    BY <1>1, <1>3, <1>4, <1>5
  <2>2. g = [x \in DOMAIN g |-> g[x]]
    BY DEF Appended
  <2> QED
    BY <2>1, <2>2 DEF IsList
<1>9. Tiles(g, mapped + grow)
  BY <1>1, <1>2, <1>3, <1>6, <1>7 DEF ListOK, Tiles, Blocks
<1>10. \A x \in Blocks : x = tail <=> EndOf(hdr, x) = mapped
  BY <1>1, ShapeAssumption DEF ListOK, EndsIn, Tiles, Blocks
<1>11. Linked(g, mapped + grow)
  <2>1. \A x \in Blocks :
          /\ g[x].next = EndOf(g, x) /\ EndOf(g, x) # mapped + grow
          /\ x = 0 => g[x].prev = NULL
          /\ x # 0 => g[x].prev \in DOMAIN g /\ EndOf(g, g[x].prev) = x
    BY <1>1, <1>3, <1>5, <1>6, <1>7, <1>10 DEF ListOK, Linked, Blocks
  <2>2. /\ mapped = 0 => tail = NULL
        /\ mapped # 0 => tail \in DOMAIN g /\ EndOf(g, tail) = mapped
    BY <1>3, <1>6 DEF ListOK, EndsIn, Blocks
  <2> QED
    BY <1>3, <1>4, <1>6, <2>1, <2>2 DEF Linked
<1>12. EndsIn(g, mapped + grow, mapped)
  BY <1>3, <1>6, <1>7 DEF EndsIn
<1> QED
  BY <1>2, <1>3, <1>4, <1>5, <1>8, <1>9, <1>11, <1>12 DEF ListOK, AppendedTo

(* Absorbing the next block keeps the list in order.                       *)
Absorbed(g, h, b) ==
  LET n == h[b].next IN
  /\ n \in DOMAIN h \ {b} /\ n # h[n].next
  /\ DOMAIN g = DOMAIN h \ {n}
  /\ g[b].size = h[b].size + HDR + h[n].size
  /\ g[b].free = h[b].free /\ g[b].next = h[n].next /\ g[b].prev = h[b].prev
  /\ \A x \in DOMAIN g \ {b} : /\ g[x].free = h[x].free /\ g[x].size = h[x].size
                               /\ g[x].next = h[x].next /\ h[x].next # n

(* Merging a block with the one behind it keeps the list in order.         *)
LEMMA AbsorbOK ==
  ASSUME NEW h, NEW top \in Nat, NEW t, ListOK(h, top, t),
         NEW b \in DOMAIN h, h[b].next # NULL
  PROVE  /\ ListOK(Absorb(h, b), top, IF h[h[b].next].next = NULL THEN b ELSE t)
         /\ Absorbed(Absorb(h, b), h, b)
<1> DEFINE g == Absorb(h, b)
           n == h[b].next
<1>1. \A x \in DOMAIN h : /\ h[x] \in Header /\ x \in Nat /\ EndOf(h, x) \in Nat
                          /\ x < EndOf(h, x) /\ EndOf(h, x) <= top
  BY ShapeAssumption DEF ListOK, IsList, Tiles, EndOf, Header
<1>2. n \in DOMAIN h /\ n = EndOf(h, b) /\ n # b /\ n > b
  BY <1>1 DEF ListOK, Linked, Tiles
<1>3. /\ \A x \in DOMAIN h : h[x].next = NULL \/ h[x].next = EndOf(h, x)
      /\ h[n].next # n /\ h[n].next # b
  BY <1>1, <1>2 DEF ListOK, Linked, NULL
<1>4. DOMAIN g = DOMAIN h \ {n}
  BY DEF Absorb
<1>5. /\ g[b] \in Header /\ g[b].size = h[b].size + HDR + h[n].size
      /\ g[b].free = h[b].free /\ g[b].next = h[n].next /\ g[b].prev = h[b].prev
  <2>1. g[b] = [h[b] EXCEPT !.size = h[b].size + HDR + h[n].size, !.next = h[n].next]
    BY <1>2 DEF Absorb
  <2>2. h[b] \in Header /\ h[n].next \in Address
        /\ h[b].size + HDR + h[n].size \in Nat
    BY <1>1, <1>2, ShapeAssumption DEF Header
  <2> HIDE DEF g
  <2> QED
    BY <2>1, <2>2 DEF Header
<1>6. \A x \in DOMAIN g \ {b} :
         /\ g[x] \in Header /\ g[x].free = h[x].free /\ g[x].size = h[x].size
         /\ g[x].next = h[x].next
         /\ g[x].prev = IF x = h[n].next THEN b ELSE h[x].prev
  <2> TAKE x \in DOMAIN g \ {b}
  <2>1. g[x] = IF x = h[n].next THEN [h[x] EXCEPT !.prev = b] ELSE h[x]
    BY <1>4 DEF Absorb
  <2>2. h[x] \in Header /\ b \in Nat
    BY <1>1, <1>4
  <2>3. CASE x = h[n].next
    <3>1. g[x] = [h[x] EXCEPT !.prev = b]
      BY <2>1, <2>3
    <3> QED
      BY <2>2, <2>3, <3>1 DEF Header, Address
  <2>4. CASE x # h[n].next
    BY <2>1, <2>2, <2>4
  <2> QED
    BY <2>3, <2>4
<1>7. \A x \in DOMAIN h \ {b} : EndOf(h, x) # n /\ h[x].next # n
  <2> TAKE x \in DOMAIN h \ {b}
  <2>1. EndOf(h, x) # n
    BY <1>1, <1>2 DEF ListOK, Tiles
  <2> QED
    BY <1>1, <1>2, <1>3, <2>1 DEF NULL
<1>8. /\ EndOf(g, b) = EndOf(h, n)
      /\ \A x \in DOMAIN g \ {b} : EndOf(g, x) = EndOf(h, x)
  BY <1>1, <1>2, <1>4, <1>5, <1>6, ShapeAssumption DEF EndOf, Header
<1>9. IsList(g)
  <2>1. \A x \in DOMAIN g : x \in Nat /\ g[x] \in Header
    BY <1>1, <1>4, <1>5, <1>6
  <2>2. g = [x \in DOMAIN g |-> g[x]]
    BY DEF Absorb
  <2> QED
    BY <2>1, <2>2 DEF IsList
<1>10. Tiles(g, top)
  <2>1. top > 0 => 0 \in DOMAIN g
    BY <1>1, <1>2, <1>4 DEF ListOK, Tiles
  <2>2. \A x \in DOMAIN g : \/ EndOf(g, x) = top
                            \/ EndOf(g, x) < top /\ EndOf(g, x) \in DOMAIN g
    <3> TAKE x \in DOMAIN g
    <3>a. \A y \in DOMAIN h : \/ EndOf(h, y) = top
                              \/ EndOf(h, y) < top /\ EndOf(h, y) \in DOMAIN h
      BY DEF ListOK, Tiles
    <3> HIDE DEF g
    <3>1. CASE x = b
      <4>1. EndOf(h, n) # n /\ EndOf(g, x) = EndOf(h, n)
        BY <1>1, <1>2, <1>8, <3>1
      <4> QED
        BY <1>2, <1>4, <3>a, <4>1
    <3>2. CASE x # b
      <4>1. EndOf(g, x) = EndOf(h, x) /\ EndOf(h, x) # n /\ x \in DOMAIN h
        BY <1>4, <1>7, <1>8, <3>2
      <4> QED
        BY <1>4, <3>a, <4>1
    <3> QED
      BY <3>1, <3>2
  <2>3. \A x, y \in DOMAIN g : x < y => EndOf(g, x) <= y
    BY <1>1, <1>2, <1>4, <1>8 DEF ListOK, Tiles
  <2> QED
    BY <2>1, <2>2, <2>3 DEF Tiles
<1>11. Linked(g, top)
  <2>1. \A x \in DOMAIN g : g[x].next = IF EndOf(g, x) = top THEN NULL ELSE EndOf(g, x)
    BY <1>2, <1>4, <1>5, <1>6, <1>8 DEF ListOK, Linked
  <2>2. \A x \in DOMAIN g : x = 0 => g[x].prev = NULL
    <3> SUFFICES ASSUME 0 \in DOMAIN g PROVE g[0].prev = NULL
      OBVIOUS
    <3>1. 0 # h[n].next
      BY <1>1, <1>2, <1>3 DEF NULL
    <3> QED
      BY <1>4, <1>5, <1>6, <3>1 DEF ListOK, Linked
  <2>3. ASSUME NEW x \in DOMAIN g, x # 0
        PROVE  g[x].prev \in DOMAIN g /\ EndOf(g, g[x].prev) = x
    <3>1. h[x].prev \in DOMAIN h /\ EndOf(h, h[x].prev) = x
      BY <1>4, <2>3 DEF ListOK, Linked
    <3>2. CASE h[x].prev = n
      <4>1. x = h[n].next /\ x # b
        BY <1>1, <1>2, <1>3, <1>4, <3>1, <3>2 DEF ListOK, Linked, Tiles
      <4> QED
        BY <1>2, <1>4, <1>6, <1>8, <3>1, <3>2, <4>1
    <3>3. CASE h[x].prev # n
      <4>1. x # h[n].next
        <5>1. SUFFICES ASSUME x = h[n].next PROVE FALSE
          OBVIOUS
        <5>2. EndOf(h, n) = x
          BY <1>1, <1>2, <1>3, <1>4, <5>1 DEF NULL
        <5>3. h[x].prev < n \/ n < h[x].prev
          BY <1>1, <1>2, <3>1, <3>3
        <5> QED
          BY <1>1, <1>2, <3>1, <5>2, <5>3 DEF ListOK, Tiles
      <4> QED
        BY <1>2, <1>4, <1>5, <1>6, <1>7, <1>8, <3>1, <3>3, <4>1
    <3> QED
      BY <3>2, <3>3
  <2> QED
    BY <2>1, <2>2, <2>3 DEF Linked
<1>12. EndsIn(g, top, IF h[n].next = NULL THEN b ELSE t)
  <2>1. top # 0 /\ t \in DOMAIN h /\ EndOf(h, t) = top
    BY <1>1, <1>2 DEF ListOK, EndsIn
  <2>2. CASE h[n].next = NULL
    <3>1. EndOf(h, n) = top
      BY <1>1, <1>2, <2>2 DEF ListOK, Linked, NULL
    <3> QED
      BY <1>2, <1>4, <1>8, <2>1, <2>2, <3>1 DEF EndsIn
  <2>3. CASE h[n].next # NULL
    <3>1. t # n /\ t # b
      BY <1>1, <1>2, <2>1, <2>3 DEF ListOK, Linked
    <3> QED
      BY <1>4, <1>8, <2>1, <2>3, <3>1 DEF EndsIn
  <2> QED
    BY <2>2, <2>3
<1> QED
  BY <1>2, <1>3, <1>4, <1>5, <1>6, <1>7, <1>9, <1>10, <1>11, <1>12 DEF ListOK, Absorbed

-----------------------------------------------------------------------------
(* The inductive invariant.  ListOK carries BlocksTile and the links,      *)
(* Coalesced and LiveIsUsed need nothing else, and Accounting is kept as   *)
(* the number of headers follows the list.                                 *)
HeadFirst == head = IF mapped = 0 THEN NULL ELSE 0

IInv ==
  /\ TypeOK
  /\ ListOK(hdr, mapped, tail)
  /\ HeadFirst
  /\ Coalesced
  /\ LiveIsUsed
  /\ Accounting

(* A list in order is what the invariants BlocksTile and                   *)
(* LinksFollowAddresses of the module KHeap say of the heap.               *)
LEMMA ListGivesParts ==
  ASSUME TypeOK, ListOK(hdr, mapped, tail), HeadFirst
  PROVE  BlocksTile /\ LinksFollowAddresses
BY DEF TypeOK, ListOK, HeadFirst, BlocksTile, LinksFollowAddresses,
       Tiles, Linked, EndsIn, EndOf, End, Blocks

(* The empty heap of kheap_init satisfies the invariant.                   *)
LEMMA InitInv == Init => IInv
<1> SUFFICES ASSUME Init PROVE IInv
  OBVIOUS
<1>1. Blocks = {} /\ DOMAIN live = {} /\ mapped = 0 /\ tail = NULL /\ head = NULL
      /\ used = 0 /\ freeBytes = 0
  BY DEF Init, Blocks
<1>2. IsFiniteSet(Blocks) /\ Cardinality(Blocks) = 0
  BY <1>1, FS_EmptySet
<1>3. TypeOK
  <2>1. hdr \in [Blocks -> Header]
    BY <1>1 DEF Init, Blocks
  <2>2. live \in [DOMAIN live -> Sizes]
    BY <1>1 DEF Init
  <2>3. frames \in Nat /\ panicked = "no"
    BY ShapeAssumption DEF Init
  <2> QED
    BY <1>1, <1>2, <2>1, <2>2, <2>3 DEF TypeOK, Address
<1>4. ListOK(hdr, mapped, tail)
  <2>1. IsList(hdr)
    BY <1>1, <1>3 DEF IsList, TypeOK, Blocks
  <2>2. Tiles(hdr, mapped)
    BY <1>1 DEF Tiles, Blocks
  <2>3. Linked(hdr, mapped) /\ EndsIn(hdr, mapped, tail)
    BY <1>1 DEF Linked, EndsIn, Blocks
  <2> QED
    BY <2>1, <2>2, <2>3 DEF ListOK
<1>5. Accounting
  BY <1>1, <1>2, ShapeAssumption DEF Accounting
<1> QED
  BY <1>1, <1>3, <1>4, <1>5 DEF IInv, HeadFirst, Coalesced, LiveIsUsed

(* What kmalloc's two ways of finding a block have in common: h is the     *)
(* list in which the free block b is taken, all else in h is as it was.    *)
CanTake(h, top, t, b, n, fb) ==
  /\ top \in Nat /\ ListOK(h, top, t) /\ IsFiniteSet(DOMAIN h)
  /\ b \in DOMAIN h /\ h[b].free /\ h[b].size >= AlignUp(n)
  /\ fb \in Int
  /\ used + fb + h[b].size + HDR * Cardinality(DOMAIN h) = top
  /\ Blocks \subseteq DOMAIN h
  /\ b \in Blocks => hdr[b].free
  /\ \A x \in DOMAIN h \ {b} :
       x \in Blocks /\ h[x].free = hdr[x].free /\ h[x].size = hdr[x].size
  /\ \A x \in DOMAIN h :
       h[x].free /\ h[x].next # NULL /\ h[x].next # b => ~h[h[x].next].free

TakeStep(h, top, t, b, n, fb) ==
  /\ hdr' = Take(h, b, AlignUp(n)) /\ mapped' = top
  /\ tail' = TailAfterTake(h, t, b, AlignUp(n))
  /\ freeBytes' = fb + Remainder(h, b, AlignUp(n))
  /\ used' = used + Taken(h, b, AlignUp(n))
  /\ head' = IF top = 0 THEN NULL ELSE 0
  /\ frames' \in Nat
  /\ HandOut(b + HDR, n)
  /\ UNCHANGED panicked

(* A kmalloc that succeeds is a TakeStep.                                  *)
Takes(n) == \E h, top, t, b, fb : CanTake(h, top, t, b, n, fb) /\ TakeStep(h, top, t, b, n, fb)

(* kmalloc, once it has a block that fits, preserves the invariant: one    *)
(* lemma for a block found in the list and for one fresh from expand_heap. *)
LEMMA TakeInv ==
  ASSUME IInv, NEW n \in Sizes, NEW h, NEW top, NEW t, NEW b, NEW fb,
         CanTake(h, top, t, b, n, fb), TakeStep(h, top, t, b, n, fb)
  PROVE  IInv'
<1> DEFINE a == AlignUp(n)
           g == Take(h, b, a)
<1>1. a \in Nat /\ a >= n /\ n \in Nat
  BY RoundUp, ShapeAssumption DEF AlignUp
<1> USE DEF CanTake, TakeStep
<1>1a. /\ h[b].size >= a
       /\ hdr' = g /\ tail' = TailAfterTake(h, t, b, a)
       /\ freeBytes' = fb + Remainder(h, b, a) /\ used' = used + Taken(h, b, a)
  OBVIOUS
<1> HIDE DEF a
<1>2t. ListOK(g, top, TailAfterTake(h, t, b, a)) /\ TookFrom(g, h, b, a)
  BY <1>1, <1>1a, TakeOK
<1>2. /\ ListOK(g, top, TailAfterTake(h, t, b, a))
      /\ DOMAIN h \subseteq DOMAIN g
      /\ ~g[b].free /\ g[b].size = Taken(h, b, a) /\ g[b].size >= a
      /\ \A x \in DOMAIN h \ {b} : g[x].free = h[x].free /\ g[x].size = h[x].size
      /\ \A x \in DOMAIN g \ DOMAIN h : g[x].free /\ g[b].next = x /\ g[x].next = h[b].next
      /\ DOMAIN g = DOMAIN h => g[b].next = h[b].next
      /\ DOMAIN g = IF MustSplit(h, b, a) THEN DOMAIN h \cup {SplitAt(b, a)} ELSE DOMAIN h
      /\ MustSplit(h, b, a) => SplitAt(b, a) \in Nat \ DOMAIN h
      /\ \A x \in DOMAIN h \ {b} : g[x].next = h[x].next
  BY <1>2t DEF TookFrom
<1>2a. ListOK(g, top, tail')
  BY <1>1a, <1>2
<1>3. /\ b \in Nat /\ h[b].size \in Nat /\ g[b].size \in Nat
      /\ \A x \in DOMAIN g : x \in Nat /\ g[x] \in Header
  BY <1>2 DEF ListOK, IsList, Header
<1>4. hdr' = g /\ Blocks' = DOMAIN g
  BY <1>1a DEF Blocks
<1> HIDE DEF g
<1>5. IsFiniteSet(DOMAIN g) /\ Cardinality(DOMAIN h) \in Nat
      /\ Cardinality(DOMAIN g) =
           Cardinality(DOMAIN h) + (IF MustSplit(h, b, a) THEN 1 ELSE 0)
  BY <1>2, FS_AddElement, FS_CardinalityType
<1>6. Accounting'
  <2>1. CASE MustSplit(h, b, a)
    <3>1. used' = used + a /\ freeBytes' = fb + (h[b].size - a - HDR)
      BY <1>1a, <2>1 DEF Taken, Remainder
    <3>2. HDR * (Cardinality(DOMAIN h) + 1) = HDR * Cardinality(DOMAIN h) + HDR
      BY <1>5, ShapeAssumption
    <3> DEFINE hc == HDR * Cardinality(DOMAIN h)
    <3>3. hc \in Int
      BY <1>5, ShapeAssumption
    <3>4. HDR * Cardinality(DOMAIN g) = hc + HDR
      BY <1>5, <2>1, <3>2
    <3>5. used \in Int
      BY DEF IInv, TypeOK
    <3> HIDE DEF hc
    <3>6. used + fb + h[b].size + hc = top
      BY DEF hc
    <3> QED
      BY <1>1, <1>3, <1>4, <3>1, <3>3, <3>4, <3>5, <3>6, ShapeAssumption DEF Accounting
  <2>2. CASE ~MustSplit(h, b, a)
    <3>1. used' = used + h[b].size /\ freeBytes' = fb + 0
      BY <1>1a, <2>2 DEF Taken, Remainder
    <3> DEFINE hc == HDR * Cardinality(DOMAIN h)
    <3>2. hc \in Int /\ HDR * Cardinality(DOMAIN g) = hc
      BY <1>5, <2>2, ShapeAssumption
    <3>3. used \in Int
      BY DEF IInv, TypeOK
    <3>4. used + fb + h[b].size + hc = top
      OBVIOUS
    <3> HIDE DEF hc
    <3> QED
      BY <1>3, <1>4, <3>1, <3>2, <3>3, <3>4 DEF Accounting
  <2> QED
    BY <2>1, <2>2
<1>7. Coalesced'
  <2> SUFFICES ASSUME NEW x \in DOMAIN g, g[x].free, g[x].next # NULL
               PROVE  ~g[g[x].next].free
    BY <1>4 DEF Coalesced, Blocks
  <2>1. x # b
    BY <1>2
  <2>2. g[x].next \in DOMAIN g /\ g[x].next # x
    BY <1>2, <1>3, ShapeAssumption DEF ListOK, Linked, Tiles, EndOf, Header
  <2>3. CASE x \in DOMAIN h
    <3>1. h[x].free /\ h[x].next = g[x].next
      BY <1>2, <2>1, <2>3
    <3>2. CASE h[x].next = b
      BY <1>2, <3>1, <3>2
    <3>3. CASE h[x].next # b
      <4>1. ~h[h[x].next].free
        BY <2>3, <3>1, <3>3
      <4>2. h[x].next \in DOMAIN h
        BY <2>3, <3>1 DEF ListOK, Linked, Tiles, IsList
      <4> QED
        BY <1>2, <3>1, <3>3, <4>1, <4>2
    <3> QED
      BY <3>2, <3>3
  <2>4. CASE x \notin DOMAIN h
    <3>1. g[b].next = x /\ g[x].next = h[b].next
      BY <1>2, <2>4
    <3>2. h[b].next \in DOMAIN h /\ h[b].next # b
      BY <1>3, <3>1, ShapeAssumption DEF ListOK, Linked, Tiles, IsList, EndOf
    <3>3. ~h[h[b].next].free
      BY <3>1, <3>2
    <3> QED
      BY <1>2, <3>1, <3>2, <3>3
  <2> QED
    BY <2>3, <2>4
<1>8. /\ DOMAIN live' = DOMAIN live \cup {b + HDR}
      /\ live'[b + HDR] = n
      /\ \A q \in DOMAIN live \ {b + HDR} : live'[q] = live[q]
  BY DEF HandOut
<1>9. LiveIsUsed'
  <2>1. ASSUME NEW p \in DOMAIN live'
        PROVE  p - HDR \in DOMAIN g /\ ~g[p - HDR].free /\ g[p - HDR].size >= live'[p]
    <3>1. CASE p = b + HDR
      <4>1. p - HDR = b
        BY <1>3, <3>1, ShapeAssumption
      <4> QED
        BY <1>1, <1>2, <1>3, <1>8, <3>1, <4>1
    <3>2. CASE p # b + HDR
      <4>1. p \in DOMAIN live /\ live'[p] = live[p] /\ p \in Nat
        BY <1>8, <3>2 DEF IInv, TypeOK
      <4>2. p - HDR \in Blocks /\ ~hdr[p - HDR].free /\ hdr[p - HDR].size >= live[p]
        BY <4>1 DEF IInv, LiveIsUsed
      <4>3. p - HDR # b
        BY <1>3, <3>2, <4>1, ShapeAssumption
      <4>4. p - HDR \in DOMAIN h \ {b}
        BY <4>2, <4>3
      <4> QED
        BY <1>2, <4>1, <4>2, <4>4
    <3> QED
      BY <3>1, <3>2
  <2>2. ASSUME NEW x \in DOMAIN g, ~g[x].free
        PROVE  x + HDR \in DOMAIN live'
    <3>1. CASE x = b
      BY <1>8, <3>1
    <3>2. CASE x # b
      <4>1. x \in DOMAIN h \ {b}
        BY <1>2, <2>2, <3>2
      <4>2. x \in Blocks /\ ~hdr[x].free
        BY <1>2, <2>2, <4>1
      <4> QED
        BY <1>8, <4>2 DEF IInv, LiveIsUsed
    <3> QED
      BY <3>1, <3>2
  <2> QED
    BY <1>4, <2>1, <2>2 DEF LiveIsUsed
<1>10. TypeOK'
  <2>1. Blocks' \subseteq Nat /\ IsFiniteSet(Blocks') /\ hdr' \in [Blocks' -> Header]
    BY <1>2, <1>4, <1>5 DEF ListOK, IsList
  <2>2. tail' \in Address /\ head' \in Address
    BY <1>2a, <1>3 DEF ListOK, EndsIn, Address
  <2>3. used' \in Int /\ freeBytes' \in Int
    <3>1. used \in Int
      BY DEF IInv, TypeOK
    <3>2. \/ used' = used + a /\ freeBytes' = fb + (h[b].size - a - HDR)
          \/ used' = used + h[b].size /\ freeBytes' = fb + 0
      BY <1>1a DEF Taken, Remainder
    <3> QED
      BY <1>1, <1>3, <3>1, <3>2, ShapeAssumption
  <2>4. DOMAIN live' \subseteq Nat /\ live' \in [DOMAIN live' -> Sizes]
    <3>1. b + HDR \in Nat
      BY <1>3, ShapeAssumption
    <3>2. \A q \in DOMAIN live' : live'[q] \in Sizes
      BY <1>8 DEF IInv, TypeOK
    <3>3. live' = [q \in DOMAIN live' |-> live'[q]]
      BY DEF HandOut
    <3> QED
      BY <1>8, <3>1, <3>2, <3>3 DEF IInv, TypeOK
  <2> QED
    BY <2>1, <2>2, <2>3, <2>4 DEF IInv, TypeOK
<1> QED
  BY <1>2a, <1>4, <1>6, <1>7, <1>9, <1>10 DEF IInv, HeadFirst

(* kmalloc from the list takes a block that fits.                          *)
LEMMA FitTakes ==
  ASSUME IInv, NEW n \in Sizes, KmallocFit(n)
  PROVE  Takes(n)
<1> PICK b \in Blocks :
      /\ FirstFit(b, AlignUp(n))
      /\ hdr' = Take(hdr, b, AlignUp(n))
      /\ tail' = TailAfterTake(hdr, tail, b, AlignUp(n))
      /\ freeBytes' = freeBytes - hdr[b].size + Remainder(hdr, b, AlignUp(n))
      /\ used' = used + Taken(hdr, b, AlignUp(n))
      /\ HandOut(b + HDR, n)
      /\ UNCHANGED <<head, mapped, frames, panicked>>
  BY DEF KmallocFit
<1> DEFINE fb == freeBytes - hdr[b].size
<1>1. /\ hdr[b].free /\ hdr[b].size >= AlignUp(n) /\ hdr[b].size \in Nat
      /\ b \in DOMAIN hdr /\ Blocks = DOMAIN hdr
  BY DEF FirstFit, Fits, IInv, TypeOK, Header, Blocks
<1>2. /\ freeBytes \in Int /\ used \in Int /\ mapped \in Nat /\ frames' \in Nat
      /\ IsFiniteSet(DOMAIN hdr) /\ ListOK(hdr, mapped, tail)
  BY DEF IInv, TypeOK, Blocks
<1>3. HDR * Cardinality(DOMAIN hdr) \in Int
  BY <1>2, FS_CardinalityType, ShapeAssumption
<1>4. fb \in Int /\ used + fb + hdr[b].size + HDR * Cardinality(DOMAIN hdr) = mapped
  <2> DEFINE hc == HDR * Cardinality(DOMAIN hdr)
  <2>1. used + freeBytes + hc = mapped
    BY DEF IInv, Accounting, Blocks
  <2> HIDE DEF hc
  <2>2. fb \in Int /\ used + fb + hdr[b].size + hc = mapped
    BY <1>1, <1>2, <1>3, <2>1 DEF hc
  <2> QED
    BY <2>2 DEF hc
<1>5. /\ hdr' = Take(hdr, b, AlignUp(n)) /\ mapped' = mapped
      /\ tail' = TailAfterTake(hdr, tail, b, AlignUp(n))
      /\ freeBytes' = fb + Remainder(hdr, b, AlignUp(n))
      /\ used' = used + Taken(hdr, b, AlignUp(n))
      /\ HandOut(b + HDR, n) /\ UNCHANGED panicked
      /\ head' = IF mapped = 0 THEN NULL ELSE 0
  BY DEF IInv, HeadFirst
<1>6. \A x \in DOMAIN hdr :
        hdr[x].free /\ hdr[x].next # NULL /\ hdr[x].next # b => ~hdr[hdr[x].next].free
  BY <1>1 DEF IInv, Coalesced
<1> HIDE DEF fb
<1>7. CanTake(hdr, mapped, tail, b, n, fb)
  BY <1>1, <1>2, <1>4, <1>6 DEF CanTake
<1>8. TakeStep(hdr, mapped, tail, b, n, fb)
  BY <1>2, <1>5 DEF TakeStep
<1> QED
  BY <1>7, <1>8 DEF Takes

(* kmalloc that grows the heap takes the block it appended, which fits.    *)
LEMMA GrowTakes ==
  ASSUME IInv, NEW n \in Sizes, KmallocGrow(n)
  PROVE  Takes(n)
<1> DEFINE a == AlignUp(n)
           grow == GrowBytes(a)
           h == Appended(grow)
           top == mapped + grow
<1>1. a \in Nat /\ a >= n
  BY RoundUp, ShapeAssumption DEF AlignUp
<1>2. grow \in Nat /\ grow >= HDR + a
  BY <1>1, RoundUp, ShapeAssumption DEF GrowBytes
<1>3. /\ hdr' = Take(h, mapped, a) /\ tail' = TailAfterTake(h, mapped, mapped, a)
      /\ freeBytes' = freeBytes + Remainder(h, mapped, a)
      /\ used' = used + Taken(h, mapped, a)
      /\ head' = IF tail = NULL THEN mapped ELSE head
      /\ mapped' = top /\ HandOut(mapped + HDR, n) /\ UNCHANGED panicked
  BY DEF KmallocGrow
<1>4. frames' \in Nat
  <2>1. grow \div PageSize \in Nat
    BY <1>2, ShapeAssumption
  <2>2. \E t \in 0..MaxTables : grow \div PageSize + t <= frames
                              /\ frames' = frames - grow \div PageSize - t
    BY DEF KmallocGrow, Pages
  <2>3. frames \in Nat
    BY DEF IInv, TypeOK
  <2> HIDE DEF grow
  <2> QED
    BY <2>1, <2>2, <2>3, ShapeAssumption
<1>5. /\ mapped \in Nat /\ used \in Int /\ freeBytes \in Int
      /\ ListOK(hdr, mapped, tail) /\ IsFiniteSet(Blocks) /\ Blocks = DOMAIN hdr
      /\ Cardinality(Blocks) \in Nat
  BY FS_CardinalityType DEF IInv, TypeOK, Blocks
<1>6. mapped = 0 => Blocks = {}
  <2> SUFFICES ASSUME mapped = 0, NEW x \in Blocks PROVE FALSE
    OBVIOUS
  <2>1. x \in Nat /\ hdr[x].size \in Nat /\ EndOf(hdr, x) <= mapped
    BY <1>5 DEF ListOK, Tiles, IsList, Header, EndOf
  <2> QED
    BY <2>1, ShapeAssumption DEF EndOf
<1> HIDE DEF a, grow
<1>6a. ListOK(h, top, mapped) /\ AppendedTo(h, grow)
  <2>1. grow >= HDR
    BY <1>1, <1>2, ShapeAssumption
  <2> QED
    BY <1>2, <1>5, <1>6, <2>1, AppendOK
<1>7. /\ ListOK(h, top, mapped)
      /\ mapped \notin Blocks
      /\ DOMAIN h = Blocks \cup {mapped}
      /\ h[mapped].free /\ h[mapped].size = grow - HDR /\ h[mapped].next = NULL
      /\ \A x \in Blocks : /\ h[x].free = hdr[x].free /\ h[x].size = hdr[x].size
                           /\ x # tail => h[x].next = hdr[x].next
                           /\ x = tail => h[x].next = mapped
  BY <1>6a DEF AppendedTo
<1> HIDE DEF h
<1>8. IsFiniteSet(DOMAIN h) /\ Cardinality(DOMAIN h) = Cardinality(Blocks) + 1
  BY <1>5, <1>7, FS_AddElement
<1>9. used + freeBytes + h[mapped].size + HDR * Cardinality(DOMAIN h) = top
  <2> DEFINE c == Cardinality(Blocks)
             hc == HDR * c
  <2>1. used + freeBytes + hc = mapped
    BY DEF IInv, Accounting
  <2>2. HDR * (c + 1) = hc + HDR /\ hc \in Int
    BY <1>5, ShapeAssumption
  <2>3. HDR * Cardinality(DOMAIN h) = hc + HDR
    BY <1>8, <2>2
  <2> DEFINE hh == HDR * Cardinality(DOMAIN h)
  <2>4. h[mapped].size = grow - HDR /\ hc \in Int /\ hh = hc + HDR
    BY <1>7, <2>2, <2>3
  <2> HIDE DEF hc, hh
  <2>5. used + freeBytes + h[mapped].size + hh = mapped + grow
    BY <1>2, <1>5, <2>1, <2>4, ShapeAssumption
  <2> QED
    BY <2>5 DEF hh
<1>10. top \in Nat /\ h[mapped].size >= a /\ mapped \in DOMAIN h
  BY <1>1, <1>2, <1>5, <1>7, ShapeAssumption
<1>11. ASSUME NEW x \in DOMAIN h, h[x].free, h[x].next # NULL, h[x].next # mapped
       PROVE  ~h[h[x].next].free
  <2>1. x \in Blocks /\ hdr[x].free /\ h[x].next = hdr[x].next
    BY <1>7, <1>11
  <2>2. hdr[x].next \in Blocks /\ ~hdr[hdr[x].next].free
    BY <1>5, <1>11, <2>1 DEF IInv, Coalesced, ListOK, Linked, Tiles
  <2> QED
    BY <1>7, <2>1, <2>2
<1>12. head' = IF top = 0 THEN NULL ELSE 0
  <2>1. top # 0
    BY <1>1, <1>2, <1>5, ShapeAssumption
  <2>2. (tail = NULL) <=> (mapped = 0)
    BY <1>5 DEF ListOK, EndsIn, IsList, NULL
  <2> QED
    BY <1>3, <2>1, <2>2 DEF IInv, HeadFirst
<1>13. /\ \A x \in DOMAIN h \ {mapped} :
             x \in Blocks /\ h[x].free = hdr[x].free /\ h[x].size = hdr[x].size
       /\ Blocks \subseteq DOMAIN h
       /\ mapped \in Blocks => hdr[mapped].free
  BY <1>7
<1> HIDE DEF top
<1>14. CanTake(h, top, mapped, mapped, n, freeBytes)
  BY <1>5, <1>7, <1>8, <1>9, <1>10, <1>11, <1>13 DEF CanTake, a
<1>15. TakeStep(h, top, mapped, mapped, n, freeBytes)
  BY <1>3, <1>4, <1>12 DEF TakeStep, a
<1> QED
  BY <1>14, <1>15 DEF Takes

(* A panic changes no heap state.                                          *)
LEMMA StopInv ==
  ASSUME IInv, UNCHANGED heapVars,
         panicked' \in {"no", "heap limit", "out of physical memory", "double free"}
  PROVE  IInv'
BY DEF IInv, heapVars, TypeOK, HeadFirst, Coalesced, LiveIsUsed, Accounting, Blocks

-----------------------------------------------------------------------------
(* kfree works on the list in three steps: release b, absorb the next      *)
(* block into b, absorb b into the previous one.  Freed holds after each:  *)
(* the used blocks of h are the used blocks of hdr without b, and m bytes  *)
(* of headers have become free bytes.                                      *)
Freed(h, t, b, m) ==
  /\ ListOK(h, mapped, t)
  /\ DOMAIN h \subseteq Blocks /\ IsFiniteSet(DOMAIN h)
  /\ \A x \in DOMAIN h : ~h[x].free => x # b /\ ~hdr[x].free /\ h[x].size = hdr[x].size
  /\ \A x \in Blocks \ {b} : ~hdr[x].free => x \in DOMAIN h /\ ~h[x].free
  /\ m \in Nat /\ m + HDR * Cardinality(DOMAIN h) = HDR * Cardinality(Blocks)

(* What one of the two merges of kfree preserves.                          *)
LEMMA MergeStep ==
  ASSUME NEW h, NEW t, NEW b, NEW m, mapped \in Nat, Freed(h, t, b, m),
         NEW c \in DOMAIN h, h[c].free, h[c].next # NULL, h[h[c].next].free
  PROVE  Freed(Absorb(h, c), IF h[h[c].next].next = NULL THEN c ELSE t, b, m + HDR)
<1> DEFINE g == Absorb(h, c)
           n == h[c].next
<1>1. ListOK(g, mapped, IF h[n].next = NULL THEN c ELSE t) /\ Absorbed(g, h, c)
  BY AbsorbOK DEF Freed
<1>2. /\ n \in DOMAIN h \ {c}
      /\ DOMAIN g = DOMAIN h \ {n}
      /\ g[c].free = h[c].free
      /\ \A x \in DOMAIN g \ {c} : g[x].free = h[x].free /\ g[x].size = h[x].size
  BY <1>1 DEF Absorbed
<1> HIDE DEF g
<1>3. IsFiniteSet(DOMAIN g) /\ Cardinality(DOMAIN g) = Cardinality(DOMAIN h) - 1
  BY <1>2, FS_RemoveElement DEF Freed
<1>4. Cardinality(DOMAIN h) \in Nat
  BY FS_CardinalityType DEF Freed
<1>5. m + HDR \in Nat /\ (m + HDR) + HDR * Cardinality(DOMAIN g) = HDR * Cardinality(Blocks)
  <2> DEFINE k == Cardinality(DOMAIN h)
             hk == HDR * k
             total == HDR * Cardinality(Blocks)
  <2>1. HDR * (k - 1) = hk - HDR /\ hk \in Int
    BY <1>4, ShapeAssumption
  <2>2. HDR * Cardinality(DOMAIN g) = hk - HDR
    BY <1>3, <2>1
  <2>3. m \in Nat /\ m + hk = total
    BY DEF Freed
  <2> DEFINE hg == HDR * Cardinality(DOMAIN g)
  <2>4. hg = hk - HDR
    BY <2>2
  <2> HIDE DEF hk, total, hg
  <2>5. m + HDR \in Nat /\ (m + HDR) + hg = total
    BY <2>1, <2>3, <2>4, ShapeAssumption
  <2> QED
    BY <2>5 DEF hg, total
<1>6. \A x \in DOMAIN g : ~g[x].free => x # b /\ ~hdr[x].free /\ g[x].size = hdr[x].size
  BY <1>2 DEF Freed
<1>7. \A x \in Blocks \ {b} : ~hdr[x].free => x \in DOMAIN g /\ ~g[x].free
  BY <1>2 DEF Freed
<1> QED
  BY <1>1, <1>2, <1>3, <1>5, <1>6, <1>7 DEF Freed, g

(* x and the block behind it are both free in h.                           *)
FreePair(h, x) == h[x].free /\ h[x].next # NULL /\ h[h[x].next].free

(* The list and the counters after both merges of kfree.                   *)
LEMMA KfreeList ==
  ASSUME IInv, NEW b \in Blocks, ~hdr[b].free
  PROVE  LET h == MergePrev(MergeNext(Released(b), b), b) IN
         /\ Freed(h, TailAfterMerge(hdr, b), b, MergedHeaders(hdr, b))
         /\ \A x \in DOMAIN h : ~FreePair(h, x)

<1> DEFINE h1 == Released(b)
           h2 == MergeNext(h1, b)
           h3 == MergePrev(h2, b)
           m1 == IF NextIsFree(hdr, b) THEN HDR ELSE 0
           y  == hdr[b].next
           t2 == IF NextIsFree(hdr, b)
                   THEN (IF hdr[y].next = NULL THEN b ELSE tail) ELSE tail
<1>1. /\ mapped \in Nat /\ ListOK(hdr, mapped, tail) /\ IsFiniteSet(Blocks)
      /\ Blocks = DOMAIN hdr /\ Blocks \subseteq Nat
      /\ \A x \in Blocks : hdr[x] \in Header
      /\ \A x \in Blocks : ~FreePair(hdr, x)
  BY DEF IInv, TypeOK, Coalesced, FreePair, Blocks
<1>2. /\ DOMAIN h1 = Blocks
      /\ \A x \in Blocks : /\ h1[x] \in Header /\ h1[x].size = hdr[x].size
                           /\ h1[x].next = hdr[x].next /\ h1[x].prev = hdr[x].prev
                           /\ x # b => h1[x].free = hdr[x].free
      /\ h1[b].free
  <2>1. DOMAIN h1 = Blocks /\ h1[b] = [hdr[b] EXCEPT !.free = TRUE]
        /\ \A x \in Blocks \ {b} : h1[x] = hdr[x]
    BY <1>1 DEF Released
  <2>2. hdr[b] \in Header
    BY <1>1
  <2> HIDE DEF h1
  <2>3. /\ h1[b] \in Header /\ h1[b].size = hdr[b].size /\ h1[b].next = hdr[b].next
        /\ h1[b].prev = hdr[b].prev /\ h1[b].free
    BY <2>1, <2>2 DEF Header
  <2> QED
    BY <1>1, <2>1, <2>3
<1>3. ListOK(h1, mapped, tail)
  <2>1. IsList(h1)
    <3>1. h1 = [x \in DOMAIN h1 |-> h1[x]]
      BY DEF Released
    <3> QED
      BY <1>1, <1>2, <3>1 DEF IsList
  <2> HIDE DEF h1
  <2>2. \A x \in Blocks : EndOf(h1, x) = EndOf(hdr, x)
    BY <1>2 DEF EndOf
  <2>3. Tiles(h1, mapped)
    BY <1>1, <1>2, <2>2 DEF ListOK, Tiles
  <2>4. Linked(h1, mapped)
    BY <1>1, <1>2, <2>2 DEF ListOK, Linked
  <2>5. EndsIn(h1, mapped, tail)
    BY <1>1, <1>2, <2>2 DEF ListOK, EndsIn
  <2> QED
    BY <2>1, <2>3, <2>4, <2>5 DEF ListOK
<1> HIDE DEF h1
<1>4. Freed(h1, tail, b, 0)
  <2>1. 0 + HDR * Cardinality(DOMAIN h1) = HDR * Cardinality(Blocks)
    BY <1>1, <1>2, FS_CardinalityType, ShapeAssumption
  <2> QED
    BY <1>1, <1>2, <1>3, <2>1 DEF Freed
<1>5. /\ NextIsFree(h1, b) <=> NextIsFree(hdr, b)
      /\ \A x \in Blocks : hdr[x].next # NULL => hdr[x].next \in Blocks /\ hdr[x].next > x
      /\ \A x \in Blocks : x # 0 => hdr[x].prev \in Blocks /\ hdr[hdr[x].prev].next = x
                                    /\ hdr[x].prev < x
      /\ \A x \in Blocks : hdr[x].prev # NULL => x # 0
  <2>1. \A x \in Blocks : hdr[x].next # NULL => hdr[x].next \in Blocks /\ hdr[x].next > x
    BY <1>1, ShapeAssumption DEF ListOK, Linked, Tiles, EndOf, Header
  <2>2. ASSUME NEW x \in Blocks, x # 0
        PROVE  hdr[x].prev \in Blocks /\ hdr[hdr[x].prev].next = x /\ hdr[x].prev < x
    <3> DEFINE q == hdr[x].prev
    <3>1. q \in Blocks /\ EndOf(hdr, q) = x
      BY <1>1, <2>2 DEF ListOK, Linked
    <3>2. x # mapped
      BY <1>1, ShapeAssumption DEF ListOK, Tiles, EndOf, Header
    <3>3. hdr[q].next = x
      BY <1>1, <3>1, <3>2 DEF ListOK, Linked
    <3>4. hdr[q].next # NULL
      BY <1>1, <3>3 DEF NULL
    <3> QED
      BY <2>1, <3>1, <3>3, <3>4
  <2>3. \A x \in Blocks : hdr[x].prev # NULL => x # 0
    BY <1>1 DEF ListOK, Linked
  <2>4. NextIsFree(h1, b) <=> NextIsFree(hdr, b)
    BY <1>1, <1>2, <2>1 DEF NextIsFree
  <2> QED
    BY <2>1, <2>2, <2>3, <2>4
<1>6. /\ Freed(h2, t2, b, m1)
      /\ b \in DOMAIN h2 /\ h2[b].free /\ h2[b].prev = hdr[b].prev
      /\ h2[b].next = IF NextIsFree(hdr, b) THEN hdr[y].next ELSE y
      /\ \A x \in DOMAIN h2 \ {b} : h2[x].next = hdr[x].next /\ h2[x].free = hdr[x].free
      /\ \A x \in Blocks : x < b => x \in DOMAIN h2
      /\ \A x \in DOMAIN h2 : FreePair(h2, x) => h2[x].next = b
  <2>1. CASE NextIsFree(hdr, b)
    <3>1. /\ y \in Blocks /\ y # b /\ hdr[y].free /\ h1[b].next = y /\ h1[y].free
          /\ h1[y].next = hdr[y].next /\ y > b /\ y # NULL
      BY <1>2, <1>5, <2>1 DEF NextIsFree
    <3>2. h2 = Absorb(h1, b)
      BY <1>5, <2>1 DEF MergeNext
    <3>3. ListOK(Absorb(h1, b), mapped, IF h1[h1[b].next].next = NULL THEN b ELSE tail)
          /\ Absorbed(Absorb(h1, b), h1, b)
      BY <1>1, <1>2, <1>3, <3>1, AbsorbOK
    <3>4. Freed(Absorb(h1, b), IF h1[h1[b].next].next = NULL THEN b ELSE tail, b, 0 + HDR)
      BY <1>1, <1>2, <1>4, <3>1, MergeStep
    <3>5. t2 = (IF h1[h1[b].next].next = NULL THEN b ELSE tail) /\ m1 = 0 + HDR
      BY <2>1, <3>1, ShapeAssumption
    <3> HIDE DEF h2, t2, m1
    <3>6. Freed(h2, t2, b, m1)
      BY <3>2, <3>4, <3>5
    <3>7. /\ DOMAIN h2 = Blocks \ {y}
          /\ h2[b].free = h1[b].free /\ h2[b].next = h1[y].next /\ h2[b].prev = h1[b].prev
          /\ \A x \in DOMAIN h2 \ {b} : /\ h2[x].free = h1[x].free
                                        /\ h2[x].next = h1[x].next /\ h1[x].next # y
      BY <1>2, <3>1, <3>2, <3>3 DEF Absorbed
    <3>8. \A x \in DOMAIN h2 \ {b} : h2[x].next = hdr[x].next /\ h2[x].free = hdr[x].free
                                    /\ hdr[x].next # y /\ x \in Blocks
      BY <1>2, <3>7
    <3>9. ASSUME NEW x \in DOMAIN h2, FreePair(h2, x), h2[x].next # b PROVE FALSE
      <4>1. CASE x = b
        <5>1. hdr[y].next # NULL /\ h2[hdr[y].next].free
          BY <3>1, <3>7, <3>9, <4>1 DEF FreePair
        <5>2. hdr[y].next \in Blocks /\ hdr[y].next # y /\ hdr[y].next # b
          BY <1>1, <1>5, <3>1, <5>1
        <5>3. hdr[hdr[y].next].free
          BY <3>7, <3>8, <5>1, <5>2
        <5> QED
          BY <1>1, <3>1, <5>1, <5>3 DEF FreePair
      <4>2. CASE x # b
        <5>1. hdr[x].free /\ hdr[x].next # NULL /\ h2[hdr[x].next].free /\ hdr[x].next # b
          BY <3>8, <3>9, <4>2 DEF FreePair
        <5>2. hdr[x].next \in DOMAIN h2
          BY <1>5, <3>7, <3>8, <4>2, <5>1
        <5>3. hdr[hdr[x].next].free
          BY <3>8, <5>1, <5>2
        <5> QED
          BY <1>1, <3>8, <4>2, <5>1, <5>3 DEF FreePair
      <4> QED
        BY <4>1, <4>2
    <3>10. \A x \in Blocks : x < b => x \in DOMAIN h2
      BY <1>1, <3>1, <3>7
    <3> QED
      BY <1>2, <2>1, <3>1, <3>6, <3>7, <3>8, <3>9, <3>10
  <2>2. CASE ~NextIsFree(hdr, b)
    <3>1. h2 = h1 /\ t2 = tail /\ m1 = 0
      BY <1>5, <2>2 DEF MergeNext
    <3>2. ASSUME NEW x \in Blocks, FreePair(h1, x), h1[x].next # b PROVE FALSE
      <4>1. x # b
        BY <1>2, <1>5, <2>2, <3>2 DEF FreePair, NextIsFree
      <4>2. hdr[x].free /\ hdr[x].next # NULL /\ hdr[hdr[x].next].free
        BY <1>2, <1>5, <3>2, <4>1 DEF FreePair
      <4> QED
        BY <1>1, <4>2 DEF FreePair
    <3> HIDE DEF h2, t2, m1
    <3> QED
      BY <1>2, <1>4, <2>2, <3>1, <3>2
  <2> QED
    BY <2>1, <2>2
<1> DEFINE q == hdr[b].prev
<1>7. /\ PrevIsFree(h2, b) <=> PrevIsFree(hdr, b)
      /\ q # NULL => /\ b # 0 /\ q \in DOMAIN h2 \ {b} /\ h2[q].next = b
                     /\ h2[q].free = hdr[q].free /\ hdr[q].next = b
  <2>1. q # NULL => /\ b # 0 /\ q \in DOMAIN h2 \ {b} /\ h2[q].next = b
                    /\ h2[q].free = hdr[q].free /\ hdr[q].next = b
    BY <1>1, <1>5, <1>6
  <2> HIDE DEF h2
  <2> QED
    BY <1>6, <2>1 DEF PrevIsFree
<1> HIDE DEF h2
<1>7a. \A x \in DOMAIN h2 : h2[x].next # NULL => h2[x].next \in DOMAIN h2 /\ h2[x].next > x
  <2>1. ListOK(h2, mapped, t2)
    BY <1>6 DEF Freed
  <2>2. SUFFICES ASSUME NEW x \in DOMAIN h2, h2[x].next # NULL
                 PROVE  h2[x].next \in DOMAIN h2 /\ h2[x].next > x
    OBVIOUS
  <2>3. x \in Nat /\ h2[x].size \in Nat
    BY <2>1 DEF ListOK, IsList, Header
  <2>4. EndOf(h2, x) > x
    BY <2>3, ShapeAssumption DEF EndOf
  <2>5. h2[x].next = EndOf(h2, x) /\ EndOf(h2, x) # mapped
    BY <2>1, <2>2 DEF ListOK, Linked
  <2>6. EndOf(h2, x) \in DOMAIN h2
    BY <2>1, <2>5 DEF ListOK, Tiles
  <2> QED
    BY <2>4, <2>5, <2>6
<1>7b. b \in Nat /\ b # NULL /\ DOMAIN h2 \subseteq Nat
  BY <1>1, <1>6 DEF NULL, Freed
<1>8. ASSUME PrevIsFree(hdr, b)
      PROVE  /\ Freed(h3, TailAfterMerge(hdr, b), b, MergedHeaders(hdr, b))
             /\ \A x \in DOMAIN h3 : ~FreePair(h3, x)
  <2>0. q # NULL /\ hdr[q].free
    BY <1>8 DEF PrevIsFree
  <2>1. /\ q # NULL /\ hdr[q].free /\ q \in DOMAIN h2 \ {b} /\ h2[q].next = b
        /\ h2[q].free /\ b # NULL /\ h2[b].prev = q
    <3> HIDE DEF q
    <3>1. h2[b].prev = q
      BY <1>6 DEF q
    <3> QED
      BY <1>7, <1>7b, <2>0, <3>1
  <2>2. h3 = Absorb(h2, q)
    BY <1>7, <1>8, <2>1 DEF MergePrev
  <2>3. Absorbed(Absorb(h2, q), h2, q)
    BY <1>1, <1>6, <2>1, AbsorbOK DEF Freed
  <2>4. Freed(Absorb(h2, q), IF h2[h2[q].next].next = NULL THEN q ELSE t2, b, m1 + HDR)
    BY <1>1, <1>6, <2>1, MergeStep
  <2>5. TailAfterMerge(hdr, b) = IF h2[b].next = NULL THEN q ELSE t2
    BY <1>6, <1>8 DEF TailAfterMerge, Survivor
  <2>6. MergedHeaders(hdr, b) = m1 + HDR
    BY <1>8 DEF MergedHeaders
  <2> HIDE DEF h3, t2, m1
  <2>7. Freed(h3, TailAfterMerge(hdr, b), b, MergedHeaders(hdr, b))
    BY <2>1, <2>2, <2>4, <2>5, <2>6
  <2>8. /\ DOMAIN h3 = DOMAIN h2 \ {b} /\ b # h2[b].next
        /\ h3[q].next = h2[b].next /\ h3[q].free
        /\ \A x \in DOMAIN h3 \ {q} : /\ h3[x].free = h2[x].free
                                      /\ h3[x].next = h2[x].next /\ h2[x].next # b
    BY <2>1, <2>2, <2>3 DEF Absorbed
  <2>9. \A x \in DOMAIN h2 : h2[x].next # NULL => h2[x].next \in DOMAIN h2
    BY <1>6 DEF Freed, ListOK, Linked, Tiles
  <2>10. ASSUME NEW x \in DOMAIN h3, FreePair(h3, x) PROVE FALSE
    <3>1. CASE x = q
      <4>1. h2[b].next # NULL /\ h3[h2[b].next].free /\ h2[b].next \in DOMAIN h3
        BY <1>6, <2>8, <2>9, <2>10, <3>1 DEF FreePair
      <4>2. h2[b].next # q
        BY <1>6, <1>7a, <1>7b, <2>1, <4>1
      <4>3. FreePair(h2, b)
        BY <1>6, <2>8, <4>1, <4>2 DEF FreePair
      <4> QED
        BY <1>6, <2>8, <4>3
    <3>2. CASE x # q
      <4>1. h2[x].free /\ h2[x].next # NULL /\ h3[h2[x].next].free /\ h2[x].next # b
            /\ x \in DOMAIN h2
        BY <2>8, <2>10, <3>2 DEF FreePair
      <4>2. h2[x].next \in DOMAIN h3
        BY <2>8, <2>9, <4>1
      <4>3. h2[h2[x].next].free
        BY <2>1, <2>8, <4>1, <4>2
      <4> QED
        BY <1>6, <4>1, <4>3 DEF FreePair
    <3> QED
      BY <3>1, <3>2
  <2> QED
    BY <2>7, <2>10
<1>9. ASSUME ~PrevIsFree(hdr, b)
      PROVE  /\ Freed(h3, TailAfterMerge(hdr, b), b, MergedHeaders(hdr, b))
             /\ \A x \in DOMAIN h3 : ~FreePair(h3, x)
  <2>1. h3 = h2
    BY <1>7, <1>9 DEF MergePrev
  <2>2. TailAfterMerge(hdr, b) = t2
    BY <1>9 DEF TailAfterMerge, Survivor, NextIsFree
  <2>3. MergedHeaders(hdr, b) = m1
    BY <1>9, ShapeAssumption DEF MergedHeaders
  <2>4. ASSUME NEW x \in DOMAIN h2, FreePair(h2, x) PROVE FALSE
    <3>1. h2[x].next = b /\ h2[x].free
      BY <1>6, <2>4 DEF FreePair
    <3>2. x \in Blocks
      BY <1>6 DEF Freed
    <3>3. x # b
      BY <1>7a, <1>7b, <3>1
    <3>4. hdr[x].next = b /\ hdr[x].free /\ b > x
      BY <1>1, <1>5, <1>6, <3>1, <3>2, <3>3 DEF NULL
    <3>5. b # 0 /\ q \in Blocks /\ hdr[q].next = b /\ q < b
      BY <1>1, <1>5, <3>2, <3>4
    <3>6. EndOf(hdr, x) = b /\ EndOf(hdr, q) = b
      BY <1>1, <3>2, <3>4, <3>5 DEF ListOK, Linked, NULL
    <3>7. x = q
      BY <1>1, <3>2, <3>4, <3>5, <3>6 DEF ListOK, Tiles
    <3>8. q # NULL /\ hdr[q].free
      BY <1>1, <3>4, <3>5, <3>7 DEF NULL
    <3> QED
      BY <1>9, <3>8 DEF PrevIsFree
  <2> HIDE DEF h3, t2, m1
  <2>5. Freed(h3, TailAfterMerge(hdr, b), b, MergedHeaders(hdr, b))
    BY <1>6, <2>1, <2>2, <2>3
  <2> QED
    BY <2>1, <2>4, <2>5
<1> HIDE DEF h3
<1>10. /\ Freed(h3, TailAfterMerge(hdr, b), b, MergedHeaders(hdr, b))
       /\ \A x \in DOMAIN h3 : ~FreePair(h3, x)
  BY <1>8, <1>9
<1> QED
  BY <1>10 DEF h1, h2, h3

(* kfree preserves the invariant.                                          *)
LEMMA KfreeInv ==
  ASSUME IInv, NEW p \in DOMAIN live, Kfree(p)
  PROVE  IInv'
<1> DEFINE b == p - HDR
           h == MergePrev(MergeNext(Released(b), b), b)
           m == MergedHeaders(hdr, b)
<1>1. /\ b \in Blocks /\ ~hdr[b].free /\ p = b + HDR
      /\ p \in Nat /\ hdr[b] \in Header /\ Blocks \subseteq Nat /\ mapped \in Nat
  <2>1. b \in Blocks /\ ~hdr[b].free
    BY DEF IInv, LiveIsUsed
  <2>2. p \in Nat /\ Blocks \subseteq Nat /\ mapped \in Nat /\ hdr \in [Blocks -> Header]
    BY DEF IInv, TypeOK
  <2>3. p = b + HDR
    BY <2>2, ShapeAssumption
  <2> HIDE DEF b
  <2> QED
    BY <2>1, <2>2, <2>3
<1>2. /\ hdr' = h /\ tail' = TailAfterMerge(hdr, b)
      /\ used' = used - hdr[b].size /\ freeBytes' = freeBytes + hdr[b].size + m
      /\ live' = [q \in DOMAIN live \ {p} |-> live[q]]
      /\ UNCHANGED <<head, mapped, frames, panicked>>
  BY DEF Kfree
<1>3. Freed(h, TailAfterMerge(hdr, b), b, m) /\ \A x \in DOMAIN h : ~FreePair(h, x)
  BY <1>1, KfreeList
<1> HIDE DEF h, m, b
<1>4. Freed(h, tail', b, m)
  BY <1>2, <1>3
<1>5. Blocks' = DOMAIN h /\ hdr' = h
  BY <1>2 DEF Blocks
<1>6. /\ ListOK(h, mapped, tail') /\ DOMAIN h \subseteq Blocks /\ IsFiniteSet(DOMAIN h)
      /\ \A x \in DOMAIN h : ~h[x].free => x # b /\ ~hdr[x].free /\ h[x].size = hdr[x].size
      /\ \A x \in Blocks \ {b} : ~hdr[x].free => x \in DOMAIN h /\ ~h[x].free
      /\ m \in Nat /\ m + HDR * Cardinality(DOMAIN h) = HDR * Cardinality(Blocks)
  BY <1>4 DEF Freed
<1>7. used \in Int /\ freeBytes \in Int /\ hdr[b].size \in Nat
  BY <1>1 DEF IInv, TypeOK, Header
<1>8. TypeOK'
  <2>1. Blocks' \subseteq Nat /\ IsFiniteSet(Blocks') /\ hdr' \in [Blocks' -> Header]
    BY <1>5, <1>6 DEF ListOK, IsList
  <2>2. tail' \in Address
    BY <1>6 DEF ListOK, IsList, EndsIn, Address
  <2>3. used' \in Int /\ freeBytes' \in Int
    BY <1>2, <1>6, <1>7
  <2>4. DOMAIN live' \subseteq Nat /\ live' \in [DOMAIN live' -> Sizes]
    BY <1>2 DEF IInv, TypeOK
  <2> QED
    BY <1>2, <2>1, <2>2, <2>3, <2>4 DEF IInv, TypeOK
<1>9. Coalesced'
  BY <1>3, <1>5 DEF Coalesced, FreePair
<1>10. LiveIsUsed'
  <2>1. ASSUME NEW r \in DOMAIN live'
        PROVE  r - HDR \in DOMAIN h /\ ~h[r - HDR].free /\ h[r - HDR].size >= live'[r]
    <3>1. r \in DOMAIN live /\ r # p /\ live'[r] = live[r] /\ r \in Nat
      BY <1>2 DEF IInv, TypeOK
    <3>2. r - HDR \in Blocks /\ ~hdr[r - HDR].free /\ hdr[r - HDR].size >= live[r]
      BY <3>1 DEF IInv, LiveIsUsed
    <3>3. r - HDR # b
      BY <1>1, <3>1, ShapeAssumption
    <3> QED
      BY <1>6, <3>1, <3>2, <3>3
  <2>2. ASSUME NEW x \in DOMAIN h, ~h[x].free PROVE x + HDR \in DOMAIN live'
    <3>1. x \in Blocks /\ x # b /\ ~hdr[x].free /\ x \in Nat /\ b \in Nat
      BY <1>1, <1>6, <2>2
    <3>2. x + HDR \in DOMAIN live
      BY <3>1 DEF IInv, LiveIsUsed
    <3>3. x + HDR # p
      BY <1>1, <3>1, ShapeAssumption
    <3> QED
      BY <1>2, <3>2, <3>3
  <2> QED
    BY <1>5, <2>1, <2>2 DEF LiveIsUsed
<1>11. Accounting'
  <2> DEFINE hh == HDR * Cardinality(DOMAIN h)
             hb == HDR * Cardinality(Blocks)
  <2>1. used + freeBytes + hb = mapped
    BY DEF IInv, Accounting
  <2>2. m \in Nat /\ m + hh = hb
    BY <1>6
  <2>3. hh \in Int
    BY <1>6, FS_CardinalityType, ShapeAssumption
  <2> HIDE DEF hh, hb
  <2>4. used' + freeBytes' + hh = mapped
    BY <1>2, <1>7, <2>1, <2>2, <2>3
  <2> QED
    BY <1>2, <1>5, <2>4 DEF Accounting, hh
<1>12. HeadFirst'
  BY <1>2 DEF IInv, HeadFirst
<1> QED
  BY <1>2, <1>5, <1>6, <1>8, <1>9, <1>10, <1>11, <1>12 DEF IInv

-----------------------------------------------------------------------------
(* Every step preserves the invariant.                                     *)
LEMMA NextInv == IInv /\ [Next]_vars => IInv'
<1> SUFFICES ASSUME IInv, [Next]_vars PROVE IInv'
  OBVIOUS
<1>1. ASSUME NEW n \in Sizes \ {0}, Kmalloc(n) PROVE IInv'
  <2>1. CASE KmallocFit(n)
    BY <2>1, FitTakes, TakeInv DEF Takes
  <2>2. CASE KmallocGrow(n)
    BY <2>2, GrowTakes, TakeInv DEF Takes
  <2>3. CASE KmallocOverLimit(n)
    BY <2>3, StopInv DEF KmallocOverLimit, Stop
  <2>4. CASE KmallocNoFrames(n)
    BY <2>4, StopInv DEF KmallocNoFrames, Stop
  <2> QED
    BY <1>1, <2>1, <2>2, <2>3, <2>4 DEF Kmalloc
<1>2. ASSUME NEW p \in DOMAIN live, Kfree(p) PROVE IInv'
  BY <1>2, KfreeInv
<1>3. ASSUME NEW b \in Blocks, KfreeTwice(b) PROVE IInv'
  BY <1>3, StopInv DEF KfreeTwice, Stop
<1>4. CASE UNCHANGED vars
  BY <1>4 DEF vars, IInv, TypeOK, HeadFirst, Coalesced, LiveIsUsed, Accounting, Blocks
<1> QED
  BY <1>1, <1>2, <1>3, <1>4 DEF Next

(* The invariant holds in every state the heap reaches, whatever the       *)
(* header size, the alignment, the page size, the limits and the requests. *)
THEOREM InductiveInvariant == Spec => []IInv
BY InitInv, NextInv, PTL DEF Spec

(* Each variable of the heap stays within its type.                        *)
THEOREM TypeCorrect == Spec => []TypeOK
<1>1. IInv => TypeOK
  BY DEF IInv
<1> QED
  BY <1>1, InductiveInvariant, PTL

(* kmalloc and kfree keep the blocks tiling the mapped range, linked in    *)
(* address order both ways.                                                *)
THEOREM ListCorrect == Spec => []BlockList
<1>1. IInv => BlockList
  BY ListGivesParts DEF IInv, BlockList
<1> QED
  BY <1>1, InductiveInvariant, PTL

(* Between calls no two neighbours are free: kfree's two merges suffice.   *)
THEOREM CoalescedAlways == Spec => []Coalesced
<1>1. IInv => Coalesced
  BY DEF IInv
<1> QED
  BY <1>1, InductiveInvariant, PTL

(* A pointer is held exactly while its block is used, and its block has    *)
(* the bytes that were asked for.                                          *)
THEOREM HeldMeansUsed == Spec => []LiveIsUsed
<1>1. IInv => LiveIsUsed
  BY DEF IInv
<1> QED
  BY <1>1, InductiveInvariant, PTL

(* Two allocations never share a byte, nor does one reach a header.        *)
THEOREM AllocationsDisjoint == Spec => []NoOverlap
<1>1. IInv => NoOverlap
  <2> SUFFICES ASSUME IInv, NEW p \in DOMAIN live
               PROVE  /\ p + live[p] <= mapped
                      /\ \A b \in Blocks : b + HDR <= p \/ p + live[p] <= b
    BY DEF NoOverlap
  <2> DEFINE d == p - HDR
  <2>1. BlocksTile
    BY ListGivesParts DEF IInv
  <2>2. /\ d \in Blocks /\ hdr[d].size >= live[p] /\ hdr[d].size \in Nat
        /\ live[p] \in Nat /\ p \in Nat /\ p = d + HDR
        /\ mapped \in Nat /\ Blocks \subseteq Nat
    <3>1. d \in Blocks /\ hdr[d].size >= live[p]
      BY DEF IInv, LiveIsUsed
    <3>2. /\ p \in Nat /\ Blocks \subseteq Nat /\ mapped \in Nat
          /\ hdr \in [Blocks -> Header] /\ live[p] \in Nat
      BY ShapeAssumption DEF IInv, TypeOK
    <3>3. p = d + HDR
      BY <3>2, ShapeAssumption
    <3> HIDE DEF d
    <3> QED
      BY <3>1, <3>2, <3>3 DEF Header
  <2> HIDE DEF d
  <2>3. p + live[p] <= End(d) /\ End(d) <= mapped
    BY <2>1, <2>2, ShapeAssumption DEF BlocksTile, End
  <2>4. ASSUME NEW b \in Blocks PROVE b + HDR <= p \/ p + live[p] <= b
    <3>1. b < d \/ b = d \/ d < b
      BY <2>2
    <3>2. CASE b < d \/ b = d
      BY <2>2, <3>2, ShapeAssumption
    <3>3. CASE d < b
      <4>1. End(d) <= b
        BY <2>1, <2>2, <3>3 DEF BlocksTile
      <4>2. End(d) \in Nat
        BY <2>2, ShapeAssumption DEF End
      <4> QED
        BY <2>2, <2>3, <4>1, <4>2
    <3> QED
      BY <3>1, <3>2, <3>3
  <2>5. End(d) \in Nat
    BY <2>2, ShapeAssumption DEF End
  <2>6. p + live[p] <= mapped
    BY <2>2, <2>3, <2>5
  <2> QED
    BY <2>4, <2>6
<1> QED
  BY <1>1, InductiveInvariant, PTL

(* The two counters and the headers add up to the mapped bytes.            *)
THEOREM AccountingAlways == Spec => []Accounting
<1>1. IInv => Accounting
  BY DEF IInv
<1> QED
  BY <1>1, InductiveInvariant, PTL

-----------------------------------------------------------------------------
(* kmalloc leaves every block alone that some caller holds.                *)
LEMMA TakeUntouched ==
  ASSUME IInv, NEW n \in Sizes, Takes(n) PROVE Untouched
<1> PICK h, top, t, b, fb : CanTake(h, top, t, b, n, fb) /\ TakeStep(h, top, t, b, n, fb)
  BY DEF Takes
<1> DEFINE a == AlignUp(n)
<1>1. a \in Nat
  BY RoundUp, ShapeAssumption DEF AlignUp
<1>2. /\ top \in Nat /\ ListOK(h, top, t) /\ b \in DOMAIN h /\ h[b].size >= a
      /\ hdr' = Take(h, b, a) /\ HandOut(b + HDR, n)
      /\ Blocks \subseteq DOMAIN h /\ (b \in Blocks => hdr[b].free)
      /\ \A x \in DOMAIN h \ {b} : h[x].size = hdr[x].size
  BY DEF CanTake, TakeStep
<1> HIDE DEF a
<1>3. TookFrom(hdr', h, b, a)
  BY <1>1, <1>2, TakeOK
<1> SUFFICES ASSUME NEW p \in DOMAIN live
             PROVE  hdr'[p - HDR].size = hdr[p - HDR].size /\ live'[p] = live[p]
  BY DEF Untouched
<1>4. p \in Nat /\ p - HDR \in Blocks /\ ~hdr[p - HDR].free
  BY DEF IInv, TypeOK, LiveIsUsed
<1>5. p - HDR \in DOMAIN h \ {b}
  BY <1>2, <1>4
<1>6. p # b + HDR
  <2>1. b \in Nat
    BY <1>2 DEF ListOK, IsList
  <2>2. p - HDR # b
    BY <1>5
  <2> QED
    BY <1>4, <2>1, <2>2, ShapeAssumption
<1>7. live'[p] = live[p]
  BY <1>2, <1>6 DEF HandOut
<1>8. hdr'[p - HDR].size = h[p - HDR].size
  BY <1>3, <1>5 DEF TookFrom
<1> QED
  BY <1>2, <1>5, <1>7, <1>8

(* kfree leaves every block alone that another caller holds.               *)
LEMMA KfreeUntouched ==
  ASSUME IInv, NEW p \in DOMAIN live, Kfree(p) PROVE Untouched
<1> DEFINE b == p - HDR
           h == MergePrev(MergeNext(Released(b), b), b)
<1>1. b \in Blocks /\ ~hdr[b].free
  BY DEF IInv, LiveIsUsed
<1>2. Freed(h, TailAfterMerge(hdr, b), b, MergedHeaders(hdr, b))
  BY <1>1, KfreeList
<1>3. hdr' = h /\ live' = [q \in DOMAIN live \ {p} |-> live[q]]
  BY DEF Kfree
<1> SUFFICES ASSUME NEW r \in DOMAIN live, r # p
             PROVE  hdr'[r - HDR].size = hdr[r - HDR].size /\ live'[r] = live[r]
  BY <1>3 DEF Untouched
<1> HIDE DEF h
<1>4. r \in Nat /\ p \in Nat /\ r - HDR \in Blocks /\ ~hdr[r - HDR].free
  BY DEF IInv, TypeOK, LiveIsUsed
<1>5. r - HDR # b
  BY <1>4, ShapeAssumption
<1>6. h[r - HDR].size = hdr[r - HDR].size
  BY <1>2, <1>4, <1>5 DEF Freed
<1> QED
  BY <1>3, <1>6

(* No call moves, resizes or drops a block that some caller goes on        *)
(* holding.                                                                *)
THEOREM HeldBlocksUntouched == Spec => OthersUntouched
<1>1. ASSUME IInv, [Next]_vars PROVE [Untouched]_vars
  <2>1. ASSUME NEW n \in Sizes \ {0}, Kmalloc(n) PROVE [Untouched]_vars
    <3>1. CASE KmallocFit(n)
      BY <1>1, <3>1, FitTakes, TakeUntouched
    <3>2. CASE KmallocGrow(n)
      BY <1>1, <3>2, GrowTakes, TakeUntouched
    <3>3. CASE KmallocOverLimit(n) \/ KmallocNoFrames(n)
      BY <3>3 DEF KmallocOverLimit, KmallocNoFrames, Stop, heapVars, Untouched
    <3> QED
      BY <2>1, <3>1, <3>2, <3>3 DEF Kmalloc
  <2>2. ASSUME NEW p \in DOMAIN live, Kfree(p) PROVE [Untouched]_vars
    BY <1>1, <2>2, KfreeUntouched
  <2>3. ASSUME NEW b \in Blocks, KfreeTwice(b) PROVE [Untouched]_vars
    BY <2>3 DEF KfreeTwice, Stop, heapVars, Untouched
  <2> QED
    BY <1>1, <2>1, <2>2, <2>3 DEF Next
<1> QED
  BY <1>1, InductiveInvariant, PTL DEF Spec, OthersUntouched
=============================================================================
