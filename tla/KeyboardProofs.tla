--------------------------- MODULE KeyboardProofs ---------------------------
(***************************************************************************)
(* Proofs about the keyboard's ring, for every size: its indices and       *)
(* events keep their types, nothing is lost while the ring holds what is   *)
(* unread, and keys come back in order, all for any number of interrupts   *)
(* within one call of keyboard_read_key, and the order until one of them   *)
(* hits the place the reader is about to load.                             *)
(***************************************************************************)
EXTENDS Keyboard, TLAPS

(* Positions are compared as distances behind tail, so that no % is left.  *)
Around(a) == IF a < 0 THEN a + Size ELSE IF a >= Size THEN a - Size ELSE a
Unread == Around(head - tail)
Pos(i) == Around(tail + i)

LEMMA ModOnce ==
  ASSUME NEW a \in Int, -Size <= a, a < 2 * Size
  PROVE  a % Size = Around(a)
  <1> DEFINE q == a \div Size
             r == a % Size
  <1>1. Size \in Nat /\ Size >= 2
    BY KeyboardAssumption
  <1>2. q \in Int /\ r \in 0..Size-1 /\ a = Size * q + r
    BY <1>1, SMT
  <1> HIDE DEF q, r
  <1>3. q \in {-1, 0, 1}
    <2>1. ~(q >= 2)
      <3>1. q >= 2 => Size * q >= Size * 2
        BY <1>1, <1>2, SMT
      <3>2. QED
        BY <3>1, <1>1, <1>2, SMT
    <2>2. ~(q <= -2)
      <3>1. q <= -2 => Size * q <= Size * (-2)
        BY <1>1, <1>2, SMT
      <3>2. QED
        BY <3>1, <1>1, <1>2, SMT
    <2>3. QED
      BY <2>1, <2>2, <1>2, SMT
  <1>4. r = Around(a)
    <2>1. CASE q = -1
      <3>1. Size * q = -Size
        BY <2>1, <1>1, SMT
      <3>2. QED
        BY <3>1, <1>1, <1>2, SMT DEF Around
    <2>2. CASE q = 0
      <3>1. Size * q = 0
        BY <2>2, <1>1, SMT
      <3>2. QED
        BY <3>1, <1>1, <1>2, SMT DEF Around
    <2>3. CASE q = 1
      <3>1. Size * q = Size
        BY <2>3, <1>1, SMT
      <3>2. QED
        BY <3>1, <1>1, <1>2, SMT DEF Around
    <2>4. QED
      BY <1>3, <2>1, <2>2, <2>3
  <1>5. QED
    BY <1>4 DEF r

LEMMA IncAround ==
  ASSUME NEW i \in 0..Size-1
  PROVE  Inc(i) = Around(i + 1) /\ Inc(i) \in 0..Size-1
  <1>1. Inc(i) = Around(i + 1)
    BY ModOnce, KeyboardAssumption DEF Inc
  <1>2. QED
    BY <1>1, KeyboardAssumption DEF Around
-----------------------------------------------------------------------------
LEMMA InitType == Init => TypeOK
  <1> SUFFICES ASSUME Init
               PROVE  TypeOK
    OBVIOUS
  <1>1. /\ buffer \in [0..Size-1 -> 0..MaxTyped]
        /\ head \in 0..Size-1 /\ tail \in 0..Size-1 /\ idx \in 0..Size-1
    BY KeyboardAssumption DEF Init
  <1>2. ev \in 0..MaxTyped /\ last \in 0..MaxTyped /\ typed \in 0..MaxTyped
    BY KeyboardAssumption DEF Init
  <1>3. /\ shift \in BOOLEAN /\ ctrl \in BOOLEAN /\ extended \in BOOLEAN /\ overrun \in BOOLEAN
        /\ overwritten \in BOOLEAN
        /\ pc \in {"out", "index", "event", "tail", "store"}
    BY Zenon DEF Init
  <1>4. QED
    BY <1>1, <1>2, <1>3 DEF TypeOK

LEMMA NextType == TypeOK /\ [Next]_vars => TypeOK'
  <1> SUFFICES ASSUME TypeOK, [Next]_vars
               PROVE  TypeOK'
    OBVIOUS
  <1> USE DEF TypeOK
  <1>1. ASSUME NEW b \in Bytes, Irq(b)
        PROVE  TypeOK'
    <2>1. /\ shift' \in BOOLEAN /\ ctrl' \in BOOLEAN /\ extended' \in BOOLEAN
      <3>1. b.release \in BOOLEAN
        <4>1. CASE b \in [key : Keys, release : BOOLEAN]
          BY <4>1
        <4>2. CASE b = [key |-> "e0", release |-> FALSE]
          BY <4>2
        <4>3. QED
          BY <4>1, <4>2 DEF Bytes
      <3>2. QED
        BY <1>1, <3>1, Zenon DEF Irq, Modify
    <2>3. UNCHANGED reader /\ typed < MaxTyped
      BY <1>1 DEF Irq
    <2>4. CASE IsEvent(b)
      <3>1. Push
        BY <1>1, <2>4 DEF Irq
      <3>2. head' \in 0..Size-1 /\ tail' \in 0..Size-1
        BY <3>1, IncAround DEF Push
      <3>3. typed' \in 0..MaxTyped /\ overrun' \in BOOLEAN /\ overwritten' \in BOOLEAN
        <4>1. typed' \in 0..MaxTyped
          BY <3>1, <2>3, KeyboardAssumption DEF Push
        <4>2. overrun' \in BOOLEAN /\ overwritten' \in BOOLEAN
          BY <3>1, Zenon DEF Push
        <4>3. QED
          BY <4>1, <4>2
      <3>4. buffer' \in [0..Size-1 -> 0..MaxTyped]
        BY <3>1, <2>3, KeyboardAssumption DEF Push
      <3>5. QED
        BY <2>1, <2>3, <3>2, <3>3, <3>4 DEF reader
    <2>5. CASE ~IsEvent(b)
      <3>1. UNCHANGED <<ring, typed, overrun, overwritten>>
        BY <1>1, <2>5 DEF Irq
      <3>2. QED
        BY <2>1, <2>3, <3>1 DEF ring, reader
    <2>6. QED
      BY <2>4, <2>5
  <1>2. ASSUME ReadKey
        PROVE  TypeOK'
    <2>1. CASE StoreTail
      BY <2>1, IncAround DEF StoreTail, Reader, modifiers
    <2>2. CASE LoadEvent
      BY <2>2 DEF LoadEvent, Reader, modifiers
    <2>3. CASE Check
      BY <2>3, KeyboardAssumption DEF Check, Reader, modifiers
    <2>4. CASE LoadIndex
      BY <2>4 DEF LoadIndex, Reader, modifiers
    <2>5. CASE LoadTail
      BY <2>5 DEF LoadTail, Reader, modifiers
    <2>6. QED
      BY <1>2, <2>1, <2>2, <2>3, <2>4, <2>5 DEF ReadKey
  <1>3. CASE UNCHANGED vars
    BY <1>3 DEF vars, ring, modifiers, reader
  <1>4. QED
    BY <1>1, <1>2, <1>3 DEF Next

(* Every index stays inside the ring and every event is one that was       *)
(* pushed, however the handler and keyboard_read_key interleave.           *)
THEOREM TypeCorrect == Spec => []TypeOK
  <1>1. QED
    BY InitType, NextType, PTL DEF Spec
-----------------------------------------------------------------------------
(* What a push does to the ring, when it is full and when it is not, and   *)
(* what taking the event at tail does.                                     *)
LEMMA Distances ==
  ASSUME TypeOK
  PROVE  /\ Unread \in 0..Size-1
         /\ \A i \in 0..Size-1 : Pos(i) \in 0..Size-1 /\ (Pos(i) = head <=> i = Unread)
         /\ Pos(0) = tail
         /\ Full <=> Unread = Size - 1
  <1>1. /\ Unread \in 0..Size-1
        /\ \A i \in 0..Size-1 : Pos(i) \in 0..Size-1 /\ (Pos(i) = head <=> i = Unread)
        /\ Pos(0) = tail
    BY KeyboardAssumption DEF TypeOK, Unread, Pos, Around
  <1>2. Full <=> Unread = Size - 1
    <2>1. Inc(head) = Around(head + 1) /\ head \in 0..Size-1 /\ tail \in 0..Size-1
      BY IncAround DEF TypeOK
    <2>2. QED
      BY <2>1, KeyboardAssumption DEF Full, Unread, Around
  <1>3. QED
    BY <1>1, <1>2

LEMMA PushRoom ==
  ASSUME TypeOK, TypeOK', Push, Unread < Size - 1
  PROVE  /\ Unread' = Unread + 1 /\ tail' = tail
         /\ \A i \in 0..Unread-1 : Pos(i)' = Pos(i) /\ buffer'[Pos(i)] = buffer[Pos(i)]
         /\ \A i \in 0..Size-1 : i = Unread => buffer'[Pos(i)'] = typed + 1
  <1>1. ~Full
    BY Distances
  <1>2. tail' = tail /\ head' = Around(head + 1) /\ buffer' = [buffer EXCEPT ![head] = typed + 1]
    BY <1>1, IncAround DEF Push, TypeOK
  <1>3. Unread' = Unread + 1
    BY <1>2, KeyboardAssumption DEF Unread, Around, TypeOK
  <1>4. \A i \in 0..Size-1 : Pos(i)' = Pos(i)
    BY <1>2 DEF Pos, Around
  <1>5. /\ Unread \in 0..Size-1
        /\ \A i \in 0..Size-1 : Pos(i) \in 0..Size-1 /\ (Pos(i) = head <=> i = Unread)
    BY Distances
  <1>6. \A i \in 0..Size-1 : buffer'[Pos(i)] = IF i = Unread THEN typed + 1 ELSE buffer[Pos(i)]
    BY <1>2, <1>5 DEF TypeOK
  <1>7. QED
    BY <1>2, <1>3, <1>4, <1>5, <1>6, KeyboardAssumption

LEMMA PushFull ==
  ASSUME TypeOK, TypeOK', Push, Unread = Size - 1
  PROVE  /\ Unread' = Size - 1 /\ tail' = Around(tail + 1)
         /\ \A i \in 0..Size-3 : Pos(i)' = Pos(i + 1) /\ buffer'[Pos(i + 1)] = buffer[Pos(i + 1)]
         /\ buffer'[Pos(Size - 2)'] = typed + 1
         /\ tail = Around(tail' - 1) /\ buffer'[tail] = buffer[tail]
  <1>1. Full
    BY Distances
  <1>2. tail' = Around(tail + 1) /\ head' = Around(head + 1) /\ buffer' = [buffer EXCEPT ![head] = typed + 1]
    BY <1>1, IncAround DEF Push, TypeOK
  <1>3. Unread' = Size - 1 /\ tail = Around(tail' - 1)
    BY <1>2, KeyboardAssumption DEF Unread, Around, TypeOK
  <1>4. \A i \in 0..Size-2 : Pos(i)' = Pos(i + 1)
    BY <1>2, KeyboardAssumption DEF Pos, Around, TypeOK
  <1>5. /\ Pos(0) = tail
        /\ \A i \in 0..Size-1 : Pos(i) \in 0..Size-1 /\ (Pos(i) = head <=> i = Unread)
    BY Distances
  <1>6. \A i \in 0..Size-1 : buffer'[Pos(i)] = IF i = Size - 1 THEN typed + 1 ELSE buffer[Pos(i)]
    BY <1>2, <1>5 DEF TypeOK
  <1>7. QED
    BY <1>2, <1>3, <1>4, <1>5, <1>6, KeyboardAssumption

LEMMA Taken ==
  ASSUME TypeOK, tail' = Around(tail + 1), head' = head, Unread >= 1
  PROVE  /\ Unread' = Unread - 1
         /\ \A i \in 0..Size-2 : Pos(i)' = Pos(i + 1)
  BY KeyboardAssumption DEF TypeOK, Unread, Pos, Around
-----------------------------------------------------------------------------
(* While no more was unread than fits, the ring has every event since the  *)
(* last one returned, and keyboard_read_key is about to return the next.   *)
KeepsAll ==
  ~overrun =>
    /\ typed - last = Unread
    /\ \A i \in 0..Unread-1 : buffer[Pos(i)] = last + 1 + i
    /\ pc # "out" => Unread >= 1
    /\ pc = "event" => idx = tail
    /\ pc \in {"tail", "store"} => ev = last + 1
    /\ pc = "store" => idx = tail

LEMMA InitKeepsAll == Init => KeepsAll
  BY KeyboardAssumption DEF Init, KeepsAll, Unread, Around

LEMMA NextKeepsAll == TypeOK /\ TypeOK' /\ KeepsAll /\ [Next]_vars => KeepsAll'
  <1> SUFFICES ASSUME TypeOK, TypeOK', KeepsAll, [Next]_vars, ~overrun'
               PROVE  KeepsAll'
    BY DEF KeepsAll
  <1>u. Unread \in 0..Size-1 /\ Pos(0) = tail
    BY Distances
  <1>1. ASSUME NEW b \in Bytes, Irq(b), IsEvent(b)
        PROVE  KeepsAll'
    <2>1. Push /\ UNCHANGED reader
      BY <1>1 DEF Irq
    <2>2. ~overrun /\ typed + 1 - last <= Size - 1
      <3>1. ~overrun /\ ~(typed + 1 - last > Size - 1)
        BY <2>1, Zenon DEF Push
      <3>2. QED
        BY <3>1, KeyboardAssumption DEF TypeOK
    <2>3. Unread < Size - 1
      BY <2>2, KeyboardAssumption DEF KeepsAll, TypeOK
    <2>4. /\ Unread' = Unread + 1 /\ tail' = tail
          /\ \A i \in 0..Unread-1 : Pos(i)' = Pos(i) /\ buffer'[Pos(i)] = buffer[Pos(i)]
          /\ \A i \in 0..Size-1 : i = Unread => buffer'[Pos(i)'] = typed + 1
      BY <2>1, <2>3, PushRoom
    <2>5. typed' = typed + 1 /\ UNCHANGED <<pc, idx, ev, last>>
      BY <2>1 DEF Push, reader
    <2>6. typed' - last' = Unread'
      BY <2>2, <2>4, <2>5, <1>u DEF KeepsAll, TypeOK
    <2>7. ASSUME NEW i \in 0..Unread'-1
          PROVE  buffer'[Pos(i)'] = last' + 1 + i
      <3>1. CASE i = Unread
        BY <3>1, <2>2, <2>4, <2>5, <2>6, <1>u DEF KeepsAll, TypeOK
      <3>2. CASE i \in 0..Unread-1
        BY <3>2, <2>2, <2>4, <2>5, <1>u DEF KeepsAll, TypeOK
      <3>3. QED
        BY <3>1, <3>2, <2>4, <1>u
    <2>8. QED
      BY <2>2, <2>4, <2>5, <2>6, <2>7, <1>u DEF KeepsAll
  <1>2. ASSUME NEW b \in Bytes, Irq(b), ~IsEvent(b)
        PROVE  KeepsAll'
    <2>1. UNCHANGED <<ring, typed, overrun, reader>>
      BY <1>2 DEF Irq
    <2>2. QED
      BY <2>1 DEF KeepsAll, Unread, Pos, Around, ring, reader
  <1>3. CASE StoreTail
    <2>1. /\ tail' = Around(idx + 1) /\ last' = ev /\ pc = "store" /\ pc' = "out"
          /\ UNCHANGED <<buffer, head, typed, overrun, idx, ev>>
      BY <1>3, IncAround DEF StoreTail, Reader, TypeOK
    <2>2. tail' = Around(tail + 1) /\ last' = last + 1 /\ Unread >= 1
      BY <2>1 DEF KeepsAll
    <2>3. Unread' = Unread - 1 /\ \A i \in 0..Size-2 : Pos(i)' = Pos(i + 1)
      BY <2>1, <2>2, Taken
    <2>4. typed' - last' = Unread'
      BY <2>1, <2>2, <2>3, <1>u DEF KeepsAll, TypeOK
    <2>5. ASSUME NEW i \in 0..Unread'-1
          PROVE  buffer'[Pos(i)'] = last' + 1 + i
      <3>1. i + 1 \in 0..Unread-1 /\ i \in 0..Size-2
        BY <2>3, <1>u, KeyboardAssumption
      <3>2. buffer[Pos(i + 1)] = last + 1 + (i + 1)
        BY <3>1, <2>1 DEF KeepsAll
      <3>3. QED
        BY <3>1, <3>2, <2>1, <2>2, <2>3 DEF TypeOK
    <2>6. QED
      BY <2>1, <2>4, <2>5 DEF KeepsAll
  <1>4. CASE Check \/ LoadIndex \/ LoadEvent \/ LoadTail
    <2>1. UNCHANGED <<buffer, head, tail, typed, overrun, last>>
      BY <1>4 DEF Check, LoadIndex, LoadEvent, LoadTail, Reader
    <2>2. Unread' = Unread /\ \A i \in 0..Unread-1 : Pos(i)' = Pos(i)
      BY <2>1 DEF Unread, Pos, Around
    <2>3. CASE Check
      <3>1. pc' = "index" /\ tail # head
        BY <2>3 DEF Check, Reader
      <3>2. Unread # 0
        <4>1. head \in 0..Size-1 /\ tail \in 0..Size-1
          BY DEF TypeOK
        <4>2. QED
          BY <3>1, <4>1, KeyboardAssumption DEF Unread, Around
      <3>3. QED
        BY <3>1, <3>2, <2>1, <2>2, <1>u DEF KeepsAll
    <2>4. CASE LoadIndex
      BY <2>4, <2>1, <2>2 DEF KeepsAll, LoadIndex, Reader
    <2>5. CASE LoadEvent
      <3>1. pc = "event" /\ pc' = "tail" /\ ev' = buffer[idx]
        BY <2>5 DEF LoadEvent, Reader
      <3>2. idx = Pos(0) /\ 0 \in 0..Unread-1
        BY <3>1, <2>1, <1>u DEF KeepsAll
      <3>3. ev' = last + 1
        BY <3>1, <3>2, <2>1 DEF KeepsAll, TypeOK
      <3>4. QED
        BY <3>1, <3>3, <2>1, <2>2 DEF KeepsAll
    <2>6. CASE LoadTail
      BY <2>6, <2>1, <2>2 DEF KeepsAll, LoadTail, Reader
    <2>7. QED
      BY <1>4, <2>3, <2>4, <2>5, <2>6
  <1>5. CASE UNCHANGED vars
    BY <1>5 DEF KeepsAll, Unread, Pos, Around, vars, ring, reader
  <1>6. QED
    BY <1>1, <1>2, <1>3, <1>4, <1>5 DEF Next, ReadKey

LEMMA KeepsAllSuffices == TypeOK /\ KeepsAll => NothingLostUnlessFull
  <1> SUFFICES ASSUME TypeOK, KeepsAll, pc = "out", ~overrun
               PROVE  Waiting = last+1..typed
    BY DEF NothingLostUnlessFull
  <1>1. Unread \in 0..Size-1 /\ (head - tail) % Size = Unread
    <2>1. head - tail \in Int /\ -Size <= head - tail /\ head - tail < 2 * Size
      BY KeyboardAssumption DEF TypeOK
    <2>2. (head - tail) % Size = Around(head - tail)
      BY <2>1, ModOnce
    <2>3. QED
      BY <2>2, Distances DEF Unread
  <1>2. \A i \in 0..Unread-1 : (tail + i) % Size = Pos(i)
    BY <1>1, ModOnce, KeyboardAssumption DEF TypeOK, Pos
  <1>3. Waiting = {last + 1 + i : i \in 0..Unread-1}
    BY <1>1, <1>2 DEF KeepsAll, Waiting
  <1>4. typed = last + Unread
    BY <1>1 DEF KeepsAll, TypeOK
  <1>5. \A n \in last+1..typed : n = last + 1 + (n - last - 1) /\ n - last - 1 \in 0..Unread-1
    BY <1>1, <1>4 DEF TypeOK
  <1>6. \A i \in 0..Unread-1 : last + 1 + i \in last+1..typed
    BY <1>1, <1>4 DEF TypeOK
  <1>7. QED
    BY <1>3, <1>5, <1>6

(* No event is lost while the ring holds all that are unread, whatever its *)
(* size and however often the handler hits keyboard_read_key.              *)
THEOREM NoKeyLost == Spec => []NothingLostUnlessFull
  <1>1. Init => TypeOK /\ KeepsAll
    BY InitType, InitKeepsAll
  <1>2. (TypeOK /\ KeepsAll) /\ [Next]_vars => (TypeOK /\ KeepsAll)'
    BY NextType, NextKeepsAll
  <1>3. TypeOK /\ KeepsAll => NothingLostUnlessFull
    BY KeepsAllSuffices
  <1>4. QED
    BY <1>1, <1>2, <1>3, PTL DEF Spec
-----------------------------------------------------------------------------
(* The order needs another invariant, as it is kept at a full ring too and *)
(* whatever StoreTail makes of tail.  A place holds the latest push that   *)
(* fell on it; so what lies between any place and head are the latest      *)
(* pushes, one after the other, and each place the reader goes by has only *)
(* to lie behind the event returned last.                                  *)
Age(p) == Around(head - 1 - p)            \* pushes after the one at p
Behind(p) == typed - 1 - Age(p)           \* the push before the one at p
Before(p) == typed - Around(head - p)     \* the push before those from p up to head

Latest == \A p \in 0..Size-1 : buffer[p] = IF Age(p) < typed THEN typed - Age(p) ELSE 0

Ordered ==
  /\ last <= Before(tail)
  /\ pc \in {"index", "event", "tail"} => tail # head
  /\ pc = "event" => last <= Behind(idx) /\ Behind(idx) <= Before(tail)
  /\ pc = "tail" => last < ev /\ ev <= Before(tail) + 1
  /\ pc = "store" => last < ev /\ ev <= Before(Inc(idx))

InRing == Latest /\ (~overwritten => Ordered)

LEMMA InitInRing == Init => InRing
  BY KeyboardAssumption DEF Init, InRing, Latest, Ordered, Age, Before, Around

(* Distances to head from one place and from the next.                     *)
LEMMA NextPlace ==
  ASSUME TypeOK, NEW p \in 0..Size-1
  PROVE  /\ Age(p) \in 0..Size-1 /\ Before(p) \in Int /\ Behind(p) \in Int
         /\ p # head => Behind(p) = Before(p) /\ Before(Inc(p)) = Before(p) + 1
  <1>1. Inc(p) = Around(p + 1) /\ Inc(p) \in 0..Size-1
    BY IncAround
  <1>2. QED
    BY <1>1, KeyboardAssumption DEF TypeOK, Age, Behind, Before, Around

(* A push leaves what lies behind a place, unless it hits that place, and  *)
(* moves tail only forward.                                                *)
LEMMA PushBehind ==
  ASSUME TypeOK, TypeOK', Push
  PROVE  /\ \A p \in 0..Size-1 : /\ Before(p)' >= Before(p)
                                 /\ p # head => Age(p)' = Age(p) + 1 /\ Behind(p)' = Behind(p)
                                 /\ p = head => Age(p)' = 0
         /\ tail # head => tail' # head'
         /\ (typed - Around(head - tail))' >= Before(tail)
  <1>1. /\ head' = Around(head + 1) /\ head' \in 0..Size-1 /\ typed' = typed + 1
        /\ tail' = IF head' = tail THEN Around(tail + 1) ELSE tail
    BY IncAround DEF Push, Full, TypeOK
  <1>2. head \in 0..Size-1 /\ tail \in 0..Size-1 /\ typed \in Nat /\ Size \in Nat /\ Size >= 2
    BY KeyboardAssumption DEF TypeOK
  <1>3. ASSUME NEW p \in 0..Size-1
        PROVE  /\ Before(p)' >= Before(p)
               /\ p # head => Age(p)' = Age(p) + 1 /\ Behind(p)' = Behind(p)
               /\ p = head => Age(p)' = 0
    BY <1>1, <1>2 DEF Before, Age, Behind, Around
  <1>4. tail' # head'
    BY <1>1, <1>2 DEF Around
  <1>5. (typed - Around(head - tail))' >= Before(tail)
    BY <1>1, <1>2 DEF Before, Around
  <1>6. QED
    BY <1>3, <1>4, <1>5

LEMMA PushInRing ==
  ASSUME TypeOK, TypeOK', InRing, NEW b \in Bytes, Irq(b), IsEvent(b)
  PROVE  InRing'
  <1>1. /\ Push /\ UNCHANGED <<pc, idx, ev, last>> /\ typed' = typed + 1
        /\ buffer' = [buffer EXCEPT ![head] = typed + 1]
        /\ overwritten' = (overwritten \/ (pc = "event" /\ head = idx))
    BY DEF Irq, reader, Push
  <1>2. Latest'
    <2> SUFFICES ASSUME NEW p \in 0..Size-1
                 PROVE  buffer'[p] = IF Age(p)' < typed' THEN typed' - Age(p)' ELSE 0
      BY DEF Latest
    <2>1. buffer'[p] = IF p = head THEN typed + 1 ELSE buffer[p]
      BY <1>1 DEF TypeOK
    <2>2. typed \in Nat /\ Age(p) \in Int
      <3>1. Age(p) \in 0..Size-1
        BY NextPlace
      <3>2. QED
        BY <3>1, KeyboardAssumption DEF TypeOK
    <2>3. IF p = head THEN Age(p)' = 0 ELSE Age(p)' = Age(p) + 1
      BY <1>1, PushBehind
    <2>4. QED
      BY <2>1, <2>2, <2>3, <1>1 DEF InRing, Latest
  <1>3. ASSUME ~overwritten'
        PROVE  Ordered'
    <2>1. Ordered /\ ~(pc = "event" /\ head = idx)
      BY <1>1, <1>3 DEF InRing
    <2>2. Before(tail)' >= Before(tail)
      BY <1>1, PushBehind DEF Before
    <2>3. /\ Before(tail) \in Int /\ Before(tail)' \in Int
          /\ Inc(idx) \in 0..Size-1 /\ Before(Inc(idx)) \in Int /\ Before(Inc(idx))' \in Int
          /\ Before(Inc(idx))' >= Before(Inc(idx))
      <3>1. Inc(idx) \in 0..Size-1
        BY IncAround DEF TypeOK
      <3>2. Before(Inc(idx)) \in Int /\ Before(tail) \in Int
        BY <3>1, NextPlace DEF TypeOK
      <3>3. Before(Inc(idx))' \in Int /\ Before(tail)' \in Int
        <4>1. Before(Inc(idx))' = typed' - Around(head' - Inc(idx)) /\ Before(tail)' = typed' - Around(head' - tail')
          BY <1>1 DEF Before, Inc
        <4>2. head' \in 0..Size-1 /\ tail' \in 0..Size-1 /\ typed' \in 0..MaxTyped
          BY DEF TypeOK
        <4>3. /\ head' - Inc(idx) \in Int /\ head' - tail' \in Int
              /\ typed' \in Int
          BY <4>2, <3>1, KeyboardAssumption
        <4>4. \A a \in Int : Around(a) \in Int
          BY KeyboardAssumption DEF Around
        <4>5. Around(head' - Inc(idx)) \in Int /\ Around(head' - tail') \in Int
          BY <4>3, <4>4, Zenon
        <4>6. QED
          BY <4>1, <4>3, <4>5
      <3>4. Before(Inc(idx))' >= Before(Inc(idx))
        BY <3>1, <1>1, PushBehind DEF Before, Inc
      <3>5. QED
        BY <3>1, <3>2, <3>3, <3>4
    <2>4. pc = "event" => Behind(idx)' = Behind(idx)
      BY <2>1, <1>1, PushBehind DEF TypeOK, Behind, Age
    <2>5. tail # head => tail' # head'
      BY <1>1, PushBehind
    <2>6. last \in Int /\ ev \in Int /\ Behind(idx) \in Int
      <3>1. idx \in 0..Size-1 /\ last \in 0..MaxTyped /\ ev \in 0..MaxTyped
        BY DEF TypeOK
      <3>2. Behind(idx) \in Int
        BY <3>1, NextPlace
      <3>3. QED
        BY <3>1, <3>2, KeyboardAssumption
    <2>7. QED
      BY <2>1, <2>2, <2>3, <2>4, <2>5, <2>6, <1>1 DEF Ordered
  <1>4. QED
    BY <1>2, <1>3 DEF InRing

LEMMA ReadInRing ==
  ASSUME TypeOK, TypeOK', InRing, ReadKey
  PROVE  InRing' /\ (pc = "store" /\ ~overwritten => ev > last)
  <1>1. UNCHANGED <<buffer, head, typed, overwritten>>
    BY DEF ReadKey, Check, LoadIndex, LoadEvent, LoadTail, StoreTail, Reader
  <1>2. Latest' /\ \A p : Before(p)' = typed - Around(head - p)' /\ Behind(idx)' = typed - 1 - Age(idx')
    BY <1>1 DEF InRing, Latest, Age, Before, Behind, Around
  <1>3. /\ Before(tail) \in Int /\ tail \in 0..Size-1 /\ head \in 0..Size-1 /\ typed \in Nat
        /\ last \in Nat /\ ev \in Nat /\ idx \in 0..Size-1
    <2>1. /\ tail \in 0..Size-1 /\ head \in 0..Size-1 /\ idx \in 0..Size-1
          /\ last \in Nat /\ ev \in Nat /\ typed \in Nat
      BY KeyboardAssumption DEF TypeOK
    <2>2. QED
      BY <2>1, NextPlace
  <1>4. ASSUME ~overwritten
        PROVE  Ordered' /\ (pc = "store" => ev > last)
    <2>1. Ordered
      BY <1>4 DEF InRing
    <2>2. CASE Check
      <3>1. /\ pc' = "index" /\ tail # head /\ UNCHANGED <<tail, idx, ev, last>> /\ pc = "out"
        BY <2>2 DEF Check, Reader
      <3>2. QED
        BY <3>1, <2>1, <1>1 DEF Ordered, Before, Around
    <2>3. CASE LoadIndex
      <3>1. /\ pc = "index" /\ pc' = "event" /\ idx' = tail /\ UNCHANGED <<tail, ev, last>>
        BY <2>3 DEF LoadIndex, Reader
      <3>2. Behind(tail) = Before(tail) /\ tail # head /\ last <= Before(tail)
        BY <3>1, <2>1, <1>3, NextPlace DEF Ordered
      <3>3. Behind(idx)' = Behind(tail) /\ Before(tail)' = Before(tail)
        BY <3>1, <1>1 DEF Behind, Age, Before, Around
      <3>4. QED
        BY <3>1, <3>2, <3>3, <1>1, <1>3 DEF Ordered
    <2>4. CASE LoadEvent
      <3>1. /\ pc = "event" /\ pc' = "tail" /\ ev' = buffer[idx] /\ UNCHANGED <<tail, idx, last>>
        BY <2>4 DEF LoadEvent, Reader
      <3>2. last <= Behind(idx) /\ Behind(idx) <= Before(tail) /\ tail # head
        BY <3>1, <2>1 DEF Ordered
      <3>3. Age(idx) \in Int /\ Behind(idx) = typed - 1 - Age(idx)
        BY <1>3, NextPlace DEF Behind
      <3>4. ev' = Behind(idx) + 1
        BY <3>1, <3>2, <3>3, <1>3 DEF InRing, Latest
      <3>5. Before(tail)' = Before(tail)
        BY <3>1, <1>1 DEF Before, Around
      <3>6. last <= Before(tail)
        BY <2>1 DEF Ordered
      <3>7. QED
        BY <3>1, <3>2, <3>3, <3>4, <3>5, <3>6, <1>1, <1>3 DEF Ordered
    <2>5. CASE LoadTail
      <3>1. /\ pc = "tail" /\ pc' = "store" /\ idx' = tail /\ UNCHANGED <<tail, ev, last>>
        BY <2>5 DEF LoadTail, Reader
      <3>2. Before(Inc(tail)) = Before(tail) + 1
        BY <3>1, <2>1, <1>3, NextPlace DEF Ordered
      <3>3. Before(Inc(idx))' = Before(Inc(tail)) /\ Before(tail)' = Before(tail)
        BY <3>1, <1>1 DEF Before, Around, Inc
      <3>4. QED
        BY <3>1, <3>2, <3>3, <2>1, <1>1, <1>3 DEF Ordered
    <2>6. CASE StoreTail
      <3>1. /\ pc = "store" /\ pc' = "out" /\ tail' = Inc(idx) /\ last' = ev
        BY <2>6 DEF StoreTail, Reader
      <3>2. last < ev /\ ev <= Before(Inc(idx))
        BY <3>1, <2>1 DEF Ordered
      <3>3. Before(tail)' = Before(Inc(idx))
        BY <3>1, <1>1 DEF Before, Around
      <3>4. QED
        BY <3>1, <3>2, <3>3, <1>3 DEF Ordered
    <2>7. QED
      BY <2>2, <2>3, <2>4, <2>5, <2>6, <1>3 DEF ReadKey, LoadIndex, LoadEvent, LoadTail, Check, Reader
  <1>5. QED
    BY <1>1, <1>2, <1>4 DEF InRing

(* Keys come back in the order of their pushes and none twice, for every   *)
(* size of the ring, also when it overflows, and however many interrupts   *)
(* hit within one keyboard_read_key, until a push hits the place whose     *)
(* index the reader has loaded and whose event it has not.                 *)
THEOREM KeysInOrder == Spec => InOrder
  <1>1. Init => TypeOK /\ InRing
    BY InitType, InitInRing
  <1>2. TypeOK /\ InRing /\ [Next]_vars => (TypeOK /\ InRing)'
    <2> SUFFICES ASSUME TypeOK, InRing, [Next]_vars
                 PROVE  TypeOK' /\ InRing'
      OBVIOUS
    <2>1. TypeOK'
      BY NextType
    <2>2. ASSUME NEW b \in Bytes, Irq(b)
          PROVE  InRing'
      <3>1. CASE IsEvent(b)
        BY <2>1, <2>2, <3>1, PushInRing
      <3>2. CASE ~IsEvent(b)
        <4>1. UNCHANGED <<ring, typed, overwritten, reader>>
          BY <2>2, <3>2 DEF Irq
        <4>2. QED
          BY <4>1 DEF InRing, Latest, Ordered, Age, Before, Behind, Around, Inc, ring, reader
      <3>3. QED
        BY <3>1, <3>2
    <2>3. CASE ReadKey
      BY <2>1, <2>3, ReadInRing
    <2>4. CASE UNCHANGED vars
      <3>1. UNCHANGED <<buffer, head, tail, typed, overwritten, pc, idx, ev, last>>
        BY <2>4 DEF vars, ring, reader
      <3>2. /\ \A p \in 0..Size-1 : Age(p)' = Age(p)
            /\ Behind(idx)' = Behind(idx) /\ Before(tail)' = Before(tail)
            /\ Before(Inc(idx))' = Before(Inc(idx))
        BY <3>1 DEF Age, Before, Behind, Around, Inc
      <3>3. Latest'
        BY <3>1, <3>2 DEF InRing, Latest
      <3>4. Ordered => Ordered'
        BY <3>1, <3>2 DEF Ordered
      <3>5. ~overwritten' => ~overwritten
        BY <3>1
      <3>6. QED
        BY <2>1, <3>3, <3>4, <3>5 DEF InRing
    <2>5. QED
      BY <2>1, <2>2, <2>3, <2>4 DEF Next
  <1>3. TypeOK /\ TypeOK' /\ InRing /\ [Next]_vars
          => [pc = "store" /\ pc' = "out" /\ ~overwritten => ev > last]_vars
    <2> SUFFICES ASSUME TypeOK, TypeOK', InRing, Next, pc = "store", pc' = "out", ~overwritten
                 PROVE  ev > last
      OBVIOUS
    <2>1. CASE ReadKey
      BY <2>1, ReadInRing
    <2>2. ASSUME NEW b \in Bytes, Irq(b)
          PROVE  FALSE
      BY <2>2 DEF Irq, reader
    <2>3. QED
      BY <2>1, <2>2 DEF Next
  <1>4. QED
    BY <1>1, <1>2, <1>3, PTL DEF Spec, InOrder
=============================================================================
