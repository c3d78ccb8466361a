---------------------------- MODULE EditorProofs ----------------------------
(***************************************************************************)
(* Proofs about the text editor, for files, limits and letters of any      *)
(* size.  IInv is inductive: lines within their limits that hold neither   *)
(* newlines nor zero bytes, and a cursor in them.  From it follow TypeOK,  *)
(* that an unmodified text is the file's, that a saved text reads back,    *)
(* and that the editor implements TextBuffer.                              *)
(*                                                                         *)
(* Load, Saved and Flat are folds.  What a fold computes is proved by      *)
(* induction on a number of steps, and that from the least counterexample  *)
(* (NatMin, UpTo); the function a fold chooses is shown to exist first.    *)
(***************************************************************************)
EXTENDS Editor, SequenceTheorems, FiniteSetTheorems, WellFoundedInduction, TLAPS

(* The least element of a set of naturals.                                 *)
LEMMA NatMin ==
  ASSUME NEW T \in SUBSET Nat, T # {}
  PROVE  \E m \in T : \A k \in T : m <= k
<1>1. PICK m \in T : \A k \in T : ~(<<k, m>> \in OpToRel(<, Nat))
  BY WFMin, NatLessThanWellFounded, Zenon
<1>2. \A k \in T : ~(k < m)
  BY <1>1, Zenon DEF OpToRel
<1> QED BY <1>2

LEMMA MinIs ==
  ASSUME NEW T \in SUBSET Nat, T # {}
  PROVE  Min(T) \in T /\ \A k \in T : Min(T) <= k
<1>1. \E m \in T : \A k \in T : m <= k
  BY NatMin
<1> QED BY <1>1 DEF Min

(* Induction up to n, over the set of the numbers for which a fact holds.  *)
LEMMA UpTo ==
  ASSUME NEW n \in Nat, NEW G, 0 \in G,
         \A k \in 0..n : k < n /\ k \in G => k + 1 \in G
  PROVE  \A k \in 0..n : k \in G
<1> SUFFICES ASSUME NEW k \in 0..n, k \notin G PROVE FALSE
  OBVIOUS
<1> DEFINE T == {i \in 0..n : i \notin G}
<1>1. T \in SUBSET Nat /\ T # {}
  OBVIOUS
<1>2. PICK m \in T : \A i \in T : m <= i
  BY <1>1, NatMin
<1>3. m # 0 /\ m \in 0..n
  OBVIOUS
<1>4. m - 1 \in 0..n /\ m - 1 < n /\ m - 1 \notin T
  BY <1>2, <1>3
<1> QED BY <1>3, <1>4

LEMMA MaxOfUpTo ==
  ASSUME NEW n \in Nat, NEW s \in SUBSET (1..n), n \in s
  PROVE  Max(s) = n
<1>1. \A x \in s : n >= x
  OBVIOUS
<1>2. \A x \in s : (\A y \in s : x >= y) => x = n
  OBVIOUS
<1> QED BY <1>1, <1>2 DEF Max
-----------------------------------------------------------------------------
(* FoldLeft, for each of the two operators that are folded: on nothing it  *)
(* is the base, and one more element is one more step.                     *)
LoadOf(s) == FoldLeft(LoadChar, << <<>> >>, s)
IsLoadFold(g, s, n) ==
  g = [t \in SUBSET (1..n) |->
         IF t = {} THEN << <<>> >> ELSE LoadChar(g[t \ {Max(t)}], s[Max(t)])]

(* The functions that FoldLeft chooses from exist.                         *)
LEMMA LoadFoldExists ==
  ASSUME NEW s, NEW n \in Nat
  PROVE  \E g : IsLoadFold(g, s, n)
<1> DEFINE G == {k \in 0..n : \E g : IsLoadFold(g, s, k)}
<1>1. 0 \in G
  <2> DEFINE g == [t \in SUBSET (1..0) |-> << <<>> >>]
  <2>1. \A t \in SUBSET (1..0) : t = {}
    OBVIOUS
  <2>2. IsLoadFold(g, s, 0)
    BY <2>1, Zenon DEF IsLoadFold
  <2> QED BY <2>2
<1>2. ASSUME NEW k \in 0..n, k < n, k \in G PROVE k + 1 \in G
  <2>1. PICK g : IsLoadFold(g, s, k)
    BY <1>2
  <2> DEFINE m == k + 1
             h == [t \in SUBSET (1..m) |-> IF m \in t THEN LoadChar(g[t \ {m}], s[m]) ELSE g[t]]
  <2>2. ASSUME NEW t \in SUBSET (1..m)
        PROVE  h[t] = IF t = {} THEN << <<>> >> ELSE LoadChar(h[t \ {Max(t)}], s[Max(t)])
    <3>1. CASE m \in t
      <4>1. Max(t) = m
        BY <3>1, MaxOfUpTo
      <4>2. t \ {m} \in SUBSET (1..m) /\ m \notin t \ {m}
        OBVIOUS
      <4>3. h[t \ {m}] = g[t \ {m}]
        BY <4>2, Zenon
      <4> QED BY <3>1, <4>1, <4>3, Zenon
    <3>2. CASE m \notin t
      <4>1. t \in SUBSET (1..k)
        BY <3>2
      <4>2. t \ {Max(t)} \in SUBSET (1..m) /\ m \notin t \ {Max(t)} /\ t \ {Max(t)} \in SUBSET (1..k)
        BY <3>2, <4>1
      <4>3. h[t] = g[t] /\ h[t \ {Max(t)}] = g[t \ {Max(t)}]
        BY <3>2, <4>2, Zenon
      <4>4. g[t] = IF t = {} THEN << <<>> >> ELSE LoadChar(g[t \ {Max(t)}], s[Max(t)])
        BY <2>1, <4>1, Zenon DEF IsLoadFold
      <4> QED BY <4>3, <4>4, Zenon
    <3> QED BY <3>1, <3>2, Zenon
  <2>3. IsLoadFold(h, s, m)
    <3>1. h = [t \in SUBSET (1..m) |-> h[t]]
      BY Zenon
    <3> HIDE DEF m, h
    <3> QED BY <2>2, <3>1, Zenon DEF IsLoadFold
  <2> HIDE DEF h
  <2>4. k + 1 \in 0..n
    BY <1>2
  <2> QED BY <2>3, <2>4, Zenon
<1> HIDE DEF G
<1>3. n \in G
  BY <1>1, <1>2, UpTo
<1> QED BY <1>3 DEF G

(* What is loaded, as a table of the steps.                                *)
LEMMA LoadFold ==
  ASSUME NEW S, NEW s \in Seq(S)
  PROVE  \E r : /\ r[0] = << <<>> >>
                /\ \A k \in 1..Len(s) : r[k] = LoadChar(r[k - 1], s[k])
                /\ LoadOf(s) = r[Len(s)]
<1> DEFINE n == Len(s)
           g == CHOOSE f : IsLoadFold(f, s, n)
           r == [k \in 0..n |-> g[1..k]]
<1>0. n \in Nat /\ DOMAIN s = 1..n
  OBVIOUS
<1>1. IsLoadFold(g, s, n)
  BY <1>0, LoadFoldExists, Zenon
<1>2. LoadOf(s) = g[1..n]
  BY <1>0, Zenon DEF LoadOf, FoldLeft, MapThenFoldSet, IsLoadFold
<1> HIDE DEF g, n
<1>3. r[0] = << <<>> >>
  <2>1. 1..0 = {} /\ {} \in SUBSET (1..n) /\ 0 \in 0..n
    BY <1>0
  <2>2. g[{}] = << <<>> >>
    BY <1>1, <2>1, Zenon DEF IsLoadFold
  <2> QED BY <2>1, <2>2
<1>4. ASSUME NEW k \in 1..n PROVE r[k] = LoadChar(r[k - 1], s[k])
  <2>1. 1..k \in SUBSET (1..n) /\ (1..k) # {} /\ k \in 1..k /\ k \in Nat
    BY <1>0
  <2>2. Max(1..k) = k
    BY <2>1, MaxOfUpTo
  <2>3. (1..k) \ {k} = 1..(k - 1)
    BY <1>0
  <2>4. g[1..k] = LoadChar(g[1..(k - 1)], s[k])
    BY <1>1, <2>1, <2>2, <2>3, Zenon DEF IsLoadFold
  <2>5. k \in 0..n /\ k - 1 \in 0..n
    BY <1>0
  <2> QED BY <2>4, <2>5, Zenon
<1>5. LoadOf(s) = r[n]
  BY <1>0, <1>2
<1> QED BY <1>3, <1>4, <1>5, Zenon DEF n

(* Two folds that start alike and step alike over the same elements.       *)
LEMMA LoadAppend ==
  ASSUME NEW S, NEW s \in Seq(S), NEW c \in S
  PROVE  LoadOf(Append(s, c)) = LoadChar(LoadOf(s), c)
<1> DEFINE n == Len(s)
           a == Append(s, c)
<1>0. n \in Nat /\ a \in Seq(S) /\ Len(a) = n + 1 /\ a[n + 1] = c /\ \A i \in 1..n : a[i] = s[i]
  BY AppendProperties
<1>1. PICK r : /\ r[0] = << <<>> >>
               /\ \A k \in 1..n : r[k] = LoadChar(r[k - 1], s[k])
               /\ LoadOf(s) = r[n]
  BY LoadFold
<1> HIDE DEF a
<1>2. PICK q : /\ q[0] = << <<>> >>
               /\ \A k \in 1..(n + 1) : q[k] = LoadChar(q[k - 1], a[k])
               /\ LoadOf(a) = q[n + 1]
  BY <1>0, LoadFold
<1> DEFINE G == {k \in 0..n : q[k] = r[k]}
<1> HIDE DEF n
<1>3. 0 \in G
  BY <1>0, <1>1, <1>2
<1>4. ASSUME NEW k \in 0..n, k < n, k \in G PROVE k + 1 \in G
  <2>1. k + 1 \in 1..n /\ k + 1 \in 1..(n + 1) /\ k + 1 \in 0..n /\ (k + 1) - 1 = k
    BY <1>0, <1>4
  <2>2. q[k + 1] = LoadChar(q[k], a[k + 1]) /\ r[k + 1] = LoadChar(r[k], s[k + 1])
    BY <1>1, <1>2, <2>1, Zenon
  <2>3. q[k] = r[k] /\ a[k + 1] = s[k + 1]
    BY <1>0, <1>4, <2>1
  <2> QED BY <2>1, <2>2, <2>3, Zenon
<1> HIDE DEF G
<1>5. n \in G
  <2>1. n \in Nat /\ n \in 0..n
    BY <1>0
  <2>2. \A k \in 0..n : k < n /\ k \in G => k + 1 \in G
    BY <1>4, Zenon
  <2> QED BY <1>3, <2>1, <2>2, UpTo, Zenon
<1>6. q[n] = r[n]
  BY <1>5 DEF G
<1>7. n + 1 \in 1..(n + 1) /\ (n + 1) - 1 = n
  BY <1>0
<1>8. q[n + 1] = LoadChar(q[n], c)
  BY <1>0, <1>2, <1>7, Zenon
<1> QED BY <1>1, <1>2, <1>6, <1>8, Zenon DEF a

LEMMA LoadEmpty == LoadOf(<<>>) = << <<>> >>
<1>1. << >> \in Seq({}) /\ Len(<< >>) = 0
  BY EmptySeq
<1> QED BY <1>1, LoadFold

NoLine == [out |-> <<>>, full |-> FALSE]
SaveOf(s) == FoldLeft(SaveLine, NoLine, s)
IsSaveFold(g, s, n) ==
  g = [t \in SUBSET (1..n) |->
         IF t = {} THEN NoLine ELSE SaveLine(g[t \ {Max(t)}], s[Max(t)])]

(* The same for SaveLine.                                                  *)
LEMMA SaveFoldExists ==
  ASSUME NEW s, NEW n \in Nat
  PROVE  \E g : IsSaveFold(g, s, n)
<1> DEFINE G == {k \in 0..n : \E g : IsSaveFold(g, s, k)}
<1>1. 0 \in G
  <2> DEFINE g == [t \in SUBSET (1..0) |-> NoLine]
  <2>1. \A t \in SUBSET (1..0) : t = {}
    OBVIOUS
  <2>2. IsSaveFold(g, s, 0)
    BY <2>1, Zenon DEF IsSaveFold
  <2> QED BY <2>2
<1>2. ASSUME NEW k \in 0..n, k < n, k \in G PROVE k + 1 \in G
  <2>1. PICK g : IsSaveFold(g, s, k)
    BY <1>2
  <2> DEFINE m == k + 1
             h == [t \in SUBSET (1..m) |-> IF m \in t THEN SaveLine(g[t \ {m}], s[m]) ELSE g[t]]
  <2>2. ASSUME NEW t \in SUBSET (1..m)
        PROVE  h[t] = IF t = {} THEN NoLine ELSE SaveLine(h[t \ {Max(t)}], s[Max(t)])
    <3>1. CASE m \in t
      <4>1. Max(t) = m
        BY <3>1, MaxOfUpTo
      <4>2. t \ {m} \in SUBSET (1..m) /\ m \notin t \ {m}
        OBVIOUS
      <4>3. h[t \ {m}] = g[t \ {m}]
        BY <4>2, Zenon
      <4> QED BY <3>1, <4>1, <4>3, Zenon
    <3>2. CASE m \notin t
      <4>1. t \in SUBSET (1..k)
        BY <3>2
      <4>2. t \ {Max(t)} \in SUBSET (1..m) /\ m \notin t \ {Max(t)} /\ t \ {Max(t)} \in SUBSET (1..k)
        BY <3>2, <4>1
      <4>3. h[t] = g[t] /\ h[t \ {Max(t)}] = g[t \ {Max(t)}]
        BY <3>2, <4>2, Zenon
      <4>4. g[t] = IF t = {} THEN NoLine ELSE SaveLine(g[t \ {Max(t)}], s[Max(t)])
        BY <2>1, <4>1, Zenon DEF IsSaveFold
      <4> QED BY <4>3, <4>4, Zenon
    <3> QED BY <3>1, <3>2, Zenon
  <2>3. IsSaveFold(h, s, m)
    <3>1. h = [t \in SUBSET (1..m) |-> h[t]]
      BY Zenon
    <3> HIDE DEF m, h
    <3> QED BY <2>2, <3>1, Zenon DEF IsSaveFold
  <2> HIDE DEF h
  <2>4. k + 1 \in 0..n
    BY <1>2
  <2> QED BY <2>3, <2>4, Zenon
<1> HIDE DEF G
<1>3. n \in G
  BY <1>1, <1>2, UpTo
<1> QED BY <1>3 DEF G

(* What is saved, as a table of the steps.                                 *)
LEMMA SaveFold ==
  ASSUME NEW S, NEW s \in Seq(S)
  PROVE  \E r : /\ r[0] = NoLine
                /\ \A k \in 1..Len(s) : r[k] = SaveLine(r[k - 1], s[k])
                /\ SaveOf(s) = r[Len(s)]
<1> DEFINE n == Len(s)
           g == CHOOSE f : IsSaveFold(f, s, n)
           r == [k \in 0..n |-> g[1..k]]
<1>0. n \in Nat /\ DOMAIN s = 1..n
  OBVIOUS
<1>1. IsSaveFold(g, s, n)
  BY <1>0, SaveFoldExists, Zenon
<1>2. SaveOf(s) = g[1..n]
  BY <1>0, Zenon DEF SaveOf, FoldLeft, MapThenFoldSet, IsSaveFold
<1> HIDE DEF g, n
<1>3. r[0] = NoLine
  <2>1. 1..0 = {} /\ {} \in SUBSET (1..n) /\ 0 \in 0..n
    BY <1>0
  <2>2. g[{}] = NoLine
    BY <1>1, <2>1, Zenon DEF IsSaveFold
  <2> QED BY <2>1, <2>2
<1>4. ASSUME NEW k \in 1..n PROVE r[k] = SaveLine(r[k - 1], s[k])
  <2>1. 1..k \in SUBSET (1..n) /\ (1..k) # {} /\ k \in 1..k /\ k \in Nat
    BY <1>0
  <2>2. Max(1..k) = k
    BY <2>1, MaxOfUpTo
  <2>3. (1..k) \ {k} = 1..(k - 1)
    BY <1>0
  <2>4. g[1..k] = SaveLine(g[1..(k - 1)], s[k])
    BY <1>1, <2>1, <2>2, <2>3, Zenon DEF IsSaveFold
  <2>5. k \in 0..n /\ k - 1 \in 0..n
    BY <1>0
  <2> QED BY <2>4, <2>5, Zenon
<1>5. SaveOf(s) = r[n]
  BY <1>0, <1>2
<1> QED BY <1>3, <1>4, <1>5, Zenon DEF n

LEMMA SaveAppend ==
  ASSUME NEW S, NEW s \in Seq(S), NEW c \in S
  PROVE  SaveOf(Append(s, c)) = SaveLine(SaveOf(s), c)
<1> DEFINE n == Len(s)
           a == Append(s, c)
<1>0. n \in Nat /\ a \in Seq(S) /\ Len(a) = n + 1 /\ a[n + 1] = c /\ \A i \in 1..n : a[i] = s[i]
  BY AppendProperties
<1>1. PICK r : /\ r[0] = NoLine
               /\ \A k \in 1..n : r[k] = SaveLine(r[k - 1], s[k])
               /\ SaveOf(s) = r[n]
  BY SaveFold
<1> HIDE DEF a
<1>2. PICK q : /\ q[0] = NoLine
               /\ \A k \in 1..(n + 1) : q[k] = SaveLine(q[k - 1], a[k])
               /\ SaveOf(a) = q[n + 1]
  BY <1>0, SaveFold
<1> DEFINE G == {k \in 0..n : q[k] = r[k]}
<1> HIDE DEF n
<1>3. 0 \in G
  BY <1>0, <1>1, <1>2
<1>4. ASSUME NEW k \in 0..n, k < n, k \in G PROVE k + 1 \in G
  <2>1. k + 1 \in 1..n /\ k + 1 \in 1..(n + 1) /\ k + 1 \in 0..n /\ (k + 1) - 1 = k
    BY <1>0, <1>4
  <2>2. q[k + 1] = SaveLine(q[k], a[k + 1]) /\ r[k + 1] = SaveLine(r[k], s[k + 1])
    BY <1>1, <1>2, <2>1, Zenon
  <2>3. q[k] = r[k] /\ a[k + 1] = s[k + 1]
    BY <1>0, <1>4, <2>1
  <2> QED BY <2>1, <2>2, <2>3, Zenon
<1> HIDE DEF G
<1>5. n \in G
  <2>1. n \in Nat /\ n \in 0..n
    BY <1>0
  <2>2. \A k \in 0..n : k < n /\ k \in G => k + 1 \in G
    BY <1>4, Zenon
  <2> QED BY <1>3, <2>1, <2>2, UpTo, Zenon
<1>6. q[n] = r[n]
  BY <1>5 DEF G
<1>7. n + 1 \in 1..(n + 1) /\ (n + 1) - 1 = n
  BY <1>0
<1>8. q[n + 1] = SaveLine(q[n], c)
  BY <1>0, <1>2, <1>7, Zenon
<1> QED BY <1>1, <1>2, <1>6, <1>8, Zenon DEF a

LEMMA SaveEmpty == SaveOf(<<>>) = NoLine
<1>1. << >> \in Seq({}) /\ Len(<< >>) = 0
  BY EmptySeq
<1> QED BY <1>1, SaveFold
-----------------------------------------------------------------------------
(* FlattenSeq likewise.                                                    *)
IsFlatten(g, s, n) ==
  g = [i \in 1..n |-> IF i = 1 THEN s[i] ELSE g[i - 1] \o s[i]]

LEMMA FlattenExists ==
  ASSUME NEW s, NEW n \in Nat
  PROVE  \E g : IsFlatten(g, s, n)
<1> DEFINE G == {k \in 0..n : \E g : IsFlatten(g, s, k)}
<1>1. 0 \in G
  <2> DEFINE g == [i \in 1..0 |-> << >>]
  <2>1. 1..0 = {}
    OBVIOUS
  <2>2. IsFlatten(g, s, 0)
    BY <2>1, Zenon DEF IsFlatten
  <2> QED BY <2>2
<1>2. ASSUME NEW k \in 0..n, k < n, k \in G PROVE k + 1 \in G
  <2>1. PICK g : IsFlatten(g, s, k)
    BY <1>2
  <2> DEFINE m == k + 1
             h == [i \in 1..m |-> IF i = m THEN (IF m = 1 THEN s[m] ELSE g[k] \o s[m]) ELSE g[i]]
  <2>2. ASSUME NEW i \in 1..m
        PROVE  h[i] = IF i = 1 THEN s[i] ELSE h[i - 1] \o s[i]
    <3>1. CASE i = m
      <4>1. k = 0 \/ (k \in 1..m /\ k # m)
        OBVIOUS
      <4>2. k # 0 => h[k] = g[k]
        BY <4>1, Zenon
      <4>3. h[m] = IF m = 1 THEN s[m] ELSE g[k] \o s[m]
        BY <3>1, Zenon
      <4>4. m - 1 = k /\ (m = 1 <=> k = 0)
        OBVIOUS
      <4> HIDE DEF h, m
      <4> QED BY <3>1, <4>2, <4>3, <4>4, Zenon
    <3>2. CASE i # m
      <4>1. i \in 1..k /\ (i = 1 \/ (i - 1 \in 1..k /\ i - 1 \in 1..m /\ i - 1 # m))
        BY <3>2
      <4>2. h[i] = g[i] /\ (i # 1 => h[i - 1] = g[i - 1])
        BY <3>2, <4>1, Zenon
      <4>3. g[i] = IF i = 1 THEN s[i] ELSE g[i - 1] \o s[i]
        BY <2>1, <4>1, Zenon DEF IsFlatten
      <4> HIDE DEF h, m
      <4> QED BY <4>2, <4>3, Zenon
    <3> QED BY <3>1, <3>2
  <2>3. IsFlatten(h, s, m)
    <3>1. h = [i \in 1..m |-> h[i]]
      BY Zenon
    <3> HIDE DEF m, h
    <3> QED BY <2>2, <3>1, Zenon DEF IsFlatten
  <2> HIDE DEF h
  <2>4. k + 1 \in 0..n
    BY <1>2
  <2> QED BY <2>3, <2>4, Zenon
<1> HIDE DEF G
<1>3. n \in G
  BY <1>1, <1>2, UpTo
<1> QED BY <1>3 DEF G

LEMMA FlattenFold ==
  ASSUME NEW S, NEW s \in Seq(Seq(S))
  PROVE  \E r : /\ r[0] = << >>
                /\ \A k \in 1..Len(s) : r[k] = r[k - 1] \o s[k]
                /\ FlattenSeq(s) = r[Len(s)]
<1> DEFINE n == Len(s)
           g == CHOOSE f : IsFlatten(f, s, n)
           r == [k \in 0..n |-> IF k = 0 THEN << >> ELSE g[k]]
<1>0. n \in Nat /\ (n = 0 => s = << >>) /\ \A k \in 1..n : s[k] \in Seq(S)
  OBVIOUS
<1>1. IsFlatten(g, s, n)
  BY <1>0, FlattenExists, Zenon
<1>2. n # 0 => FlattenSeq(s) = g[n]
  BY Zenon DEF FlattenSeq, IsFlatten
<1>3. n = 0 => FlattenSeq(s) = << >>
  BY <1>0, Zenon DEF FlattenSeq
<1> HIDE DEF g, n
<1>4. r[0] = << >>
  BY <1>0
<1>5. ASSUME NEW k \in 1..n PROVE r[k] = r[k - 1] \o s[k]
  <2>1. g[k] = IF k = 1 THEN s[k] ELSE g[k - 1] \o s[k]
    BY <1>1, Zenon DEF IsFlatten
  <2>2. k \in 0..n /\ k # 0 /\ k - 1 \in 0..n /\ (k - 1 = 0 <=> k = 1)
    BY <1>0
  <2>3. r[k] = g[k] /\ r[k - 1] = IF k = 1 THEN << >> ELSE g[k - 1]
    BY <2>2, Zenon
  <2>4. << >> \o s[k] = s[k]
    BY <1>0, ConcatEmptySeq
  <2> HIDE DEF r
  <2> QED BY <2>1, <2>3, <2>4, Zenon
<1>6. FlattenSeq(s) = r[n]
  BY <1>0, <1>2, <1>3
<1> QED BY <1>4, <1>5, <1>6, Zenon DEF n

LEMMA FlattenEmpty == FlattenSeq(<<>>) = <<>>
BY DEF FlattenSeq

(* One more part at the end is one more concatenation.                     *)
LEMMA FlattenAppend ==
  ASSUME NEW S, NEW s \in Seq(Seq(S)), NEW c \in Seq(S)
  PROVE  FlattenSeq(Append(s, c)) = FlattenSeq(s) \o c
<1> DEFINE n == Len(s)
           a == Append(s, c)
<1>0. n \in Nat /\ a \in Seq(Seq(S)) /\ Len(a) = n + 1 /\ a[n + 1] = c /\ \A i \in 1..n : a[i] = s[i]
  BY AppendProperties
<1>1. PICK r : /\ r[0] = << >>
               /\ \A k \in 1..n : r[k] = r[k - 1] \o s[k]
               /\ FlattenSeq(s) = r[n]
  BY FlattenFold
<1> HIDE DEF a
<1>2. PICK q : /\ q[0] = << >>
               /\ \A k \in 1..(n + 1) : q[k] = q[k - 1] \o a[k]
               /\ FlattenSeq(a) = q[n + 1]
  BY <1>0, FlattenFold
<1> DEFINE G == {k \in 0..n : q[k] = r[k]}
<1> HIDE DEF n
<1>3. 0 \in G
  BY <1>0, <1>1, <1>2
<1>4. ASSUME NEW k \in 0..n, k < n, k \in G PROVE k + 1 \in G
  <2>1. k + 1 \in 1..n /\ k + 1 \in 1..(n + 1) /\ k + 1 \in 0..n /\ (k + 1) - 1 = k
    BY <1>0, <1>4
  <2>2. q[k + 1] = q[k] \o a[k + 1] /\ r[k + 1] = r[k] \o s[k + 1]
    BY <1>1, <1>2, <2>1, Zenon
  <2>3. q[k] = r[k] /\ a[k + 1] = s[k + 1]
    BY <1>0, <1>4, <2>1
  <2> QED BY <2>1, <2>2, <2>3, Zenon
<1> HIDE DEF G
<1>5. n \in G
  <2>1. n \in Nat /\ n \in 0..n
    BY <1>0
  <2>2. \A k \in 0..n : k < n /\ k \in G => k + 1 \in G
    BY <1>4, Zenon
  <2> QED BY <1>3, <2>1, <2>2, UpTo, Zenon
<1>6. q[n] = r[n]
  BY <1>5 DEF G
<1>7. n + 1 \in 1..(n + 1) /\ (n + 1) - 1 = n
  BY <1>0
<1>8. q[n + 1] = q[n] \o c
  BY <1>0, <1>2, <1>7, Zenon
<1> QED BY <1>1, <1>2, <1>6, <1>8, Zenon DEF a
-----------------------------------------------------------------------------
(* What a line, a text and a file are made of.                             *)
Plain == Chars \ {NL, NUL}
RawLine == {l \in Seq(Chars \ {NL}) : Len(l) < MaxLen}
TextLine == {l \in Seq(Plain) : Len(l) < MaxLen}
IsText(ls) == ls \in Seq(TextLine) /\ Len(ls) \in 1..MaxLines
Loading(ls) == ls \in Seq(RawLine) /\ Len(ls) \in 1..MaxLines

(* What the assumption says of each constant.                              *)
LEMMA Limits ==
  /\ MaxLines \in Nat \ {0} /\ MaxLen \in Nat \ {0} /\ IoBuf \in Nat \ {0} /\ Rows \in Nat \ {0}
  /\ NL # NUL /\ NL \in Chars /\ NUL \in Chars /\ Letters \subseteq Plain
BY EditorAssumption DEF Chars, Plain

LEMMA EmptyLine == <<>> \in RawLine /\ <<>> \in TextLine
<1>1. << >> \in Seq(Chars \ {NL}) /\ << >> \in Seq(Plain) /\ Len(<< >>) = 0
  BY EmptySeq
<1> QED BY <1>1, Limits DEF RawLine, TextLine

LEMMA OneEmptyLine ==
  ASSUME NEW ls, ls = << <<>> >>
  PROVE  IsText(ls) /\ Len(ls) = 1 /\ ls[1] = <<>> /\ Len(ls[1]) = 0
<1>1. ls \in Seq(TextLine) /\ Len(ls) = 1
  BY EmptyLine
<1>2. ls[1] = <<>>
  OBVIOUS
<1>3. Len(<< >>) = 0
  BY EmptySeq
<1> QED BY <1>1, <1>2, <1>3, Limits DEF IsText

(* A character more keeps the lines within the limits.                     *)
LEMMA LoadStep ==
  ASSUME NEW ls, Loading(ls), NEW c \in Chars
  PROVE  Loading(LoadChar(ls, c))
<1> USE Limits
<1> DEFINE n == Len(ls)
<1>0. ls \in Seq(RawLine) /\ n \in 1..MaxLines /\ n \in Nat
  BY DEF Loading
<1>1. Last(ls) = ls[n] /\ ls[n] \in RawLine
  BY <1>0 DEF Last
<1>2. CASE c = NL /\ n < MaxLines
  <2>1. LoadChar(ls, c) = Append(ls, <<>>)
    BY <1>2 DEF LoadChar
  <2>2. Append(ls, <<>>) \in Seq(RawLine) /\ Len(Append(ls, <<>>)) = n + 1
    BY <1>0, EmptyLine, AppendProperties
  <2> QED BY <1>0, <1>2, <2>1, <2>2 DEF Loading
<1>3. CASE c = NL /\ n = MaxLines /\ ~LineFull(Last(ls))
  <2>1. LoadChar(ls, c) = [ls EXCEPT ![n] = <<>>]
    BY <1>3 DEF LoadChar
  <2>2. [ls EXCEPT ![n] = <<>>] \in Seq(RawLine) /\ Len([ls EXCEPT ![n] = <<>>]) = n
    BY <1>0, EmptyLine, ExceptSeq
  <2> QED BY <1>0, <2>1, <2>2 DEF Loading
<1>4. CASE c # NL /\ ~LineFull(Last(ls))
  <2> DEFINE l == Append(ls[n], c)
  <2>1. LoadChar(ls, c) = [ls EXCEPT ![n] = l]
    BY <1>0, <1>4 DEF LoadChar
  <2>2. l \in RawLine
    <3>1. ls[n] \in Seq(Chars \ {NL}) /\ ~(Len(ls[n]) >= MaxLen - 1) /\ c \in Chars \ {NL}
      BY <1>1, <1>4 DEF RawLine, LineFull
    <3>2. l \in Seq(Chars \ {NL}) /\ Len(l) = Len(ls[n]) + 1
      BY <3>1, AppendProperties
    <3>3. Len(ls[n]) \in Nat
      BY <3>1
    <3> QED BY <3>1, <3>2, <3>3 DEF RawLine
  <2> HIDE DEF l
  <2>3. [ls EXCEPT ![n] = l] \in Seq(RawLine) /\ Len([ls EXCEPT ![n] = l]) = n
    BY <1>0, <2>2, ExceptSeq
  <2> QED BY <1>0, <2>1, <2>3 DEF Loading
<1>5. CASE \/ n = MaxLines /\ LineFull(Last(ls))
           \/ n < MaxLines /\ c # NL /\ LineFull(Last(ls))
  <2>1. LoadChar(ls, c) = ls
    BY <1>0, <1>5 DEF LoadChar
  <2> QED BY <2>1
<1> QED BY <1>0, <1>2, <1>3, <1>4, <1>5

(* What is loaded is lines within the limits, of a file that exists or     *)
(* not.                                                                    *)
LEMMA LoadTyped ==
  ASSUME NEW s \in Seq(Chars)
  PROVE  Loading(LoadOf(s))
<1> DEFINE n == Len(s)
<1>1. PICK r : /\ r[0] = << <<>> >>
               /\ \A k \in 1..n : r[k] = LoadChar(r[k - 1], s[k])
               /\ LoadOf(s) = r[n]
  BY LoadFold
<1>2. n \in Nat /\ \A k \in 1..n : s[k] \in Chars
  OBVIOUS
<1> DEFINE G == {k \in 0..n : Loading(r[k])}
<1> HIDE DEF n
<1>3. 0 \in G
  <2>1. << <<>> >> \in Seq(RawLine) /\ Len(<< <<>> >>) = 1
    BY EmptyLine
  <2>2. Loading(r[0])
    BY <1>1, <2>1, Limits DEF Loading
  <2> QED BY <1>2, <2>2
<1>4. ASSUME NEW k \in 0..n, k < n, k \in G PROVE k + 1 \in G
  <2>1. k + 1 \in 1..n /\ k + 1 \in 0..n /\ (k + 1) - 1 = k
    BY <1>2, <1>4
  <2>2. r[k + 1] = LoadChar(r[k], s[k + 1])
    BY <1>1, <2>1, Zenon
  <2>3. Loading(r[k + 1])
    BY <1>2, <1>4, <2>1, <2>2, LoadStep
  <2> QED BY <2>1, <2>3
<1> HIDE DEF G
<1>5. n \in G
  <2>1. n \in Nat /\ n \in 0..n
    BY <1>2
  <2>2. \A k \in 0..n : k < n /\ k \in G => k + 1 \in G
    BY <1>4, Zenon
  <2> QED BY <1>3, <2>1, <2>2, UpTo, Zenon
<1> QED BY <1>1, <1>5 DEF G

(* A line up to its first zero byte has none.                              *)
LEMMA CStringTyped ==
  ASSUME NEW l \in RawLine
  PROVE  CString(l) \in TextLine
<1> USE Limits
<1>0. l \in Seq(Chars \ {NL}) /\ Len(l) < MaxLen /\ Len(l) \in Nat /\ ToSet(l) = {l[i] : i \in 1..Len(l)}
  BY DEF RawLine, ToSet
<1>1. CASE NUL \notin ToSet(l)
  <2>1. \A i \in 1..Len(l) : l[i] \in Plain
    BY <1>0, <1>1 DEF Plain
  <2>2. l \in Seq(Plain)
    BY <1>0, <2>1
  <2> QED BY <1>0, <1>1, <2>2 DEF CString, TextLine
<1>2. CASE NUL \in ToSet(l)
  <2> DEFINE T == {i \in 1..Len(l) : l[i] = NUL}
             m == Min(T)
  <2>1. T \in SUBSET Nat /\ T # {}
    BY <1>0, <1>2
  <2>2. m \in T /\ \A i \in T : m <= i
    BY <2>1, MinIs
  <2>3. SelectInSeq(l, LAMBDA c : c = NUL) = m
    BY <2>1 DEF SelectInSeq
  <2>4. CString(l) = SubSeq(l, 1, m - 1)
    BY <1>2, <2>3 DEF CString
  <2> HIDE DEF m
  <2>5. m \in 1..Len(l) /\ \A i \in 1..(m - 1) : l[i] \in Plain
    BY <1>0, <2>2 DEF Plain
  <2>6. SubSeq(l, 1, m - 1) \in Seq(Plain) /\ Len(SubSeq(l, 1, m - 1)) <= Len(l)
    BY <1>0, <2>5, SubSeqProperties
  <2>7. Len(SubSeq(l, 1, m - 1)) \in Nat
    BY <2>6
  <2> QED BY <1>0, <2>4, <2>6, <2>7 DEF TextLine
<1> QED BY <1>1, <1>2

LEMMA LoadIsText ==
  ASSUME NEW file, file = Missing \/ file \in Seq(Chars)
  PROVE  IsText(Load(file))
<1> USE Limits
<1>1. CASE file = Missing
  <2>1. << <<>> >> \in Seq(TextLine) /\ Len(<< <<>> >>) = 1
    BY EmptyLine
  <2> QED BY <1>1, <2>1 DEF Load, IsText
<1>2. CASE file # Missing
  <2> DEFINE m == IF Len(file) < IoBuf - 1 THEN Len(file) ELSE IoBuf - 1
             read == SubSeq(file, 1, m)
             ls == LoadOf(read)
  <2>1. file \in Seq(Chars) /\ Len(file) \in Nat
    BY <1>2
  <2>2. m \in Nat /\ m <= Len(file) /\ \A i \in 1..m : file[i] \in Chars
    BY <2>1
  <2>3. read \in Seq(Chars)
    BY <2>2, SubSeqProperties
  <2>4. Load(file) = [i \in 1..Len(ls) |-> CString(ls[i])]
    BY <1>2, Zenon DEF Load, LoadOf
  <2> HIDE DEF read, m
  <2>5. Loading(ls)
    BY <2>3, LoadTyped
  <2> HIDE DEF ls
  <2>6. Len(ls) \in 1..MaxLines /\ \A i \in 1..Len(ls) : CString(ls[i]) \in TextLine
    BY <2>5, CStringTyped DEF Loading
  <2>7. [i \in 1..Len(ls) |-> CString(ls[i])] \in Seq(TextLine)
    BY <2>6
  <2>8. Len([i \in 1..Len(ls) |-> CString(ls[i])]) = Len(ls)
    BY <2>6
  <2> QED BY <2>4, <2>6, <2>7, <2>8 DEF IsText
<1> QED BY <1>1, <1>2

(* What is saved is characters.                                            *)
Acc == [out : Seq(Chars), full : BOOLEAN]

(* A line is written whole or not at all.                                  *)
LEMMA SaveStep ==
  ASSUME NEW a \in Acc, NEW l \in TextLine
  PROVE  LET b == SaveLine(a, l)
             fits == Len(a.out) + Len(l) + 1 < IoBuf
         IN  /\ b \in Acc
             /\ a.full \/ ~fits => b.full /\ b.out = a.out
             /\ ~a.full /\ fits => ~b.full /\ b.out = a.out \o l \o <<NL>>
<1> USE Limits
<1>0. l \in Seq(Chars) /\ Len(l) \in Nat /\ a.out \in Seq(Chars) /\ Len(a.out) \in Nat /\ a.full \in BOOLEAN
  BY DEF Acc, TextLine, Plain
<1>1. CASE a.full \/ Len(a.out) + Len(l) + 1 >= IoBuf
  <2>1. SaveLine(a, l) = [a EXCEPT !.full = TRUE]
    BY <1>1 DEF SaveLine
  <2>2. [a EXCEPT !.full = TRUE] \in Acc /\ [a EXCEPT !.full = TRUE].full
        /\ [a EXCEPT !.full = TRUE].out = a.out
    BY DEF Acc
  <2> QED BY <1>0, <1>1, <2>1, <2>2
<1>2. CASE ~(a.full \/ Len(a.out) + Len(l) + 1 >= IoBuf)
  <2> DEFINE o == a.out \o l \o <<NL>>
  <2>1. SaveLine(a, l) = [a EXCEPT !.out = o]
    BY <1>2 DEF SaveLine
  <2>2. o \in Seq(Chars)
    BY <1>0
  <2> HIDE DEF o
  <2>3. [a EXCEPT !.out = o] \in Acc /\ [a EXCEPT !.out = o].full = a.full
        /\ [a EXCEPT !.out = o].out = o
    BY <2>2 DEF Acc
  <2> QED BY <1>0, <1>2, <2>1, <2>3 DEF o
<1> QED BY <1>1, <1>2

LEMMA SaveTyped ==
  ASSUME NEW s \in Seq(TextLine)
  PROVE  SaveOf(s) \in Acc /\ Saved(s) = SaveOf(s).out /\ Saved(s) \in Seq(Chars)
<1> DEFINE n == Len(s)
<1>1. PICK r : /\ r[0] = NoLine
               /\ \A k \in 1..n : r[k] = SaveLine(r[k - 1], s[k])
               /\ SaveOf(s) = r[n]
  BY SaveFold
<1>2. n \in Nat /\ \A k \in 1..n : s[k] \in TextLine
  OBVIOUS
<1> DEFINE G == {k \in 0..n : r[k] \in Acc}
<1> HIDE DEF n
<1>3. 0 \in G
  <2>1. NoLine \in Acc
    BY EmptySeq DEF NoLine, Acc
  <2> QED BY <1>1, <1>2, <2>1
<1>4. ASSUME NEW k \in 0..n, k < n, k \in G PROVE k + 1 \in G
  <2>1. k + 1 \in 1..n /\ k + 1 \in 0..n /\ (k + 1) - 1 = k
    BY <1>2, <1>4
  <2>2. r[k + 1] = SaveLine(r[k], s[k + 1])
    BY <1>1, <2>1, Zenon
  <2>3. r[k + 1] \in Acc
    BY <1>2, <1>4, <2>1, <2>2, SaveStep
  <2> QED BY <2>1, <2>3
<1> HIDE DEF G
<1>5. n \in G
  <2>1. n \in Nat /\ n \in 0..n
    BY <1>2
  <2>2. \A k \in 0..n : k < n /\ k \in G => k + 1 \in G
    BY <1>4, Zenon
  <2> QED BY <1>3, <2>1, <2>2, UpTo, Zenon
<1>6. SaveOf(s) \in Acc
  BY <1>1, <1>5 DEF G
<1>7. Saved(s) = SaveOf(s).out
  BY Zenon DEF Saved, SaveOf, NoLine
<1> QED BY <1>6, <1>7 DEF Acc
-----------------------------------------------------------------------------
(* InsertAt and RemoveAt, element by element.                              *)
LEMMA InsertAtIs ==
  ASSUME NEW S, NEW s \in Seq(S), NEW i \in 1..Len(s) + 1, NEW e \in S
  PROVE  /\ InsertAt(s, i, e) \in Seq(S)
         /\ Len(InsertAt(s, i, e)) = Len(s) + 1
         /\ \A j \in 1..Len(s) + 1 :
              InsertAt(s, i, e)[j] = IF j < i THEN s[j] ELSE IF j = i THEN e ELSE s[j - 1]
<1> DEFINE a == SubSeq(s, 1, i - 1)
           b == SubSeq(s, i, Len(s))
<1>1. a \in Seq(S) /\ Len(a) = i - 1 /\ \A j \in 1..i - 1 : a[j] = s[j]
  BY SubSeqProperties
<1>2. b \in Seq(S) /\ Len(b) = Len(s) - i + 1 /\ \A j \in 1..Len(s) - i + 1 : b[j] = s[i + j - 1]
  BY SubSeqProperties
<1> DEFINE ae == Append(a, e)
<1>3. InsertAt(s, i, e) = ae \o b
  BY <1>1, AppendIsConcat, Zenon DEF InsertAt
<1> HIDE DEF a, b
<1>4. ae \in Seq(S) /\ Len(ae) = i /\ ae[i] = e /\ \A j \in 1..i - 1 : ae[j] = s[j]
  BY <1>1, AppendProperties
<1> HIDE DEF ae
<1>0. i \in Nat /\ Len(s) \in Nat
  OBVIOUS
<1>5. ae \o b \in Seq(S) /\ Len(ae \o b) = Len(s) + 1
  <2>1. ae \o b \in Seq(S) /\ Len(ae \o b) = Len(ae) + Len(b)
    BY <1>2, <1>4, ConcatProperties, Zenon
  <2> QED BY <1>0, <1>2, <1>4, <2>1
<1>6. ASSUME NEW j \in 1..Len(s) + 1
      PROVE  (ae \o b)[j] = IF j < i THEN s[j] ELSE IF j = i THEN e ELSE s[j - 1]
  <2>1. (ae \o b)[j] = IF j <= i THEN ae[j] ELSE b[j - i]
    <3>1. j \in 1..Len(ae) + Len(b)
      BY <1>0, <1>2, <1>4
    <3> QED BY <1>2, <1>4, <3>1, ConcatProperties
  <2>2. CASE j <= i
    BY <1>4, <2>1, <2>2
  <2>3. CASE j > i
    <3>1. j - i \in 1..Len(s) - i + 1 /\ i + (j - i) - 1 = j - 1
      BY <1>0, <2>3
    <3>4. ~(j <= i) /\ ~(j < i) /\ j # i
      BY <1>0, <2>3
    <3>2. b[j - i] = s[j - 1]
      BY <1>2, <3>1
    <3>3. (ae \o b)[j] = s[j - 1]
      BY <2>1, <3>2, <3>4, Zenon
    <3> QED BY <3>3, <3>4, Zenon
  <2>4. j <= i \/ j > i
    BY <1>0
  <2> QED BY <2>2, <2>3, <2>4, Zenon
<1> QED BY <1>3, <1>5, <1>6

LEMMA RemoveAtIs ==
  ASSUME NEW S, NEW s \in Seq(S), NEW i \in 1..Len(s)
  PROVE  /\ RemoveAt(s, i) \in Seq(S)
         /\ Len(RemoveAt(s, i)) = Len(s) - 1
         /\ \A j \in 1..Len(s) - 1 : RemoveAt(s, i)[j] = IF j < i THEN s[j] ELSE s[j + 1]
<1> DEFINE a == SubSeq(s, 1, i - 1)
           b == SubSeq(s, i + 1, Len(s))
<1>1. a \in Seq(S) /\ Len(a) = i - 1 /\ \A j \in 1..i - 1 : a[j] = s[j]
  BY SubSeqProperties
<1>2. b \in Seq(S) /\ Len(b) = Len(s) - i /\ \A j \in 1..Len(s) - i : b[j] = s[i + j]
  BY SubSeqProperties
<1>3. RemoveAt(s, i) = a \o b
  BY DEF RemoveAt
<1> HIDE DEF a, b
<1>4. a \o b \in Seq(S) /\ Len(a \o b) = Len(a) + Len(b)
  BY <1>1, <1>2, ConcatProperties
<1>5. ASSUME NEW j \in 1..Len(s) - 1
      PROVE  (a \o b)[j] = IF j < i THEN s[j] ELSE s[j + 1]
  <2>1. CASE j < i
    BY <1>1, <1>2, <2>1, ConcatProperties
  <2>2. CASE ~(j < i)
    <3>1. j > Len(a) /\ j - Len(a) \in 1..Len(b) /\ i + (j - Len(a)) = j + 1
      BY <1>1, <1>2, <2>2
    <3>2. (a \o b)[j] = b[j - Len(a)]
      BY <1>1, <1>2, <3>1, ConcatProperties
    <3> QED BY <1>2, <2>2, <3>1, <3>2
  <2> QED BY <2>1, <2>2
<1>6. Len(a) + Len(b) = Len(s) - 1
  BY <1>1, <1>2
<1> QED BY <1>3, <1>4, <1>5, <1>6

(* The text that the keys build is one.                                    *)
LEMMA SetLine ==
  ASSUME NEW ls, IsText(ls), NEW i \in 1..Len(ls), NEW l \in TextLine
  PROVE  /\ IsText([ls EXCEPT ![i] = l])
         /\ Len([ls EXCEPT ![i] = l]) = Len(ls)
         /\ [ls EXCEPT ![i] = l][i] = l
BY ExceptSeq DEF IsText

(* A character more or less, and a line in two, are lines.                 *)
LEMMA LineGrows ==
  ASSUME NEW l \in TextLine, NEW i \in 1..Len(l) + 1, NEW c \in Letters, Len(l) + 1 < MaxLen
  PROVE  InsertAt(l, i, c) \in TextLine /\ Len(InsertAt(l, i, c)) = Len(l) + 1
<1>1. l \in Seq(Plain) /\ c \in Plain
  BY Limits DEF TextLine
<1> QED BY <1>1, InsertAtIs DEF TextLine

LEMMA LineShrinks ==
  ASSUME NEW l \in TextLine, NEW i \in 1..Len(l)
  PROVE  RemoveAt(l, i) \in TextLine /\ Len(RemoveAt(l, i)) = Len(l) - 1
<1>1. l \in Seq(Plain) /\ Len(l) < MaxLen /\ Len(l) \in Nat
  BY DEF TextLine
<1>2. RemoveAt(l, i) \in Seq(Plain) /\ Len(RemoveAt(l, i)) = Len(l) - 1
  BY <1>1, RemoveAtIs
<1> QED BY <1>1, <1>2, Limits DEF TextLine

LEMMA LineCut ==
  ASSUME NEW l \in TextLine, NEW c \in 0..Len(l)
  PROVE  /\ SubSeq(l, 1, c) \in TextLine /\ Len(SubSeq(l, 1, c)) = c
         /\ SubSeq(l, c + 1, Len(l)) \in TextLine /\ Len(SubSeq(l, c + 1, Len(l))) = Len(l) - c
<1>1. l \in Seq(Plain) /\ Len(l) < MaxLen /\ Len(l) \in Nat
  BY DEF TextLine
<1>2. SubSeq(l, 1, c) \in Seq(Plain) /\ Len(SubSeq(l, 1, c)) = c
  BY <1>1, SubSeqProperties
<1>3. SubSeq(l, c + 1, Len(l)) \in Seq(Plain) /\ Len(SubSeq(l, c + 1, Len(l))) = Len(l) - c
  BY <1>1, SubSeqProperties
<1> QED BY <1>1, <1>2, <1>3, Limits DEF TextLine

(* Two lines that fit into one.                                            *)
LEMMA JoinedIs ==
  ASSUME IsText(lines), NEW i \in 1..Len(lines) - 1, Joinable(i)
  PROVE  /\ IsText(Joined(i)) /\ Len(Joined(i)) = Len(lines) - 1
         /\ Joined(i)[i] = lines[i] \o lines[i + 1]
         /\ Len(Joined(i)[i]) = Len(lines[i]) + Len(lines[i + 1])
<1> DEFINE l == lines[i] \o lines[i + 1]
           ls == RemoveAt(lines, i)
<1>1. lines \in Seq(TextLine) /\ Len(lines) \in 1..MaxLines /\ MaxLines \in Nat /\ Len(lines) \in Nat
  BY Limits DEF IsText
<1>2. lines[i] \in Seq(Plain) /\ lines[i + 1] \in Seq(Plain)
  BY <1>1 DEF TextLine
<1>3. l \in TextLine /\ Len(l) = Len(lines[i]) + Len(lines[i + 1])
  BY <1>2, ConcatProperties DEF TextLine, Joinable
<1>4. ls \in Seq(TextLine) /\ Len(ls) = Len(lines) - 1
  BY <1>1, RemoveAtIs
<1> HIDE DEF l, ls
<1>5. IsText(ls) /\ i \in 1..Len(ls)
  BY <1>1, <1>4 DEF IsText
<1>6. Joined(i) = [ls EXCEPT ![i] = l]
  BY DEF Joined, l, ls
<1>7. IsText([ls EXCEPT ![i] = l]) /\ Len([ls EXCEPT ![i] = l]) = Len(ls) /\ [ls EXCEPT ![i] = l][i] = l
  BY <1>3, <1>5, SetLine, Zenon
<1>8. l = lines[i] \o lines[i + 1]
  BY DEF l
<1> QED BY <1>3, <1>4, <1>6, <1>7, <1>8, Zenon
-----------------------------------------------------------------------------
(* The inductive invariant: the text and the file are what they are made   *)
(* of, the cursor is in the text and its line on the screen.               *)
IInv ==
  /\ IsText(lines) /\ disk \in {Missing, Lost} \cup Seq(Chars)
  /\ row \in 0..Len(lines) - 1 /\ col \in 0..Len(Line)
  /\ scroll \in 0..row /\ row < scroll + Rows
  /\ open \in BOOLEAN /\ modified \in BOOLEAN /\ forgotten \in BOOLEAN

(* What the invariant says of the line of the cursor and of the others.    *)
LEMMA LineIs ==
  ASSUME IInv
  PROVE  /\ lines \in Seq(TextLine) /\ Len(lines) \in 1..MaxLines /\ MaxLines \in Nat
         /\ row \in Nat /\ row + 1 \in 1..Len(lines) /\ Line = lines[row + 1] /\ Line \in TextLine
         /\ col \in 0..Len(Line) /\ Len(Line) \in Nat
         /\ \A i \in 1..Len(lines) : lines[i] \in TextLine /\ Len(lines[i]) \in Nat
<1>1. lines \in Seq(TextLine) /\ Len(lines) \in 1..MaxLines /\ MaxLines \in Nat /\ row \in 0..Len(lines) - 1
  BY Limits DEF IInv, IsText
<1>2. \A i \in 1..Len(lines) : lines[i] \in TextLine /\ Len(lines[i]) \in Nat
  BY <1>1 DEF TextLine
<1> QED BY <1>1, <1>2 DEF IInv, Line

(* The row of the cursor is on the screen after render.                    *)
LEMMA Rendered ==
  ASSUME NEW r \in Nat, NEW s \in Nat, NEW t,
         t = CASE r < s -> r [] r >= s + Rows -> r - Rows + 1 [] OTHER -> s
  PROVE  t \in 0..r /\ r < t + Rows
<1>0. Rows \in Nat \ {0}
  BY Limits
<1>1. CASE r < s
  <2>1. ~(r >= s + Rows)
    BY <1>0, <1>1
  <2>2. t = r
    BY <1>1, <2>1, Zenon
  <2> QED BY <1>0, <2>2
<1>2. CASE r >= s + Rows
  <2>1. ~(r < s)
    BY <1>0, <1>2
  <2>2. t = r - Rows + 1
    BY <1>2, <2>1, Zenon
  <2> QED BY <1>0, <1>2, <2>2
<1>3. CASE ~(r < s) /\ ~(r >= s + Rows)
  <2>1. t = s
    BY <1>3, Zenon
  <2> QED BY <1>0, <1>3, <2>1
<1> QED BY <1>1, <1>2, <1>3

(* What is left to show of a key: its text is one, its cursor in it.       *)
LEMMA EditedKeeps ==
  ASSUME IInv, NEW ls, IsText(ls), NEW r \in 0..Len(ls) - 1, NEW c \in 0..Len(ls[r + 1]),
         Edited(ls, r, c)
  PROVE  IInv'
<1>1. r \in Nat /\ scroll \in Nat /\ Rows \in Nat \ {0}
  BY LineIs, Limits DEF IInv, IsText
<1>2. scroll' \in 0..r /\ r < scroll' + Rows
  <2>1. scroll' = CASE r < scroll -> r [] r >= scroll + Rows -> r - Rows + 1 [] OTHER -> scroll
    BY Zenon DEF Edited, Render
  <2> QED BY <1>1, <2>1, Rendered
<1> QED BY <1>2 DEF IInv, Edited, Line

LEMMA MovedKeeps ==
  ASSUME IInv, NEW r \in 0..Len(lines) - 1, NEW c \in 0..Len(lines[r + 1]), Moved(r, c)
  PROVE  IInv'
<1>1. r \in Nat /\ scroll \in Nat /\ Rows \in Nat \ {0}
  BY LineIs, Limits DEF IInv, IsText
<1>2. scroll' \in 0..r /\ r < scroll' + Rows
  <2>1. scroll' = CASE r < scroll -> r [] r >= scroll + Rows -> r - Rows + 1 [] OTHER -> scroll
    BY Zenon DEF Moved, Render
  <2> QED BY <1>1, <2>1, Rendered
<1> QED BY <1>2 DEF IInv, Moved, Line

(* The keys that move the cursor.                                          *)
LEMMA MovesKeep ==
  ASSUME IInv, Up \/ Down \/ Left \/ Right \/ Home \/ EndKey
  PROVE  IInv'
<1> USE LineIs
<1>1. CASE Up
  BY <1>1, MovedKeeps DEF Up, MinOf
<1>2. CASE Down
  BY <1>2, MovedKeeps DEF Down, MinOf
<1>3. CASE Left
  <2>1. CASE col > 0 /\ Moved(row, col - 1)
    BY <2>1, MovedKeeps
  <2>2. CASE col = 0 /\ row > 0 /\ Moved(row - 1, Len(lines[row]))
    <3>1. row \in 1..Len(lines) /\ (row - 1) + 1 = row /\ row - 1 \in 0..Len(lines) - 1
      BY <2>2
    <3>2. Len(lines[row]) \in 0..Len(lines[(row - 1) + 1])
      BY <3>1
    <3> QED BY <2>2, <3>1, <3>2, MovedKeeps
  <2> QED BY <1>3, <2>1, <2>2 DEF Left
<1>4. CASE Right
  <2>1. CASE col < Len(Line) /\ Moved(row, col + 1)
    BY <2>1, MovedKeeps
  <2>2. CASE row < Len(lines) - 1 /\ Moved(row + 1, 0)
    <3>1. row + 1 \in 0..Len(lines) - 1 /\ (row + 1) + 1 \in 1..Len(lines)
      BY <2>2
    <3>2. 0 \in 0..Len(lines[(row + 1) + 1])
      BY <3>1
    <3> QED BY <2>2, <3>1, <3>2, MovedKeeps
  <2> QED BY <1>4, <2>1, <2>2 DEF Right
<1>5. CASE Home
  BY <1>5, MovedKeeps DEF Home
<1>6. CASE EndKey
  BY <1>6, MovedKeeps DEF EndKey
<1> QED BY <1>1, <1>2, <1>3, <1>4, <1>5, <1>6

(* The line of the cursor becomes another.                                 *)
LEMMA LineSet ==
  ASSUME IInv, NEW l \in TextLine, NEW c \in 0..Len(l),
         NEW ls, ls = [lines EXCEPT ![row + 1] = l], Edited(ls, row, c)
  PROVE  IInv'
<1> DEFINE k == row + 1
<1>1. IsText(lines) /\ k \in 1..Len(lines)
  BY LineIs DEF IInv
<1>2. ls = [lines EXCEPT ![k] = l]
  OBVIOUS
<1> HIDE DEF k
<1>3. IsText(ls) /\ Len(ls) = Len(lines) /\ ls[k] = l
  <2> DEFINE m == [lines EXCEPT ![k] = l]
  <2>1. IsText(m) /\ Len(m) = Len(lines) /\ m[k] = l
    BY <1>1, SetLine, Zenon
  <2> QED BY <1>2, <2>1, Zenon
<1>4. row \in 0..Len(ls) - 1 /\ c \in 0..Len(ls[row + 1])
  BY <1>3, LineIs DEF k
<1> QED BY <1>3, <1>4, EditedKeeps

(* The keys that edit.                                                     *)
LEMMA InsertCharKeeps ==
  ASSUME IInv, NEW c \in Letters, InsertChar(c)
  PROVE  IInv'
<1> DEFINE l == InsertAt(Line, col + 1, c)
<1>1. l \in TextLine /\ Len(l) = Len(Line) + 1
  BY LineIs, LineGrows DEF InsertChar
<1>2. col + 1 \in 0..Len(l)
  BY <1>1, LineIs
<1>3. Edited([lines EXCEPT ![row + 1] = l], row, col + 1)
  BY DEF InsertChar
<1> HIDE DEF l
<1> QED BY <1>1, <1>2, <1>3, LineSet

LEMMA InsertNewlineKeeps ==
  ASSUME IInv, InsertNewline
  PROVE  IInv'
<1> DEFINE a == SubSeq(Line, 1, col)
           b == SubSeq(Line, col + 1, Len(Line))
           k == row + 1
           j == row + 2
           m == [lines EXCEPT ![k] = a]
           ls == InsertAt(m, j, b)
<1>1. a \in TextLine /\ b \in TextLine /\ Len(b) \in Nat
  BY LineIs, LineCut
<1>2. Edited(ls, k, 0) /\ Len(lines) < MaxLines
  BY DEF InsertNewline
<1>3. IsText(lines) /\ k \in 1..Len(lines) /\ j \in 1..Len(lines) + 1 /\ j = k + 1 /\ Len(lines) \in Nat
  BY LineIs DEF IInv
<1> HIDE DEF a, b, k, j
<1>4. m \in Seq(TextLine) /\ Len(m) = Len(lines)
  BY <1>1, <1>3, SetLine DEF IsText
<1> HIDE DEF m
<1>5. ls \in Seq(TextLine) /\ Len(ls) = Len(m) + 1 /\ ls[j] = b
  <2>1. j \in 1..Len(m) + 1 /\ ~(j < j)
    BY <1>3, <1>4
  <2> QED BY <1>1, <1>4, <2>1, InsertAtIs
<1> HIDE DEF ls
<1>6. k \in Nat /\ MaxLines \in Nat
  BY <1>3, Limits
<1>7. IsText(ls)
  BY <1>2, <1>3, <1>4, <1>5, <1>6 DEF IsText
<1>8. k \in 0..Len(ls) - 1 /\ 0 \in 0..Len(ls[k + 1])
  BY <1>1, <1>3, <1>4, <1>5, <1>6
<1> QED BY <1>2, <1>7, <1>8, EditedKeeps

LEMMA CharGone ==
  ASSUME IInv, NEW i \in 1..Len(Line), NEW c \in 0..Len(Line) - 1,
         Edited([lines EXCEPT ![row + 1] = RemoveAt(Line, i)], row, c)
  PROVE  IInv'
<1> DEFINE l == RemoveAt(Line, i)
<1>1. l \in TextLine /\ Len(l) = Len(Line) - 1
  BY LineIs, LineShrinks
<1>2. c \in 0..Len(l)
  BY <1>1, LineIs
<1> HIDE DEF l
<1>3. Edited([lines EXCEPT ![row + 1] = l], row, c)
  BY DEF l
<1> QED BY <1>1, <1>2, <1>3, LineSet

LEMMA LinesJoined ==
  ASSUME IInv, NEW i \in 1..Len(lines) - 1, NEW r, r = i - 1, NEW c \in 0..Len(lines[i]),
         Joinable(i), Edited(Joined(i), r, c)
  PROVE  IInv'
<1>1. IsText(Joined(i)) /\ Len(Joined(i)) = Len(lines) - 1
      /\ Len(Joined(i)[i]) = Len(lines[i]) + Len(lines[i + 1])
  BY JoinedIs DEF IInv
<1>2. Len(lines[i]) \in Nat /\ Len(lines[i + 1]) \in Nat /\ r + 1 = i
  <2>1. Len(lines) \in Nat /\ i \in 1..Len(lines) /\ i + 1 \in 1..Len(lines)
    BY LineIs
  <2> QED BY <2>1, LineIs
<1>3. r \in 0..Len(Joined(i)) - 1 /\ c \in 0..Len(Joined(i)[r + 1])
  <2>1. Joined(i)[r + 1] = Joined(i)[i]
    BY <1>2
  <2>2. Len(lines) \in Nat
    BY LineIs
  <2>3. r \in 0..Len(Joined(i)) - 1
    BY <1>1, <2>2
  <2> DEFINE p == Len(lines[i])
             q == Len(lines[i + 1])
  <2>4. c \in 0..Len(Joined(i)[i])
    <3>1. p \in Nat /\ q \in Nat /\ c \in 0..p /\ Len(Joined(i)[i]) = p + q
      BY <1>1, <1>2
    <3> HIDE DEF p, q
    <3> QED BY <3>1
  <2> QED BY <2>1, <2>3, <2>4
<1> QED BY <1>1, <1>3, EditedKeeps

LEMMA DeletesKeep ==
  ASSUME IInv, Backspace \/ DeleteForward
  PROVE  IInv'
<1> USE LineIs
<1>1. CASE Backspace /\ col > 0
  <2>1. Edited([lines EXCEPT ![row + 1] = RemoveAt(Line, col)], row, col - 1)
    BY <1>1 DEF Backspace
  <2>2. col \in 1..Len(Line) /\ col - 1 \in 0..Len(Line) - 1
    BY <1>1
  <2> QED BY <2>1, <2>2, CharGone
<1>2. CASE Backspace /\ col = 0
  <2>1. row > 0 /\ Joinable(row) /\ Edited(Joined(row), row - 1, Len(lines[row]))
    BY <1>2 DEF Backspace
  <2>2. row \in 1..Len(lines) - 1 /\ Len(lines[row]) \in 0..Len(lines[row])
    BY <2>1
  <2> QED BY <2>1, <2>2, LinesJoined
<1>3. CASE DeleteForward /\ col < Len(Line)
  <2>1. Edited([lines EXCEPT ![row + 1] = RemoveAt(Line, col + 1)], row, col)
    BY <1>3 DEF DeleteForward
  <2>2. col + 1 \in 1..Len(Line) /\ col \in 0..Len(Line) - 1
    BY <1>3
  <2> QED BY <2>1, <2>2, CharGone
<1>4. CASE DeleteForward /\ ~(col < Len(Line))
  <2>1. col = Len(Line) /\ row < Len(lines) - 1 /\ Joinable(row + 1) /\ Edited(Joined(row + 1), row, col)
    BY <1>4 DEF DeleteForward
  <2>2. row + 1 \in 1..Len(lines) - 1 /\ col \in 0..Len(lines[row + 1]) /\ row = (row + 1) - 1
    BY <2>1
  <2> QED BY <2>1, <2>2, LinesJoined
<1> QED BY <1>1, <1>2, <1>3, <1>4 DEF Backspace

(* The editor is not open yet.                                             *)
LEMMA Begins ==
  ASSUME Init
  PROVE  IInv
<1> USE Limits
<1>1. IsText(lines) /\ Len(lines) = 1 /\ Len(lines[1]) = 0
  BY OneEmptyLine DEF Init
<1>3. disk \in {Missing} \cup Seq(Chars)
  BY EditorAssumption DEF Init
<1>4. row \in 0..Len(lines) - 1 /\ col \in 0..Len(Line) /\ scroll \in 0..row /\ row < scroll + Rows
  <2>1. row = 0 /\ col = 0 /\ scroll = 0
    BY DEF Init
  <2>2. Line = lines[1]
    BY <2>1 DEF Line
  <2> QED BY <1>1, <2>1, <2>2
<1> QED BY <1>1, <1>3, <1>4 DEF IInv, Init

(* A file that is written is one.                                          *)
LEMMA WriteTyped ==
  ASSUME IInv, NEW ok \in BOOLEAN, Write(ok)
  PROVE  disk' \in {Missing, Lost} \cup Seq(Chars)
<1>1. Saved(lines) \in Seq(Chars)
  BY LineIs, SaveTyped
<1> QED BY <1>1 DEF Write

(* Nothing a key, a save, an opening or a leaving does breaks it.          *)
LEMMA StepKeeps ==
  ASSUME IInv, [Next]_vars
  PROVE  IInv'
<1>1. CASE Keys
  <2>1. CASE Up \/ Down \/ Left \/ Right \/ Home \/ EndKey
    BY <2>1, MovesKeep
  <2>2. CASE Typing
    BY <2>2, InsertCharKeeps, InsertNewlineKeeps DEF Typing
  <2>3. CASE Backspace \/ DeleteForward
    BY <2>3, DeletesKeep
  <2> QED BY <1>1, <2>1, <2>2, <2>3 DEF Keys
<1>2. ASSUME NEW ok \in BOOLEAN, F2(ok) PROVE IInv'
  <2>1. disk' \in {Missing, Lost} \cup Seq(Chars)
    BY <1>2, WriteTyped DEF F2
  <2> QED BY <1>2, <2>1 DEF IInv, F2, Line
<1>3. ASSUME NEW ok \in BOOLEAN, CtrlR(ok) PROVE IInv'
  <2>1. disk' \in {Missing, Lost} \cup Seq(Chars)
    BY <1>3, WriteTyped DEF CtrlR
  <2> QED BY <1>3, <2>1 DEF IInv, CtrlR, Line
<1>4. CASE Open
  <2>1. lines' = Load(disk) /\ row' = 0 /\ col' = 0 /\ scroll' = 0 /\ disk' = disk
        /\ open' = TRUE /\ modified' = FALSE /\ forgotten' = FALSE
    BY <1>4 DEF Open
  <2>2. IsText(Load(disk))
    BY <1>4, LoadIsText DEF IInv, Open
  <2> HIDE <1>4
  <2>3. IsText(lines') /\ Len(lines') \in Nat /\ Len(lines') > 0 /\ Len(lines'[1]) \in Nat
    <3>1. IsText(lines')
      BY <2>1, <2>2
    <3> QED BY <3>1, Limits DEF IsText, TextLine
  <2>4. row' \in 0..Len(lines') - 1 /\ col' \in 0..Len(Line') /\ scroll' \in 0..row' /\ row' < scroll' + Rows
    <3>1. Line' = lines'[1]
      BY <2>1 DEF Line
    <3> QED BY <2>1, <2>3, <3>1, Limits
  <2> QED BY <2>1, <2>3, <2>4 DEF IInv
<1>5. CASE Esc
  <2>1. lines' = << <<>> >> /\ row' = 0 /\ col' = 0 /\ scroll' = 0 /\ disk' = disk
        /\ open' = FALSE /\ modified' = FALSE /\ forgotten' = FALSE
    BY <1>5 DEF Esc
  <2>3. IsText(lines') /\ Len(lines') = 1 /\ Len(lines'[1]) = 0
    BY <2>1, OneEmptyLine
  <2>4. row' \in 0..Len(lines') - 1 /\ col' \in 0..Len(Line') /\ scroll' \in 0..row' /\ row' < scroll' + Rows
    <3>1. Line' = lines'[1]
      BY <2>1 DEF Line
    <3> QED BY <2>1, <2>3, <3>1, Limits
  <2> QED BY <2>1, <2>3, <2>4 DEF IInv
<1>6. CASE UNCHANGED vars
  BY <1>6 DEF vars, IInv, Line
<1> QED BY <1>1, <1>2, <1>3, <1>4, <1>5, <1>6 DEF Next

(* The text keeps EDITOR_MAX_LINES and EDITOR_MAX_LINE_LEN and the cursor  *)
(* stays in it, whatever file editor_load read, whatever keys are typed    *)
(* and however fat32_write_file ends; no character of a line is a newline  *)
(* or the zero byte that editor_save would stop at.                        *)
THEOREM InductiveInvariant == Spec => []IInv
<1>1. Init => IInv
  BY Begins
<1>2. IInv /\ [Next]_vars => IInv'
  BY StepKeeps
<1> QED BY <1>1, <1>2, PTL DEF Spec

(* The limits of the lines, the cursor and the part on the screen, as the  *)
(* runs check them: editor_insert_char, editor_backspace,                  *)
(* editor_delete_forward and editor_insert_newline never write past a line *)
(* or past the last line, and render always shows the cursor.              *)
THEOREM TypeCorrect == Spec => []TypeOK
<1>1. IInv => TypeOK
  <2> SUFFICES ASSUME IInv PROVE TypeOK
    OBVIOUS
  <2>1. ASSUME NEW i \in 1..Len(lines)
        PROVE  ToSet(lines[i]) \cap {NL, NUL} = {} /\ Len(lines[i]) < MaxLen
    <3>1. lines[i] \in Seq(Plain) /\ Len(lines[i]) < MaxLen
      BY LineIs DEF TextLine
    <3>2. ToSet(lines[i]) \subseteq Plain
      BY <3>1 DEF ToSet
    <3> QED BY <3>1, <3>2 DEF Plain
  <2>2. scroll <= row /\ row < scroll + Rows /\ row \in 0..Len(lines) - 1 /\ col \in 0..Len(Line)
    BY LineIs DEF IInv
  <2>3. open \in BOOLEAN /\ modified \in BOOLEAN /\ forgotten \in BOOLEAN /\ Len(lines) \in 1..MaxLines
    BY LineIs DEF IInv
  <2> QED BY <2>1, <2>2, <2>3, Zenon DEF TypeOK
<1> QED BY <1>1, InductiveInvariant, PTL
-----------------------------------------------------------------------------
(* A key that changes a line marks the text as modified.                   *)
LEMMA KeysMark ==
  ASSUME Keys
  PROVE  open /\ disk' = disk /\ open' = open /\ forgotten' = forgotten
         /\ (modified' = TRUE \/ (modified' = modified /\ lines' = lines))
<1>1. CASE Up \/ Down \/ Left \/ Right \/ Home \/ EndKey
  BY <1>1 DEF Up, Down, Left, Right, Home, EndKey, Moved
<1>2. CASE Typing \/ Backspace \/ DeleteForward
  BY <1>2 DEF Typing, InsertNewline, InsertChar, Backspace, DeleteForward, Edited
<1> QED BY <1>1, <1>2 DEF Keys

(* While editor_run does not show "modified", the lines are what           *)
(* editor_load makes of the file, or the file is what editor_save makes of *)
(* the lines, cut at its buffer or not.  Excepted are a save that lost the *)
(* file and a save by Ctrl+R that left the missing file missing.           *)
THEOREM UnmodifiedMeansSaved == Spec => []UnmodifiedIsSaved
<1> DEFINE Excused == forgotten /\ disk = Missing
<1>1. Init => UnmodifiedIsSaved
  BY DEF Init, UnmodifiedIsSaved
<1>2. UnmodifiedIsSaved /\ [Next]_vars => UnmodifiedIsSaved'
  <2> SUFFICES ASSUME UnmodifiedIsSaved, [Next]_vars, open', ~modified', disk' # Lost
               PROVE  lines' = Load(disk') \/ disk' = Saved(lines') \/ Excused'
    BY DEF UnmodifiedIsSaved
  <2>1. CASE Keys
    BY <2>1, KeysMark DEF UnmodifiedIsSaved
  <2>2. ASSUME NEW ok \in BOOLEAN, F2(ok)
        PROVE  lines' = Load(disk') \/ disk' = Saved(lines') \/ Excused'
    <3>1. CASE ok
      BY <2>2, <3>1 DEF F2, Write
    <3>2. CASE ~ok
      <4>1. disk = Missing /\ disk' = disk
        BY <2>2, <3>2 DEF F2, Write
      <4>2. open /\ ~modified /\ lines' = lines /\ (forgotten => forgotten')
        BY <2>2, <3>2 DEF F2
      <4> QED BY <4>1, <4>2 DEF UnmodifiedIsSaved
    <3> QED BY <3>1, <3>2
  <2>3. ASSUME NEW ok \in BOOLEAN, CtrlR(ok)
        PROVE  disk' = Saved(lines') \/ Excused'
    BY <2>3 DEF CtrlR, Write
  <2>4. CASE Open
    BY <2>4 DEF Open
  <2>5. CASE Esc
    BY <2>5 DEF Esc
  <2>6. CASE UNCHANGED vars
    BY <2>6 DEF vars, UnmodifiedIsSaved
  <2> QED BY <2>1, <2>2, <2>3, <2>4, <2>5, <2>6 DEF Next
<1> QED BY <1>1, <1>2, PTL DEF Spec
-----------------------------------------------------------------------------
(* The first k elements, one more at a time.                               *)
LEMMA PrefixStep ==
  ASSUME NEW S, NEW s \in Seq(S), NEW k \in 0..Len(s), k < Len(s)
  PROVE  /\ SubSeq(s, 1, k) \in Seq(S) /\ Len(SubSeq(s, 1, k)) = k
         /\ s[k + 1] \in S
         /\ SubSeq(s, 1, k + 1) = Append(SubSeq(s, 1, k), s[k + 1])
<1>0. Len(s) \in Nat /\ k + 1 \in 1..Len(s) /\ (k + 1) - 1 = k
  OBVIOUS
<1>1. SubSeq(s, 1, k) \in Seq(S) /\ Len(SubSeq(s, 1, k)) = k
  BY SubSeqProperties
<1>2. SubSeq(s, 1, k + 1) = SubSeq(s, 1, k) \o <<s[k + 1]>>
  <2> DEFINE m == k + 1
  <2>1. 1 \in 1..Len(s) /\ m \in 1..Len(s) /\ m - 1 = k
    BY <1>0
  <2> HIDE DEF m
  <2>2. SubSeq(s, 1, m) = SubSeq(s, 1, m - 1) \o <<s[m]>>
    BY <2>1, SubSeqRecursiveSecond
  <2>3. SubSeq(s, 1, m) = SubSeq(s, 1, k) \o <<s[m]>>
    BY <2>1, <2>2, Zenon
  <2> QED BY <2>3 DEF m
<1>3. s[k + 1] \in S
  BY <1>0
<1> QED BY <1>1, <1>2, <1>3, AppendIsConcat, Zenon

LEMMA NoPrefix ==
  ASSUME NEW s
  PROVE  SubSeq(s, 1, 0) = << >>
BY SubSeqEmpty

(* Sequences of letters one behind the other are one.                      *)
LEMMA FlattenTyped ==
  ASSUME NEW S, NEW s \in Seq(Seq(S))
  PROVE  FlattenSeq(s) \in Seq(S)
<1> DEFINE n == Len(s)
           G == {k \in 0..n : FlattenSeq(SubSeq(s, 1, k)) \in Seq(S)}
<1>0. n \in Nat
  OBVIOUS
<1>1. 0 \in G
  <2>1. FlattenSeq(SubSeq(s, 1, 0)) = << >>
    BY NoPrefix, FlattenEmpty, Zenon
  <2>2. << >> \in Seq(S) /\ 0 \in 0..n
    BY <1>0, EmptySeq
  <2> QED BY <2>1, <2>2
<1>2. ASSUME NEW k \in 0..n, k < n, k \in G PROVE k + 1 \in G
  <2>1. /\ SubSeq(s, 1, k) \in Seq(Seq(S)) /\ s[k + 1] \in Seq(S)
        /\ SubSeq(s, 1, k + 1) = Append(SubSeq(s, 1, k), s[k + 1])
    BY <1>2, PrefixStep
  <2>2. FlattenSeq(SubSeq(s, 1, k + 1)) = FlattenSeq(SubSeq(s, 1, k)) \o s[k + 1]
    BY <2>1, FlattenAppend
  <2>3. FlattenSeq(SubSeq(s, 1, k)) \o s[k + 1] \in Seq(S)
    BY <1>2, <2>1, ConcatProperties
  <2>4. k + 1 \in 0..n
    BY <1>2
  <2> QED BY <2>2, <2>3, <2>4
<1> HIDE DEF G
<1>3. n \in G
  <2>1. n \in 0..n
    BY <1>0
  <2>2. \A k \in 0..n : k < n /\ k \in G => k + 1 \in G
    BY <1>2, Zenon
  <2> HIDE DEF n
  <2> QED BY <1>0, <1>1, <2>1, <2>2, UpTo, Zenon
<1>4. SubSeq(s, 1, n) = s
  BY SubSeqFull
<1> QED BY <1>3, <1>4 DEF G

(* A line is loaded character by character behind those before it.         *)
LEMMA LoadCharOn ==
  ASSUME NEW p \in Seq(TextLine), Len(p) < MaxLines, NEW q \in Seq(Plain), Len(q) < MaxLen - 1,
         NEW c \in Plain
  PROVE  LoadChar(Append(p, q), c) = Append(p, Append(q, c))
<1> USE Limits
<1> DEFINE a == Append(p, q)
           n == Len(p) + 1
           l == Append(q, c)
<1>1. q \in TextLine /\ l \in TextLine /\ Len(q) \in Nat /\ Len(p) \in Nat /\ c # NL
  <2>1. l \in Seq(Plain) /\ Len(l) = Len(q) + 1
    BY AppendProperties
  <2>2. Len(q) \in Nat /\ Len(p) \in Nat
    OBVIOUS
  <2> QED BY <2>1, <2>2 DEF TextLine, Plain
<1>2. a \in Seq(TextLine) /\ Len(a) = n /\ a[n] = q /\ \A i \in 1..Len(p) : a[i] = p[i]
  BY <1>1, AppendProperties
<1> HIDE DEF a
<1>3. Last(a) = q /\ ~LineFull(q)
  BY <1>1, <1>2 DEF Last, LineFull
<1>4. LoadChar(a, c) = [a EXCEPT ![n] = l]
  BY <1>1, <1>2, <1>3 DEF LoadChar
<1> HIDE DEF l
<1>5. [a EXCEPT ![n] = l] = Append(p, l)
  <2>1. n \in 1..Len(a)
    BY <1>1, <1>2
  <2>2. /\ [a EXCEPT ![n] = l] \in Seq(TextLine) /\ Len([a EXCEPT ![n] = l]) = Len(a)
        /\ \A j \in 1..Len(a) : [a EXCEPT ![n] = l][j] = IF j = n THEN l ELSE a[j]
    BY <1>1, <1>2, <2>1, ExceptSeq
  <2>3. /\ Append(p, l) \in Seq(TextLine) /\ Len(Append(p, l)) = n
        /\ \A i \in 1..Len(p) : Append(p, l)[i] = p[i]
        /\ Append(p, l)[n] = l
    BY <1>1, AppendProperties
  <2> DEFINE b == [a EXCEPT ![n] = l]
             d == Append(p, l)
  <2> HIDE DEF b, d
  <2>4. \A j \in 1..n : b[j] = d[j]
    BY <1>1, <1>2, <2>2, <2>3 DEF b, d
  <2>5. b \in Seq(TextLine) /\ d \in Seq(TextLine) /\ Len(b) = n /\ Len(d) = n
    BY <1>2, <2>2, <2>3 DEF b, d
  <2>6. b = d
    BY <2>4, <2>5, SeqEqual
  <2> QED BY <2>6 DEF b, d
<1> QED BY <1>4, <1>5 DEF a, l

(* A line is loaded behind those before it.                                *)
LEMMA LoadLine ==
  ASSUME NEW p \in Seq(TextLine), Len(p) < MaxLines, NEW l \in TextLine,
         NEW o \in Seq(Chars), LoadOf(o) = Append(p, <<>>)
  PROVE  LoadOf(o \o l) = Append(p, l)
<1> USE Limits
<1> DEFINE n == Len(l)
           G == {k \in 0..n : LoadOf(o \o SubSeq(l, 1, k)) = Append(p, SubSeq(l, 1, k))}
<1>0. l \in Seq(Plain) /\ n \in Nat /\ n < MaxLen
  BY DEF TextLine
<1>1. 0 \in G
  <2>1. o \o << >> = o
    BY ConcatEmptySeq
  <2>2. SubSeq(l, 1, 0) = << >> /\ 0 \in 0..n
    BY <1>0, NoPrefix
  <2>3. LoadOf(o \o SubSeq(l, 1, 0)) = Append(p, SubSeq(l, 1, 0))
    BY <2>1, <2>2, Zenon
  <2> QED BY <2>2, <2>3
<1>2. ASSUME NEW k \in 0..n, k < n, k \in G PROVE k + 1 \in G
  <2> DEFINE q == SubSeq(l, 1, k)
             c == l[k + 1]
             oq == o \o q
  <2>1. q \in Seq(Plain) /\ Len(q) = k /\ c \in Plain /\ SubSeq(l, 1, k + 1) = Append(q, c)
    BY <1>0, <1>2, PrefixStep
  <2>2. k + 1 \in 0..n /\ k < MaxLen - 1 /\ LoadOf(oq) = Append(p, q)
    BY <1>0, <1>2
  <2> HIDE DEF q, c
  <2>3. q \in Seq(Chars) /\ c \in Chars
    BY <2>1, SeqMonotonic DEF Plain
  <2>4. o \o Append(q, c) = Append(oq, c) /\ oq \in Seq(Chars)
    <3>1. Append(q, c) = q \o <<c>> /\ <<c>> \in Seq(Chars)
      BY <2>3, AppendIsConcat
    <3>2. o \o (q \o <<c>>) = oq \o <<c>>
      BY <2>3, <3>1, ConcatAssociative
    <3>3. oq \in Seq(Chars)
      BY <2>3, ConcatProperties
    <3>4. Append(oq, c) = oq \o <<c>>
      BY <2>3, <3>3, AppendIsConcat
    <3> QED BY <3>1, <3>2, <3>3, <3>4
  <2> HIDE DEF oq
  <2>5. LoadOf(Append(oq, c)) = LoadChar(Append(p, q), c)
    BY <2>2, <2>3, <2>4, LoadAppend
  <2>6. LoadChar(Append(p, q), c) = Append(p, Append(q, c))
    BY <2>1, <2>2, LoadCharOn
  <2>7. LoadOf(o \o SubSeq(l, 1, k + 1)) = Append(p, SubSeq(l, 1, k + 1))
    BY <2>1, <2>4, <2>5, <2>6
  <2> QED BY <2>2, <2>7
<1> HIDE DEF G
<1>3. n \in G
  <2>1. n \in 0..n
    BY <1>0
  <2>2. \A k \in 0..n : k < n /\ k \in G => k + 1 \in G
    BY <1>2, Zenon
  <2> HIDE DEF n
  <2> QED BY <1>0, <1>1, <2>1, <2>2, UpTo, Zenon
<1>4. SubSeq(l, 1, n) = l
  BY <1>0, SubSeqFull
<1> QED BY <1>3, <1>4 DEF G

(* What the lines of p come to when each has a newline, and what editor_   *)
(* load makes of them when all are written.                                *)
Size(p) == Len(FlattenSeq(p)) + Len(p)
WrittenWhole(p) ==
  LET a == SaveOf(p)
  IN  a \in Acc /\ ~a.full /\ Len(a.out) = Size(p) /\ LoadOf(a.out) = ReadBack(p)

LEMMA SizeStep ==
  ASSUME NEW ls \in Seq(TextLine), NEW k \in 0..Len(ls), k < Len(ls)
  PROVE  /\ Size(SubSeq(ls, 1, k)) \in Nat
         /\ Size(SubSeq(ls, 1, k + 1)) = Size(SubSeq(ls, 1, k)) + Len(ls[k + 1]) + 1
<1> DEFINE p == SubSeq(ls, 1, k)
           l == ls[k + 1]
           pl == SubSeq(ls, 1, k + 1)
<1>1. p \in Seq(TextLine) /\ Len(p) = k /\ l \in TextLine /\ pl = Append(p, l)
  BY PrefixStep
<1> HIDE DEF p, l, pl
<1>2. p \in Seq(Seq(Plain)) /\ l \in Seq(Plain) /\ Len(l) \in Nat
  <2>1. TextLine \subseteq Seq(Plain)
    BY DEF TextLine
  <2> QED BY <1>1, <2>1, SeqMonotonic
<1>3. FlattenSeq(pl) = FlattenSeq(p) \o l /\ FlattenSeq(p) \in Seq(Plain)
  BY <1>1, <1>2, FlattenAppend, FlattenTyped
<1>4. Len(FlattenSeq(pl)) = Len(FlattenSeq(p)) + Len(l) /\ Len(FlattenSeq(p)) \in Nat
  BY <1>2, <1>3, ConcatProperties
<1>5. Len(pl) = k + 1
  BY <1>1, AppendProperties
<1>6. Size(pl) = Size(p) + Len(l) + 1 /\ Size(p) \in Nat
  BY <1>1, <1>2, <1>4, <1>5 DEF Size
<1> QED BY <1>6 DEF p, l, pl

LEMMA WrittenNone ==
  ASSUME NEW ls
  PROVE  WrittenWhole(SubSeq(ls, 1, 0)) /\ Size(SubSeq(ls, 1, 0)) = 0
<1>1. SubSeq(ls, 1, 0) = << >>
  BY NoPrefix
<1>2. SaveOf(<< >>) = NoLine /\ FlattenSeq(<< >>) = << >> /\ LoadOf(<< >>) = << <<>> >>
  BY SaveEmpty, FlattenEmpty, LoadEmpty
<1>3. NoLine \in Acc /\ NoLine.out = << >> /\ ~NoLine.full /\ Len(<< >>) = 0
  BY EmptySeq DEF NoLine, Acc
<1>4. ReadBack(<< >>) = << <<>> >>
  <2>1. Append(<< >>, << >>) = << <<>> >>
    OBVIOUS
  <2> QED BY <1>3, <2>1, Limits DEF ReadBack
<1>5. Size(<< >>) = 0
  BY <1>2, <1>3 DEF Size
<1>6. WrittenWhole(<< >>)
  BY <1>2, <1>3, <1>4, <1>5, Zenon DEF WrittenWhole
<1> QED BY <1>1, <1>5, <1>6, Zenon

(* One line more that the buffer has room for.                             *)
LEMMA WrittenMore ==
  ASSUME NEW ls \in Seq(TextLine), Len(ls) <= MaxLines, NEW k \in 0..Len(ls), k < Len(ls),
         WrittenWhole(SubSeq(ls, 1, k)), Size(SubSeq(ls, 1, k + 1)) < IoBuf
  PROVE  WrittenWhole(SubSeq(ls, 1, k + 1))
<1> USE Limits
<1> DEFINE p == SubSeq(ls, 1, k)
           l == ls[k + 1]
           pl == SubSeq(ls, 1, k + 1)
           a == SaveOf(p)
           b == SaveOf(pl)
<1>0. k \in Nat /\ k < MaxLines
  OBVIOUS
<1>1. p \in Seq(TextLine) /\ Len(p) = k /\ l \in TextLine /\ pl = Append(p, l)
  BY PrefixStep
<1>2. a \in Acc /\ ~a.full /\ Len(a.out) = Size(p) /\ LoadOf(a.out) = ReadBack(p)
  BY DEF WrittenWhole
<1>3. Size(p) \in Nat /\ Size(pl) = Size(p) + Len(l) + 1
  BY SizeStep
<1> HIDE DEF p, l, pl
<1>4. LoadOf(a.out) = Append(p, <<>>)
  BY <1>0, <1>1, <1>2 DEF ReadBack
<1>5. b = SaveLine(a, l)
  BY <1>1, SaveAppend
<1> HIDE DEF a, b
<1>6. a.out \in Seq(Chars) /\ Len(a.out) \in Nat /\ l \in Seq(Chars) /\ Len(l) \in Nat
  BY <1>1, <1>2 DEF Acc, TextLine, Plain
<1>7. Len(a.out) + Len(l) + 1 < IoBuf
  BY <1>2, <1>3 DEF pl
<1>8. b \in Acc /\ ~b.full /\ b.out = a.out \o l \o <<NL>>
  BY <1>1, <1>2, <1>5, <1>7, SaveStep, Zenon
<1> DEFINE o == a.out \o l
<1>9. o \in Seq(Chars) /\ Append(o, NL) = o \o <<NL>> /\ Len(Append(o, NL)) = Len(a.out) + Len(l) + 1
  <2>1. o \in Seq(Chars) /\ Len(o) = Len(a.out) + Len(l)
    BY <1>6, ConcatProperties
  <2> HIDE DEF o
  <2> QED BY <2>1, AppendIsConcat, AppendProperties
<1>10. LoadOf(o) = Append(p, l)
  <2> DEFINE x == a.out
  <2>1. x \in Seq(Chars) /\ LoadOf(x) = Append(p, <<>>) /\ Len(p) < MaxLines
    BY <1>0, <1>1, <1>4, <1>6
  <2> HIDE DEF x
  <2>2. LoadOf(x \o l) = Append(p, l)
    BY <1>1, <2>1, LoadLine
  <2> QED BY <2>2 DEF x
<1> HIDE DEF o
<1>11. b.out = Append(o, NL) /\ Len(b.out) = Size(pl)
  BY <1>2, <1>3, <1>8, <1>9 DEF o
<1>12. LoadOf(b.out) = LoadChar(pl, NL)
  BY <1>1, <1>9, <1>10, <1>11, LoadAppend
<1>13. Len(pl) = k + 1 /\ pl[k + 1] = l /\ Last(pl) = l /\ Len(l) < MaxLen
  BY <1>1, AppendProperties DEF Last, TextLine
<1>14. LoadChar(pl, NL) = ReadBack(pl)
  <2>1. CASE k + 1 < MaxLines
    BY <1>0, <1>13, <2>1 DEF LoadChar, ReadBack
  <2>2. CASE k + 1 = MaxLines /\ Len(l) = MaxLen - 1
    BY <1>0, <1>6, <1>13, <2>2 DEF LoadChar, ReadBack, LineFull
  <2>3. CASE k + 1 = MaxLines /\ Len(l) # MaxLen - 1
    <3>1. ~LineFull(Last(pl)) /\ Len(pl) = MaxLines
      BY <1>6, <1>13, <2>3 DEF LineFull
    <3>2. LoadChar(pl, NL) = [pl EXCEPT ![MaxLines] = <<>>]
      BY <3>1 DEF LoadChar
    <3>3. ReadBack(pl) = [pl EXCEPT ![MaxLines] = <<>>]
      BY <1>13, <2>3, <3>1 DEF ReadBack
    <3> QED BY <3>2, <3>3
  <2> QED BY <1>0, <2>1, <2>2, <2>3
<1> QED BY <1>8, <1>11, <1>12, <1>14 DEF WrittenWhole, b, pl

LEMMA WrittenAsFits ==
  ASSUME NEW ls \in Seq(TextLine), Len(ls) <= MaxLines, NEW n \in 0..Len(ls),
         Size(SubSeq(ls, 1, n)) < IoBuf
  PROVE  WrittenWhole(SubSeq(ls, 1, n))
<1> DEFINE Room(k) == Size(SubSeq(ls, 1, k)) < IoBuf
           G == {k \in 0..Len(ls) : Room(k) => WrittenWhole(SubSeq(ls, 1, k))}
<1>0. Len(ls) \in Nat
  OBVIOUS
<1>1. 0 \in G
  BY <1>0, WrittenNone
<1>2. ASSUME NEW k \in 0..Len(ls), k < Len(ls), k \in G PROVE k + 1 \in G
  <2>1. k + 1 \in 0..Len(ls)
    BY <1>0, <1>2
  <2>2. ASSUME Room(k + 1) PROVE WrittenWhole(SubSeq(ls, 1, k + 1))
    <3>1. /\ Size(SubSeq(ls, 1, k)) \in Nat /\ Len(ls[k + 1]) \in Nat
          /\ Size(SubSeq(ls, 1, k + 1)) = Size(SubSeq(ls, 1, k)) + Len(ls[k + 1]) + 1
      <4>1. ls[k + 1] \in TextLine
        BY <1>2
      <4>2. Len(ls[k + 1]) \in Nat
        BY <4>1 DEF TextLine
      <4> QED BY <1>2, <4>2, SizeStep
    <3>2. Room(k)
      <4> DEFINE x == Size(SubSeq(ls, 1, k))
                 y == Size(SubSeq(ls, 1, k + 1))
                 z == Len(ls[k + 1])
      <4>1. x \in Nat /\ z \in Nat /\ y = x + z + 1 /\ y < IoBuf /\ IoBuf \in Nat
        BY <2>2, <3>1, Limits
      <4> HIDE DEF x, y, z
      <4>2. x < IoBuf
        BY <4>1
      <4> QED BY <4>2 DEF x
    <3>3. WrittenWhole(SubSeq(ls, 1, k))
      BY <1>2, <3>2
    <3> QED BY <1>2, <2>2, <3>3, WrittenMore
  <2> QED BY <2>1, <2>2
<1>3. n \in G
  <2>1. \A k \in 0..Len(ls) : k < Len(ls) /\ k \in G => k + 1 \in G
    BY <1>2, Zenon
  <2> HIDE DEF G
  <2> QED BY <1>0, <1>1, <2>1, UpTo
<1> QED BY <1>3

(* Behind the first line that the buffer has no room for nothing is        *)
(* written.                                                                *)
LEMMA CutBehind ==
  ASSUME NEW ls \in Seq(TextLine), Len(ls) <= MaxLines, NEW k \in 0..Len(ls), k < Len(ls),
         Size(SubSeq(ls, 1, k)) < IoBuf, ~(Size(SubSeq(ls, 1, k + 1)) < IoBuf)
  PROVE  SaveOf(ls).out = SaveOf(SubSeq(ls, 1, k)).out
<1> DEFINE n == Len(ls)
           At(j) == SaveOf(SubSeq(ls, 1, j))
           G == {j \in 0..n : j > k => At(j) \in Acc /\ At(j).full /\ At(j).out = At(k).out}
<1>0. n \in Nat /\ k \in 0..n /\ k < n
  OBVIOUS
<1>1. 0 \in G
  BY <1>0
<1>2. ASSUME NEW j \in 0..n, j < n, j \in G PROVE j + 1 \in G
  <2>1. j + 1 \in 0..n
    BY <1>0, <1>2
  <2>2. /\ SubSeq(ls, 1, j) \in Seq(TextLine) /\ ls[j + 1] \in TextLine
        /\ SubSeq(ls, 1, j + 1) = Append(SubSeq(ls, 1, j), ls[j + 1])
    BY <1>2, PrefixStep
  <2>3. At(j + 1) = SaveLine(At(j), ls[j + 1])
    BY <2>2, SaveAppend
  <2>4. CASE j > k
    <3>1. At(j) \in Acc /\ At(j).full /\ At(j).out = At(k).out
      BY <1>2, <2>4
    <3> DEFINE l == ls[j + 1]
               a == At(j)
               b == At(j + 1)
    <3>4. l \in TextLine /\ a \in Acc /\ a.full /\ b = SaveLine(a, l)
      BY <2>2, <2>3, <3>1
    <3> HIDE DEF At, l, a, b
    <3>5. b \in Acc /\ b.full /\ b.out = a.out
      BY <3>4, SaveStep, Zenon
    <3>2. At(j + 1) \in Acc /\ At(j + 1).full /\ At(j + 1).out = At(j).out
      BY <3>5 DEF a, b
    <3>3. At(j + 1).out = At(k).out
      BY <3>1, <3>2
    <3> QED BY <2>1, <3>2, <3>3
  <2>5. CASE j = k
    <3>1. At(k) \in Acc /\ Len(At(k).out) = Size(SubSeq(ls, 1, k))
      <4>1. WrittenWhole(SubSeq(ls, 1, k))
        BY <1>0, WrittenAsFits
      <4> QED BY <4>1, Zenon DEF WrittenWhole
    <3>2. /\ Size(SubSeq(ls, 1, k)) \in Nat
          /\ Size(SubSeq(ls, 1, k + 1)) = Size(SubSeq(ls, 1, k)) + Len(ls[k + 1]) + 1
      BY SizeStep
    <3> DEFINE l == ls[k + 1]
               a == At(k)
               b == At(k + 1)
    <3>3. l \in TextLine /\ a \in Acc /\ b = SaveLine(a, l)
      BY <2>2, <2>3, <2>5, <3>1
    <3>4. ~(Len(a.out) + Len(l) + 1 < IoBuf)
      BY <3>1, <3>2
    <3> HIDE DEF At, l, a, b
    <3>5. b \in Acc /\ b.full /\ b.out = a.out
      BY <3>3, <3>4, SaveStep, Zenon
    <3>6. At(k + 1) \in Acc /\ At(k + 1).full /\ At(k + 1).out = At(k).out
      BY <3>5 DEF a, b
    <3> QED BY <2>1, <2>5, <3>6
  <2>6. CASE j < k
    BY <1>0, <1>2, <2>1, <2>6
  <2>7. j \in Nat /\ k \in Nat
    BY <1>0, <1>2
  <2> HIDE DEF G, At, n
  <2> QED BY <2>4, <2>5, <2>6, <2>7
<1>3. n \in G
  <2>1. \A j \in 0..n : j < n /\ j \in G => j + 1 \in G
    BY <1>2, Zenon
  <2>2. n \in 0..n
    BY <1>0
  <2> HIDE DEF G, n
  <2> QED BY <1>0, <1>1, <2>1, <2>2, UpTo
<1>4. At(n).out = At(k).out
  <2> HIDE DEF At
  <2> QED BY <1>0, <1>3
<1>5. SubSeq(ls, 1, n) = ls
  BY SubSeqFull
<1> QED BY <1>4, <1>5

(* What editor_save wrote editor_load reads back, for every text: the      *)
(* lines that EDITOR_IO_BUF_SIZE held and one empty line more, or at       *)
(* EDITOR_MAX_LINES the lines without the last, unless that one is full.   *)
THEOREM SavedTextReadsBack == Spec => []SavedIsReadBack
<1>1. IInv => SavedIsReadBack
  <2> SUFFICES ASSUME IInv, NEW k \in 0..Len(lines), Fits(k), k < Len(lines) => ~Fits(k + 1)
               PROVE  Load(Saved(lines)) = ReadBack(SubSeq(lines, 1, k))
    BY DEF SavedIsReadBack
  <2> DEFINE n == Len(lines)
             p == SubSeq(lines, 1, k)
             file == Saved(lines)
             more == ReadBack(p)
  <2>1. lines \in Seq(TextLine) /\ n \in 1..MaxLines /\ n \in Nat /\ SubSeq(lines, 1, n) = lines
    BY LineIs, SubSeqFull DEF IInv
  <2>2. \A j \in 0..n : Len(SubSeq(lines, 1, j)) = j /\ SubSeq(lines, 1, j) \in Seq(TextLine)
    <3>1. ASSUME NEW j \in 0..n
          PROVE  Len(SubSeq(lines, 1, j)) = j /\ SubSeq(lines, 1, j) \in Seq(TextLine)
      <4>1. CASE j < n
        <5>1. lines \in Seq(TextLine) /\ j \in 0..Len(lines) /\ j < Len(lines)
          BY <2>1, <4>1
        <5> QED BY <5>1, PrefixStep
      <4>2. CASE j = n
        BY <2>1, <4>2
      <4>3. j < n \/ j = n
        <5>1. n \in Nat /\ j \in 0..n
          BY <2>1
        <5> HIDE DEF n
        <5> QED BY <5>1
      <4> QED BY <4>1, <4>2, <4>3, Zenon
    <3> QED BY <3>1
  <2>3. /\ Size(p) < IoBuf /\ Len(p) = k /\ p \in Seq(TextLine)
        /\ k < n => ~(Size(SubSeq(lines, 1, k + 1)) < IoBuf)
    <3>1. Len(p) = k /\ p \in Seq(TextLine) /\ Size(p) < IoBuf
      BY <2>2 DEF Fits, Size
    <3>2. ASSUME k < n
          PROVE  ~(Size(SubSeq(lines, 1, k + 1)) < IoBuf)
      <4>1. k + 1 \in 0..n
        BY <2>1, <3>2
      <4>2. Len(SubSeq(lines, 1, k + 1)) = k + 1
        BY <2>2, <4>1
      <4> QED BY <3>2, <4>2 DEF Fits, Size
    <3> QED BY <3>1, <3>2
  <2> HIDE DEF n
  <2>4. WrittenWhole(p)
    BY <2>1, <2>3, WrittenAsFits DEF n
  <2>5. file = SaveOf(p).out /\ file \in Seq(Chars)
    <3>1. file = SaveOf(lines).out /\ file \in Seq(Chars)
      BY <2>1, SaveTyped
    <3>2. CASE k < n
      BY <2>1, <2>3, <3>1, <3>2, CutBehind DEF n
    <3>3. CASE k = n
      <4>1. p = lines
        BY <2>1, <3>3
      <4> HIDE DEF p
      <4> QED BY <3>1, <4>1
    <3>4. k = n \/ k < n
      BY DEF n
    <3> QED BY <3>1, <3>2, <3>3, <3>4
  <2>6. Len(file) < IoBuf /\ LoadOf(file) = more
    BY <2>3, <2>4, <2>5 DEF WrittenWhole
  <2>7. more \in Seq(TextLine) /\ Len(more) \in Nat
    <3>1. \A x \in Seq(TextLine) : x \in Seq(TextLine) => Append(x, <<>>) \in Seq(TextLine)
      BY EmptyLine, AppendProperties
    <3>2. ASSUME Len(p) = MaxLines PROVE [p EXCEPT ![MaxLines] = <<>>] \in Seq(TextLine)
      <4>1. MaxLines \in 1..Len(p)
        BY <3>2, Limits
      <4> HIDE DEF p
      <4>2. p \in Seq(TextLine) /\ <<>> \in TextLine
        BY <2>3, EmptyLine
      <4> QED BY <4>1, <4>2, ExceptSeq
    <3>3. k <= MaxLines
      <4>1. k \in 0..n /\ n \in 1..MaxLines /\ MaxLines \in Nat
        BY <2>1, Limits DEF n
      <4> QED BY <4>1
    <3> HIDE DEF p
    <3>4. more \in Seq(TextLine)
      BY <2>3, <3>1, <3>2, <3>3, Limits DEF ReadBack
    <3> QED BY <3>4
  <2> HIDE DEF file, more
  <2>8. Load(file) = [i \in 1..Len(more) |-> CString(more[i])]
    <3> DEFINE m == IF Len(file) < IoBuf - 1 THEN Len(file) ELSE IoBuf - 1
    <3>1. file # Missing
      BY <2>5, EditorAssumption
    <3>2. m = Len(file)
      BY <2>5, <2>6, Limits
    <3>3. SubSeq(file, 1, m) = file
      BY <2>5, <3>2, SubSeqFull
    <3> QED BY <2>6, <3>1, <3>3, Zenon DEF Load, LoadOf
  <2>9. ASSUME NEW i \in 1..Len(more) PROVE CString(more[i]) = more[i]
    <3>1. more[i] \in Seq(Plain)
      BY <2>7 DEF TextLine
    <3>2. NUL \notin ToSet(more[i])
      BY <3>1 DEF ToSet, Plain
    <3> QED BY <3>2 DEF CString
  <2>10. more = [i \in 1..Len(more) |-> more[i]]
    BY <2>7
  <2> QED BY <2>8, <2>9, <2>10, Zenon DEF file, more
<1> QED BY <1>1, InductiveInvariant, PTL
-----------------------------------------------------------------------------
(* The lines as the text of TextBuffer: with a newline before each, all of *)
(* them one behind the other.                                              *)
Lines == Seq(Seq(Chars))
Marked(ls) == FlattenSeq([i \in 1..Len(ls) |-> <<NL>> \o ls[i]])
Marks(ls) == [i \in 1..Len(ls) |-> <<NL>> \o ls[i]]

LEMMA NLIs == <<NL>> \in Seq(Chars) /\ Len(<<NL>>) = 1 /\ NL \in Chars
BY Limits

(* The lines, each with its newline, and the text they make.               *)
LEMMA MarksTyped ==
  ASSUME NEW ls \in Lines
  PROVE  /\ Marks(ls) \in Lines /\ Len(Marks(ls)) = Len(ls)
         /\ \A i \in 1..Len(ls) : Marks(ls)[i] = <<NL>> \o ls[i]
<1>1. Len(ls) \in Nat /\ \A i \in 1..Len(ls) : ls[i] \in Seq(Chars)
  BY DEF Lines
<1>2. \A i \in 1..Len(ls) : <<NL>> \o ls[i] \in Seq(Chars)
  BY <1>1, NLIs, ConcatProperties
<1> QED BY <1>1, <1>2 DEF Marks, Lines

LEMMA MarkedEmpty == Marked(<<>>) = <<>>
<1>1. Marks(<< >>) = << >>
  BY DEF Marks
<1> QED BY <1>1, FlattenEmpty DEF Marked, Marks

LEMMA MarkedTyped ==
  ASSUME NEW ls \in Lines
  PROVE  Marked(ls) \in Seq(Chars)
<1>1. Marks(ls) \in Seq(Seq(Chars))
  BY MarksTyped DEF Lines
<1>2. FlattenSeq(Marks(ls)) \in Seq(Chars)
  BY <1>1, FlattenTyped
<1> QED BY <1>2 DEF Marked, Marks

(* A line more, its newline before it.                                     *)
LEMMA MarkedAppend ==
  ASSUME NEW ls \in Lines, NEW l \in Seq(Chars)
  PROVE  Marked(Append(ls, l)) = (Marked(ls) \o <<NL>>) \o l
<1> DEFINE n == Len(ls)
           m == <<NL>> \o l
           al == Append(ls, l)
           a == Marks(al)
           b == Append(Marks(ls), m)
<1>1. n \in Nat /\ al \in Lines /\ Len(al) = n + 1 /\ al[n + 1] = l /\ \A i \in 1..n : al[i] = ls[i]
  BY AppendProperties DEF Lines
<1>2. m \in Seq(Chars)
  BY NLIs, ConcatProperties
<1> HIDE DEF al
<1>3. a \in Lines /\ Len(a) = n + 1 /\ \A i \in 1..n + 1 : a[i] = <<NL>> \o al[i]
  BY <1>1, MarksTyped
<1>4. Marks(ls) \in Lines /\ Len(Marks(ls)) = n /\ \A i \in 1..n : Marks(ls)[i] = <<NL>> \o ls[i]
  BY MarksTyped
<1>5. /\ b \in Lines /\ Len(b) = n + 1 /\ b[n + 1] = m
      /\ \A i \in 1..n : b[i] = Marks(ls)[i]
  <2> DEFINE w == Marks(ls)
  <2> HIDE DEF m, w
  <2>1. w \in Seq(Seq(Chars)) /\ Len(w) = n
    BY <1>4 DEF w, Lines
  <2>2. /\ Append(w, m) \in Seq(Seq(Chars)) /\ Len(Append(w, m)) = n + 1 /\ Append(w, m)[n + 1] = m
        /\ \A i \in 1..n : Append(w, m)[i] = w[i]
    BY <1>2, <2>1, AppendProperties
  <2> QED BY <2>2 DEF w, Lines
<1> HIDE DEF a, b
<1>6. \A i \in 1..n + 1 : a[i] = b[i]
  <2> TAKE i \in 1..n + 1
  <2>1. CASE i = n + 1
    BY <1>1, <1>3, <1>5, <2>1
  <2>2. CASE i \in 1..n
    <3>1. a[i] = <<NL>> \o al[i] /\ al[i] = ls[i]
      BY <1>1, <1>3, <2>2
    <3>2. b[i] = <<NL>> \o ls[i]
      BY <1>4, <1>5, <2>2
    <3> QED BY <3>1, <3>2
  <2> QED BY <1>1, <2>1, <2>2
<1>7. a = b
  BY <1>3, <1>5, <1>6, SeqEqual DEF Lines
<1>8. FlattenSeq(b) = FlattenSeq(Marks(ls)) \o m
  BY <1>2, <1>4, FlattenAppend DEF b, Lines
<1>9. FlattenSeq(Marks(ls)) \o m = (FlattenSeq(Marks(ls)) \o <<NL>>) \o l
  <2>1. FlattenSeq(Marks(ls)) \in Seq(Chars)
    BY <1>4, FlattenTyped DEF Lines
  <2> QED BY <2>1, NLIs, ConcatAssociative
<1>10. Marked(al) = FlattenSeq(a) /\ Marked(ls) = FlattenSeq(Marks(ls))
  BY Zenon DEF Marked, Marks, a
<1> QED BY <1>7, <1>8, <1>9, <1>10, Zenon DEF al

(* A letter more for every line.                                           *)
LEMMA MarkedLen ==
  ASSUME NEW ls \in Lines
  PROVE  Len(Marked(ls)) = Len(FlattenSeq(ls)) + Len(ls)
<1> DEFINE n == Len(ls)
           Holds(k) == Len(Marked(SubSeq(ls, 1, k))) = Len(FlattenSeq(SubSeq(ls, 1, k))) + k
           G == {k \in 0..n : Holds(k)}
<1>0. n \in Nat /\ n \in 0..n
  BY DEF Lines
<1>1. 0 \in G
  <2>1. Len(Marked(SubSeq(ls, 1, 0))) = 0 /\ Len(FlattenSeq(SubSeq(ls, 1, 0))) = 0
    BY NoPrefix, FlattenEmpty, MarkedEmpty, EmptySeq
  <2> QED BY <1>0, <2>1
<1>2. ASSUME NEW k \in 0..n, k < n, k \in G PROVE k + 1 \in G
  <2> DEFINE p == SubSeq(ls, 1, k)
             l == ls[k + 1]
  <2>1. p \in Lines /\ l \in Seq(Chars) /\ SubSeq(ls, 1, k + 1) = Append(p, l)
    BY <1>2, PrefixStep DEF Lines
  <2>2. Len(Marked(p)) = Len(FlattenSeq(p)) + k /\ k + 1 \in 0..n
    BY <1>2
  <2> HIDE DEF p, l
  <2>3. Marked(Append(p, l)) = (Marked(p) \o <<NL>>) \o l /\ FlattenSeq(Append(p, l)) = FlattenSeq(p) \o l
    BY <2>1, MarkedAppend, FlattenAppend DEF Lines
  <2>4. Len((Marked(p) \o <<NL>>) \o l) = Len(Marked(p)) + 1 + Len(l) /\ Len(FlattenSeq(p) \o l) = Len(FlattenSeq(p)) + Len(l)
        /\ Len(FlattenSeq(p)) \in Nat /\ Len(l) \in Nat
    <3>1. Marked(p) \in Seq(Chars) /\ FlattenSeq(p) \in Seq(Chars)
      BY <2>1, MarkedTyped, FlattenTyped DEF Lines
    <3> QED BY <2>1, <3>1, NLIs, ConcatProperties
  <2>5. Holds(k + 1)
    <3>1. Len(Marked(Append(p, l))) = Len(Marked(p)) + 1 + Len(l)
          /\ Len(FlattenSeq(Append(p, l))) = Len(FlattenSeq(p)) + Len(l)
      BY <2>3, <2>4
    <3>2. Len(Marked(Append(p, l))) = Len(FlattenSeq(Append(p, l))) + (k + 1)
      BY <1>0, <2>2, <2>4, <3>1
    <3> QED BY <2>1, <3>2, Zenon
  <2> QED BY <2>2, <2>5
<1> HIDE DEF G
<1>3. n \in G
  <2>1. \A k \in 0..n : k < n /\ k \in G => k + 1 \in G
    BY <1>2, Zenon
  <2> HIDE DEF n
  <2> QED BY <1>0, <1>1, <2>1, UpTo, Zenon
<1>4. SubSeq(ls, 1, n) = ls
  BY SubSeqFull DEF Lines
<1> QED BY <1>3, <1>4 DEF G

LEMMA AppendBehind ==
  ASSUME NEW S, NEW x \in Seq(S), NEW y \in Seq(S), NEW c \in S
  PROVE  x \o Append(y, c) = Append(x \o y, c) /\ x \o y \in Seq(S)
<1>1. Append(y, c) = y \o <<c>> /\ <<c>> \in Seq(S)
  BY AppendIsConcat
<1>2. x \o (y \o <<c>>) = (x \o y) \o <<c>>
  BY <1>1, ConcatAssociative
<1>3. x \o y \in Seq(S)
  BY ConcatProperties
<1>4. Append(x \o y, c) = (x \o y) \o <<c>>
  BY <1>3, AppendIsConcat
<1> QED BY <1>1, <1>2, <1>3, <1>4

LEMMA LineBehind ==
  ASSUME NEW x \in Seq(Chars), NEW y \in Seq(Chars), NEW z \in Seq(Chars)
  PROVE  ((x \o y) \o <<NL>>) \o z = x \o ((y \o <<NL>>) \o z)
<1> DEFINE e == <<NL>>
<1>1. e \in Seq(Chars)
  BY NLIs
<1> HIDE DEF e
<1>2. (x \o y) \o e = x \o (y \o e) /\ y \o e \in Seq(Chars)
  BY <1>1, ConcatAssociative, ConcatProperties
<1> DEFINE w == y \o e
<1>3. w \in Seq(Chars)
  BY <1>2
<1> HIDE DEF w
<1>4. (x \o w) \o z = x \o (w \o z)
  BY <1>3, ConcatAssociative, ConcatProperties
<1> QED BY <1>2, <1>4 DEF e, w

(* The text of two groups of lines.                                        *)
LEMMA MarkedConcat ==
  ASSUME NEW s \in Lines, NEW t \in Lines
  PROVE  Marked(s \o t) = Marked(s) \o Marked(t)
<1> DEFINE n == Len(t)
           Holds(k) == Marked(s \o SubSeq(t, 1, k)) = Marked(s) \o Marked(SubSeq(t, 1, k))
           G == {k \in 0..n : Holds(k)}
<1>0. n \in Nat /\ n \in 0..n
  BY DEF Lines
<1>1. 0 \in G
  <2>1. s \o << >> = s /\ Marked(s) \o << >> = Marked(s)
    BY ConcatEmptySeq, MarkedTyped DEF Lines
  <2>2. Holds(0)
    BY <2>1, NoPrefix, MarkedEmpty
  <2> QED BY <1>0, <2>2
<1>2. ASSUME NEW k \in 0..n, k < n, k \in G PROVE k + 1 \in G
  <2> DEFINE p == SubSeq(t, 1, k)
             l == t[k + 1]
  <2>1. p \in Lines /\ l \in Seq(Chars) /\ SubSeq(t, 1, k + 1) = Append(p, l)
    BY <1>2, PrefixStep DEF Lines
  <2>2. Marked(s \o p) = Marked(s) \o Marked(p) /\ k + 1 \in 0..n
    BY <1>2
  <2> HIDE DEF p, l
  <2>3. s \o Append(p, l) = Append(s \o p, l) /\ s \o p \in Lines
    BY <2>1, AppendBehind DEF Lines
  <2>4. Marked(Append(s \o p, l)) = (Marked(s \o p) \o <<NL>>) \o l
    BY <2>1, <2>3, MarkedAppend
  <2>5. Marked(Append(p, l)) = (Marked(p) \o <<NL>>) \o l
    BY <2>1, MarkedAppend
  <2>6. ((Marked(s) \o Marked(p)) \o <<NL>>) \o l = Marked(s) \o ((Marked(p) \o <<NL>>) \o l)
    <3>1. Marked(s) \in Seq(Chars) /\ Marked(p) \in Seq(Chars)
      BY <2>1, MarkedTyped
    <3> QED BY <2>1, <3>1, LineBehind
  <2>7. Holds(k + 1)
    BY <2>1, <2>2, <2>3, <2>4, <2>5, <2>6, Zenon
  <2> QED BY <2>2, <2>7
<1> HIDE DEF G
<1>3. n \in G
  <2>1. \A k \in 0..n : k < n /\ k \in G => k + 1 \in G
    BY <1>2, Zenon
  <2> HIDE DEF n
  <2> QED BY <1>0, <1>1, <2>1, UpTo, Zenon
<1>4. SubSeq(t, 1, n) = t
  BY SubSeqFull DEF Lines
<1> QED BY <1>3, <1>4 DEF G
-----------------------------------------------------------------------------
(* Texts put together in another order.                                    *)
LEMMA Assoc ==
  ASSUME NEW x \in Seq(Chars), NEW y \in Seq(Chars), NEW z \in Seq(Chars)
  PROVE  (x \o y) \o z = x \o (y \o z) /\ x \o y \in Seq(Chars) /\ Len(x \o y) = Len(x) + Len(y)
<1>1. (x \o y) \o z = x \o (y \o z)
  BY ConcatAssociative
<1>2. x \o y \in Seq(Chars) /\ Len(x \o y) = Len(x) + Len(y)
  BY ConcatProperties
<1> QED BY <1>1, <1>2

(* The provers regroup faster what they cannot look into.                  *)
Cat(x, y) == x \o y
Texts == Seq(Chars)

LEMMA CatAssoc ==
  \A x, y, z \in Texts : Cat(Cat(x, y), z) = Cat(x, Cat(y, z)) /\ Cat(x, y) \in Texts
BY Assoc DEF Cat, Texts

LEMMA Regroup ==
  \A x, y, z \in Texts : (x \o y) \o z = x \o (y \o z) /\ x \o y \in Texts
BY CatAssoc, Zenon DEF Cat

(* The two parts of a text, found again; with a letter put between them;   *)
(* with the letter between them taken out.                                 *)
LEMMA CutConcat ==
  ASSUME NEW S, NEW p \in Seq(S), NEW q \in Seq(S)
  PROVE  /\ SubSeq(p \o q, 1, Len(p)) = p
         /\ SubSeq(p \o q, Len(p) + 1, Len(p) + Len(q)) = q
<1> DEFINE s == p \o q
           n == Len(p)
           m == Len(q)
           a == SubSeq(s, 1, n)
           b == SubSeq(s, n + 1, n + m)
<1>1. n \in Nat /\ m \in Nat
  OBVIOUS
<1>2. s \in Seq(S) /\ Len(s) = n + m
      /\ \A i \in 1..n + m : s[i] = IF i <= n THEN p[i] ELSE q[i - n]
  BY ConcatProperties
<1> HIDE DEF s
<1>3. a = p
  <2>1. \A i \in 1..n : s[i] \in S
    BY <1>1, <1>2
  <2>2. a \in Seq(S) /\ Len(a) = n /\ \A i \in 1..n : a[i] = s[i]
    BY <1>1, <2>1, SubSeqProperties
  <2> HIDE DEF a
  <2>3. \A i \in 1..n : a[i] = p[i]
    BY <1>1, <1>2, <2>2
  <2> QED BY <2>2, <2>3, SeqEqual
<1>4. b = q
  <2>1. \A i \in n + 1..n + m : s[i] \in S
    BY <1>1, <1>2
  <2>2. b \in Seq(S) /\ Len(b) = m /\ \A i \in 1..m : b[i] = s[n + i]
    BY <1>1, <2>1, SubSeqProperties
  <2> HIDE DEF b
  <2>3. ASSUME NEW i \in 1..m PROVE b[i] = q[i]
    <3>1. n + i \in 1..n + m /\ ~(n + i <= n) /\ n + i - n = i
      BY <1>1
    <3>2. s[n + i] = q[n + i - n]
      BY <1>2, <3>1
    <3>3. b[i] = s[n + i]
      BY <2>2, Zenon
    <3> QED BY <3>1, <3>2, <3>3
  <2> QED BY <2>2, <2>3, SeqEqual
<1> QED BY <1>3, <1>4 DEF s

LEMMA InsertBetween ==
  ASSUME NEW S, NEW p \in Seq(S), NEW q \in Seq(S), NEW e \in S
  PROVE  InsertAt(p \o q, Len(p) + 1, e) = (p \o <<e>>) \o q
<1> DEFINE s == p \o q
           n == Len(p)
<1>1. n \in Nat /\ Len(q) \in Nat /\ Len(s) = n + Len(q) /\ (n + 1) - 1 = n
  BY ConcatProperties
<1>2. SubSeq(s, 1, n) = p /\ SubSeq(s, n + 1, n + Len(q)) = q
  BY CutConcat
<1> HIDE DEF s, n
<1> QED BY <1>1, <1>2, Zenon DEF InsertAt, s, n

LEMMA RemoveBetween ==
  ASSUME NEW S, NEW p \in Seq(S), NEW q \in Seq(S), NEW e \in S
  PROVE  RemoveAt((p \o <<e>>) \o q, Len(p) + 1) = p \o q
<1> DEFINE pe == p \o <<e>>
           eq == <<e>> \o q
           s == pe \o q
           n == Len(p)
           m == Len(q)
<1>0. <<e>> \in Seq(S) /\ Len(<<e>>) = 1
  OBVIOUS
<1>1. /\ n \in Nat /\ m \in Nat /\ pe \in Seq(S) /\ eq \in Seq(S)
      /\ Len(pe) = n + 1 /\ Len(eq) = m + 1
  BY <1>0, ConcatProperties
<1>2. s = p \o eq
  BY <1>0, ConcatAssociative
<1> HIDE DEF pe, eq
<1>3. SubSeq(s, 1, n) = p
  BY <1>1, <1>2, CutConcat
<1>4. SubSeq(s, Len(pe) + 1, Len(pe) + m) = q
  BY <1>1, CutConcat
<1>5. Len(s) = Len(pe) + m
  BY <1>1, ConcatProperties
<1> HIDE DEF s, n, m
<1>6. (n + 1) - 1 = n /\ (n + 1) + 1 = Len(pe) + 1
  BY <1>1
<1>7. RemoveAt(s, n + 1) = p \o q
  BY <1>3, <1>4, <1>5, <1>6, Zenon DEF RemoveAt
<1> QED BY <1>7 DEF s, n, pe

-----------------------------------------------------------------------------
(* The lines before, at and behind the cursor, and the text they show.     *)
FlatOf(ls) == Tail(Marked(ls))
BeforeOf(ls, r, c) == Len(FlattenSeq(SubSeq(ls, 1, r))) + r + c
Shown(ls) == Tail(Marked(ls) \o <<NL>>)
Shows(ls, r, c, p, q) ==
  p \in Texts /\ q \in Texts /\ FlatOf(ls) = p \o q /\ BeforeOf(ls, r, c) = Len(p)

(* All but the first letter of two texts.                                  *)
LEMMA TailConcat ==
  ASSUME NEW x \in Texts, Len(x) > 0, NEW y \in Texts
  PROVE  Tail(x \o y) = Tail(x) \o y /\ Tail(x) \in Texts /\ Len(Tail(x)) = Len(x) - 1
<1> USE DEF Texts
<1> DEFINE s == x \o y
           a == Tail(x)
           b == a \o y
           t == Tail(s)
<1>0. Len(x) \in Nat /\ Len(y) \in Nat
  OBVIOUS
<1>1. s \in Seq(Chars) /\ Len(s) = Len(x) + Len(y)
      /\ \A i \in 1..Len(x) + Len(y) : s[i] = IF i <= Len(x) THEN x[i] ELSE y[i - Len(x)]
  BY ConcatProperties
<1>2. a \in Seq(Chars) /\ Len(a) = Len(x) - 1 /\ \A i \in 1..Len(x) - 1 : a[i] = x[i + 1]
  <2>1. x # << >>
    BY EmptySeq
  <2> QED BY <2>1, HeadTailProperties
<1> HIDE DEF a
<1>3. b \in Seq(Chars) /\ Len(b) = Len(x) - 1 + Len(y)
      /\ \A i \in 1..Len(x) - 1 + Len(y) : b[i] = IF i <= Len(x) - 1 THEN a[i] ELSE y[i - (Len(x) - 1)]
  <2>1. b \in Seq(Chars) /\ Len(b) = Len(a) + Len(y)
        /\ \A i \in 1..Len(a) + Len(y) : b[i] = IF i <= Len(a) THEN a[i] ELSE y[i - Len(a)]
    BY <1>2, ConcatProperties
  <2>2. Len(a) = Len(x) - 1
    BY <1>2
  <2> HIDE DEF b
  <2> QED BY <2>1, <2>2, Zenon
<1> HIDE DEF s, b
<1>4. t \in Seq(Chars) /\ Len(t) = Len(s) - 1 /\ \A i \in 1..Len(s) - 1 : t[i] = s[i + 1]
  <2>1. s # << >>
    BY <1>0, <1>1, EmptySeq
  <2> QED BY <1>1, <2>1, HeadTailProperties
<1> HIDE DEF t
<1>5. ASSUME NEW i \in 1..Len(x) - 1 + Len(y) PROVE t[i] = b[i]
  <2>1. i + 1 \in 1..Len(x) + Len(y) /\ i \in 1..Len(s) - 1
    BY <1>0, <1>1
  <2>2. t[i] = s[i + 1]
    BY <1>4, <2>1
  <2>3. CASE i <= Len(x) - 1
    <3>1. s[i + 1] = x[i + 1]
      BY <1>0, <1>1, <2>1, <2>3
    <3>2. b[i] = a[i] /\ a[i] = x[i + 1]
      BY <1>0, <1>2, <1>3, <2>3
    <3> QED BY <2>2, <3>1, <3>2
  <2>4. CASE ~(i <= Len(x) - 1)
    <3>1. ~(i + 1 <= Len(x)) /\ i + 1 - Len(x) = i - (Len(x) - 1)
      BY <1>0, <2>4
    <3>2. s[i + 1] = y[i + 1 - Len(x)]
      BY <1>1, <2>1, <3>1
    <3>3. b[i] = y[i - (Len(x) - 1)]
      BY <1>3, <2>4
    <3> QED BY <2>2, <3>1, <3>2, <3>3
  <2> QED BY <2>3, <2>4
<1>6. Len(t) = Len(b)
  BY <1>0, <1>1, <1>3, <1>4
<1>7. t = b
  BY <1>3, <1>4, <1>5, <1>6, SeqEqual
<1> QED BY <1>2, <1>7 DEF t, s, b, a

(* What the lines before a line show: each with its newline behind it.     *)
LEMMA ShownIs ==
  ASSUME NEW ls \in Lines
  PROVE  /\ Marked(ls) \in Texts /\ Shown(ls) \in Texts
         /\ Len(Shown(ls)) = Len(FlattenSeq(ls)) + Len(ls)
         /\ \A l \in Texts : /\ Shown(Append(ls, l)) = (Shown(ls) \o l) \o <<NL>>
                             /\ FlatOf(Append(ls, l)) = Shown(ls) \o l
<1> DEFINE m == Marked(ls)
           x == m \o <<NL>>
<1>1. m \in Texts /\ Len(m) = Len(FlattenSeq(ls)) + Len(ls)
  BY MarkedTyped, MarkedLen DEF Texts
<1>2. x \in Texts /\ Len(x) = Len(m) + 1 /\ Len(m) \in Nat
  BY <1>1, NLIs, ConcatProperties DEF Texts
<1> HIDE DEF m
<1>3. Shown(ls) = Tail(x)
  BY DEF Shown, m
<1>4. ASSUME NEW l \in Texts
      PROVE  /\ Shown(Append(ls, l)) = (Tail(x) \o l) \o <<NL>>
             /\ FlatOf(Append(ls, l)) = Tail(x) \o l
  <2>1. Marked(Append(ls, l)) = x \o l
    BY MarkedAppend DEF Texts, m
  <2> HIDE DEF x
  <2>2. Len(x) > 0
    BY <1>2
  <2>3. Tail(x \o l) = Tail(x) \o l /\ x \o l \in Texts /\ Len(x \o l) > 0
    <3>0. x \in Seq(Chars) /\ l \in Seq(Chars) /\ Len(x) \in Nat /\ Len(l) \in Nat
      BY <1>2 DEF Texts
    <3>1. x \o l \in Seq(Chars) /\ Len(x \o l) = Len(x) + Len(l)
      BY <3>0, ConcatProperties
    <3>2. Len(x \o l) > 0
      BY <2>2, <3>0, <3>1
    <3>3. Tail(x \o l) = Tail(x) \o l
      BY <1>2, <2>2, TailConcat
    <3> QED BY <3>1, <3>2, <3>3 DEF Texts
  <2> DEFINE xl == x \o l
             e == <<NL>>
  <2>4. xl \in Texts /\ Len(xl) > 0 /\ e \in Texts
    BY <2>3, NLIs DEF Texts
  <2> HIDE DEF xl, e
  <2>5. Tail(xl \o e) = Tail(xl) \o e
    BY <2>4, TailConcat
  <2> QED BY <2>1, <2>3, <2>5, Zenon DEF Shown, FlatOf, xl, e
<1> HIDE DEF x
<1>5. Tail(x) \in Texts /\ Len(Tail(x)) = Len(x) - 1
  BY <1>2, TailConcat
<1>6. Len(Tail(x)) = Len(FlattenSeq(ls)) + Len(ls)
  BY <1>1, <1>2, <1>5
<1> QED BY <1>1, <1>3, <1>4, <1>5, <1>6 DEF m
-----------------------------------------------------------------------------
(* One line among the lines: A before it, B behind it.                     *)
LEMMA Between ==
  ASSUME NEW S, NEW A \in Seq(S), NEW l \in S, NEW B \in Seq(S)
  PROVE  LET ls == Append(A, l) \o B
         IN  /\ ls \in Seq(S) /\ Len(ls) = Len(A) + 1 + Len(B)
             /\ \A i \in 1..Len(A) + 1 + Len(B) :
                  ls[i] = IF i <= Len(A) THEN A[i] ELSE IF i = Len(A) + 1 THEN l ELSE B[i - (Len(A) + 1)]
<1> DEFINE al == Append(A, l)
           n == Len(A)
           ls == al \o B
<1>1. n \in Nat /\ Len(B) \in Nat
  OBVIOUS
<1>2. al \in Seq(S) /\ Len(al) = n + 1 /\ al[n + 1] = l /\ \A i \in 1..n : al[i] = A[i]
  BY AppendProperties
<1> HIDE DEF al
<1>3. ls \in Seq(S) /\ Len(ls) = n + 1 + Len(B)
      /\ \A i \in 1..n + 1 + Len(B) : ls[i] = IF i <= n + 1 THEN al[i] ELSE B[i - (n + 1)]
  <2>1. ls \in Seq(S) /\ Len(ls) = Len(al) + Len(B)
        /\ \A i \in 1..Len(al) + Len(B) : ls[i] = IF i <= Len(al) THEN al[i] ELSE B[i - Len(al)]
    BY <1>2, ConcatProperties
  <2>2. Len(al) = n + 1
    BY <1>2
  <2> HIDE DEF ls
  <2> QED BY <2>1, <2>2, Zenon
<1> HIDE DEF ls
<1>4. ASSUME NEW i \in 1..n + 1 + Len(B)
      PROVE  ls[i] = IF i <= n THEN A[i] ELSE IF i = n + 1 THEN l ELSE B[i - (n + 1)]
  <2>1. CASE i <= n
    BY <1>1, <1>2, <1>3, <2>1
  <2>2. CASE i = n + 1
    BY <1>1, <1>2, <1>3, <2>2
  <2>3. CASE ~(i <= n) /\ i # n + 1
    BY <1>1, <1>3, <2>3
  <2> QED BY <2>1, <2>2, <2>3
<1> QED BY <1>3, <1>4 DEF ls, al, n

(* Another line in its place.                                              *)
LEMMA BetweenSet ==
  ASSUME NEW S, NEW A \in Seq(S), NEW l \in S, NEW B \in Seq(S), NEW m \in S
  PROVE  [Append(A, l) \o B EXCEPT ![Len(A) + 1] = m] = Append(A, m) \o B
<1> DEFINE ls == Append(A, l) \o B
           k == Len(A) + 1
           ms == Append(A, m) \o B
           es == [ls EXCEPT ![k] = m]
<1>1. Len(A) \in Nat /\ Len(B) \in Nat
  OBVIOUS
<1>2. ls \in Seq(S) /\ Len(ls) = k + Len(B)
      /\ \A i \in 1..k + Len(B) :
           ls[i] = IF i <= Len(A) THEN A[i] ELSE IF i = k THEN l ELSE B[i - k]
  BY Between
<1>3. ms \in Seq(S) /\ Len(ms) = k + Len(B)
      /\ \A i \in 1..k + Len(B) :
           ms[i] = IF i <= Len(A) THEN A[i] ELSE IF i = k THEN m ELSE B[i - k]
  BY Between
<1> HIDE DEF ls, ms
<1>4. k \in 1..Len(ls)
  BY <1>1, <1>2
<1>5. es \in Seq(S) /\ Len(es) = Len(ls) /\ \A i \in 1..Len(ls) : es[i] = IF i = k THEN m ELSE ls[i]
  BY <1>2, <1>4, ExceptSeq
<1> HIDE DEF es
<1>6. ASSUME NEW i \in 1..k + Len(B) PROVE es[i] = ms[i]
  <2>1. CASE i = k
    BY <1>1, <1>2, <1>3, <1>5, <2>1
  <2>2. CASE i # k
    BY <1>1, <1>2, <1>3, <1>5, <2>2
  <2> QED BY <2>1, <2>2
<1>7. es = ms
  BY <1>2, <1>3, <1>5, <1>6, SeqEqual
<1> QED BY <1>7 DEF es, ls, ms

(* Two lines made one.                                                     *)
LEMMA BetweenJoin ==
  ASSUME NEW S, NEW A \in Seq(S), NEW l \in S, NEW m \in S, NEW B \in Seq(S), NEW j \in S
  PROVE  [RemoveAt(Append(Append(A, l), m) \o B, Len(A) + 1) EXCEPT ![Len(A) + 1] = j]
         = Append(A, j) \o B
<1> DEFINE e == <<m>>
           f == <<l>>
           al == A \o f
           mb == e \o B
<1>0. e \in Seq(S) /\ f \in Seq(S)
  OBVIOUS
<1>1. Append(Append(A, l), m) = al \o e /\ al \in Seq(S)
  <2>1. Append(A, l) = al /\ al \in Seq(S)
    BY <1>0, AppendIsConcat, ConcatProperties
  <2> HIDE DEF al
  <2>2. Append(al, m) = al \o e
    BY <2>1, AppendIsConcat
  <2> QED BY <2>1, <2>2, Zenon
<1>2. RemoveAt(al \o mb, Len(A) + 1) = A \o mb
  <2>1. mb \in Seq(S)
    BY <1>0, ConcatProperties
  <2> HIDE DEF mb
  <2> QED BY <2>1, RemoveBetween
<1>3. (al \o e) \o B = al \o mb
  <2> HIDE DEF al, e
  <2> QED BY <1>0, <1>1, ConcatAssociative
<1>4. A \o mb = Append(A, m) \o B
  <2>1. Append(A, m) = A \o e
    BY AppendIsConcat
  <2> HIDE DEF e
  <2>2. (A \o e) \o B = A \o (e \o B)
    BY <1>0, ConcatAssociative
  <2> QED BY <2>1, <2>2
<1>5. RemoveAt(Append(Append(A, l), m) \o B, Len(A) + 1) = Append(A, m) \o B
  <2> HIDE DEF al, mb
  <2> QED BY <1>1, <1>2, <1>3, <1>4, Zenon
<1>6. [Append(A, m) \o B EXCEPT ![Len(A) + 1] = j] = Append(A, j) \o B
  BY BetweenSet
<1> QED BY <1>5, <1>6, Zenon
-----------------------------------------------------------------------------
(* The cursor between a and b on the line behind A and before B.           *)
At(ls, r, c, A, a, b, B) ==
  /\ A \in Lines /\ B \in Lines /\ a \in Texts /\ b \in Texts
  /\ ls = Append(A, a \o b) \o B /\ r = Len(A) /\ c = Len(a)

(* What such a cursor has before it and behind it.                         *)
LEMMA AtShows ==
  ASSUME NEW ls, NEW r, NEW c, NEW A, NEW a, NEW b, NEW B, At(ls, r, c, A, a, b, B)
  PROVE  Shows(ls, r, c, Shown(A) \o a, b \o Marked(B))
<1> DEFINE l == a \o b
           al == Append(A, l)
           shown == Shown(A)
           upto == Marked(al)
           rest == Marked(B)
<1>1. /\ A \in Lines /\ B \in Lines /\ a \in Texts /\ b \in Texts
      /\ ls = al \o B /\ r = Len(A) /\ c = Len(a)
  BY DEF At
<1>2. l \in Texts /\ Len(a) \in Nat /\ Len(A) \in Nat
  BY <1>1, ConcatProperties DEF Texts, Lines
<1>3. al \in Lines /\ Len(al) = Len(A) + 1
  <2> HIDE DEF l
  <2> QED BY <1>1, <1>2, AppendProperties DEF Texts, Lines
<1>4. shown \in Texts /\ Len(shown) = Len(FlattenSeq(A)) + Len(A) /\ FlatOf(al) = shown \o l
  BY <1>1, <1>2, ShownIs
<1>5. upto \in Texts /\ rest \in Texts /\ Len(upto) > 0
  <2>1. upto \in Texts /\ rest \in Texts /\ Len(upto) = Len(FlattenSeq(al)) + Len(al) /\ FlattenSeq(al) \in Texts
    BY <1>1, <1>3, MarkedTyped, MarkedLen, FlattenTyped DEF Texts, Lines
  <2> DEFINE f == FlattenSeq(al)
  <2>2. Len(f) \in Nat /\ Len(al) \in Nat /\ Len(al) > 0
    BY <1>2, <1>3, <2>1 DEF Texts
  <2> HIDE DEF f, upto, rest, al
  <2>3. Len(upto) > 0
    BY <2>1, <2>2 DEF f
  <2> QED BY <2>1, <2>3
<1>6. Marked(ls) = upto \o rest
  BY <1>1, <1>3, MarkedConcat
<1>7. FlatOf(ls) = (shown \o l) \o rest
  <2>1. Tail(upto \o rest) = Tail(upto) \o rest
    <3> HIDE DEF upto, rest
    <3> QED BY <1>5, TailConcat
  <2>2. Tail(upto) = shown \o l
    BY <1>4 DEF FlatOf
  <2> QED BY <1>6, <2>1, <2>2, Zenon DEF FlatOf
<1>8. (shown \o l) \o rest = (shown \o a) \o (b \o rest)
  <2> HIDE DEF shown, rest
  <2>1. a \in Texts /\ b \in Texts /\ shown \in Texts /\ rest \in Texts
    BY <1>1, <1>4, <1>5
  <2>2. Cat(Cat(shown, Cat(a, b)), rest) = Cat(Cat(shown, a), Cat(b, rest))
    BY <2>1, CatAssoc
  <2> QED BY <2>2, Zenon DEF Cat
<1>9. shown \o a \in Texts /\ Len(shown \o a) = Len(shown) + Len(a) /\ b \o rest \in Texts
  <2> HIDE DEF shown, rest
  <2> QED BY <1>1, <1>4, <1>5, ConcatProperties DEF Texts
<1>10. BeforeOf(ls, r, c) = Len(shown) + Len(a)
  <2>1. SubSeq(ls, 1, r) = A
    <3>1. <<l>> \o B \in Lines /\ ls = A \o (<<l>> \o B)
      <4> DEFINE e == <<l>>
      <4> HIDE DEF l
      <4>1. e \in Lines /\ Append(A, l) = A \o e
        BY <1>1, <1>2, AppendIsConcat DEF Lines, Texts
      <4> HIDE DEF e
      <4>2. (A \o e) \o B = A \o (e \o B) /\ e \o B \in Lines
        <5> DEFINE S == Seq(Chars)
        <5>1. A \in Seq(S) /\ B \in Seq(S) /\ e \in Seq(S)
          BY <1>1, <4>1 DEF Lines
        <5> HIDE DEF S
        <5>2. (A \o e) \o B = A \o (e \o B) /\ e \o B \in Seq(S)
          BY <5>1, ConcatAssociative, ConcatProperties
        <5> QED BY <5>2 DEF S, Lines
      <4> QED BY <1>1, <4>1, <4>2, Zenon DEF e
    <3> QED BY <1>1, <3>1, CutConcat DEF Lines
  <2>2. BeforeOf(ls, r, c) = Len(FlattenSeq(A)) + Len(A) + Len(a)
    BY <1>1, <2>1, Zenon DEF BeforeOf
  <2> QED BY <1>4, <2>2
<1> HIDE DEF shown, rest, l
<1> QED BY <1>7, <1>8, <1>9, <1>10, Zenon DEF Shows, shown, rest

(* A text cut at k, and lines cut at a row and a column.                   *)
LEMMA CutAt ==
  ASSUME NEW S, NEW l \in Seq(S), NEW k \in 0..Len(l)
  PROVE  LET a == SubSeq(l, 1, k)
             b == SubSeq(l, k + 1, Len(l))
         IN  a \in Seq(S) /\ b \in Seq(S) /\ l = a \o b /\ Len(a) = k /\ Len(b) = Len(l) - k
<1> DEFINE a == SubSeq(l, 1, k)
           b == SubSeq(l, k + 1, Len(l))
           s == a \o b
<1>0. Len(l) \in Nat /\ k \in Nat
  OBVIOUS
<1>1. a \in Seq(S) /\ Len(a) = k /\ \A i \in 1..k : a[i] = l[i]
  BY SubSeqProperties
<1>2. b \in Seq(S) /\ Len(b) = Len(l) - k /\ \A i \in 1..Len(l) - k : b[i] = l[k + i]
  BY SubSeqProperties
<1> HIDE DEF a, b
<1>3. s \in Seq(S) /\ Len(s) = Len(a) + Len(b)
      /\ \A i \in 1..Len(a) + Len(b) : s[i] = IF i <= Len(a) THEN a[i] ELSE b[i - Len(a)]
  BY <1>1, <1>2, ConcatProperties
<1> HIDE DEF s
<1>4. ASSUME NEW i \in 1..Len(l) PROVE l[i] = s[i]
  <2>1. i \in 1..Len(a) + Len(b)
    BY <1>0, <1>1, <1>2
  <2>2. CASE i <= k
    BY <1>0, <1>1, <1>3, <2>1, <2>2
  <2>3. CASE ~(i <= k)
    <3>1. i - k \in 1..Len(l) - k /\ k + (i - k) = i
      BY <1>0, <2>3
    <3>2. b[i - k] = l[i]
      BY <1>2, <3>1
    <3> QED BY <1>1, <1>3, <2>1, <2>3, <3>2
  <2> QED BY <2>2, <2>3
<1>5. l = s
  BY <1>0, <1>1, <1>2, <1>3, <1>4, SeqEqual
<1> QED BY <1>1, <1>2, <1>5 DEF a, b, s

LEMMA AtOf ==
  ASSUME NEW ls \in Lines, NEW r \in Nat, r + 1 \in 1..Len(ls), NEW c \in 0..Len(ls[r + 1])
  PROVE  At(ls, r, c, SubSeq(ls, 1, r), SubSeq(ls[r + 1], 1, c),
            SubSeq(ls[r + 1], c + 1, Len(ls[r + 1])), SubSeq(ls, r + 2, Len(ls)))
<1> DEFINE n == Len(ls)
           l == ls[r + 1]
           a == SubSeq(l, 1, c)
           b == SubSeq(l, c + 1, Len(l))
           A == SubSeq(ls, 1, r)
           p == SubSeq(ls, 1, r + 1)
           B == SubSeq(ls, r + 2, Len(ls))
<1>0. ls \in Seq(Texts) /\ n \in Nat /\ l \in Texts /\ r + 1 \in 0..n
  BY DEF Lines, Texts
<1>1. a \in Texts /\ b \in Texts /\ l = a \o b /\ Len(a) = c
  BY <1>0, CutAt DEF Texts
<1>2. A \in Seq(Texts) /\ Len(A) = r /\ p = Append(A, l)
  BY <1>0, PrefixStep
<1>3. B \in Seq(Texts) /\ ls = p \o B
  <2> DEFINE k == r + 1
  <2>1. k \in 0..Len(ls) /\ k + 1 = r + 2
    BY <1>0
  <2> HIDE DEF k
  <2>2. LET q == SubSeq(ls, k + 1, Len(ls)) IN q \in Seq(Texts) /\ ls = SubSeq(ls, 1, k) \o q
    BY <1>0, <2>1, CutAt
  <2> QED BY <2>1, <2>2 DEF k
<1> HIDE DEF A, B, a, b, p, l
<1> QED BY <1>1, <1>2, <1>3, Zenon DEF At, Lines, Texts, A, B, a, b, l
-----------------------------------------------------------------------------
(* A text that is not empty, without its last and without its first        *)
(* letter.                                                                 *)
LEMMA LastOut ==
  ASSUME NEW S, NEW s \in Seq(S), Len(s) > 0
  PROVE  \E t \in Seq(S), e \in S : s = t \o <<e>> /\ Len(t) = Len(s) - 1
<1>1. s # << >>
  BY EmptySeq
<1>2. PICK t \in Seq(S), e \in S : s = Append(t, e)
  BY <1>1, SequenceEmptyOrAppend
<1>3. s = t \o <<e>> /\ Len(s) = Len(t) + 1 /\ Len(t) \in Nat
  BY <1>2, AppendIsConcat, AppendProperties
<1>4. Len(t) = Len(s) - 1
  BY <1>3
<1> QED BY <1>3, <1>4

LEMMA FirstOut ==
  ASSUME NEW S, NEW s \in Seq(S), Len(s) > 0
  PROVE  \E t \in Seq(S), e \in S : s = <<e>> \o t
<1> DEFINE n == Len(s)
           t == SubSeq(s, 2, n)
           e == s[1]
<1>0. n \in Nat /\ 1 \in 1..n /\ n \in 1..n /\ e \in S
  OBVIOUS
<1>1. SubSeq(s, 1, n) = <<e>> \o SubSeq(s, 1 + 1, n)
  BY <1>0, SubSeqRecursiveFirst
<1>2. SubSeq(s, 1, n) = s
  BY SubSeqFull
<1>3. t \in Seq(S)
  BY <1>0, SubSeqProperties
<1>4. s = <<e>> \o t
  <2>1. 1 + 1 = 2
    OBVIOUS
  <2> HIDE DEF e
  <2> QED BY <1>1, <1>2, <2>1, Zenon
<1> QED BY <1>0, <1>3, <1>4

(* What the keys do to the text shown, given what is before and behind the *)
(* cursor.                                                                 *)
LEMMA Showing ==
  ASSUME NEW p, NEW q, Shows(lines, row, col, p, q)
  PROVE  Flat = p \o q /\ Before = Len(p) /\ p \in Seq(Chars) /\ q \in Seq(Chars)
BY Zenon DEF Shows, FlatOf, BeforeOf, Marked, Flat, Before, Texts

LEMMA ShowingNext ==
  ASSUME NEW p, NEW q, Shows(lines', row', col', p, q)
  PROVE  Flat' = p \o q /\ Before' = Len(p) /\ p \in Seq(Chars) /\ q \in Seq(Chars)
BY Zenon DEF Shows, FlatOf, BeforeOf, Marked, Flat, Before, Texts

LEMMA TextInsert ==
  ASSUME NEW p, NEW q, NEW e \in Letters \cup {NL}, UNCHANGED disk,
         Shows(lines, row, col, p, q), Shows(lines', row', col', p \o <<e>>, q)
  PROVE  Text!Key
<1>0. e \in Chars
  BY Limits DEF Plain
<1>1. Flat = p \o q /\ Before = Len(p) /\ p \in Seq(Chars) /\ q \in Seq(Chars)
  BY Showing
<1>2. Flat' = (p \o <<e>>) \o q /\ Before' = Len(p \o <<e>>)
  BY ShowingNext
<1>3. InsertAt(p \o q, Len(p) + 1, e) = (p \o <<e>>) \o q
  BY <1>0, <1>1, InsertBetween
<1>4. Len(p \o <<e>>) = Len(p) + 1
  BY <1>0, <1>1
<1>5. Flat' = InsertAt(Flat, Before + 1, e) /\ Before' = Before + 1
  BY <1>1, <1>2, <1>3, <1>4, Zenon
<1>6. Text!Insert(e)
  BY <1>5, Zenon DEF Text!Insert, Text!Edit, Text!InsertAt, InsertAt
<1> QED BY <1>6, Zenon DEF Text!Key

LEMMA TextBackspace ==
  ASSUME NEW p \in Texts, NEW e \in Chars, NEW q, UNCHANGED disk,
         Shows(lines, row, col, p \o <<e>>, q), Shows(lines', row', col', p, q)
  PROVE  Text!Key
<1>1. Flat = (p \o <<e>>) \o q /\ Before = Len(p \o <<e>>) /\ p \in Seq(Chars) /\ q \in Seq(Chars)
  BY Showing DEF Texts
<1>2. Flat' = p \o q /\ Before' = Len(p)
  BY ShowingNext
<1>3. RemoveAt((p \o <<e>>) \o q, Len(p) + 1) = p \o q
  BY <1>1, RemoveBetween
<1>4. Len(p \o <<e>>) = Len(p) + 1 /\ Len(p) \in Nat
  BY <1>1
<1>5. Flat' = RemoveAt(Flat, Before)
  BY <1>1, <1>2, <1>3, <1>4, Zenon
<1>6. Before > 0 /\ Before' = Before - 1
  BY <1>1, <1>2, <1>4
<1>7. Text!Backspace
  BY <1>5, <1>6, Zenon DEF Text!Backspace, Text!Edit, Text!RemoveAt, RemoveAt
<1> QED BY <1>7, Zenon DEF Text!Key

LEMMA TextDelete ==
  ASSUME NEW p, NEW e \in Chars, NEW q \in Texts, UNCHANGED disk,
         Shows(lines, row, col, p, <<e>> \o q), Shows(lines', row', col', p, q)
  PROVE  Text!Key
<1> DEFINE f == <<e>>
           r == f \o q
<1>0. q \in Seq(Chars) /\ f \in Seq(Chars) /\ Len(f) = 1 /\ Len(q) \in Nat
  BY DEF Texts
<1>1. Flat = p \o r /\ Before = Len(p) /\ p \in Seq(Chars)
  BY Showing
<1>2. Flat' = p \o q /\ Before' = Len(p)
  BY ShowingNext
<1>3. RemoveAt((p \o f) \o q, Len(p) + 1) = p \o q
  BY <1>0, <1>1, RemoveBetween
<1> HIDE DEF f
<1>4. (p \o f) \o q = p \o r
  BY <1>0, <1>1, ConcatAssociative
<1>5. Flat' = RemoveAt(Flat, Before + 1) /\ Before' = Before
  BY <1>1, <1>2, <1>3, <1>4, Zenon
<1>6. Before < Len(Flat)
  <2>1. r \in Seq(Chars) /\ Len(r) = 1 + Len(q)
    BY <1>0, ConcatProperties
  <2> HIDE DEF r
  <2>2. Len(p \o r) = Len(p) + Len(r) /\ Len(p) \in Nat
    BY <1>1, <2>1, ConcatProperties
  <2> QED BY <1>0, <1>1, <2>1, <2>2
<1>7. Text!Delete
  BY <1>5, <1>6, Zenon DEF Text!Delete, Text!Edit, Text!RemoveAt, RemoveAt
<1> QED BY <1>7, Zenon DEF Text!Key

LEMMA TextMove ==
  ASSUME NEW p, NEW q, UNCHANGED <<lines, disk>>, Shows(lines', row', col', p, q)
  PROVE  Text!Key
<1>1. Flat' = p \o q /\ Before' = Len(p) /\ p \in Seq(Chars) /\ q \in Seq(Chars)
  BY ShowingNext
<1>2. Flat' = Flat
  BY DEF Flat
<1>3. Before' \in 0..Len(Flat)
  <2>1. Len(p \o q) = Len(p) + Len(q) /\ Len(p) \in Nat /\ Len(q) \in Nat
    BY <1>1
  <2> QED BY <1>1, <1>2, <2>1
<1>4. Text!Move
  BY <1>2, <1>3, Zenon DEF Text!Move
<1> QED BY <1>4, Zenon DEF Text!Key
-----------------------------------------------------------------------------
(* The keys, one by one.                                                   *)
LEMMA LinesAre == IInv => lines \in Lines /\ Lines = Seq(Texts)
<1> SUFFICES ASSUME IInv PROVE lines \in Lines
  BY DEF Lines, Texts
<1>1. lines \in Seq(TextLine)
  BY LineIs
<1>2. TextLine \subseteq Texts
  <2>1. \A l \in Seq(Plain) : l \in Seq(Chars)
    BY SeqMonotonic DEF Plain
  <2> QED BY <2>1 DEF TextLine, Texts
<1>3. lines \in Seq(Texts)
  BY <1>1, <1>2, SeqMonotonic
<1> QED BY <1>3 DEF Lines, Texts

(* The line of such a cursor.                                              *)
LEMMA AtLine ==
  ASSUME NEW ls, NEW r, NEW c, NEW A, NEW a, NEW b, NEW B, At(ls, r, c, A, a, b, B)
  PROVE  ls[r + 1] = a \o b /\ a \o b \in Texts
<1> DEFINE l == a \o b
           S == Seq(Chars)
<1>1. A \in Seq(S) /\ B \in Seq(S) /\ l \in S /\ ls = Append(A, l) \o B /\ r = Len(A)
  BY ConcatProperties DEF At, Lines, Texts
<1> HIDE DEF l, S
<1>2. r \in Nat /\ Len(B) \in Nat
  BY <1>1
<1>3. ls[r + 1] = l
  <2>1. r + 1 \in 1..r + 1 + Len(B) /\ ~(r + 1 <= r)
    BY <1>2
  <2> QED BY <1>1, <2>1, Between
<1> QED BY <1>1, <1>3 DEF l, S, Texts

(* The cursor of the editor is one.                                        *)
LEMMA CursorAt ==
  ASSUME IInv
  PROVE  \E A, a, b, B : At(lines, row, col, A, a, b, B) /\ Line = a \o b
<1>1. lines \in Lines /\ row \in Nat /\ row + 1 \in 1..Len(lines) /\ col \in 0..Len(lines[row + 1])
      /\ Line = lines[row + 1]
  BY LineIs, LinesAre
<1>2. \E A, a, b, B : At(lines, row, col, A, a, b, B)
  BY <1>1, AtOf
<1> QED BY <1>1, <1>2, AtLine

LEMMA CatTyped ==
  ASSUME NEW x \in Texts, NEW y \in Texts
  PROVE  x \o y \in Texts /\ Len(x \o y) = Len(x) + Len(y) /\ Len(x) \in Nat /\ Len(y) \in Nat
BY ConcatProperties DEF Texts

LEMMA ShownBehind ==
  ASSUME NEW A \in Lines, NEW x \in Texts, NEW y \in Texts
  PROVE  Shown(A) \o (x \o y) = (Shown(A) \o x) \o y
<1> DEFINE s == Shown(A)
<1>1. s \in Texts
  BY ShownIs
<1> HIDE DEF s
<1>2. s \o (x \o y) = (s \o x) \o y
  BY <1>1, ConcatAssociative DEF Texts
<1> QED BY <1>2 DEF s

(* The line of the cursor is set to c and d, with the cursor between them. *)
LEMMA SetAt ==
  ASSUME NEW A, NEW a, NEW b, NEW B, At(lines, row, col, A, a, b, B),
         NEW c \in Texts, NEW d \in Texts,
         lines' = [lines EXCEPT ![row + 1] = c \o d], row' = row, col' = Len(c)
  PROVE  At(lines', row', col', A, c, d, B)
<1> DEFINE old == a \o b
           new == c \o d
<1>1. A \in Seq(Texts) /\ B \in Seq(Texts) /\ old \in Texts /\ row = Len(A) /\ lines = Append(A, old) \o B
  BY AtLine DEF At, Lines, Texts
<1>2. new \in Texts
  BY CatTyped
<1>3. lines' = [lines EXCEPT ![row + 1] = new]
  OBVIOUS
<1> HIDE DEF old, new
<1>4. [Append(A, old) \o B EXCEPT ![Len(A) + 1] = new] = Append(A, new) \o B
  BY <1>1, <1>2, BetweenSet
<1>5. lines' = Append(A, new) \o B
  BY <1>1, <1>3, <1>4, Zenon
<1>6. A \in Lines /\ B \in Lines
  BY DEF At
<1> QED BY <1>1, <1>5, <1>6, Zenon DEF At, new

(* What is typed is inserted.                                              *)
LEMMA InsertCharText ==
  ASSUME IInv, NEW e \in Letters, InsertChar(e)
  PROVE  Text!Key
<1>1. PICK A, a, b, B : At(lines, row, col, A, a, b, B) /\ Line = a \o b
  BY CursorAt
<1>2. A \in Lines /\ a \in Texts /\ b \in Texts /\ col = Len(a)
  BY <1>1 DEF At
<1> DEFINE f == <<e>>
           ae == a \o f
           p == Shown(A) \o a
           q == b \o Marked(B)
<1>3. /\ lines' = [lines EXCEPT ![row + 1] = InsertAt(Line, col + 1, e)]
      /\ row' = row /\ col' = col + 1 /\ UNCHANGED disk
  BY DEF InsertChar, Edited
<1>4. f \in Texts /\ Len(f) = 1 /\ e \in Chars
  BY Limits DEF Plain, Texts
<1>5. InsertAt(Line, col + 1, e) = ae \o b
  <2>1. a \in Seq(Chars) /\ b \in Seq(Chars)
    BY <1>2 DEF Texts
  <2>2. InsertAt(a \o b, Len(a) + 1, e) = (a \o <<e>>) \o b
    BY <1>4, <2>1, InsertBetween
  <2> QED BY <1>1, <1>2, <2>2, Zenon
<1> HIDE DEF f
<1>6. ae \in Texts /\ Len(ae) = col + 1
  BY <1>2, <1>4, CatTyped
<1>7. Shown(A) \o ae = p \o f
  BY <1>2, <1>4, ShownBehind
<1> HIDE DEF ae
<1>8. At(lines', row', col', A, ae, b, B)
  BY <1>1, <1>2, <1>3, <1>5, <1>6, SetAt
<1>9. Shows(lines, row, col, p, q)
  BY <1>1, AtShows
<1>10. Shows(lines', row', col', p \o <<e>>, q)
  <2>1. Shows(lines', row', col', Shown(A) \o ae, q)
    BY <1>8, AtShows
  <2> QED BY <1>7, <2>1, Zenon DEF f
<1> HIDE DEF p, q
<1> QED BY <1>3, <1>9, <1>10, TextInsert

(* Backspace in a line takes what is before the cursor, Delete what is     *)
(* behind it.                                                              *)
LEMMA BackspaceText ==
  ASSUME IInv, col > 0, Edited([lines EXCEPT ![row + 1] = RemoveAt(Line, col)], row, col - 1)
  PROVE  Text!Key
<1>1. PICK A, a, b, B : At(lines, row, col, A, a, b, B) /\ Line = a \o b
  BY CursorAt
<1>2. A \in Lines /\ a \in Seq(Chars) /\ b \in Texts /\ col = Len(a)
  BY <1>1 DEF At, Texts
<1>3. PICK c \in Seq(Chars), e \in Chars : a = c \o <<e>> /\ Len(c) = Len(a) - 1
  BY <1>2, LastOut
<1> DEFINE f == <<e>>
           p == Shown(A) \o c
           q == b \o Marked(B)
<1>4. /\ lines' = [lines EXCEPT ![row + 1] = RemoveAt(Line, col)]
      /\ row' = row /\ col' = col - 1 /\ UNCHANGED disk
  BY DEF Edited
<1>5. f \in Texts /\ c \in Texts
  BY DEF Texts
<1>6. RemoveAt(Line, col) = c \o b
  <2>1. b \in Seq(Chars) /\ Len(c) \in Nat
    BY <1>2 DEF Texts
  <2>2. RemoveAt((c \o <<e>>) \o b, Len(c) + 1) = c \o b
    BY <2>1, RemoveBetween
  <2>3. Len(c) + 1 = col
    BY <1>2, <1>3, <2>1
  <2> QED BY <1>1, <1>3, <2>2, <2>3, Zenon
<1>7. Shown(A) \o a = p \o f
  <2> HIDE DEF f
  <2>1. Shown(A) \o (c \o f) = p \o f
    BY <1>2, <1>5, ShownBehind
  <2> QED BY <1>3, <2>1, Zenon DEF f
<1>8. At(lines', row', col', A, c, b, B)
  <2>1. col' = Len(c) /\ lines' = [lines EXCEPT ![row + 1] = c \o b]
    BY <1>2, <1>3, <1>4, <1>6
  <2> QED BY <1>1, <1>2, <1>4, <1>5, <2>1, SetAt
<1>9. Shows(lines', row', col', p, q)
  BY <1>8, AtShows
<1>10. Shows(lines, row, col, p \o <<e>>, q)
  <2>1. Shows(lines, row, col, Shown(A) \o a, q)
    BY <1>1, AtShows
  <2> QED BY <1>7, <2>1, Zenon DEF f
<1>11. p \in Texts
  BY <1>9 DEF Shows
<1> HIDE DEF p, q
<1> QED BY <1>4, <1>9, <1>10, <1>11, TextBackspace

LEMMA DeleteText ==
  ASSUME IInv, col < Len(Line), Edited([lines EXCEPT ![row + 1] = RemoveAt(Line, col + 1)], row, col)
  PROVE  Text!Key
<1>1. PICK A, a, b, B : At(lines, row, col, A, a, b, B) /\ Line = a \o b
  BY CursorAt
<1>2. A \in Lines /\ B \in Lines /\ a \in Texts /\ b \in Seq(Chars) /\ col = Len(a)
  BY <1>1 DEF At, Texts
<1>3. PICK d \in Seq(Chars), e \in Chars : b = <<e>> \o d
  <2>1. Len(b) > 0
    <3>1. Len(a \o b) = Len(a) + Len(b) /\ Len(a) \in Nat /\ Len(b) \in Nat
      BY <1>2, CatTyped DEF Texts
    <3> QED BY <1>1, <1>2, <3>1
  <2> QED BY <1>2, <2>1, FirstOut
<1> DEFINE f == <<e>>
           m == Marked(B)
           p == Shown(A) \o a
           q == d \o m
<1>4. /\ lines' = [lines EXCEPT ![row + 1] = RemoveAt(Line, col + 1)]
      /\ row' = row /\ col' = col /\ UNCHANGED disk
  BY DEF Edited
<1>5. f \in Texts /\ d \in Texts /\ m \in Texts
  BY <1>2, MarkedTyped DEF Texts
<1>6. RemoveAt(Line, col + 1) = a \o d
  <2>1. a \in Seq(Chars)
    BY <1>2 DEF Texts
  <2>2. RemoveAt((a \o <<e>>) \o d, Len(a) + 1) = a \o d
    BY <2>1, RemoveBetween
  <2>3. (a \o f) \o d = a \o (f \o d)
    <3>1. a \in Seq(Chars) /\ f \in Seq(Chars)
      BY <1>2, <1>5 DEF Texts
    <3> HIDE DEF f
    <3> QED BY <3>1, ConcatAssociative
  <2> QED BY <1>1, <1>2, <1>3, <2>2, <2>3, Zenon
<1>7. b \o m = f \o q
  <2> HIDE DEF f, m
  <2>1. (f \o d) \o m = f \o q
    BY <1>5, ConcatAssociative DEF Texts
  <2> QED BY <1>3, <2>1, Zenon DEF f
<1>8. At(lines', row', col', A, a, d, B)
  <2>1. col' = Len(a) /\ lines' = [lines EXCEPT ![row + 1] = a \o d]
    BY <1>2, <1>4, <1>6
  <2> QED BY <1>1, <1>2, <1>4, <1>5, <2>1, SetAt
<1>9. Shows(lines', row', col', p, q)
  BY <1>8, AtShows
<1>10. Shows(lines, row, col, p, <<e>> \o q)
  <2>1. Shows(lines, row, col, p, b \o m)
    BY <1>1, AtShows
  <2> QED BY <1>7, <2>1, Zenon DEF f
<1>11. q \in Texts
  BY <1>9 DEF Shows
<1> HIDE DEF p, q
<1> QED BY <1>4, <1>9, <1>10, <1>11, TextDelete
-----------------------------------------------------------------------------
LEMMA RowIs ==
  ASSUME NEW n \in Nat, NEW r \in 0..n - 1
  PROVE  r \in Nat /\ r + 1 \in 1..n
OBVIOUS

(* Moving stays in the text.                                               *)
LEMMA MovesText ==
  ASSUME IInv, Up \/ Down \/ Left \/ Right \/ Home \/ EndKey
  PROVE  Text!Key
<1>1. UNCHANGED <<lines, disk>>
  BY DEF Up, Down, Left, Right, Home, EndKey, Moved
<1>2. IInv'
  BY MovesKeep
<1>3. lines' \in Lines /\ row' \in Nat /\ row' + 1 \in 1..Len(lines') /\ col' \in 0..Len(lines'[row' + 1])
  <2>1. lines \in Lines /\ Len(lines) \in Nat
    BY LineIs, LinesAre
  <2>2. row' \in 0..Len(lines') - 1 /\ col' \in 0..Len(lines'[row' + 1])
    BY <1>2 DEF IInv, Line
  <2>3. lines' \in Lines /\ Len(lines') \in Nat
    <3>1. lines' = lines
      BY <1>1
    <3> QED BY <2>1, <3>1, Zenon
  <2>4. row' \in Nat /\ row' + 1 \in 1..Len(lines')
    BY <2>2, <2>3, RowIs
  <2> QED BY <2>2, <2>3, <2>4
<1>4. \E A, a, b, B : At(lines', row', col', A, a, b, B)
  BY <1>3, AtOf
<1>5. \E p, q : Shows(lines', row', col', p, q)
  BY <1>4, AtShows
<1> QED BY <1>1, <1>5, TextMove

(* A line cut at the cursor is a newline inserted there.                   *)
LEMMA NoText == <<>> \in Texts /\ Len(<<>>) = 0 /\ \A x \in Texts : <<>> \o x = x /\ x \o <<>> = x
<1>1. <<>> \in Texts /\ Len(<<>>) = 0
  BY EmptySeq DEF Texts
<1>2. \A x \in Seq(Chars) : <<>> \o x = x /\ x \o <<>> = x
  BY ConcatEmptySeq
<1> QED BY <1>1, <1>2 DEF Texts

(* What a cursor at the start of a line has before and behind it.          *)
LEMMA AtStart ==
  ASSUME NEW ls, NEW A \in Seq(Texts), NEW l \in Texts, NEW m \in Texts, NEW B \in Seq(Texts),
         ls = Append(Append(A, l), m) \o B
  PROVE  Shows(ls, Len(A) + 1, 0, (Shown(A) \o l) \o <<NL>>, m \o Marked(B))
<1> DEFINE al == Append(A, l)
<1>0. Lines = Seq(Texts)
  BY DEF Lines, Texts
<1>1. al \in Lines /\ Len(al) = Len(A) + 1
  BY <1>0, AppendProperties
<1>2. Shown(al) = (Shown(A) \o l) \o <<NL>> /\ Shown(al) \in Texts
  BY <1>0, <1>1, ShownIs
<1> HIDE DEF al
<1>3. At(ls, Len(A) + 1, 0, al, <<>>, m, B)
  <2>1. <<>> \o m = m
    BY NoText
  <2>2. ls = Append(al, <<>> \o m) \o B
    BY <2>1, Zenon DEF al
  <2>3. <<>> \in Texts /\ 0 = Len(<<>>)
    BY NoText
  <2> QED BY <1>0, <1>1, <2>2, <2>3, Zenon DEF At
<1>4. Shows(ls, Len(A) + 1, 0, Shown(al) \o <<>>, m \o Marked(B))
  BY <1>3, AtShows
<1>5. Shown(al) \o <<>> = Shown(al)
  BY <1>2, NoText
<1> QED BY <1>2, <1>4, <1>5, Zenon

LEMMA InsertNewlineText ==
  ASSUME IInv, InsertNewline
  PROVE  Text!Key
<1>1. PICK A, a, b, B : At(lines, row, col, A, a, b, B) /\ Line = a \o b
  BY CursorAt
<1>2. A \in Seq(Texts) /\ B \in Seq(Texts) /\ a \in Texts /\ b \in Texts /\ a \o b \in Texts
      /\ lines = Append(A, a \o b) \o B /\ row = Len(A) /\ col = Len(a)
  BY <1>1, AtLine DEF At, Lines, Texts
<1> DEFINE l == a \o b
           p == Shown(A) \o a
           q == b \o Marked(B)
<1>3. SubSeq(Line, 1, col) = a /\ SubSeq(Line, col + 1, Len(Line)) = b
  <2>1. a \in Seq(Chars) /\ b \in Seq(Chars)
    BY <1>2 DEF Texts
  <2>2. SubSeq(l, 1, Len(a)) = a /\ SubSeq(l, Len(a) + 1, Len(a) + Len(b)) = b /\ Len(l) = Len(a) + Len(b)
    BY <2>1, CutConcat, ConcatProperties
  <2> QED BY <1>1, <1>2, <2>2, Zenon
<1>4. /\ lines' = InsertAt([lines EXCEPT ![row + 1] = a], row + 2, b)
      /\ row' = row + 1 /\ col' = 0 /\ UNCHANGED disk
  BY <1>3 DEF InsertNewline, Edited
<1>5. lines' = Append(Append(A, a), b) \o B
  <2>1. l \in Texts /\ lines = Append(A, l) \o B
    BY <1>2
  <2> HIDE DEF l
  <2> DEFINE aa == Append(A, a)
  <2>2. [Append(A, l) \o B EXCEPT ![Len(A) + 1] = a] = aa \o B
    BY <1>2, <2>1, BetweenSet
  <2>3. aa \in Seq(Texts) /\ Len(aa) + 1 = Len(A) + 2
    BY <1>2, AppendProperties
  <2> HIDE DEF aa
  <2>4. InsertAt(aa \o B, Len(aa) + 1, b) = (aa \o <<b>>) \o B
    BY <1>2, <2>3, InsertBetween
  <2>5. aa \o <<b>> = Append(aa, b)
    BY <1>2, <2>3, AppendIsConcat
  <2> QED BY <1>2, <1>4, <2>1, <2>2, <2>3, <2>4, <2>5, Zenon DEF aa
<1>6. Shows(lines, row, col, p, q)
  BY <1>1, AtShows
<1>7. Shows(lines', row', col', p \o <<NL>>, q)
  <2>1. Shows(lines', Len(A) + 1, 0, (Shown(A) \o a) \o <<NL>>, b \o Marked(B))
    BY <1>2, <1>5, AtStart
  <2> QED BY <1>2, <1>4, <2>1, Zenon
<1> HIDE DEF p, q
<1> QED BY <1>4, <1>6, <1>7, TextInsert

(* Two lines that are joined lose the newline between them.                *)
LEMMA JoinShape ==
  ASSUME IInv, NEW i \in 1..Len(lines) - 1
  PROVE  \E A, B \in Seq(Texts), l, m \in Texts :
           /\ lines = Append(Append(A, l), m) \o B
           /\ Len(A) = i - 1 /\ A = SubSeq(lines, 1, i - 1)
           /\ lines[i] = l /\ lines[i + 1] = m
<1> DEFINE A == SubSeq(lines, 1, i - 1)
           l == lines[i]
           m == lines[i + 1]
           B == SubSeq(lines, (i + 1) + 1, Len(lines))
           n == Len(lines)
           k == i + 1
<1>1. lines \in Seq(Texts) /\ n \in Nat
  BY LineIs, LinesAre
<1>2. i - 1 \in 0..n /\ i - 1 < n /\ (i - 1) + 1 = i /\ i \in 0..n /\ i < n /\ k \in 0..n
  BY <1>1
<1> HIDE DEF n
<1>3. A \in Seq(Texts) /\ Len(A) = i - 1 /\ l \in Texts /\ SubSeq(lines, 1, i) = Append(A, l)
  <2> DEFINE j == i - 1
  <2>1. j \in 0..n /\ j < n /\ j + 1 = i
    BY <1>2
  <2> HIDE DEF j
  <2>2. /\ SubSeq(lines, 1, j) \in Seq(Texts) /\ Len(SubSeq(lines, 1, j)) = j
        /\ lines[j + 1] \in Texts
        /\ SubSeq(lines, 1, j + 1) = Append(SubSeq(lines, 1, j), lines[j + 1])
    BY <1>1, <2>1, PrefixStep DEF n
  <2> QED BY <2>1, <2>2, Zenon DEF j
<1>4. m \in Texts /\ SubSeq(lines, 1, k) = Append(SubSeq(lines, 1, i), m)
  BY <1>1, <1>2, PrefixStep DEF n
<1>5. B \in Seq(Texts) /\ lines = SubSeq(lines, 1, k) \o B
  <2> HIDE DEF k
  <2>1. LET q == SubSeq(lines, k + 1, Len(lines)) IN q \in Seq(Texts) /\ lines = SubSeq(lines, 1, k) \o q
    BY <1>1, <1>2, CutAt DEF n
  <2> QED BY <2>1 DEF k
<1>6. lines = Append(Append(A, l), m) \o B
  <2> HIDE DEF A, l, m, B, k
  <2> QED BY <1>3, <1>4, <1>5, Zenon
<1>7. A = SubSeq(lines, 1, i - 1) /\ lines[i] = l /\ lines[i + 1] = m
  OBVIOUS
<1> HIDE DEF A, l, m, B
<1> QED BY <1>3, <1>4, <1>5, <1>6, <1>7

LEMMA NewlineBetween ==
  \A x, y \in Texts : (x \o <<NL>>) \o y = x \o (<<NL>> \o y)
<1> DEFINE e == <<NL>>
<1>1. e \in Texts
  BY NLIs DEF Texts
<1> HIDE DEF e
<1>2. \A x, y \in Texts : (x \o e) \o y = x \o (e \o y)
  BY <1>1, Regroup, Zenon
<1> QED BY <1>2 DEF e

(* Backspace at the start of the second line and Delete at the end of the  *)
(* first take out the same newline.                                        *)
LEMMA JoinText ==
  ASSUME IInv, NEW i \in 1..Len(lines) - 1, NEW r, NEW c, r = i - 1, c = Len(lines[i]),
         lines' = Joined(i), row' = r, col' = c, UNCHANGED disk,
         \/ row = i /\ col = 0
         \/ row = r /\ col = c
  PROVE  Text!Key
<1>1. PICK A, B \in Seq(Texts), l, m \in Texts :
           /\ lines = Append(Append(A, l), m) \o B
           /\ Len(A) = i - 1 /\ A = SubSeq(lines, 1, i - 1)
           /\ lines[i] = l /\ lines[i + 1] = m
  BY JoinShape
<1> DEFINE j == l \o m
           s == Shown(A)
           p == s \o l
           q == m \o Marked(B)
<1>0. Lines = Seq(Texts) /\ Len(A) + 1 = i
  BY <1>1 DEF Lines, Texts
<1>2. j \in Texts
  BY CatTyped
<1>3. lines' = Append(A, j) \o B
  <2>1. Joined(i) = [RemoveAt(lines, i) EXCEPT ![i] = j]
    BY <1>1, Zenon DEF Joined
  <2> HIDE DEF j
  <2>2. [RemoveAt(Append(Append(A, l), m) \o B, Len(A) + 1) EXCEPT ![Len(A) + 1] = j]
        = Append(A, j) \o B
    BY <1>2, BetweenJoin
  <2> QED BY <1>0, <1>1, <2>1, <2>2, Zenon
<1>4. Shows(lines', row', col', p, q)
  <2>1. At(lines', row', col', A, l, m, B)
    BY <1>0, <1>1, <1>3, Zenon DEF At
  <2> QED BY <2>1, AtShows
<1>5. Shows(lines, i, 0, p \o <<NL>>, q)
  BY <1>0, <1>1, AtStart
<1>6. p \in Texts /\ q \in Texts /\ NL \in Chars
  BY <1>4, Limits DEF Shows
<1>7. CASE row = i /\ col = 0
  <2>1. Shows(lines, row, col, p \o <<NL>>, q)
    BY <1>5, <1>7
  <2> HIDE DEF p, q
  <2> QED BY <1>4, <1>6, <2>1, TextBackspace
<1>8. CASE row = r /\ col = c
  <2>1. FlatOf(lines) = p \o (<<NL>> \o q)
    <3> HIDE DEF p, q
    <3>1. FlatOf(lines) = (p \o <<NL>>) \o q
      BY <1>5 DEF Shows
    <3>2. (p \o <<NL>>) \o q = p \o (<<NL>> \o q)
      BY <1>6, NewlineBetween, Zenon
    <3> QED BY <3>1, <3>2, Zenon
  <2>2. BeforeOf(lines, row, col) = Len(p)
    <3>1. Len(s) = Len(FlattenSeq(A)) + Len(A) /\ s \in Texts
      BY <1>0, ShownIs
    <3>2. Len(p) = Len(s) + Len(l)
      BY <3>1, CatTyped
    <3>3. BeforeOf(lines, row, col) = Len(FlattenSeq(A)) + Len(A) + Len(l)
      BY <1>1, <1>8, Zenon DEF BeforeOf
    <3> HIDE DEF s, p
    <3> QED BY <3>1, <3>2, <3>3
  <2> HIDE DEF p, q
  <2>3. <<NL>> \o q \in Texts
    BY <1>6, NLIs, CatTyped DEF Texts
  <2>4. Shows(lines, row, col, p, <<NL>> \o q)
    BY <1>6, <2>1, <2>2, <2>3, Zenon DEF Shows
  <2> QED BY <1>4, <1>6, <2>4, TextDelete
<1> QED BY <1>7, <1>8
-----------------------------------------------------------------------------
(* What a save has written of the first k lines: all they show while the   *)
(* buffer has room, then no more than that, up to a newline.               *)
Written(ls, k) ==
  LET a == SaveOf(SubSeq(ls, 1, k))
      w == Shown(SubSeq(ls, 1, k))
  IN  /\ a \in Acc /\ w \in Texts /\ Len(a.out) < IoBuf
      /\ \E rest \in Texts : w = a.out \o rest
      /\ a.out # <<>> => a.out[Len(a.out)] = NL
      /\ ~a.full => w = a.out
      /\ a.full => Len(w) >= IoBuf

LEMMA ShownNothing == Shown(<<>>) = <<>>
<1>1. Marked(<<>>) \o <<NL>> = <<NL>>
  <2> DEFINE e == <<NL>>
  <2>1. e \in Seq(Chars)
    BY NLIs
  <2> HIDE DEF e
  <2>2. <<>> \o e = e
    BY <2>1, ConcatEmptySeq
  <2> QED BY <2>2, MarkedEmpty DEF e
<1>2. Tail(<<NL>>) = <<>>
  OBVIOUS
<1> QED BY <1>1, <1>2 DEF Shown

LEMMA WrittenNothing ==
  ASSUME NEW ls
  PROVE  Written(ls, 0)
<1> DEFINE a == SaveOf(SubSeq(ls, 1, 0))
           w == Shown(SubSeq(ls, 1, 0))
<1>1. a = NoLine /\ w = <<>>
  BY NoPrefix, SaveEmpty, ShownNothing, Zenon
<1> HIDE DEF a, w
<1>2. a \in Acc /\ a.out = <<>> /\ ~a.full /\ w \in Texts /\ Len(a.out) = 0
  BY <1>1, EmptySeq DEF NoLine, Acc, Texts
<1>3. \E rest \in Texts : w = a.out \o rest
  <2>1. <<>> \in Texts /\ <<>> = <<>> \o <<>>
    BY NoText, Zenon
  <2> QED BY <1>1, <1>2, <2>1
<1>4. Len(a.out) < IoBuf
  BY <1>2, Limits
<1> QED BY <1>1, <1>2, <1>3, <1>4, Zenon DEF Written, a, w

(* Two texts and a newline.                                                *)
LEMMA ThreeTyped ==
  ASSUME NEW x \in Texts, NEW y \in Texts
  PROVE  LET z == (x \o y) \o <<NL>>
         IN  /\ z \in Texts /\ Len(z) = Len(x) + Len(y) + 1 /\ z # <<>> /\ z[Len(z)] = NL
             /\ Len(x) \in Nat /\ Len(y) \in Nat
<1> DEFINE xy == x \o y
           z == Append(xy, NL)
<1>1. xy \in Seq(Chars) /\ Len(xy) = Len(x) + Len(y) /\ Len(x) \in Nat /\ Len(y) \in Nat
  BY CatTyped DEF Texts
<1> HIDE DEF xy
<1>2. z = xy \o <<NL>> /\ z \in Seq(Chars) /\ z # <<>> /\ Len(z) = Len(xy) + 1 /\ z[Len(xy) + 1] = NL
  BY <1>1, NLIs, AppendIsConcat, AppendProperties
<1> HIDE DEF z
<1> QED BY <1>1, <1>2, Zenon DEF Texts, xy

(* A line more.                                                            *)
LEMMA WrittenLine ==
  ASSUME NEW ls \in Seq(TextLine), NEW k \in 0..Len(ls), k < Len(ls), Written(ls, k)
  PROVE  Written(ls, k + 1)
<1> DEFINE p == SubSeq(ls, 1, k)
           l == ls[k + 1]
           pl == SubSeq(ls, 1, k + 1)
           a == SaveOf(p)
           b == SaveOf(pl)
           w == Shown(p)
           v == Shown(pl)
<1>1. p \in Seq(TextLine) /\ l \in TextLine /\ pl = Append(p, l)
  BY PrefixStep
<1>2. /\ a \in Acc /\ w \in Texts /\ Len(a.out) < IoBuf
      /\ \E rest \in Texts : w = a.out \o rest
      /\ a.out # <<>> => a.out[Len(a.out)] = NL
      /\ ~a.full => w = a.out
      /\ a.full => Len(w) >= IoBuf
  BY Zenon DEF Written
<1>3. l \in Texts /\ p \in Lines
  <2>1. TextLine \subseteq Texts
    <3>1. \A x \in Seq(Plain) : x \in Seq(Chars)
      BY SeqMonotonic DEF Plain
    <3> QED BY <3>1 DEF TextLine, Texts
  <2>2. p \in Seq(Texts)
    BY <1>1, <2>1, SeqMonotonic
  <2> QED BY <1>1, <2>1, <2>2 DEF Lines, Texts
<1> HIDE DEF p, l, pl
<1>4. b = SaveLine(a, l)
  BY <1>1, SaveAppend
<1>5. v = (w \o l) \o <<NL>>
  BY <1>1, <1>3, ShownIs
<1> HIDE DEF a, b, w, v
<1> DEFINE o == a.out
<1>6. o \in Texts /\ Len(o) \in Nat /\ a.full \in BOOLEAN /\ IoBuf \in Nat
  BY <1>2, Limits DEF Acc, Texts
<1>7. /\ v \in Texts /\ Len(v) = Len(w) + Len(l) + 1 /\ v # <<>> /\ v[Len(v)] = NL
      /\ Len(w) \in Nat /\ Len(l) \in Nat
  BY <1>2, <1>3, <1>5, ThreeTyped
<1>8. CASE a.full \/ ~(Len(a.out) + Len(l) + 1 < IoBuf)
  <2>1. b \in Acc /\ b.full /\ b.out = o
    BY <1>1, <1>2, <1>4, <1>8, SaveStep, Zenon
  <2>2. Len(v) >= IoBuf
    <3>1. CASE a.full
      BY <1>2, <1>6, <1>7, <3>1
    <3>2. CASE ~a.full
      <4>1. Len(w) = Len(a.out)
        BY <1>2, <3>2
      <4> QED BY <1>6, <1>7, <1>8, <3>2, <4>1
    <3> QED BY <3>1, <3>2
  <2>3. \E rest \in Texts : v = o \o rest
    <3>1. PICK rest \in Texts : w = o \o rest
      BY <1>2
    <3> HIDE DEF o
    <3> DEFINE e == <<NL>>
               r1 == rest \o l
               r2 == r1 \o e
    <3>2. e \in Texts
      BY NLIs DEF Texts
    <3>3. r1 \in Texts /\ r2 \in Texts
      BY <1>3, <3>2, Regroup, Zenon
    <3>4. v = o \o r2
      <4>1. v = ((o \o rest) \o l) \o e
        BY <1>5, <3>1, Zenon
      <4> HIDE DEF e
      <4>2. ((o \o rest) \o l) \o e = o \o ((rest \o l) \o e)
        <5>1. Cat(Cat(Cat(o, rest), l), e) = Cat(o, Cat(Cat(rest, l), e))
          BY <1>3, <1>6, <3>2, CatAssoc
        <5> QED BY <5>1, Zenon DEF Cat
      <4> QED BY <4>1, <4>2, Zenon
    <3> QED BY <3>3, <3>4
  <2> QED BY <1>2, <1>7, <2>1, <2>2, <2>3, Zenon DEF Written, b, v, pl
<1>9. CASE ~a.full /\ Len(a.out) + Len(l) + 1 < IoBuf
  <2>1. b \in Acc /\ ~b.full /\ b.out = (o \o l) \o <<NL>>
    BY <1>1, <1>2, <1>4, <1>9, SaveStep, Zenon
  <2>2. w = o
    BY <1>2, <1>9
  <2>3. b.out = v
    BY <1>5, <2>1, <2>2, Zenon
  <2>4. Len(v) < IoBuf
    BY <1>6, <1>7, <1>9, <2>2
  <2>5. \E rest \in Texts : v = v \o rest
    <3>1. v = v \o <<>> /\ <<>> \in Texts
      BY <1>7, NoText, Zenon
    <3> QED BY <3>1
  <2> QED BY <1>7, <2>1, <2>3, <2>4, <2>5, Zenon DEF Written, b, v, pl
<1> QED BY <1>8, <1>9

(* All lines: the text and its newline at the end, or less if it is too    *)
(* long.                                                                   *)
LEMMA WrittenAll ==
  ASSUME IInv
  PROVE  /\ Saved(lines) \in Texts /\ Append(Flat, NL) \in Texts
         /\ Len(Saved(lines)) < IoBuf
         /\ \E rest \in Texts : Append(Flat, NL) = Saved(lines) \o rest
         /\ Saved(lines) # <<>> => Saved(lines)[Len(Saved(lines))] = NL
         /\ Len(Append(Flat, NL)) < IoBuf => Append(Flat, NL) = Saved(lines)
<1> DEFINE n == Len(lines)
           G == {k \in 0..n : Written(lines, k)}
           all == Append(Flat, NL)
<1>1. lines \in Seq(TextLine) /\ n \in Nat /\ SubSeq(lines, 1, n) = lines /\ lines \in Lines
  BY LineIs, LinesAre, SubSeqFull
<1>2. 0 \in G
  BY <1>1, WrittenNothing
<1>3. ASSUME NEW k \in 0..n, k < n, k \in G PROVE k + 1 \in G
  <2>1. k + 1 \in 0..n
    BY <1>1, <1>3
  <2> QED BY <1>1, <1>3, <2>1, WrittenLine
<1>4. n \in G
  <2>1. \A k \in 0..n : k < n /\ k \in G => k + 1 \in G
    BY <1>3, Zenon
  <2> HIDE DEF n, G
  <2> QED BY <1>1, <1>2, <2>1, UpTo
<1>5. Written(lines, n)
  BY <1>4
<1>6. all = Shown(lines)
  <2>1. PICK A, a, b, B : At(lines, row, col, A, a, b, B)
    BY CursorAt
  <2>2. Flat = FlatOf(lines) /\ Flat \in Texts
    <3>1. Shows(lines, row, col, Shown(A) \o a, b \o Marked(B))
      BY <2>1, AtShows
    <3> DEFINE p == Shown(A) \o a
               q == b \o Marked(B)
    <3>2. Flat = FlatOf(lines) /\ Flat = p \o q /\ p \in Texts /\ q \in Texts
      BY <3>1, Zenon DEF Shows, FlatOf, Marked, Flat
    <3> HIDE DEF p, q
    <3> QED BY <3>2, Regroup, Zenon
  <2>3. all = Flat \o <<NL>>
    BY <2>2, NLIs, AppendIsConcat DEF Texts
  <2>4. Marked(lines) \in Texts /\ Len(Marked(lines)) > 0 /\ <<NL>> \in Texts
    <3>1. Len(Marked(lines)) = Len(FlattenSeq(lines)) + n /\ FlattenSeq(lines) \in Seq(Chars) /\ n > 0
      BY <1>1, MarkedLen, FlattenTyped, LineIs DEF Lines
    <3> DEFINE f == FlattenSeq(lines)
    <3>2. Len(f) \in Nat
      BY <3>1
    <3> HIDE DEF f, n
    <3>3. Len(Marked(lines)) > 0
      BY <1>1, <3>1, <3>2 DEF f
    <3> QED BY <1>1, <3>3, MarkedTyped, NLIs DEF Texts
  <2>5. Tail(Marked(lines) \o <<NL>>) = Tail(Marked(lines)) \o <<NL>>
    <3> DEFINE m == Marked(lines)
               e == <<NL>>
    <3> HIDE DEF m, e
    <3>1. m \in Texts /\ Len(m) > 0 /\ e \in Texts
      BY <2>4 DEF m, e
    <3>2. Tail(m \o e) = Tail(m) \o e
      BY <3>1, TailConcat
    <3> QED BY <3>2 DEF m, e
  <2> QED BY <2>2, <2>3, <2>5, Zenon DEF Shown, FlatOf
<1> DEFINE s == SaveOf(lines)
<1>7. /\ s \in Acc /\ all \in Texts /\ Len(s.out) < IoBuf
      /\ \E rest \in Texts : all = s.out \o rest
      /\ s.out # <<>> => s.out[Len(s.out)] = NL
      /\ ~s.full => all = s.out
      /\ s.full => Len(all) >= IoBuf
  BY <1>1, <1>5, <1>6, Zenon DEF Written
<1>8. Saved(lines) = s.out
  BY <1>1, SaveTyped
<1> HIDE DEF s, all
<1>9. Len(all) \in Nat /\ IoBuf \in Nat /\ s.out \in Texts
  BY <1>7, Limits DEF Acc, Texts
<1>10. Len(all) < IoBuf => ~s.full
  BY <1>7, <1>9
<1> QED BY <1>7, <1>8, <1>9, <1>10, Zenon DEF all
-----------------------------------------------------------------------------
(* A key is a key of the text.                                             *)
LEMMA KeysText ==
  ASSUME IInv, Keys
  PROVE  Text!Key
<1> USE LineIs
<1>1. CASE Up \/ Down \/ Left \/ Right \/ Home \/ EndKey
  BY <1>1, MovesText
<1>2. CASE Typing
  BY <1>2, InsertCharText, InsertNewlineText DEF Typing
<1>3. CASE Backspace
  <2>1. CASE col > 0 /\ Edited([lines EXCEPT ![row + 1] = RemoveAt(Line, col)], row, col - 1)
    BY <2>1, BackspaceText
  <2>2. CASE col = 0 /\ row > 0 /\ Edited(Joined(row), row - 1, Len(lines[row]))
    <3>1. row \in 1..Len(lines) - 1
      BY <2>2
    <3>2. lines' = Joined(row) /\ row' = row - 1 /\ col' = Len(lines[row]) /\ UNCHANGED disk
      BY <2>2 DEF Edited
    <3> QED BY <2>2, <3>1, <3>2, JoinText
  <2> QED BY <1>3, <2>1, <2>2 DEF Backspace
<1>4. CASE DeleteForward
  <2>1. CASE col < Len(Line) /\ Edited([lines EXCEPT ![row + 1] = RemoveAt(Line, col + 1)], row, col)
    BY <2>1, DeleteText
  <2>2. CASE col = Len(Line) /\ row < Len(lines) - 1 /\ Edited(Joined(row + 1), row, col)
    <3>1. row + 1 \in 1..Len(lines) - 1 /\ (row + 1) - 1 = row /\ Line = lines[row + 1]
      BY <2>2
    <3>2. lines' = Joined(row + 1) /\ row' = row /\ col' = col /\ UNCHANGED disk
      BY <2>2 DEF Edited
    <3> DEFINE i == row + 1
    <3>3. i \in 1..Len(lines) - 1 /\ row = i - 1 /\ col = Len(lines[i]) /\ lines' = Joined(i)
      BY <2>2, <3>1, <3>2
    <3> HIDE DEF i
    <3> QED BY <3>2, <3>3, JoinText
  <2> QED BY <1>4, <2>1, <2>2 DEF DeleteForward
<1> QED BY <1>1, <1>2, <1>3, <1>4 DEF Keys

(* A save is a save of the text, or fails and leaves the text alone.       *)
LEMMA SaveText ==
  ASSUME IInv, disk' = Saved(lines), UNCHANGED <<lines, row, col>>
  PROVE  Text!Save
<1> DEFINE all == Append(Flat, NL)
           out == Saved(lines)
<1>1. /\ out \in Texts /\ all \in Texts
      /\ Len(out) < IoBuf
      /\ \E rest \in Texts : all = out \o rest
      /\ out # <<>> => out[Len(out)] = NL
      /\ Len(all) < IoBuf => all = out
  BY WrittenAll
<1>2. Flat' = Flat /\ Before' = Before
  BY DEF Flat, Before
<1> HIDE DEF out, all
<1>3. Len(out) <= Len(all) /\ SubSeq(out, 1, Len(out)) = SubSeq(all, 1, Len(out))
  <2>1. PICK rest \in Texts : all = out \o rest
    BY <1>1
  <2>2. Len(all) = Len(out) + Len(rest) /\ Len(out) \in Nat /\ Len(rest) \in Nat
    BY <1>1, <2>1, CatTyped
  <2>3. SubSeq(out \o rest, 1, Len(out)) = out /\ SubSeq(out, 1, Len(out)) = out
    BY <1>1, CutConcat, SubSeqFull DEF Texts
  <2> QED BY <2>1, <2>2, <2>3
<1>4. disk' = out
  BY DEF out
<1> QED BY <1>1, <1>2, <1>3, <1>4, Zenon DEF Text!Save, Text!IsPrefix, Text!Last, all

LEMMA WriteText ==
  ASSUME IInv, NEW ok \in BOOLEAN, Write(ok), UNCHANGED <<lines, row, col>>
  PROVE  (disk' \in {disk, Lost} /\ UNCHANGED <<Flat, Before>>) \/ Text!Save
<1>1. CASE ok
  <2>1. disk' = Saved(lines)
    BY <1>1 DEF Write
  <2> QED BY <2>1, SaveText
<1>2. CASE ~ok
  <2>1. disk' \in {disk, Lost}
    BY <1>2 DEF Write
  <2>2. UNCHANGED <<Flat, Before>>
    BY DEF Flat, Before
  <2> QED BY <2>1, <2>2
<1> QED BY <1>1, <1>2

(* The array of lines with its cursor behaves as one text edited at one    *)
(* place: each key that editor_run handles inserts or takes out the one    *)
(* letter before or behind the cursor, or moves it within the text;        *)
(* editor_save writes that text, or as much of it as fits up to a newline. *)
THEOREM EditsLikeAText == Spec => ImplementsTextBuffer
<1> DEFINE A == open /\ open' => \/ disk' \in {disk, Lost} /\ UNCHANGED <<Flat, Before>>
                                 \/ Text!Key
                                 \/ Text!Save
<1>1. IInv /\ [Next]_vars => [A]_vars
  <2> SUFFICES ASSUME IInv, Next, open, open'
               PROVE  \/ disk' \in {disk, Lost} /\ UNCHANGED <<Flat, Before>>
                      \/ Text!Key
                      \/ Text!Save
    OBVIOUS
  <2>1. CASE Keys
    BY <2>1, KeysText
  <2>2. ASSUME NEW ok \in BOOLEAN, F2(ok) \/ CtrlR(ok)
        PROVE  (disk' \in {disk, Lost} /\ UNCHANGED <<Flat, Before>>) \/ Text!Save
    <3>1. Write(ok) /\ UNCHANGED <<lines, row, col>>
      BY <2>2 DEF F2, CtrlR
    <3> QED BY <3>1, WriteText
  <2>3. CASE Open \/ Esc
    BY <2>3 DEF Open, Esc
  <2> QED BY <2>1, <2>2, <2>3 DEF Next
<1> QED BY <1>1, InductiveInvariant, PTL DEF Spec, ImplementsTextBuffer
=============================================================================
