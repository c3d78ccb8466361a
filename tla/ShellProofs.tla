---------------------------- MODULE ShellProofs -----------------------------
(***************************************************************************)
(* Proofs about the shell, for words, lines, volumes and limits of any     *)
(* number.  IInv is inductive and has three parts.  HistInv: the ring of   *)
(* the history, its counters and the lines entered so far, HistoryShows    *)
(* among them.  IsWorld: what a line may change, each part with a bound of *)
(* its own (Standing, Shown, Values, Known).  ScriptInv: a table of lines  *)
(* in which every activation of exec_block lies, a loop's done behind its  *)
(* for.                                                                    *)
(*                                                                         *)
(* Said is a fold.  What it computes is proved by induction on a number of *)
(* steps, and that from the least counterexample (NatMin, UpTo).           *)
(***************************************************************************)
EXTENDS Shell, SequenceTheorems, FiniteSetTheorems, WellFoundedInduction, TLAPS

(* The least element of a set of naturals.                                 *)
LEMMA NatMin ==
  ASSUME NEW T \in SUBSET Nat, T # {}
  PROVE  \E m \in T : \A k \in T : m <= k
<1>1. PICK m \in T : \A k \in T : ~(<<k, m>> \in OpToRel(<, Nat))
  BY WFMin, NatLessThanWellFounded, Zenon
<1>2. \A k \in T : ~(k < m)
  BY <1>1, Zenon DEF OpToRel
<1> QED BY <1>2

LEMMA MinIs ==
  ASSUME NEW T \in SUBSET Nat, T # {}
  PROVE  Min(T) \in T /\ \A k \in T : Min(T) <= k
<1>1. \E m \in T : \A k \in T : m <= k
  BY NatMin
<1> QED BY <1>1 DEF Min

(* Induction up to n, over the set of the numbers for which a fact holds.  *)
LEMMA UpTo ==
  ASSUME NEW n \in Nat, NEW G, 0 \in G,
         \A k \in 0..n : k < n /\ k \in G => k + 1 \in G
  PROVE  \A k \in 0..n : k \in G
<1> SUFFICES ASSUME NEW k \in 0..n, k \notin G PROVE FALSE
  OBVIOUS
<1> DEFINE T == {i \in 0..n : i \notin G}
<1>1. T \in SUBSET Nat /\ T # {}
  OBVIOUS
<1>2. PICK m \in T : \A i \in T : m <= i
  BY <1>1, NatMin
<1>3. m # 0 /\ m \in 0..n
  OBVIOUS
<1>4. m - 1 \in 0..n /\ m - 1 < n /\ m - 1 \notin T
  BY <1>2, <1>3
<1> QED BY <1>3, <1>4

LEMMA MaxOfUpTo ==
  ASSUME NEW n \in Nat, NEW s \in SUBSET (1..n), n \in s
  PROVE  Max(s) = n
<1>1. \A x \in s : n >= x
  OBVIOUS
<1>2. \A x \in s : (\A y \in s : x >= y) => x = n
  OBVIOUS
<1> QED BY <1>1, <1>2 DEF Max
-----------------------------------------------------------------------------
(* Said, the lines that the history is about, as FoldLeft computes it: on  *)
(* no lines it is empty, and one more line is one more step of AddSaid.    *)
IsSaidFold(g, s, n) ==
  g = [t \in SUBSET (1..n) |->
         IF t = {} THEN <<>> ELSE AddSaid(g[t \ {Max(t)}], s[Max(t)])]

(* The function that FoldLeft chooses exists.                              *)
LEMMA SaidFoldExists ==
  ASSUME NEW s, NEW n \in Nat
  PROVE  \E g : IsSaidFold(g, s, n)
<1> DEFINE G == {k \in 0..n : \E g : IsSaidFold(g, s, k)}
<1>1. 0 \in G
  <2> DEFINE g == [t \in SUBSET (1..0) |-> <<>>]
  <2>1. \A t \in SUBSET (1..0) : t = {}
    OBVIOUS
  <2>2. IsSaidFold(g, s, 0)
    BY <2>1, Zenon DEF IsSaidFold
  <2> QED BY <2>2
<1>2. ASSUME NEW k \in 0..n, k < n, k \in G PROVE k + 1 \in G
  <2>1. PICK g : IsSaidFold(g, s, k)
    BY <1>2
  <2> DEFINE m == k + 1
             h == [t \in SUBSET (1..m) |-> IF m \in t THEN AddSaid(g[t \ {m}], s[m]) ELSE g[t]]
  <2>2. ASSUME NEW t \in SUBSET (1..m)
        PROVE  h[t] = IF t = {} THEN <<>> ELSE AddSaid(h[t \ {Max(t)}], s[Max(t)])
    <3>1. CASE m \in t
      <4>1. Max(t) = m
        BY <3>1, MaxOfUpTo
      <4>2. t \ {m} \in SUBSET (1..m) /\ m \notin t \ {m}
        OBVIOUS
      <4>3. h[t \ {m}] = g[t \ {m}]
        BY <4>2, Zenon
      <4> QED BY <3>1, <4>1, <4>3, Zenon
    <3>2. CASE m \notin t
      <4>1. t \in SUBSET (1..k)
        BY <3>2
      <4>2. t \ {Max(t)} \in SUBSET (1..m) /\ m \notin t \ {Max(t)} /\ t \ {Max(t)} \in SUBSET (1..k)
        BY <3>2, <4>1
      <4>3. h[t] = g[t] /\ h[t \ {Max(t)}] = g[t \ {Max(t)}]
        BY <3>2, <4>2, Zenon
      <4>4. g[t] = IF t = {} THEN <<>> ELSE AddSaid(g[t \ {Max(t)}], s[Max(t)])
        BY <2>1, <4>1, Zenon DEF IsSaidFold
      <4> QED BY <4>3, <4>4, Zenon
    <3> QED BY <3>1, <3>2, Zenon
  <2>3. IsSaidFold(h, s, m)
    <3>1. h = [t \in SUBSET (1..m) |-> h[t]]
      BY Zenon
    <3> HIDE DEF m, h
    <3> QED BY <2>2, <3>1, Zenon DEF IsSaidFold
  <2> HIDE DEF h
  <2>4. k + 1 \in 0..n
    BY <1>2
  <2> QED BY <2>3, <2>4, Zenon
<1> HIDE DEF G
<1>3. n \in G
  BY <1>1, <1>2, UpTo
<1> QED BY <1>3 DEF G

(* What is said, as a table of the steps.                                  *)
LEMMA SaidFold ==
  ASSUME NEW S, NEW s \in Seq(S)
  PROVE  \E r : /\ r[0] = <<>>
                /\ \A k \in 1..Len(s) : r[k] = AddSaid(r[k - 1], s[k])
                /\ Said(s) = r[Len(s)]
<1> DEFINE n == Len(s)
           g == CHOOSE f : IsSaidFold(f, s, n)
           r == [k \in 0..n |-> g[1..k]]
<1>0. n \in Nat /\ DOMAIN s = 1..n
  OBVIOUS
<1>1. IsSaidFold(g, s, n)
  BY <1>0, SaidFoldExists, Zenon
<1>2. Said(s) = g[1..n]
  BY <1>0, Zenon DEF Said, FoldLeft, MapThenFoldSet, IsSaidFold
<1> HIDE DEF g, n
<1>3. r[0] = <<>>
  <2>1. 1..0 = {} /\ {} \in SUBSET (1..n) /\ 0 \in 0..n
    BY <1>0
  <2>2. g[{}] = <<>>
    BY <1>1, <2>1, Zenon DEF IsSaidFold
  <2> QED BY <2>1, <2>2
<1>4. ASSUME NEW k \in 1..n PROVE r[k] = AddSaid(r[k - 1], s[k])
  <2>1. 1..k \in SUBSET (1..n) /\ (1..k) # {} /\ k \in 1..k /\ k \in Nat
    BY <1>0
  <2>2. Max(1..k) = k
    BY <2>1, MaxOfUpTo
  <2>3. (1..k) \ {k} = 1..(k - 1)
    BY <1>0
  <2>4. g[1..k] = AddSaid(g[1..(k - 1)], s[k])
    BY <1>1, <2>1, <2>2, <2>3, Zenon DEF IsSaidFold
  <2>5. k \in 0..n /\ k - 1 \in 0..n
    BY <1>0
  <2> QED BY <2>4, <2>5, Zenon
<1>5. Said(s) = r[n]
  BY <1>0, <1>2
<1> QED BY <1>3, <1>4, <1>5, Zenon DEF n

(* One line more, on top of what was said before it.                       *)
LEMMA SaidAppend ==
  ASSUME NEW S, NEW s \in Seq(S), NEW c \in S
  PROVE  Said(Append(s, c)) = AddSaid(Said(s), c)
<1> DEFINE n == Len(s)
           a == Append(s, c)
<1>0. n \in Nat /\ a \in Seq(S) /\ Len(a) = n + 1 /\ a[n + 1] = c /\ \A i \in 1..n : a[i] = s[i]
  BY AppendProperties
<1>1. PICK r : /\ r[0] = <<>>
               /\ \A k \in 1..n : r[k] = AddSaid(r[k - 1], s[k])
               /\ Said(s) = r[n]
  BY SaidFold
<1> HIDE DEF a
<1>2. PICK q : /\ q[0] = <<>>
               /\ \A k \in 1..(n + 1) : q[k] = AddSaid(q[k - 1], a[k])
               /\ Said(a) = q[n + 1]
  BY <1>0, SaidFold
<1> DEFINE G == {k \in 0..n : q[k] = r[k]}
<1> HIDE DEF n
<1>3. 0 \in G
  BY <1>0, <1>1, <1>2
<1>4. ASSUME NEW k \in 0..n, k < n, k \in G PROVE k + 1 \in G
  <2>1. k + 1 \in 1..n /\ k + 1 \in 1..(n + 1) /\ k + 1 \in 0..n /\ (k + 1) - 1 = k
    BY <1>0, <1>4
  <2>2. q[k + 1] = AddSaid(q[k], a[k + 1]) /\ r[k + 1] = AddSaid(r[k], s[k + 1])
    BY <1>1, <1>2, <2>1, Zenon
  <2>3. q[k] = r[k] /\ a[k + 1] = s[k + 1]
    BY <1>0, <1>4, <2>1
  <2> QED BY <2>1, <2>2, <2>3, Zenon
<1> HIDE DEF G
<1>5. n \in G
  <2>1. n \in Nat /\ n \in 0..n
    BY <1>0
  <2>2. \A k \in 0..n : k < n /\ k \in G => k + 1 \in G
    BY <1>4, Zenon
  <2> QED BY <1>3, <2>1, <2>2, UpTo, Zenon
<1>6. q[n] = r[n]
  BY <1>5 DEF G
<1>7. n + 1 \in 1..(n + 1) /\ (n + 1) - 1 = n
  BY <1>0
<1>8. q[n + 1] = AddSaid(q[n], c)
  BY <1>0, <1>2, <1>7, Zenon
<1> QED BY <1>1, <1>2, <1>6, <1>8, Zenon DEF a

LEMMA SaidEmpty == Said(<<>>) = <<>>
<1>1. << >> \in Seq({}) /\ Len(<< >>) = 0
  BY EmptySeq
<1> QED BY <1>1, SaidFold
-----------------------------------------------------------------------------
(* Lines of words, and those that the prompt's buffer holds.               *)
Text == Seq(Strings)
Typed == {line \in Text : Len(line) <= MaxLine}

LEMMA Bounds ==
  /\ MaxLine \in Nat \ {0} /\ HistSize \in Nat \ {0} /\ MaxVars \in Nat \ {0} /\ MaxDepth \in Nat \ {0}
  /\ MaxUsers \in Nat \ {0} /\ MaxScript \in Nat \ {0} /\ MaxEntered \in Nat \ {0}
<1>1. {MaxLine, HistSize, MaxVars, MaxDepth, MaxUsers, MaxScript, MaxEntered} \subseteq Nat \ {0}
  BY ShellAssumption, Zenon
<1> QED BY <1>1

LEMMA MinOfTwo ==
  ASSUME NEW a \in Nat, NEW b \in Nat
  PROVE  Min({a, b}) = IF a <= b THEN a ELSE b
<1>1. Min({a, b}) \in {a, b} /\ \A k \in {a, b} : Min({a, b}) <= k
  BY MinIs
<1> QED BY <1>1

(* The place of the k-th line before the one at n, without %.              *)
Back(n, k) == IF n - 1 - k >= 0 THEN n - 1 - k ELSE n - 1 - k + HistSize

LEMMA BackIs ==
  ASSUME NEW n \in 0..HistSize - 1, NEW k \in 0..HistSize - 1
  PROVE  (n - 1 - k) % HistSize = Back(n, k) /\ Back(n, k) \in 0..HistSize - 1
<1> DEFINE a == n - 1 - k
           q == a \div HistSize
           r == a % HistSize
<1>1. HistSize \in Nat /\ HistSize >= 1
  BY Bounds
<1>2. a \in Int /\ -HistSize <= a /\ a < HistSize
  BY <1>1
<1>3. q \in Int /\ r \in 0..HistSize - 1 /\ a = HistSize * q + r
  BY <1>1, <1>2
<1> HIDE DEF q, r, a
<1>4. q \in {-1, 0}
  <2>1. ~(q >= 1)
    <3>1. q >= 1 => HistSize * q >= HistSize
      BY <1>1, <1>3
    <3> QED BY <1>1, <1>2, <1>3, <3>1
  <2>2. ~(q <= -2)
    <3>1. q <= -2 => HistSize * q <= HistSize * (-2)
      BY <1>1, <1>3
    <3> QED BY <1>1, <1>2, <1>3, <3>1
  <2> QED BY <1>3, <2>1, <2>2
<1>5. r = IF a >= 0 THEN a ELSE a + HistSize
  <2>1. CASE q = -1
    <3>1. HistSize * q = -HistSize
      BY <1>1, <2>1
    <3> QED BY <1>1, <1>3, <3>1
  <2>2. CASE q = 0
    <3>1. HistSize * q = 0
      BY <1>1, <2>2
    <3> QED BY <1>1, <1>3, <3>1
  <2> QED BY <1>4, <2>1, <2>2
<1> QED BY <1>1, <1>3, <1>5 DEF Back, r, a

(* The slot behind next, and that the other lines are one further back.    *)
LEMMA Forward ==
  ASSUME NEW n \in 0..HistSize - 1, NEW m, m = (n + 1) % HistSize
  PROVE  /\ m \in 0..HistSize - 1 /\ Back(m, 0) = n
         /\ \A k \in 1..HistSize - 1 : Back(m, k) = Back(n, k - 1) /\ Back(m, k) # n
<1>1. HistSize \in Nat /\ HistSize >= 1
  BY Bounds
<1>2. m = IF n + 1 = HistSize THEN 0 ELSE n + 1
  <2>1. CASE n + 1 = HistSize
    BY <1>1, <2>1
  <2>2. CASE n + 1 # HistSize
    BY <1>1, <2>2
  <2> QED BY <2>1, <2>2
<1> QED BY <1>1, <1>2 DEF Back

(* What the history is at the prompt and while scripts run.                *)
HistInv ==
  /\ history \in [0..HistSize - 1 -> Typed]
  /\ next \in 0..HistSize - 1 /\ count \in 0..HistSize
  /\ buf \in Typed /\ browse \in -1..count - 1
  /\ entered \in Seq(Text) /\ Said(entered) \in Seq(Text)
  /\ HistoryShows

LEMMA RecallIs ==
  ASSUME NEW k \in 0..HistSize - 1, next \in 0..HistSize - 1
  PROVE  Recall(k) = history[Back(next, k)] /\ Back(next, k) \in 0..HistSize - 1
BY BackIs DEF Recall

LEMMA RecallTyped ==
  ASSUME HistInv, NEW k \in 0..count - 1
  PROVE  Recall(k) \in Typed
<1>1. k \in 0..HistSize - 1
  BY Bounds DEF HistInv
<1> QED BY <1>1, RecallIs DEF HistInv

LEMMA ShowsNext ==
  ASSUME NEW said, said = Said(entered'),
         browse' >= 0 => buf' = said[Len(said) - browse'],
         \A k \in 0..count' - 1 : Recall(k)' = said[Len(said) - k],
         count' = Min({Len(said), HistSize})
  PROVE  HistoryShows'
<1>1. (browse >= 0 => buf = said[Len(said) - browse])'
  OBVIOUS
<1>2. (\A k \in 0..count - 1 : Recall(k) = said[Len(said) - k])'
  OBVIOUS
<1>3. (count = Min({Len(said), HistSize}))'
  OBVIOUS
<1>4. ShowsLast(said)'
  BY <1>1, <1>2, <1>3, Zenon DEF ShowsLast
<1> QED BY <1>4 DEF HistoryShows

(* A line entered becomes the newest of the history.                       *)
LEMMA HistoryGrows ==
  ASSUME HistInv, HistoryAdd(buf), entered' = Append(entered, buf), buf' = <<>>, browse' = -1
  PROVE  HistInv'
<1> DEFINE said == Said(entered)
           new == Said(entered')
<1>1. HistSize \in Nat /\ HistSize >= 1 /\ MaxLine \in Nat
  BY Bounds
<1>2. said \in Seq(Text) /\ buf \in Text /\ entered \in Seq(Text)
  BY DEF HistInv, Typed
<1>3. new = AddSaid(said, buf)
  BY <1>2, SaidAppend
<1>4. entered' \in Seq(Text)
  BY <1>2, AppendProperties
<1>5. buf' \in Typed
  BY <1>1 DEF Typed, Text
<1>6. ~(browse' >= 0)
  OBVIOUS
<1>7. CASE buf = <<>>
  <2>1. new = said /\ UNCHANGED <<history, count, next>>
    BY <1>3, <1>7 DEF AddSaid, HistoryAdd, hist
  <2>2. /\ \A k \in 0..count - 1 : Recall(k) = said[Len(said) - k]
        /\ count = Min({Len(said), HistSize})
    BY DEF HistInv, HistoryShows, ShowsLast
  <2>3. \A k : Recall(k)' = Recall(k)
    BY <2>1 DEF Recall
  <2> HIDE DEF said, new
  <2>4. HistoryShows'
    BY <2>1, <2>2, <2>3, <1>6, ShowsNext DEF new
  <2> QED BY <1>1, <1>2, <1>4, <1>5, <2>1, <2>4 DEF HistInv, said, new
<1>8. CASE buf # <<>>
  <2>1. /\ new = Append(said, buf)
        /\ history' = [history EXCEPT ![next] = buf]
        /\ next' = (next + 1) % HistSize
        /\ count' = IF count < HistSize THEN count + 1 ELSE count
    BY <1>3, <1>8 DEF AddSaid, HistoryAdd
  <2>2. new \in Seq(Text) /\ Len(new) = Len(said) + 1 /\ new[Len(said) + 1] = buf
        /\ \A i \in 1..Len(said) : new[i] = said[i]
    BY <1>2, <2>1, AppendProperties
  <2> HIDE DEF said, new
  <2>3. next \in 0..HistSize - 1 /\ count \in 0..HistSize /\ history \in [0..HistSize - 1 -> Typed] /\ buf \in Typed
    BY DEF HistInv
  <2>4. /\ next' \in 0..HistSize - 1 /\ Back(next', 0) = next
        /\ \A k \in 1..HistSize - 1 : Back(next', k) = Back(next, k - 1) /\ Back(next', k) # next
    BY <2>1, <2>3, Forward
  <2>5. history' \in [0..HistSize - 1 -> Typed] /\ history'[next] = buf
        /\ \A i \in 0..HistSize - 1 : i # next => history'[i] = history[i]
    BY <2>1, <2>3
  <2>6. Len(said) \in Nat /\ count = Min({Len(said), HistSize})
    BY <1>2 DEF HistInv, HistoryShows, ShowsLast, said
  <2>7. count = IF Len(said) <= HistSize THEN Len(said) ELSE HistSize
    BY <1>1, <2>6, MinOfTwo
  <2>8. count' = Min({Len(new), HistSize}) /\ count' \in 0..HistSize
    <3>1. Len(new) \in Nat
      BY <2>2, <2>6
    <3> QED BY <1>1, <2>1, <2>2, <2>3, <2>6, <2>7, <3>1, MinOfTwo
  <2>9. ASSUME NEW k \in 0..count' - 1 PROVE Recall(k)' = new[Len(new) - k]
    <3>1. k \in 0..HistSize - 1 /\ k \in Nat
      BY <1>1, <2>8, <2>9
    <3>2. Recall(k)' = history'[Back(next', k)] /\ Back(next', k) \in 0..HistSize - 1
      BY <2>4, <3>1, BackIs DEF Recall
    <3>3. CASE k = 0
      BY <2>2, <2>4, <2>5, <2>6, <3>2, <3>3
    <3>4. CASE k # 0
      <4>1. k \in 1..HistSize - 1 /\ k - 1 \in 0..count - 1 /\ k - 1 \in 0..HistSize - 1
        BY <1>1, <2>1, <2>3, <3>1, <3>4, <2>9
      <4>2. Recall(k)' = history[Back(next, k - 1)]
        BY <2>4, <2>5, <3>2, <4>1
      <4>3. Recall(k - 1) = history[Back(next, k - 1)]
        BY <2>3, <4>1, RecallIs
      <4>4. Recall(k - 1) = said[Len(said) - (k - 1)]
        BY <4>1 DEF HistInv, HistoryShows, ShowsLast, said
      <4>5. Len(said) - (k - 1) \in 1..Len(said) /\ Len(new) - k = Len(said) - (k - 1)
        BY <1>1, <2>2, <2>6, <2>7, <4>1
      <4>6. new[Len(new) - k] = said[Len(said) - (k - 1)]
        BY <2>2, <4>5
      <4> QED BY <4>2, <4>3, <4>4, <4>6
    <3> QED BY <3>3, <3>4
  <2>10. HistoryShows'
    BY <2>8, <2>9, <1>6, ShowsNext DEF new
  <2>11. browse' \in -1..count' - 1
    BY <1>1, <2>8
  <2> QED BY <1>4, <1>5, <2>2, <2>4, <2>5, <2>8, <2>10, <2>11 DEF HistInv, new
<1> QED BY <1>7, <1>8

LEMMA HistBegins == Init => HistInv
<1> SUFFICES ASSUME Init PROVE HistInv
  OBVIOUS
<1>1. <<>> \in Typed /\ <<>> \in Seq(Text)
  BY Bounds DEF Typed, Text
<1>2. history = [i \in 0..HistSize - 1 |-> <<>>] /\ count = 0 /\ next = 0 /\ buf = <<>> /\ browse = -1
      /\ entered = <<>>
  BY DEF Init
<1>3. Said(entered) = <<>>
  BY <1>2, SaidEmpty
<1>4. history \in [0..HistSize - 1 -> Typed]
  BY <1>1, <1>2
<1>5. count = Min({Len(<<>>), HistSize})
  BY <1>2, Bounds, MinOfTwo
<1>6. \A k \in 0..count - 1 : FALSE
  BY <1>2
<1>7. ShowsLast(<<>>)
  BY <1>2, <1>5, <1>6 DEF ShowsLast
<1> QED BY <1>1, <1>2, <1>3, <1>4, <1>7, Bounds DEF HistInv, HistoryShows

(* While nothing is entered only the prompt's line changes.                *)
LEMMA PromptKeeps ==
  ASSUME HistInv, UNCHANGED <<hist, entered>>, buf' \in Typed, browse' \in -1..count - 1,
         browse' >= 0 => buf' = Recall(browse')
  PROVE  HistInv'
<1> DEFINE said == Said(entered)
<1>1. UNCHANGED <<history, count, next, entered>>
  BY DEF hist
<1>2. (\A k \in 0..count - 1 : Recall(k) = said[Len(said) - k]) /\ count = Min({Len(said), HistSize})
  BY DEF HistInv, HistoryShows, ShowsLast
<1>3. \A k : Recall(k)' = Recall(k)
  BY <1>1 DEF Recall
<1>4. said = Said(entered')
  BY <1>1
<1>5. browse' >= 0 => browse' \in 0..count - 1
  BY Bounds DEF HistInv
<1>6. browse' >= 0 => buf' = said[Len(said) - browse']
  BY <1>2, <1>5
<1>7. (\A k \in 0..count' - 1 : Recall(k)' = said[Len(said) - k]) /\ count' = Min({Len(said), HistSize})
  BY <1>1, <1>2, <1>3
<1> HIDE DEF said
<1>8. HistoryShows'
  BY <1>4, <1>6, <1>7, ShowsNext
<1>9. /\ history' \in [0..HistSize - 1 -> Typed]
       /\ next' \in 0..HistSize - 1 /\ count' \in 0..HistSize
       /\ browse' \in -1..count' - 1
       /\ entered' \in Seq(Text) /\ Said(entered') \in Seq(Text)
  BY <1>1, <1>4 DEF HistInv
<1> QED BY <1>8, <1>9 DEF HistInv

LEMMA WordTyped ==
  ASSUME NEW word \in Words
  PROVE  word \in Strings
<1>1. PICK line \in Lines : word \in ToSet(line)
  BY DEF Words
<1>2. line \in Seq(Strings)
  BY <1>1, ShellAssumption, Zenon
<1> QED BY <1>1, <1>2 DEF ToSet

LEMMA FrontIs ==
  ASSUME NEW S, NEW s \in Seq(S), s # <<>>
  PROVE  Front(s) \in Seq(S) /\ Len(Front(s)) = Len(s) - 1 /\ Last(s) \in S
         /\ \A i \in 1..Len(s) - 1 : Front(s)[i] = s[i]
<1>1. Len(s) \in Nat /\ Len(s) >= 1
  BY EmptySeq
<1>2. Len(s) - 1 \in 0..Len(s) /\ 1 \in 1..Len(s) + 1
  BY <1>1
<1> DEFINE n == Len(s) - 1
           t == SubSeq(s, 1, n)
<1>3. n \in Int /\ \A i \in 1..n : s[i] \in S
  BY <1>1
<1>4. t \in Seq(S) /\ Len(t) = (IF 1 <= n THEN n - 1 + 1 ELSE 0) /\ \A i \in 1..n - 1 + 1 : t[i] = s[1 + i - 1]
  BY <1>3, SubSeqProperties
<1> HIDE DEF t
<1>5. n \in Nat
  BY <1>1
<1>6. n - 1 + 1 = n /\ \A i \in Int : 1 + i - 1 = i
  BY <1>5
<1> HIDE DEF n
<1>7. \A i \in 1..n : t[i] = s[i]
  BY <1>4, <1>5, <1>6
<1>8. Len(t) = n
  BY <1>4, <1>5
<1>9. s[Len(s)] \in S
  BY <1>1
<1> QED BY <1>4, <1>7, <1>8, <1>9 DEF Front, Last, t, n

LEMMA PromptStep ==
  ASSUME HistInv, (\E word \in Words : Type(word)) \/ RubOut \/ KeyUp \/ KeyDown
  PROVE  HistInv'
<1>0. HistSize \in Nat /\ HistSize >= 1 /\ MaxLine \in Nat /\ buf \in Text /\ Len(buf) \in Nat /\ Len(buf) <= MaxLine
      /\ count \in Nat /\ count <= HistSize /\ browse \in Int
  BY Bounds DEF HistInv, Typed, Text
<1>1. ASSUME NEW word \in Words, Type(word) PROVE HistInv'
  <2>1. UNCHANGED <<hist, entered>> /\ buf' = Append(buf, word) /\ browse' = -1 /\ Len(buf) < MaxLine
    BY <1>1 DEF Type
  <2>2. word \in Strings
    BY WordTyped
  <2>3. buf' \in Typed
    <3>1. buf' \in Seq(Strings) /\ Len(buf') = Len(buf) + 1
      BY <1>0, <2>1, <2>2, AppendProperties DEF Text
    <3> QED BY <1>0, <2>1, <3>1 DEF Typed, Text
  <2>4. browse' \in -1..count - 1 /\ ~(browse' >= 0)
    BY <1>0, <2>1
  <2> QED BY <2>1, <2>3, <2>4, PromptKeeps
<1>2. CASE RubOut
  <2>1. UNCHANGED <<hist, entered>> /\ buf' = (IF buf = <<>> THEN <<>> ELSE Front(buf)) /\ browse' = -1
    BY <1>2 DEF RubOut
  <2>2. buf' \in Typed
    BY <1>0, <2>1, FrontIs DEF Typed, Text
  <2>4. browse' \in -1..count - 1 /\ ~(browse' >= 0)
    BY <1>0, <2>1
  <2> QED BY <2>1, <2>2, <2>4, PromptKeeps
<1>3. CASE KeyUp
  <2>1. UNCHANGED <<hist, entered>> /\ browse + 1 < count /\ browse' = browse + 1 /\ buf' = Recall(browse')
    BY <1>3 DEF KeyUp
  <2>2. browse' \in 0..count - 1 /\ browse' \in -1..count - 1
    BY <1>0, <2>1 DEF HistInv
  <2>3. buf' \in Typed
    BY <2>1, <2>2, RecallTyped
  <2> QED BY <2>1, <2>2, <2>3, PromptKeeps
<1>4. CASE KeyDown
  <2>1. UNCHANGED <<hist, entered>> /\ browse >= 0 /\ browse' = browse - 1
        /\ buf' = (IF browse = 0 THEN <<>> ELSE Recall(browse - 1))
    BY <1>4 DEF KeyDown
  <2>2. browse' \in -1..count - 1 /\ (browse' >= 0 => browse # 0 /\ browse' \in 0..count - 1)
    BY <1>0, <2>1 DEF HistInv
  <2>3. browse' >= 0 => buf' = Recall(browse')
    BY <2>1, <2>2
  <2>4. <<>> \in Typed
    BY <1>0 DEF Typed, Text
  <2>5. browse = 0 \/ browse' >= 0
    BY <1>0, <2>1
  <2>6. buf' \in Typed
    BY <2>1, <2>2, <2>3, <2>4, <2>5, RecallTyped
  <2> QED BY <2>1, <2>2, <2>3, <2>6, PromptKeeps
<1> QED BY <1>1, <1>2, <1>3, <1>4
-----------------------------------------------------------------------------
(* The parts of the world that keep bounds, each on its own.               *)
Standing(fs, cwd) == IsTree(fs) /\ cwd \in DOMAIN fs /\ fs[cwd].dir
Shown(path, cwd) ==
  /\ Len(path) \in 0..MaxDepth /\ Len(path) <= Len(cwd)
  /\ Len(path) < MaxDepth => Len(path) = Len(cwd)
  /\ path = SubSeq(cwd, 1, Len(path))
Values(vs) ==
  /\ IsFiniteSet(DOMAIN vs) /\ Cardinality(DOMAIN vs) <= MaxVars
  /\ \A x \in DOMAIN vs : vs[x] \in Strings
Known(users) == users \in Seq(Strings) /\ Len(users) <= MaxUsers

IsWorld(w) ==
  /\ w = [cwd |-> w.cwd, path |-> w.path, fs |-> w.fs, vars |-> w.vars,
          users |-> w.users, user |-> w.user, root |-> w.root, out |-> w.out]
  /\ Standing(w.fs, w.cwd) /\ Shown(w.path, w.cwd) /\ Values(w.vars) /\ Known(w.users)

(* Whatever one part becomes, the others stay.                             *)
LEMMA OutChanges ==
  ASSUME NEW w, IsWorld(w), NEW out
  PROVE  IsWorld([w EXCEPT !.out = out])
BY SMT DEF IsWorld

LEMMA FsChanges ==
  ASSUME NEW w, IsWorld(w), NEW fs, Standing(fs, w.cwd), NEW v, v = [w EXCEPT !.fs = fs]
  PROVE  IsWorld(v) /\ v.fs = fs /\ v.cwd = w.cwd
BY SMT DEF IsWorld

LEMMA ValuesChange ==
  ASSUME NEW w, IsWorld(w), NEW vs, Values(vs)
  PROVE  IsWorld([w EXCEPT !.vars = vs])
BY SMT DEF IsWorld

LEMMA UsersChange ==
  ASSUME NEW w, IsWorld(w), NEW users, Known(users)
  PROVE  IsWorld([w EXCEPT !.users = users])
BY SMT DEF IsWorld

LEMMA UserChanges ==
  ASSUME NEW w, IsWorld(w), NEW user
  PROVE  IsWorld([w EXCEPT !.user = user])
BY SMT DEF IsWorld

LEMMA RootChanges ==
  ASSUME NEW w, IsWorld(w), NEW root
  PROVE  IsWorld([w EXCEPT !.root = root])
BY SMT DEF IsWorld

LEMMA PathChanges ==
  ASSUME NEW w, NEW path,
         w = [cwd |-> w.cwd, path |-> w.path, fs |-> w.fs, vars |-> w.vars,
              users |-> w.users, user |-> w.user, root |-> w.root, out |-> w.out],
         Standing(w.fs, w.cwd), Shown(path, w.cwd), Values(w.vars), Known(w.users)
  PROVE  IsWorld([w EXCEPT !.path = path])
BY SMT DEF IsWorld

LEMMA CwdChanges ==
  ASSUME NEW w, IsWorld(w), NEW cwd, NEW path, Standing(w.fs, cwd), Shown(path, cwd),
         NEW v, v = [[w EXCEPT !.cwd = cwd] EXCEPT !.path = path]
  PROVE  IsWorld(v)
<1> DEFINE u == [w EXCEPT !.cwd = cwd]
<1>1. u = [cwd |-> u.cwd, path |-> u.path, fs |-> u.fs, vars |-> u.vars,
           users |-> u.users, user |-> u.user, root |-> u.root, out |-> u.out]
  BY SMT DEF IsWorld
<1>2. u.cwd = cwd /\ u.fs = w.fs /\ u.vars = w.vars /\ u.users = w.users
  BY SMT DEF IsWorld
<1>3. Standing(u.fs, u.cwd) /\ Shown(path, u.cwd) /\ Values(u.vars) /\ Known(u.users)
  BY <1>2 DEF IsWorld
<1>4. v = [u EXCEPT !.path = path]
  OBVIOUS
<1> HIDE DEF u
<1>5. IsWorld([u EXCEPT !.path = path])
  BY <1>1, <1>3, PathChanges, Zenon
<1> QED BY <1>4, <1>5, Zenon

LEMMA Says ==
  ASSUME NEW w, IsWorld(w), NEW words
  PROVE  IsWorld(Say(w, words))
BY OutChanges DEF Say

LEMMA Fails ==
  ASSUME NEW w, IsWorld(w), NEW c
  PROVE  IsWorld(Fail(w, c))
BY Says DEF Fail

(* Variables, users and the directory.                                     *)
LEMMA VarSetKeeps ==
  ASSUME NEW w, IsWorld(w), NEW x, NEW v \in Strings
  PROVE  IsWorld(VarSet(w, x, v))
<1> DEFINE d == DOMAIN w.vars
           new == With(w.vars, x, v)
<1>1. IsFiniteSet(d) /\ Cardinality(d) \in Nat /\ Cardinality(d) <= MaxVars /\ \A y \in d : w.vars[y] \in Strings
  BY FS_CardinalityType DEF IsWorld, Values
<1>2. DOMAIN new = d \cup {x} /\ \A y \in d \cup {x} : new[y] \in Strings
  BY <1>1 DEF With
<1>3. IsFiniteSet(d \cup {x}) /\ Cardinality(d \cup {x}) = IF x \in d THEN Cardinality(d) ELSE Cardinality(d) + 1
  BY <1>1, FS_AddElement
<1>4. CASE x \in d \/ Cardinality(d) < MaxVars
  <2>1. Cardinality(d \cup {x}) <= MaxVars
    BY <1>1, <1>3, <1>4, Bounds
  <2>2. Values(new)
    BY <1>2, <1>3, <2>1 DEF Values
  <2>3. VarSet(w, x, v) = [w EXCEPT !.vars = new]
    BY <1>4 DEF VarSet
  <2> HIDE DEF new
  <2> QED BY <2>2, <2>3, ValuesChange
<1>5. CASE ~(x \in d \/ Cardinality(d) < MaxVars)
  BY <1>5 DEF VarSet
<1> QED BY <1>4, <1>5

LEMMA UserAddKeeps ==
  ASSUME NEW w, IsWorld(w), NEW a, a[1] \in Strings
  PROVE  IsWorld(UserAdd(a, w))
<1> DEFINE users == Append(w.users, a[1])
           v == [w EXCEPT !.users = Append(@, a[1])]
<1>1. CASE w.root /\ Len(w.users) < MaxUsers /\ a[1] \notin ToSet(w.users)
  <2>1. w.users \in Seq(Strings) /\ Len(w.users) \in Nat
    BY DEF IsWorld, Known
  <2>2. users \in Seq(Strings) /\ Len(users) = Len(w.users) + 1
    BY <2>1, AppendProperties
  <2>3. Known(users)
    BY <1>1, <2>1, <2>2, Bounds DEF Known
  <2>4. v = [w EXCEPT !.users = users]
    OBVIOUS
  <2>5. IsWorld(v)
    <3> HIDE DEF users, v
    <3> QED BY <2>3, <2>4, UsersChange
  <2>6. UserAdd(a, w) = Say(v, <<"added", a[1]>>)
    BY <1>1 DEF UserAdd
  <2> HIDE DEF v
  <2> QED BY <2>5, <2>6, Says
<1>2. CASE ~(w.root /\ Len(w.users) < MaxUsers /\ a[1] \notin ToSet(w.users))
  <2>1. UserAdd(a, w) = Fail(w, "useradd")
    BY <1>2 DEF UserAdd
  <2> QED BY <2>1, Fails
<1> QED BY <1>1, <1>2

LEMMA SuKeeps ==
  ASSUME NEW w, IsWorld(w), NEW a
  PROVE  IsWorld(Su(a, w))
BY Fails, UserChanges DEF Su

LEMMA CdKeeps ==
  ASSUME NEW w, IsWorld(w), NEW a, a[1] \in Strings
  PROVE  IsWorld(Cd(a, w))
<1> DEFINE n == a[1]
           cwd == At(w, n)
           path == PathPush(w, n)
<1>1. CASE HasDir(w, n)
  <2>1. cwd \in DOMAIN w.fs /\ w.fs[cwd].dir /\ IsTree(w.fs) /\ w.cwd \in DOMAIN w.fs
    BY <1>1 DEF HasDir, Has, IsWorld, Standing
  <2>2. w.cwd \in Seq(Strings) /\ cwd = Append(w.cwd, n) /\ n \in Strings
    BY <2>1 DEF IsTree, At
  <2>3. /\ cwd \in Seq(Strings) /\ Len(cwd) = Len(w.cwd) + 1 /\ Len(w.cwd) \in Nat
        /\ \A i \in 1..Len(w.cwd) : cwd[i] = w.cwd[i]
    BY <2>2, AppendProperties
  <2>4. Shown(w.path, w.cwd)
    BY DEF IsWorld
  <2>5. SubSeq(cwd, 1, Len(w.cwd)) = w.cwd
    BY <2>2
  <2>6. Shown(path, cwd)
    <3>1. CASE Len(w.path) < MaxDepth
      <4>1. Len(w.path) = Len(w.cwd) /\ w.path = SubSeq(w.cwd, 1, Len(w.cwd))
        BY <2>4, <3>1 DEF Shown
      <4>2. w.path = w.cwd /\ path = cwd
        BY <2>2, <3>1, <4>1 DEF PathPush
      <4>3. SubSeq(cwd, 1, Len(cwd)) = cwd
        BY <2>3
      <4> HIDE DEF cwd, path
      <4>4. Len(cwd) \in 0..MaxDepth
        BY <2>3, <2>4, <3>1, <4>1, Bounds DEF Shown
      <4> QED BY <2>3, <4>2, <4>3, <4>4 DEF Shown
    <3>2. CASE ~(Len(w.path) < MaxDepth)
      <4>1. path = w.path /\ Len(path) = MaxDepth /\ Len(path) <= Len(w.cwd) /\ path = SubSeq(w.cwd, 1, MaxDepth)
        BY <2>4, <3>2, Bounds DEF Shown, PathPush
      <4>2. SubSeq(cwd, 1, MaxDepth) = SubSeq(w.cwd, 1, MaxDepth)
        BY <2>2, <2>3, <4>1, Bounds
      <4> HIDE DEF cwd, path
      <4> QED BY <2>3, <4>1, <4>2, Bounds DEF Shown
    <3> QED BY <3>1, <3>2
  <2>7. Standing(w.fs, cwd)
    BY <2>1 DEF Standing
  <2>8. Cd(a, w) = [[w EXCEPT !.cwd = cwd] EXCEPT !.path = path]
    BY <1>1 DEF Cd
  <2> HIDE DEF cwd, path
  <2> QED BY <2>6, <2>7, <2>8, CwdChanges
<1>2. CASE ~HasDir(w, n)
  BY <1>2, Fails DEF Cd
<1> QED BY <1>1, <1>2
-----------------------------------------------------------------------------
(* The tree: an entry is put or erased in the directory the shell is in.   *)
Entry == [dir : BOOLEAN, lines : Seq(Seq(Strings))]

LEMMA FrontAppend ==
  ASSUME NEW S, NEW d \in Seq(S), NEW n \in S
  PROVE  /\ Append(d, n) \in Seq(S) /\ Append(d, n) # <<>> /\ Append(d, n) # d
         /\ Front(Append(d, n)) = d
<1> DEFINE t == Append(d, n)
<1>1. /\ t \in Seq(S) /\ Len(t) = Len(d) + 1 /\ Len(d) \in Nat
  BY AppendProperties
<1>2. SubSeq(t, 1, Len(d)) = d
  OBVIOUS
<1>3. Len(t) - 1 = Len(d) /\ Len(<<>>) = 0
  BY <1>1
<1>4. Front(t) = d
  BY <1>2, <1>3 DEF Front
<1> HIDE DEF t
<1>5. t # <<>> /\ t # d
  BY <1>1, <1>3
<1> QED BY <1>1, <1>4, <1>5 DEF t

LEMMA EntriesTyped ==
  ASSUME NEW fs, IsTree(fs), NEW p \in DOMAIN fs
  PROVE  p \in Seq(Strings) /\ fs[p] \in Entry /\ fs[p].dir \in BOOLEAN /\ fs[p].lines \in Seq(Seq(Strings))
<1>1. p \in Seq(Strings) /\ fs[p] \in Entry
  BY DEF IsTree, Entry
<1> QED BY <1>1 DEF Entry

(* A new entry, or one in place of a file.                                 *)
LEMMA PutIn ==
  ASSUME NEW fs, NEW d, Standing(fs, d), NEW n \in Strings, NEW e \in Entry,
         NEW p, p = Append(d, n), p \in DOMAIN fs => ~fs[p].dir
  PROVE  Standing(With(fs, p, e), d)
<1> DEFINE new == With(fs, p, e)
<1>1. IsTree(fs) /\ d \in DOMAIN fs /\ fs[d].dir /\ d \in Seq(Strings)
  BY EntriesTyped DEF Standing
<1>2. p \in Seq(Strings) /\ p # <<>> /\ p # d /\ Front(p) = d
  BY <1>1, FrontAppend
<1>3. DOMAIN new = DOMAIN fs \cup {p} /\ new[p] = e /\ \A q \in DOMAIN fs : q # p => new[q] = fs[q]
  BY DEF With
<1> HIDE DEF new
<1>4. \A q \in DOMAIN new : q \in Seq(Strings) /\ new[q] \in Entry
  BY <1>1, <1>2, <1>3, EntriesTyped
<1>5. ASSUME NEW q \in DOMAIN new \ {<<>>}
      PROVE  Front(q) \in DOMAIN new /\ new[Front(q)].dir
  <2>1. CASE q = p
    BY <1>1, <1>2, <1>3, <2>1
  <2>2. CASE q # p
    <3>1. Front(q) \in DOMAIN fs /\ fs[Front(q)].dir
      BY <1>1, <1>3, <2>2 DEF IsTree
    <3>2. Front(q) # p
      BY <3>1
    <3> QED BY <1>3, <3>1, <3>2
  <2> QED BY <2>1, <2>2
<1>6. IsTree(new)
  BY <1>4, <1>5 DEF IsTree, Entry
<1> QED BY <1>1, <1>2, <1>3, <1>6 DEF Standing, new

(* An entry with nothing in it, a file or an empty directory.              *)
LEMMA EraseFrom ==
  ASSUME NEW fs, NEW d, Standing(fs, d), NEW n \in Strings,
         NEW p, p = Append(d, n), \A q \in DOMAIN fs \ {<<>>} : Front(q) # p
  PROVE  Standing(Without(fs, p), d)
<1> DEFINE new == Without(fs, p)
<1>1. IsTree(fs) /\ d \in DOMAIN fs /\ fs[d].dir /\ d \in Seq(Strings)
  BY EntriesTyped DEF Standing
<1>2. p # <<>> /\ p # d
  BY <1>1, FrontAppend
<1>3. DOMAIN new = DOMAIN fs \ {p} /\ \A q \in DOMAIN new : new[q] = fs[q]
  BY DEF Without
<1> HIDE DEF new
<1>4. \A q \in DOMAIN new : q \in Seq(Strings) /\ new[q] \in Entry
  BY <1>1, <1>3, EntriesTyped
<1>5. ASSUME NEW q \in DOMAIN new \ {<<>>}
      PROVE  Front(q) \in DOMAIN new /\ new[Front(q)].dir
  <2>1. Front(q) \in DOMAIN fs /\ fs[Front(q)].dir /\ Front(q) # p
    BY <1>1, <1>3 DEF IsTree
  <2> QED BY <1>3, <2>1
<1>6. IsTree(new)
  BY <1>4, <1>5 DEF IsTree, Entry
<1> QED BY <1>1, <1>2, <1>3, <1>6 DEF Standing, new

LEMMA FileIsLeaf ==
  ASSUME NEW fs, IsTree(fs), NEW p \in DOMAIN fs, ~fs[p].dir
  PROVE  \A q \in DOMAIN fs \ {<<>>} : Front(q) # p
BY DEF IsTree

LEMMA PutKeeps ==
  ASSUME NEW w, IsWorld(w), NEW n \in Strings, NEW e \in Entry, At(w, n) \in DOMAIN w.fs => ~w.fs[At(w, n)].dir,
         NEW v, v = Put(w, n, e)
  PROVE  IsWorld(v) /\ v.fs = With(w.fs, At(w, n), e) /\ v.cwd = w.cwd
<1> DEFINE fs == With(w.fs, At(w, n), e)
<1>1. Standing(fs, w.cwd)
  BY PutIn DEF IsWorld, At
<1>2. v = [w EXCEPT !.fs = fs]
  BY DEF Put
<1> HIDE DEF fs
<1>3. IsWorld(v) /\ v.fs = fs /\ v.cwd = w.cwd
  BY <1>1, <1>2, FsChanges
<1> QED BY <1>3 DEF fs

LEMMA EraseKeeps ==
  ASSUME NEW w, IsWorld(w), NEW n \in Strings, \A q \in DOMAIN w.fs \ {<<>>} : Front(q) # At(w, n)
  PROVE  IsWorld(Erase(w, n))
<1> DEFINE fs == Without(w.fs, At(w, n))
           v == Erase(w, n)
<1>1. Standing(fs, w.cwd)
  BY EraseFrom DEF IsWorld, At
<1>2. v = [w EXCEPT !.fs = fs]
  BY DEF Erase
<1> HIDE DEF fs, v
<1>3. IsWorld(v)
  BY <1>1, <1>2, FsChanges
<1> QED BY <1>3 DEF v

LEMMA EraseFile ==
  ASSUME NEW w, IsWorld(w), NEW n \in Strings, At(w, n) \in DOMAIN w.fs, ~w.fs[At(w, n)].dir
  PROVE  IsWorld(Erase(w, n))
<1>1. IsTree(w.fs)
  BY DEF IsWorld, Standing
<1> QED BY <1>1, FileIsLeaf, EraseKeeps

LEMMA MkDirKeeps ==
  ASSUME NEW w, IsWorld(w), NEW a, a[1] \in Strings
  PROVE  IsWorld(MkDir(a, w))
<1>1. CASE a[1] \in BadNames \/ Has(w, a[1])
  BY <1>1, Fails DEF MkDir
<1>2. CASE ~(a[1] \in BadNames \/ Has(w, a[1]))
  <2>1. At(w, a[1]) \notin DOMAIN w.fs /\ Dir \in Entry
    BY <1>2 DEF Has, Dir, Entry
  <2>2. MkDir(a, w) = Put(w, a[1], Dir)
    BY <1>2 DEF MkDir
  <2> QED BY <2>1, <2>2, PutKeeps
<1> QED BY <1>1, <1>2

LEMMA TouchKeeps ==
  ASSUME NEW w, IsWorld(w), NEW a, a[1] \in Strings
  PROVE  IsWorld(Touch(a, w))
<1>1. CASE a[1] \in BadNames
  <2>1. ~Has(w, a[1])
    BY <1>1 DEF Has
  <2> QED BY <1>1, <2>1, Fails DEF Touch
<1>2. CASE a[1] \notin BadNames /\ Has(w, a[1])
  BY <1>2 DEF Touch
<1>3. CASE a[1] \notin BadNames /\ ~Has(w, a[1])
  <2>1. At(w, a[1]) \notin DOMAIN w.fs /\ File(<<>>) \in Entry
    BY <1>3 DEF Has, File, Entry
  <2>2. Touch(a, w) = Put(w, a[1], File(<<>>))
    BY <1>3 DEF Touch
  <2> QED BY <2>1, <2>2, PutKeeps
<1> QED BY <1>1, <1>2, <1>3

LEMMA RmKeeps ==
  ASSUME NEW w, IsWorld(w), NEW a, a[1] \in Strings
  PROVE  IsWorld(Rm(a, w))
<1>1. CASE HasFile(w, a[1])
  BY <1>1, EraseFile DEF Rm, HasFile, Has
<1>2. CASE ~HasFile(w, a[1])
  BY <1>2, Fails DEF Rm
<1> QED BY <1>1, <1>2

LEMMA RmDirKeeps ==
  ASSUME NEW w, IsWorld(w), NEW a, a[1] \in Strings
  PROVE  IsWorld(RmDir(a, w))
<1>1. CASE HasDir(w, a[1]) /\ Children(w, At(w, a[1])) = {}
  <2>1. \A q \in DOMAIN w.fs \ {<<>>} : Front(q) # At(w, a[1])
    BY <1>1 DEF Children
  <2>2. RmDir(a, w) = Erase(w, a[1])
    BY <1>1 DEF RmDir
  <2> QED BY <2>1, <2>2, EraseKeeps
<1>2. CASE ~(HasDir(w, a[1]) /\ Children(w, At(w, a[1])) = {})
  BY <1>2, Fails DEF RmDir
<1> QED BY <1>1, <1>2

(* What cp and mv put is a file's copy, where there is no directory.       *)
LEMMA CopyKeeps ==
  ASSUME NEW w, IsWorld(w), NEW m \in Strings, NEW n \in Strings,
         HasFile(w, m), n \notin BadNames, ~HasDir(w, n), NEW v, v = Put(w, n, w.fs[At(w, m)])
  PROVE  /\ IsWorld(v) /\ At(v, m) = At(w, m)
         /\ At(w, m) \in DOMAIN v.fs /\ ~v.fs[At(w, m)].dir
<1> DEFINE e == w.fs[At(w, m)]
<1>1. At(w, m) \in DOMAIN w.fs /\ ~e.dir /\ IsTree(w.fs)
  BY DEF HasFile, Has, IsWorld, Standing
<1>2. e \in Entry
  BY <1>1, EntriesTyped
<1>3. At(w, n) \in DOMAIN w.fs => ~w.fs[At(w, n)].dir
  BY DEF HasDir, Has
<1> HIDE DEF e
<1>4. v = Put(w, n, e)
  BY DEF e
<1>5. IsWorld(v) /\ v.fs = With(w.fs, At(w, n), e) /\ v.cwd = w.cwd
  BY <1>2, <1>3, <1>4, PutKeeps
<1>6. At(w, m) \in DOMAIN v.fs /\ v.fs[At(w, m)] = e
  BY <1>1, <1>5 DEF With, e
<1> QED BY <1>1, <1>5, <1>6 DEF At

LEMMA CpKeeps ==
  ASSUME NEW w, IsWorld(w), NEW a, a[1] \in Strings, a[2] \in Strings
  PROVE  IsWorld(Cp(a, w))
<1>1. CASE HasFile(w, a[1]) /\ a[2] \notin BadNames /\ ~HasDir(w, a[2])
  BY <1>1, CopyKeeps DEF Cp
<1>2. CASE ~(HasFile(w, a[1]) /\ a[2] \notin BadNames /\ ~HasDir(w, a[2]))
  BY <1>2, Fails DEF Cp
<1> QED BY <1>1, <1>2

LEMMA MvKeeps ==
  ASSUME NEW w, IsWorld(w), NEW a, a[1] \in Strings, a[2] \in Strings
  PROVE  IsWorld(Mv(a, w))
<1>1. CASE HasFile(w, a[1]) /\ a[2] \notin BadNames /\ ~HasDir(w, a[2])
  <2> DEFINE v == Put(w, a[2], w.fs[At(w, a[1])])
  <2>1. Mv(a, w) = Erase(v, a[1])
    BY <1>1 DEF Mv
  <2> HIDE DEF v
  <2>2. IsWorld(v) /\ At(v, a[1]) \in DOMAIN v.fs /\ ~v.fs[At(v, a[1])].dir
    BY <1>1, CopyKeeps DEF v
  <2> QED BY <2>1, <2>2, EraseFile
<1>2. CASE ~(HasFile(w, a[1]) /\ a[2] \notin BadNames /\ ~HasDir(w, a[2]))
  BY <1>2, Fails DEF Mv
<1> QED BY <1>1, <1>2
-----------------------------------------------------------------------------
(* Commands, and lines whatever they are.                                  *)
LEMMA TailIs ==
  ASSUME NEW s \in Text, s # <<>>
  PROVE  /\ Head(s) = s[1] /\ s[1] \in Strings /\ Tail(s) \in Text /\ Len(Tail(s)) = Len(s) - 1 /\ Len(s) \in Nat
         /\ \A i \in 1..Len(s) - 1 : Tail(s)[i] \in Strings
<1>1. s \in Seq(Strings) /\ Len(s) \in Nat /\ Len(s) >= 1
  BY EmptySeq DEF Text
<1>2. Tail(s) \in Seq(Strings) /\ Len(Tail(s)) = Len(s) - 1
  BY <1>1
<1> QED BY <1>1, <1>2 DEF Text

LEMMA EffectKeeps ==
  ASSUME NEW w, IsWorld(w), NEW words \in Text, words # <<>>
  PROVE  IsWorld(Effect(words, w))
<1> DEFINE c == Head(words)
           a == Tail(words)
           e == Effect(words, w)
<1>1. c \in Strings /\ Len(a) \in Nat /\ \A i \in 1..Len(a) : a[i] \in Strings
  BY TailIs
<1>2. CASE Len(a) < Needs(c)
  <2>1. e = Fail(w, c)
    BY <1>2 DEF Effect
  <2> QED BY <2>1, Fails
<1>3. CASE ~(Len(a) < Needs(c))
  <2> HIDE DEF c, a
  <2>1. c \in {"cp", "mv"} => a[1] \in Strings /\ a[2] \in Strings
    <3>1. c \in {"cp", "mv"} => Needs(c) = 2
      BY DEF Needs
    <3> QED BY <1>1, <1>3, <3>1
  <2>2. c \in {"cd", "mkdir", "rmdir", "touch", "rm", "cat", "useradd", "su"} => a[1] \in Strings
    <3>1. c \in {"cd", "mkdir", "rmdir", "touch", "rm", "cat", "useradd", "su"} => Needs(c) = 1
      BY DEF Needs
    <3> QED BY <1>1, <1>3, <3>1
  <2>3. e = CASE c = "echo" -> Say(w, a)
              [] c = "pwd" -> Say(w, w.path)
              [] c = "ls" -> Say(w, SetToSeq({Last(p) : p \in Children(w, w.cwd)}))
              [] c = "cd" -> Cd(a, w)
              [] c = "mkdir" -> MkDir(a, w)
              [] c = "rmdir" -> RmDir(a, w)
              [] c = "touch" -> Touch(a, w)
              [] c = "rm" -> Rm(a, w)
              [] c = "cp" -> Cp(a, w)
              [] c = "mv" -> Mv(a, w)
              [] c = "cat" -> Cat(a, w)
              [] c = "history" -> [w EXCEPT !.out = @ \o Listed]
              [] c = "whoami" -> Say(w, <<w.user>>)
              [] c = "users" -> [w EXCEPT !.out = @ \o <<<<"guest">>>> \o [i \in 1..Len(w.users) |-> <<w.users[i]>>]]
              [] c = "useradd" -> UserAdd(a, w)
              [] c = "su" -> Su(a, w)
              [] c = "sudo" -> [w EXCEPT !.root = ~@]
              [] OTHER -> Fail(w, c)
    BY <1>3 DEF Effect, c, a
  <2> HIDE DEF e
  <2>4. CASE c = "echo"
    BY <2>3, <2>4, Says DEF e
  <2>5. CASE c = "pwd"
    BY <2>3, <2>5, Says DEF e
  <2>6. CASE c = "ls"
    BY <2>3, <2>6, Says DEF e
  <2>7. CASE c = "cd"
    BY <2>2, <2>3, <2>7, CdKeeps DEF e
  <2>8. CASE c = "mkdir"
    BY <2>2, <2>3, <2>8, MkDirKeeps DEF e
  <2>9. CASE c = "rmdir"
    BY <2>2, <2>3, <2>9, RmDirKeeps DEF e
  <2>10. CASE c = "touch"
    BY <2>2, <2>3, <2>10, TouchKeeps DEF e
  <2>11. CASE c = "rm"
    BY <2>2, <2>3, <2>11, RmKeeps DEF e
  <2>12. CASE c = "cp"
    BY <2>1, <2>3, <2>12, CpKeeps DEF e
  <2>13. CASE c = "mv"
    BY <2>1, <2>3, <2>13, MvKeeps DEF e
  <2>14. CASE c = "cat"
    <3> DEFINE out == w.out \o w.fs[At(w, a[1])].lines
    <3>1. e = Fail(w, "cat") \/ e = [w EXCEPT !.out = out]
      BY <2>3, <2>14 DEF Cat
    <3> HIDE DEF out
    <3> QED BY <3>1, Fails, OutChanges DEF e
  <2>15. CASE c = "history"
    <3> DEFINE out == w.out \o Listed
    <3>1. e = [w EXCEPT !.out = out]
      BY <2>3, <2>15
    <3> HIDE DEF out
    <3> QED BY <3>1, OutChanges DEF e
  <2>16. CASE c = "whoami"
    BY <2>3, <2>16, Says DEF e
  <2>17. CASE c = "users"
    <3> DEFINE out == w.out \o <<<<"guest">>>> \o [i \in 1..Len(w.users) |-> <<w.users[i]>>]
    <3>1. e = [w EXCEPT !.out = out]
      BY <2>3, <2>17
    <3> HIDE DEF out
    <3> QED BY <3>1, OutChanges DEF e
  <2>18. CASE c = "useradd"
    BY <2>2, <2>3, <2>18, UserAddKeeps DEF e
  <2>19. CASE c = "su"
    BY <2>3, <2>19, SuKeeps DEF e
  <2>20. CASE c = "sudo"
    BY <2>3, <2>20, RootChanges DEF e
  <2>21. CASE c \notin {"echo", "pwd", "ls", "cd", "mkdir", "rmdir", "touch", "rm", "cp", "mv", "cat", "history",
                        "whoami", "users", "useradd", "su", "sudo"}
    BY <2>3, <2>21, Fails DEF e
  <2> QED BY <2>4, <2>5, <2>6, <2>7, <2>8, <2>9, <2>10, <2>11, <2>12, <2>13, <2>14, <2>15, <2>16, <2>17, <2>18,
             <2>19, <2>20, <2>21
<1> QED BY <1>2, <1>3

LEMMA ExpandedIs ==
  ASSUME NEW w, IsWorld(w), NEW line \in Text
  PROVE  Expanded(line, w) \in Text /\ Len(Expanded(line, w)) = Len(line)
<1>1. line \in Seq(Strings) /\ Len(line) \in Nat
  BY DEF Text
<1>2. \A x : VarGet(w, x) \in Strings
  <2>1. \A x \in DOMAIN w.vars : w.vars[x] \in Strings
    BY DEF IsWorld, Values
  <2>2. "" \in Strings
    BY ShellAssumption, Zenon
  <2> QED BY <2>1, <2>2 DEF VarGet
<1>3. \A i \in 1..Len(line) : line[i] \in Strings
  BY <1>1
<1>4. Expanded(line, w) \in [1..Len(line) -> Strings]
  BY <1>2, <1>3 DEF Expanded
<1> QED BY <1>1, <1>4 DEF Text

LEMMA ExecutedKeeps ==
  ASSUME NEW w, IsWorld(w), NEW line \in Text
  PROVE  IsWorld(Executed(line, w))
<1>1. CASE line = <<>>
  BY <1>1 DEF Executed, IsAssignment
<1>2. CASE IsAssignment(line)
  <2> DEFINE x == Assigns[line[1]].name
             v == Assigns[line[1]].value
  <2>1. line # <<>> /\ line[1] \in DOMAIN Assigns
    BY <1>2 DEF IsAssignment
  <2>2. Assigns[line[1]] \in [name : Strings, value : Strings]
    BY <2>1, ShellAssumption, Zenon
  <2>3. v \in Strings
    BY <2>2
  <2>4. Executed(line, w) = VarSet(w, x, v)
    BY <1>2, <2>1 DEF Executed
  <2> HIDE DEF x, v
  <2> QED BY <2>3, <2>4, VarSetKeeps
<1>3. CASE line # <<>> /\ ~IsAssignment(line)
  <2> DEFINE words == Expanded(line, w)
  <2>1. words \in Text /\ Len(words) = Len(line)
    BY ExpandedIs
  <2>2. Len(line) # 0
    BY <1>3, EmptySeq DEF Text
  <2>3. words # <<>>
    BY <2>1, <2>2
  <2>4. Executed(line, w) = Effect(words, w)
    BY <1>3 DEF Executed
  <2> HIDE DEF words
  <2> QED BY <2>1, <2>3, <2>4, EffectKeeps
<1> QED BY <1>1, <1>2, <1>3

(* What a script has as lines, cut at the table's size.                    *)
LEMMA ScriptIs ==
  ASSUME NEW w, IsWorld(w), NEW line \in Text, StartsScript(line, w)
  PROVE  ScriptOf(line, w) \in Seq(Text) /\ Len(ScriptOf(line, w)) \in 0..MaxScript /\ IsWorld(Reads(line, w))
<1> DEFINE f == FileOf(line, w)
           n == Min({Len(f), MaxScript})
<1>1. HasFile(w, Expanded(line, w)[2])
  BY DEF StartsScript
<1>2. At(w, Expanded(line, w)[2]) \in DOMAIN w.fs /\ IsTree(w.fs)
  BY <1>1 DEF HasFile, Has, IsWorld, Standing
<1>3. f \in Seq(Text)
  BY <1>2, EntriesTyped DEF FileOf, Text
<1>4. n \in 0..MaxScript /\ n <= Len(f) /\ Len(f) \in Nat
  BY <1>3, Bounds, MinOfTwo
<1>5. ScriptOf(line, w) = SubSeq(f, 1, n)
  BY DEF ScriptOf
<1>6. IsWorld(Reads(line, w))
  BY Fails DEF Reads
<1> HIDE DEF f, n
<1>7. \A i \in 1..n : f[i] \in Text
  BY <1>3, <1>4
<1>8. SubSeq(f, 1, n) \in Seq(Text) /\ Len(SubSeq(f, 1, n)) = IF 1 <= n THEN n - 1 + 1 ELSE 0
  BY <1>4, <1>7, SubSeqProperties
<1> QED BY <1>4, <1>5, <1>6, <1>8, Bounds
-----------------------------------------------------------------------------
(* The activations of exec_block, in a table of n lines.                   *)
Activation(n) ==
  {b \in [at : Nat, end : Nat, loop : Nat, var : Strings, items : Seq(Strings)] :
     /\ b.at \in 1..b.end /\ b.end <= n + 1
     /\ b.loop \in 0..b.end - 1 /\ (b.loop # 0 => b.at < b.loop)}
ScriptInv ==
  /\ table \in Seq(Text) /\ Len(table) <= MaxScript
  /\ stack \in Seq(Activation(Len(table)))
IInv == HistInv /\ IsWorld(world) /\ ScriptInv

LEMMA ActivationsStay ==
  ASSUME NEW m \in Nat, NEW n \in Nat, m <= n
  PROVE  Activation(m) \subseteq Activation(n) /\ Seq(Activation(m)) \subseteq Seq(Activation(n))
<1>1. Activation(m) \subseteq Activation(n)
  BY DEF Activation
<1> QED BY <1>1

LEMMA ActivationOf ==
  ASSUME NEW n \in Nat, NEW at \in Nat, NEW end \in Nat, 1 <= at, at <= end, end <= n + 1,
         NEW loop \in Nat, loop # 0 => at < loop /\ loop < end,
         NEW var \in Strings, NEW items \in Seq(Strings)
  PROVE  [at |-> at, end |-> end, loop |-> loop, var |-> var, items |-> items] \in Activation(n)
<1> DEFINE b == [at |-> at, end |-> end, loop |-> loop, var |-> var, items |-> items]
<1>1. b \in [at : Nat, end : Nat, loop : Nat, var : Strings, items : Seq(Strings)]
  OBVIOUS
<1>2. b.at = at /\ b.end = end /\ b.loop = loop
  OBVIOUS
<1>3. at \in 1..end /\ loop \in 0..end - 1
  OBVIOUS
<1> HIDE DEF b
<1>4. b \in Activation(n)
  BY <1>1, <1>2, <1>3 DEF Activation
<1> QED BY <1>4 DEF b

LEMMA BlockIs ==
  ASSUME NEW n \in Nat, NEW from \in Nat, NEW to \in Nat, 1 <= from, from <= to, to <= n + 1
  PROVE  Block(from, to) \in Activation(n)
<1> DEFINE no == ""
           none == <<>>
<1>1. no \in Strings /\ none \in Seq(Strings)
  BY ShellAssumption, Zenon, EmptySeq
<1>2. Block(from, to) = [at |-> from, end |-> to, loop |-> 0, var |-> no, items |-> none]
  BY Zenon DEF Block
<1> HIDE DEF no, none
<1>3. [at |-> from, end |-> to, loop |-> 0, var |-> no, items |-> none] \in Activation(n)
  BY <1>1, ActivationOf
<1> QED BY <1>2, <1>3, Zenon

LEMMA TopChanged ==
  ASSUME NEW S, NEW s \in Seq(S), s # <<>>, NEW b \in S
  PROVE  [s EXCEPT ![Len(s)] = b] \in Seq(S)
OBVIOUS

LEMMA TopCalls ==
  ASSUME NEW S, NEW s \in Seq(S), s # <<>>, NEW b \in S, NEW c \in S
  PROVE  Front(s) \o <<b, c>> \in Seq(S)
<1>1. Front(s) \in Seq(S) /\ <<b, c>> \in Seq(S)
  BY FrontIs
<1> QED BY <1>1, ConcatProperties

LEMMA Tops ==
  ASSUME ScriptInv, stack # <<>>
  PROVE  /\ Top \in Activation(Len(table)) /\ Len(table) \in Nat
         /\ Top.at \in Nat /\ Top.end \in Nat /\ Top.loop \in Nat /\ Top.var \in Strings /\ Top.items \in Seq(Strings)
         /\ Top.at >= 1 /\ Top.at <= Top.end /\ Top.end <= Len(table) + 1 /\ Top.loop <= Top.end - 1
         /\ Top.loop # 0 => Top.at < Top.loop
<1>1. Top \in Activation(Len(table)) /\ Len(table) \in Nat
  BY FrontIs DEF ScriptInv, Top
<1> QED BY <1>1 DEF Activation

LEMMA LineIs ==
  ASSUME ScriptInv, Reading
  PROVE  Top.at \in 1..Len(table) /\ Line \in Text /\ Top.loop = 0
<1>1. stack # <<>> /\ Top.at < Top.end /\ Top.loop = 0
  BY DEF Reading
<1>2. Top.at \in 1..Len(table)
  BY <1>1, Tops
<1> QED BY <1>1, <1>2 DEF ScriptInv, Line

(* The innermost activation goes on, or calls another one.                 *)
LEMMA GoesOn ==
  ASSUME ScriptInv, stack # <<>>, table' \in Seq(Text), Len(table') <= MaxScript, Len(table') >= Len(table),
         NEW b \in Activation(Len(table')),
         \/ Becomes(b)
         \/ \E c \in Activation(Len(table')) : BecomesWith(b, c)
         \/ stack' = Front(stack)
  PROVE  ScriptInv'
<1> DEFINE S == Activation(Len(table'))
<1>1. Len(table) \in Nat /\ Len(table') \in Nat
  BY DEF ScriptInv
<1>2. stack \in Seq(S)
  BY <1>1, ActivationsStay DEF ScriptInv
<1> HIDE DEF S
<1>3. CASE Becomes(b)
  <2>1. stack' \in Seq(S)
    BY <1>2, <1>3, TopChanged DEF Becomes, S
  <2> QED BY <2>1 DEF ScriptInv, S
<1>4. ASSUME NEW c \in S, BecomesWith(b, c) PROVE ScriptInv'
  <2>1. stack' \in Seq(S)
    BY <1>2, <1>4, TopCalls DEF BecomesWith, S
  <2> QED BY <2>1 DEF ScriptInv, S
<1>5. CASE stack' = Front(stack)
  <2>1. stack' \in Seq(S)
    BY <1>2, <1>5, FrontIs
  <2> QED BY <2>1 DEF ScriptInv, S
<1> QED BY <1>3, <1>4, <1>5 DEF S

LEMMA MinOr0Is ==
  ASSUME NEW m \in Nat, NEW n \in Int, NEW T \in SUBSET (m..n)
  PROVE  MinOr0(T) \in {0} \cup m..n
<1>1. T \in SUBSET Nat
  OBVIOUS
<1>2. T # {} => Min(T) \in T
  BY <1>1, MinIs
<1> QED BY <1>2 DEF MinOr0

LEMMA MatchIs ==
  ASSUME ScriptInv, stack # <<>>, NEW open, NEW close
  PROVE  FindMatching(open, close) \in {0} \cup Top.at + 1..Top.end - 1
<1>1. Top.at + 1 \in Nat /\ Top.end - 1 \in Int
  BY Tops
<1> QED BY <1>1, MinOr0Is DEF FindMatching

LEMMA CutIs ==
  ASSUME ScriptInv, IsCommand
  PROVE  Cut \in Seq(Text) /\ Len(Cut) = Len(table)
<1>1. Reading /\ Line # <<>>
  BY DEF IsCommand, IsComment
<1>2. Top.at \in 1..Len(table) /\ Line \in Text /\ table \in Seq(Text)
  BY <1>1, LineIs DEF ScriptInv
<1>3. Line[1] \in Strings
  BY <1>1, <1>2, TailIs
<1>4. IsAssignment(Line) => Assigns[Line[1]].name \in Strings
  <2>1. IsAssignment(Line) => Assigns[Line[1]] \in [name : Strings, value : Strings]
    BY ShellAssumption, Zenon DEF IsAssignment
  <2> QED BY <2>1
<1>5. CutLine(Line) \in Text
  BY <1>3, <1>4 DEF CutLine, Text
<1> HIDE DEF Text
<1> QED BY <1>2, <1>5 DEF Cut

(* cmd_sh's reading of lines over those of the table.                      *)
LEMMA Overwritten ==
  ASSUME NEW ls \in Seq(Text), Len(ls) <= MaxScript, NEW t \in Seq(Text), Len(t) <= MaxScript,
         NEW r, r = ls \o SubSeq(t, Len(ls) + 1, Len(t))
  PROVE  r \in Seq(Text) /\ Len(r) <= MaxScript /\ Len(r) >= Len(t) /\ Len(r) >= Len(ls)
<1> DEFINE m == Len(ls) + 1
           n == Len(t)
           u == SubSeq(t, m, n)
<1>1. m \in Nat /\ n \in Nat /\ Len(ls) \in Nat /\ \A i \in m..n : t[i] \in Text
  OBVIOUS
<1>2. u \in Seq(Text) /\ Len(u) = IF m <= n THEN n - m + 1 ELSE 0
  BY <1>1, SubSeqProperties
<1> HIDE DEF u, n
<1>3. r \in Seq(Text) /\ Len(r) = Len(ls) + Len(u)
  BY <1>2, ConcatProperties DEF u, n
<1> QED BY <1>1, <1>2, <1>3, Bounds DEF n
-----------------------------------------------------------------------------
(* Every step keeps the invariant.                                         *)
LEMMA Begins == Init => IInv
<1> SUFFICES ASSUME Init PROVE IInv
  OBVIOUS
<1>1. HistInv
  BY HistBegins
<1>2. IsWorld(world)
  <2> DEFINE none == <<>>
  <2>1. /\ world = [cwd |-> none, path |-> none, fs |-> Fs0, vars |-> none,
                    users |-> none, user |-> "guest", root |-> FALSE, out |-> none]
    BY DEF Init
  <2>2. Standing(Fs0, none)
    BY ShellAssumption, Zenon DEF Standing
  <2>3. Shown(none, none)
    BY Bounds DEF Shown
  <2>4. Values(none) /\ Known(none)
    <3>1. DOMAIN none = {}
      OBVIOUS
    <3>2. IsFiniteSet({}) /\ Cardinality({}) = 0
      BY FS_EmptySet
    <3> QED BY <3>1, <3>2, Bounds DEF Values, Known
  <2> HIDE DEF none
  <2> QED BY <2>1, <2>2, <2>3, <2>4, SMT DEF IsWorld
<1>3. ScriptInv
  <2>1. table = <<>> /\ stack = <<>>
    BY DEF Init
  <2> QED BY <2>1, Bounds DEF ScriptInv
<1> QED BY <1>1, <1>2, <1>3 DEF IInv

LEMMA HistStays ==
  ASSUME HistInv, Quiet
  PROVE  HistInv'
<1>1. UNCHANGED <<hist, entered, buf, browse>>
  BY DEF Quiet, prompt
<1>2. buf \in Typed /\ browse \in -1..count - 1 /\ count \in Nat
  BY Bounds DEF HistInv
<1>3. browse >= 0 => browse \in 0..count - 1
  BY <1>2
<1>4. browse >= 0 => buf = Recall(browse)
  BY <1>3 DEF HistInv, HistoryShows, ShowsLast
<1> QED BY <1>1, <1>2, <1>4, PromptKeeps

LEMMA EnterKeeps ==
  ASSUME IInv, Enter
  PROVE  IInv'
<1> DEFINE w == [world EXCEPT !.out = <<>>]
           ls == ScriptOf(buf, w)
<1>1. IsWorld(w)
  BY OutChanges DEF IInv
<1>2. buf \in Text
  BY DEF IInv, HistInv, Typed
<1>3. AtPrompt /\ HistoryAdd(buf) /\ entered' = Append(entered, buf) /\ buf' = <<>> /\ browse' = -1
  BY DEF Enter
<1>4. HistInv'
  BY <1>3, HistoryGrows DEF IInv
<1>5. CASE StartsScript(buf, w)
  <2>1. table' = Read(ls) /\ world' = Reads(buf, w) /\ stack' = <<Block(1, Len(ls) + 1)>>
    BY <1>5 DEF Enter
  <2> HIDE DEF w
  <2>2. ls \in Seq(Text) /\ Len(ls) \in 0..MaxScript /\ IsWorld(world')
    BY <1>1, <1>2, <1>5, <2>1, ScriptIs
  <2>3. table \in Seq(Text) /\ Len(table) <= MaxScript
    BY DEF IInv, ScriptInv
  <2> HIDE DEF ls
  <2>4. table' \in Seq(Text) /\ Len(table') <= MaxScript /\ Len(table') >= Len(ls) /\ Len(ls) \in Nat /\ Len(ls) <= MaxScript
    BY <2>1, <2>2, <2>3, Overwritten, Bounds DEF Read
  <2>5. Len(table') \in Nat
    BY <2>4
  <2>6. Block(1, Len(ls) + 1) \in Activation(Len(table'))
    BY <2>4, <2>5, BlockIs
  <2>7. stack' \in Seq(Activation(Len(table')))
    BY <2>1, <2>6
  <2> QED BY <1>4, <2>2, <2>4, <2>7 DEF IInv, ScriptInv
<1>6. CASE ~StartsScript(buf, w)
  <2>1. world' = Executed(buf, w) /\ UNCHANGED <<table, stack>>
    BY <1>6 DEF Enter
  <2> HIDE DEF w
  <2>2. IsWorld(world')
    BY <1>1, <1>2, <2>1, ExecutedKeeps
  <2>3. ScriptInv'
    BY <2>1 DEF IInv, ScriptInv
  <2> QED BY <1>4, <2>2, <2>3 DEF IInv
<1> QED BY <1>5, <1>6

(* A step of exec_block leaves the prompt.                                 *)
LEMMA ExecKeeps ==
  ASSUME IInv, Quiet, IsWorld(world'), ScriptInv'
  PROVE  IInv'
BY HistStays DEF IInv

(* The activation as it is, one line or more further on.                   *)
LEMMA MovedOn ==
  ASSUME ScriptInv, Reading, NEW n \in Nat, Len(table) <= n, NEW k \in Nat, Top.at < k, k <= Top.end
  PROVE  [Top EXCEPT !.at = k] \in Activation(n)
<1>1. stack # <<>> /\ Top.loop = 0
  BY DEF Reading
<1>2. Top \in Activation(Len(table)) /\ Len(table) \in Nat
  BY <1>1, Tops
<1>3. Top \in Activation(n)
  BY <1>2, ActivationsStay
<1>4. Top.end \in Nat /\ Top.end <= n + 1
  BY <1>3 DEF Activation
<1> QED BY <1>1, <1>3, <1>4 DEF Activation

LEMMA FinishKeeps ==
  ASSUME IInv, Finish
  PROVE  IInv'
<1>1. stack # <<>> /\ stack' = Front(stack) /\ UNCHANGED <<world, table>> /\ Quiet
  BY DEF Finish
<1>2. ScriptInv /\ table \in Seq(Text) /\ Len(table) <= MaxScript /\ Len(table) \in Nat
  BY DEF IInv, ScriptInv
<1>3. Top \in Activation(Len(table))
  BY <1>1, <1>2, Tops
<1>4. ScriptInv'
  BY <1>1, <1>2, <1>3, GoesOn
<1> QED BY <1>1, <1>4, ExecKeeps DEF IInv

LEMMA SkipKeeps ==
  ASSUME IInv, Skip
  PROVE  IInv'
<1>1. Reading /\ stack # <<>> /\ Becomes([Top EXCEPT !.at = Top.at + 1]) /\ UNCHANGED <<world, table>> /\ Quiet
  BY DEF Skip, Reading
<1>2. ScriptInv /\ table \in Seq(Text) /\ Len(table) <= MaxScript /\ Len(table) \in Nat
  BY DEF IInv, ScriptInv
<1>3. Top.at + 1 \in Nat /\ Top.at < Top.at + 1 /\ Top.at + 1 <= Top.end
  BY <1>1, <1>2, Tops DEF Reading
<1>4. [Top EXCEPT !.at = Top.at + 1] \in Activation(Len(table))
  BY <1>1, <1>2, <1>3, MovedOn
<1>5. ScriptInv'
  BY <1>1, <1>2, <1>4, GoesOn
<1> QED BY <1>1, <1>5, ExecKeeps DEF IInv

LEMMA IfKeeps ==
  ASSUME IInv, If
  PROVE  IInv'
<1> DEFINE fi == FindMatching("if", "fi")
           behind == [Top EXCEPT !.at = fi + 1]
           inner == Block(Top.at + 1, fi)
<1>1. /\ Reading /\ stack # <<>> /\ fi # 0 /\ UNCHANGED table /\ Quiet
      /\ world' = Fail(world, "if") \/ world' = world
      /\ BecomesWith(behind, inner) \/ Becomes(behind)
  BY DEF If, Reading
<1>2. ScriptInv /\ table \in Seq(Text) /\ Len(table) <= MaxScript /\ Len(table) \in Nat
  BY DEF IInv, ScriptInv
<1>3. fi \in Top.at + 1..Top.end - 1
  BY <1>1, <1>2, MatchIs
<1> HIDE DEF fi
<1>4. /\ Top.at + 1 \in Nat /\ fi \in Nat /\ 1 <= Top.at + 1 /\ Top.at + 1 <= fi /\ fi <= Len(table) + 1
      /\ fi + 1 \in Nat /\ Top.at < fi + 1 /\ fi + 1 <= Top.end
  BY <1>1, <1>2, <1>3, Tops
<1>5. behind \in Activation(Len(table))
  BY <1>1, <1>2, <1>4, MovedOn
<1>6. inner \in Activation(Len(table))
  BY <1>2, <1>4, BlockIs
<1> HIDE DEF behind, inner
<1>7. ScriptInv'
  BY <1>1, <1>2, <1>5, <1>6, GoesOn
<1>8. IsWorld(world')
  BY <1>1, Fails DEF IInv
<1> QED BY <1>1, <1>7, <1>8, ExecKeeps

LEMMA ForKeeps ==
  ASSUME IInv, For
  PROVE  IInv'
<1> DEFINE done == FindMatching("for", "done")
           items == SubSeq(Line, 4, Len(Line) - 1)
           b == [at |-> Top.at, end |-> Top.end, loop |-> done, var |-> Line[2], items |-> items]
<1>1. Reading /\ stack # <<>> /\ IsFor /\ done # 0 /\ UNCHANGED <<world, table>> /\ Quiet /\ Becomes(b)
  BY DEF For, Reading
<1>2. ScriptInv /\ table \in Seq(Text) /\ Len(table) <= MaxScript /\ Len(table) \in Nat
  BY DEF IInv, ScriptInv
<1>3. done \in Top.at + 1..Top.end - 1
  BY <1>1, <1>2, MatchIs
<1>4. Line \in Seq(Strings) /\ Len(Line) \in Nat /\ Len(Line) >= 4
  BY <1>1, <1>2, LineIs DEF IsFor, Text
<1>5. Line[2] \in Strings
  BY <1>4
<1>6. items \in Seq(Strings)
  <2> DEFINE n == Len(Line) - 1
  <2>1. n \in Int /\ \A i \in 4..n : Line[i] \in Strings
    BY <1>4
  <2> QED BY <2>1, SubSeqProperties
<1> HIDE DEF done, items
<1>7. /\ Top.at \in Nat /\ Top.end \in Nat /\ 1 <= Top.at /\ Top.at <= Top.end /\ Top.end <= Len(table) + 1
      /\ done \in Nat /\ Top.at < done /\ done < Top.end
  BY <1>1, <1>2, <1>3, Tops
<1>8. b \in Activation(Len(table))
  BY <1>2, <1>5, <1>6, <1>7, ActivationOf
<1> HIDE DEF b
<1>9. ScriptInv'
  BY <1>1, <1>2, <1>8, GoesOn
<1> QED BY <1>1, <1>9, ExecKeeps DEF IInv

LEMMA NotClosedKeeps ==
  ASSUME IInv, NotClosed
  PROVE  IInv'
<1>1. stack # <<>> /\ stack' = Front(stack) /\ world' = Fail(world, "sh") /\ UNCHANGED table /\ Quiet
  BY DEF NotClosed, Reading
<1>2. ScriptInv /\ table \in Seq(Text) /\ Len(table) <= MaxScript /\ Len(table) \in Nat
  BY DEF IInv, ScriptInv
<1>3. Top \in Activation(Len(table))
  BY <1>1, <1>2, Tops
<1>4. ScriptInv'
  BY <1>1, <1>2, <1>3, GoesOn
<1>5. IsWorld(world')
  BY <1>1, Fails DEF IInv
<1> QED BY <1>1, <1>4, <1>5, ExecKeeps

LEMMA IterateKeeps ==
  ASSUME IInv, Iterate
  PROVE  IInv'
<1> DEFINE b == [Top EXCEPT !.items = Tail(@)]
           inner == Block(Top.at + 1, Top.loop)
<1>1. /\ stack # <<>> /\ Top.loop # 0 /\ Top.items # <<>> /\ UNCHANGED table /\ Quiet
      /\ world' = VarSet(world, Top.var, Head(Top.items)) /\ BecomesWith(b, inner)
  BY DEF Iterate
<1>2. ScriptInv /\ table \in Seq(Text) /\ Len(table) <= MaxScript /\ Len(table) \in Nat
  BY DEF IInv, ScriptInv
<1>3. Top.items \in Seq(Strings) /\ Top \in Activation(Len(table))
  BY <1>1, <1>2, Tops
<1>4. Head(Top.items) \in Strings /\ Tail(Top.items) \in Seq(Strings)
  BY <1>1, <1>3
<1>5. IsWorld(world')
  BY <1>1, <1>4, VarSetKeeps DEF IInv
<1>6. b \in Activation(Len(table))
  BY <1>3, <1>4 DEF Activation
<1>7. inner \in Activation(Len(table))
  <2>1. /\ Top.at + 1 \in Nat /\ Top.loop \in Nat /\ 1 <= Top.at + 1 /\ Top.at + 1 <= Top.loop
        /\ Top.loop <= Len(table) + 1
    BY <1>1, <1>2, Tops
  <2> QED BY <1>2, <2>1, BlockIs
<1> HIDE DEF b, inner
<1>8. ScriptInv'
  BY <1>1, <1>2, <1>6, <1>7, GoesOn
<1> QED BY <1>1, <1>5, <1>8, ExecKeeps

LEMMA LoopOverKeeps ==
  ASSUME IInv, LoopOver
  PROVE  IInv'
<1> DEFINE b == Block(Top.loop + 1, Top.end)
<1>1. stack # <<>> /\ Top.loop # 0 /\ UNCHANGED <<world, table>> /\ Quiet /\ Becomes(b)
  BY DEF LoopOver
<1>2. ScriptInv /\ table \in Seq(Text) /\ Len(table) <= MaxScript /\ Len(table) \in Nat
  BY DEF IInv, ScriptInv
<1>3. /\ Top.loop + 1 \in Nat /\ Top.end \in Nat /\ 1 <= Top.loop + 1 /\ Top.loop + 1 <= Top.end
      /\ Top.end <= Len(table) + 1
  BY <1>1, <1>2, Tops
<1>4. b \in Activation(Len(table))
  BY <1>2, <1>3, BlockIs
<1> HIDE DEF b
<1>5. ScriptInv'
  BY <1>1, <1>2, <1>4, GoesOn
<1> QED BY <1>1, <1>5, ExecKeeps DEF IInv

LEMMA CommandKeeps ==
  ASSUME IInv, Command
  PROVE  IInv'
<1> DEFINE b == [Top EXCEPT !.at = Top.at + 1]
<1>1. /\ IsCommand /\ Reading /\ stack # <<>> /\ Quiet
      /\ world' = Executed(Line, world) /\ table' = Cut /\ Becomes(b)
  BY DEF Command, IsCommand, Reading
<1>2. ScriptInv /\ Len(table) \in Nat /\ Len(table) <= MaxScript
  BY DEF IInv, ScriptInv
<1>3. table' \in Seq(Text) /\ Len(table') = Len(table)
  BY <1>1, <1>2, CutIs
<1>4. Top.at + 1 \in Nat /\ Top.at < Top.at + 1 /\ Top.at + 1 <= Top.end
  BY <1>1, <1>2, Tops DEF Reading
<1>5. b \in Activation(Len(table'))
  BY <1>1, <1>2, <1>3, <1>4, MovedOn
<1>6. IsWorld(world')
  BY <1>1, <1>2, LineIs, ExecutedKeeps DEF IInv
<1> HIDE DEF b
<1>7. ScriptInv'
  BY <1>1, <1>2, <1>3, <1>5, GoesOn
<1> QED BY <1>1, <1>6, <1>7, ExecKeeps

LEMMA RunScriptKeeps ==
  ASSUME IInv, RunScript
  PROVE  IInv'
<1> DEFINE b == [Top EXCEPT !.at = Top.at + 1]
           ls == ScriptOf(Line, world)
           inner == Block(1, Len(ls) + 1)
<1>1. /\ IsCommand /\ Reading /\ stack # <<>> /\ Quiet /\ StartsScript(Line, world)
      /\ world' = Reads(Line, world) /\ table' = ls \o SubSeq(Cut, Len(ls) + 1, Len(table))
      /\ BecomesWith(b, inner)
  BY DEF RunScript, IsCommand, Reading
<1>2. ScriptInv /\ Len(table) \in Nat /\ Len(table) <= MaxScript
  BY DEF IInv, ScriptInv
<1>3. Cut \in Seq(Text) /\ Len(Cut) = Len(table)
  BY <1>1, <1>2, CutIs
<1>4. ls \in Seq(Text) /\ Len(ls) \in 0..MaxScript /\ IsWorld(world')
  BY <1>1, <1>2, LineIs, ScriptIs DEF IInv
<1> HIDE DEF ls
<1>5. /\ table' \in Seq(Text) /\ Len(table') <= MaxScript /\ Len(table') >= Len(table) /\ Len(table') >= Len(ls)
      /\ Len(ls) \in Nat /\ Len(table') \in Nat
  <2>1. table' = ls \o SubSeq(Cut, Len(ls) + 1, Len(Cut)) /\ Len(ls) <= MaxScript /\ Len(ls) \in Nat /\ Len(Cut) <= MaxScript
    BY <1>1, <1>2, <1>3, <1>4, Bounds
  <2>2. table' \in Seq(Text) /\ Len(table') <= MaxScript /\ Len(table') >= Len(Cut) /\ Len(table') >= Len(ls)
    BY <1>3, <1>4, <2>1, Overwritten
  <2> QED BY <1>3, <2>1, <2>2
<1>6. Top.at + 1 \in Nat /\ Top.at < Top.at + 1 /\ Top.at + 1 <= Top.end
  BY <1>1, <1>2, Tops DEF Reading
<1>7. b \in Activation(Len(table'))
  BY <1>1, <1>2, <1>5, <1>6, MovedOn
<1>8. inner \in Activation(Len(table'))
  BY <1>5, BlockIs
<1> HIDE DEF b, inner
<1>9. ScriptInv'
  BY <1>1, <1>2, <1>5, <1>7, <1>8, GoesOn
<1> QED BY <1>1, <1>4, <1>9, ExecKeeps

LEMMA StepKeeps == IInv /\ [Next]_vars => IInv'
<1> SUFFICES ASSUME IInv, [Next]_vars PROVE IInv'
  OBVIOUS
<1>1. CASE (\E word \in Words : Type(word)) \/ RubOut \/ KeyUp \/ KeyDown
  <2>1. HistInv'
    BY <1>1, PromptStep DEF IInv
  <2>2. UNCHANGED <<world, table, stack>>
    BY <1>1 DEF Type, RubOut, KeyUp, KeyDown
  <2>3. IsWorld(world') /\ ScriptInv'
    BY <2>2 DEF IInv, ScriptInv
  <2> QED BY <2>1, <2>3 DEF IInv
<1>2. CASE UNCHANGED vars
  <2>1. Quiet /\ UNCHANGED <<world, table, stack>>
    BY <1>2 DEF vars, Quiet
  <2>2. IsWorld(world') /\ ScriptInv'
    BY <2>1 DEF IInv, ScriptInv
  <2> QED BY <2>1, <2>2, ExecKeeps
<1>3. CASE Exec
  BY <1>3, FinishKeeps, SkipKeeps, IfKeeps, ForKeeps, NotClosedKeeps, IterateKeeps, LoopOverKeeps,
     CommandKeeps, RunScriptKeeps DEF Exec
<1>4. CASE Enter
  BY <1>4, EnterKeeps
<1> QED BY <1>1, <1>2, <1>3, <1>4 DEF Next

THEOREM InductiveInvariant == Spec => []IInv
<1>1. IInv /\ [Next]_vars => IInv'
  BY StepKeeps
<1> QED BY Begins, <1>1, PTL DEF Spec

(* The ring, the variables, the users and the path keep their bounds, an   *)
(* activation stays inside the table though a script replaces it, and the  *)
(* shell stands in a directory of a tree.                                  *)
THEOREM TypeCorrect == Spec => []TypeOK
<1>1. IInv => TypeOK
  <2> SUFFICES ASSUME IInv PROVE TypeOK
    OBVIOUS
  <2>1. /\ Len(buf) <= MaxLine /\ browse \in -1..count - 1
        /\ count \in 0..HistSize /\ next \in 0..HistSize - 1 /\ DOMAIN history = 0..HistSize - 1
    BY DEF IInv, HistInv, Typed
  <2>2. /\ Values(world.vars) /\ Known(world.users) /\ Shown(world.path, world.cwd) /\ Standing(world.fs, world.cwd)
    BY DEF IInv, IsWorld
  <2>3. IsPrefix(world.path, world.cwd)
    <3>1. world.path = SubSeq(world.cwd, 1, Len(world.path)) /\ Len(world.path) <= Len(world.cwd)
      BY <2>2 DEF Shown
    <3>2. SubSeq(world.path, 1, Len(world.path)) = world.path
      BY <3>1
    <3> QED BY <3>1, <3>2 DEF IsPrefix
  <2>4. ASSUME NEW i \in 1..Len(stack)
        PROVE  /\ stack[i].at \in 1..stack[i].end /\ stack[i].end <= Len(table) + 1
               /\ stack[i].loop \in 0..stack[i].end - 1
    <3>1. stack[i] \in Activation(Len(table))
      BY DEF IInv, ScriptInv
    <3> QED BY <3>1 DEF Activation
  <2>5. Len(table) <= MaxScript
    BY DEF IInv, ScriptInv
  <2> QED BY <2>1, <2>2, <2>3, <2>4, <2>5 DEF TypeOK, Values, Known, Standing
<1> QED BY <1>1, InductiveInvariant, PTL

(* read_line's Up and Down and the command history show the lines entered  *)
(* last, whole and in order, through any number of turns of the ring.      *)
THEOREM HistoryIsKept == Spec => []HistoryShows
<1>1. IInv => HistoryShows
  BY DEF IInv, HistInv
<1> QED BY <1>1, InductiveInvariant, PTL
=============================================================================
