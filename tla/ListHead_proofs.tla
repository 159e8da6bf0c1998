--------------------------- MODULE ListHead_proofs ---------------------------
(***************************************************************************)
(* Proofs about ListHead: whatever is linked and unlinked, the pointers of *)
(* every list visit its items, for any number of lists and nodes.          *)
(***************************************************************************)
EXTENDS ListHead, Induction, SequenceTheorems

(* The i-th cell of list h, which is circular: the sentinel comes before   *)
(* the first item and after the last.                                      *)
Cell(h, i) == IF i \in 1 .. Len(items[h]) THEN items[h][i] ELSE h

(* Neighbours on a list point at each other. *)
Chained ==
  \A h \in Heads : \A i \in 0 .. Len(items[h]) :
    next[Cell(h, i)] = Cell(h, i + 1) /\ prev[Cell(h, i + 1)] = Cell(h, i)

(* No node is on two lists, or twice on one. *)
Apart ==
  \A g, h \in Heads : \A i \in 1 .. Len(items[g]), j \in 1 .. Len(items[h]) :
    items[g][i] = items[h][j] => g = h /\ i = j

IInv == TypeOK /\ Apart /\ Chained

-----------------------------------------------------------------------------
(* Cells and places.                                                       *)
LEMMA CellType ==
  ASSUME TypeOK, NEW h \in Heads
  PROVE  /\ Len(items[h]) \in Nat
         /\ \A i : Cell(h, i) \in Cells
         /\ \A i \in 1 .. Len(items[h]) : Cell(h, i) \in Nodes /\ Cell(h, i) = items[h][i]
         /\ Cell(h, 0) = h /\ Cell(h, Len(items[h]) + 1) = h
<1>1. items[h] \in Seq(Nodes)
  BY DEF TypeOK
<1>2. Len(items[h]) \in Nat /\ \A i \in 1 .. Len(items[h]) : items[h][i] \in Nodes
  BY <1>1
<1> QED
  BY <1>2 DEF Cell, Cells

LEMMA CellUnique ==
  ASSUME TypeOK, Apart, NEW g \in Heads, NEW h \in Heads,
         NEW i \in 0 .. Len(items[g]), NEW j \in 0 .. Len(items[h]), Cell(g, i) = Cell(h, j)
  PROVE  g = h /\ i = j
<1>1. CASE i = 0 \/ j = 0
  BY <1>1, CellType, CellAssumption
<1>2. CASE i # 0 /\ j # 0
  <2>1. i \in 1 .. Len(items[g]) /\ j \in 1 .. Len(items[h])
    BY <1>2, CellType
  <2>2. items[g][i] = items[h][j]
    BY <2>1, CellType
  <2> QED
    BY <2>1, <2>2 DEF Apart
<1> QED
  BY <1>1, <1>2

(* The same for the places 1 to Len + 1, of which the last is the sentinel. *)
LEMMA CellUniqueBack ==
  ASSUME TypeOK, Apart, NEW g \in Heads, NEW h \in Heads,
         NEW i \in 1 .. Len(items[g]) + 1, NEW j \in 1 .. Len(items[h]) + 1,
         Cell(g, i) = Cell(h, j)
  PROVE  g = h /\ i = j
<1> DEFINE Wrap(f, k) == IF k = Len(items[f]) + 1 THEN 0 ELSE k
<1>1. /\ Wrap(g, i) \in 0 .. Len(items[g]) /\ Cell(g, Wrap(g, i)) = Cell(g, i)
      /\ Wrap(h, j) \in 0 .. Len(items[h]) /\ Cell(h, Wrap(h, j)) = Cell(h, j)
  BY CellType
<1>2. g = h /\ Wrap(g, i) = Wrap(h, j)
  <2> HIDE DEF Wrap
  <2> QED
    BY <1>1, CellUnique
<1> QED
  BY <1>2, CellType

(* A linked cell is a cell of one list, at the place that Place says. *)
LEMMA LinkedCell ==
  ASSUME TypeOK, Apart, NEW x \in Linked
  PROVE  /\ ListOf(x) \in Heads
         /\ Place(ListOf(x), x) \in 0 .. Len(items[ListOf(x)])
         /\ Cell(ListOf(x), Place(ListOf(x), x)) = x
<1> DEFINE h == ListOf(x)
<1>1. h \in Heads /\ x \in OnList(h)
  BY DEF Linked, ListOf
<1> HIDE DEF h
<1>2. items[h] \in Seq(Nodes)
  BY <1>1 DEF TypeOK
<1>3. CASE x = h
  BY <1>1, <1>3, CellType DEF Place, h
<1>4. CASE x # h
  <2>1. \E i \in DOMAIN items[h] : items[h][i] = x
    BY <1>1, <1>4 DEF OnList, ToSet
  <2>2. Place(h, x) \in DOMAIN items[h] /\ items[h][Place(h, x)] = x
    BY <1>4, <2>1 DEF Place
  <2> QED
    BY <1>1, <1>2, <2>2, CellType DEF h
<1> QED
  BY <1>3, <1>4

LEMMA CellLinked ==
  ASSUME TypeOK, NEW h \in Heads, NEW i
  PROVE  Cell(h, i) \in Linked
<1>1. items[h] \in Seq(Nodes)
  BY DEF TypeOK
<1> QED
  BY <1>1 DEF Cell, Linked, OnList, ToSet

LEMMA PlaceOfCell ==
  ASSUME TypeOK, Apart, NEW h \in Heads, NEW i \in 0 .. Len(items[h])
  PROVE  ListOf(Cell(h, i)) = h /\ Place(h, Cell(h, i)) = i
<1> DEFINE x == Cell(h, i)
<1>1. x \in Linked
  BY CellLinked
<1>2. /\ ListOf(x) \in Heads
      /\ Place(ListOf(x), x) \in 0 .. Len(items[ListOf(x)])
      /\ Cell(ListOf(x), Place(ListOf(x), x)) = x
  <2> HIDE DEF x
  <2> QED
    BY <1>1, LinkedCell
<1> QED
  BY <1>2, CellUnique

-----------------------------------------------------------------------------
(* What the steps do to a sequence.                                        *)
LEMMA InsertedAt ==
  ASSUME NEW S, NEW s \in Seq(S), NEW n \in S, NEW j \in 0 .. Len(s), NEW t,
         t = InsertAt(s, j + 1, n)
  PROVE  /\ t \in Seq(S) /\ Len(t) = Len(s) + 1
         /\ \A i \in 1 .. Len(s) + 1 :
              t[i] = IF i <= j THEN s[i] ELSE IF i = j + 1 THEN n ELSE s[i - 1]
<1> DEFINE a == SubSeq(s, 1, j)
           b == SubSeq(s, j + 1, Len(s))
<1>0. Len(s) \in Nat /\ j \in Nat /\ j <= Len(s) /\ (j + 1) - 1 = j
  OBVIOUS
<1>1. a \in Seq(S) /\ Len(a) = j /\ \A i \in 1 .. j : a[i] = s[i]
  BY <1>0
<1>2. b \in Seq(S) /\ Len(b) = Len(s) - j /\ \A i \in 1 .. Len(s) - j : b[i] = s[j + i]
  BY <1>0
<1>3. t = (a \o <<n>>) \o b
  BY <1>0 DEF InsertAt
<1> HIDE DEF a, b
<1> DEFINE m == a \o <<n>>
<1>4. <<n>> \in Seq(S) /\ Len(<<n>>) = 1 /\ <<n>>[1] = n
  OBVIOUS
<1>5. m \in Seq(S) /\ Len(m) = j + 1
      /\ \A i \in 1 .. j + 1 : m[i] = IF i <= j THEN s[i] ELSE n
  <2>1. m \in Seq(S) /\ Len(m) = Len(a) + 1
        /\ \A i \in 1 .. Len(a) + 1 : m[i] = IF i <= Len(a) THEN a[i] ELSE <<n>>[i - Len(a)]
    BY <1>1, <1>4, ConcatProperties
  <2> HIDE DEF m
  <2> QED
    BY <1>0, <1>1, <2>1
<1> HIDE DEF m
<1>6. t \in Seq(S) /\ Len(t) = Len(m) + Len(b)
      /\ \A i \in 1 .. Len(m) + Len(b) : t[i] = IF i <= Len(m) THEN m[i] ELSE b[i - Len(m)]
  <2>1. t = m \o b
    BY <1>3 DEF m
  <2>2. /\ m \o b \in Seq(S) /\ Len(m \o b) = Len(m) + Len(b)
        /\ \A i \in 1 .. Len(m) + Len(b) :
             (m \o b)[i] = IF i <= Len(m) THEN m[i] ELSE b[i - Len(m)]
    BY <1>2, <1>5, ConcatProperties
  <2> QED
    BY <2>1, <2>2
<1>7. ASSUME NEW i \in 1 .. Len(s) + 1, i > j + 1
      PROVE  t[i] = s[i - 1]
  <2>1. i - (j + 1) \in 1 .. Len(s) - j /\ j + (i - (j + 1)) = i - 1
    BY <1>0, <1>7
  <2>2. t[i] = b[i - (j + 1)]
    BY <1>0, <1>2, <1>5, <1>6, <1>7
  <2> QED
    BY <1>2, <2>1, <2>2
<1>8. ASSUME NEW i \in 1 .. Len(s) + 1, i <= j + 1
      PROVE  t[i] = IF i <= j THEN s[i] ELSE n
  <2>1. t[i] = m[i]
    <3>1. i \in 1 .. Len(m) + Len(b) /\ i <= Len(m)
      BY <1>0, <1>2, <1>5, <1>8
    <3> QED
      BY <1>6, <3>1
  <2>2. i \in 1 .. j + 1
    BY <1>0, <1>8
  <2> QED
    BY <1>5, <2>1, <2>2
<1>9. Len(t) = Len(s) + 1
  BY <1>0, <1>2, <1>5, <1>6
<1> QED
  BY <1>0, <1>6, <1>7, <1>8, <1>9

LEMMA RemovedAt ==
  ASSUME NEW S, NEW s \in Seq(S), NEW j \in 1 .. Len(s), NEW t,
         t = RemoveAt(s, j)
  PROVE  /\ t \in Seq(S) /\ Len(t) = Len(s) - 1
         /\ \A i \in 1 .. Len(t) : t[i] = IF i < j THEN s[i] ELSE s[i + 1]
<1> DEFINE a == SubSeq(s, 1, j - 1)
           b == SubSeq(s, j + 1, Len(s))
<1>0. Len(s) \in Nat /\ j \in Nat /\ 1 <= j /\ j <= Len(s)
  OBVIOUS
<1>1. a \in Seq(S) /\ Len(a) = j - 1 /\ \A i \in 1 .. j - 1 : a[i] = s[i]
  BY <1>0
<1>2. b \in Seq(S) /\ Len(b) = Len(s) - j /\ \A i \in 1 .. Len(s) - j : b[i] = s[j + i]
  BY <1>0
<1>3. t = a \o b
  BY DEF RemoveAt
<1> HIDE DEF a, b
<1>4. t \in Seq(S) /\ Len(t) = Len(a) + Len(b)
      /\ \A i \in 1 .. Len(a) + Len(b) : t[i] = IF i <= Len(a) THEN a[i] ELSE b[i - Len(a)]
  <2>1. /\ a \o b \in Seq(S) /\ Len(a \o b) = Len(a) + Len(b)
        /\ \A i \in 1 .. Len(a) + Len(b) :
             (a \o b)[i] = IF i <= Len(a) THEN a[i] ELSE b[i - Len(a)]
    BY <1>1, <1>2, ConcatProperties
  <2> QED
    BY <1>3, <2>1
<1>5. ASSUME NEW i \in 1 .. Len(s) - 1, i >= j
      PROVE  t[i] = s[i + 1]
  <2>1. i - (j - 1) \in 1 .. Len(s) - j /\ j + (i - (j - 1)) = i + 1
    BY <1>0, <1>5
  <2>2. t[i] = b[i - (j - 1)]
    <3>1. i \in 1 .. Len(a) + Len(b) /\ ~(i <= Len(a)) /\ Len(a) = j - 1
      BY <1>0, <1>1, <1>2, <1>5
    <3> QED
      BY <1>4, <3>1
  <2> QED
    BY <1>2, <2>1, <2>2
<1>6. ASSUME NEW i \in 1 .. Len(s) - 1, i < j
      PROVE  t[i] = s[i]
  <2>1. i \in 1 .. Len(a) + Len(b) /\ i <= Len(a) /\ i \in 1 .. j - 1
    BY <1>0, <1>1, <1>2, <1>6
  <2> QED
    BY <1>1, <1>4, <2>1
<1>7. Len(t) = Len(s) - 1
  BY <1>0, <1>1, <1>2, <1>4
<1>8. ASSUME NEW i \in 1 .. Len(s) - 1
      PROVE  t[i] = IF i < j THEN s[i] ELSE s[i + 1]
  <2>1. i < j \/ i >= j
    BY <1>0
  <2> QED
    BY <1>5, <1>6, <2>1
<1> QED
  BY <1>4, <1>7, <1>8

-----------------------------------------------------------------------------
(* n goes between the j-th cell of list h and the next one. *)
LEMMA LinkKeeps ==
  ASSUME IInv, NEW h \in Heads, NEW j \in 0 .. Len(items[h]), NEW n \in Free,
         prev' = [prev EXCEPT ![n] = Cell(h, j), ![Cell(h, j + 1)] = n],
         next' = [next EXCEPT ![Cell(h, j)] = n, ![n] = Cell(h, j + 1)],
         Inserted(h, j, n)
  PROVE  IInv'
<1> DEFINE m == Len(items[h])
           Old(g, i) == IF g = h /\ i > j + 1 THEN i - 1 ELSE i
           New(g, i) == IF g = h /\ i = j + 1 THEN n ELSE Cell(g, Old(g, i))
<1>0. TypeOK /\ Apart /\ Chained /\ n \in Nodes /\ n \notin Linked /\ n \in Cells
  BY DEF IInv, Free, Cells
<1>1. /\ items[h] \in Seq(Nodes) /\ items \in [Heads -> Seq(Nodes)] /\ m \in Nat
  BY <1>0 DEF TypeOK
<1>2. \A g \in Heads : \A i : Cell(g, i) # n /\ Cell(g, i) \in Cells
  BY <1>0, CellLinked, CellType
<1>3. /\ items'[h] \in Seq(Nodes) /\ Len(items'[h]) = m + 1
      /\ \A i \in 1 .. m + 1 :
           items'[h][i] = IF i <= j THEN items[h][i] ELSE IF i = j + 1 THEN n ELSE items[h][i - 1]
  <2>1. items'[h] = InsertAt(items[h], j + 1, n)
    BY <1>1 DEF Inserted
  <2> QED
    BY <1>0, <1>1, <2>1, InsertedAt
<1>4. \A g \in Heads : g # h => items'[g] = items[g]
  BY <1>1 DEF Inserted
<1>5. items' \in [Heads -> Seq(Nodes)]
  BY <1>1, <1>3 DEF Inserted
<1>6. TypeOK'
  BY <1>0, <1>2, <1>5 DEF TypeOK
<1>7. \A g \in Heads : Len(items'[g]) = IF g = h THEN m + 1 ELSE Len(items[g])
  BY <1>3, <1>4
<1>8. ASSUME NEW g \in Heads, NEW i \in 0 .. Len(items'[g]) + 1
      PROVE  Cell(g, i)' = New(g, i)
  <2>1. CASE g # h
    BY <1>4, <2>1 DEF Cell
  <2>2. CASE g = h
    <3>1. CASE i \in 1 .. m + 1
      BY <1>1, <1>3, <2>2, <3>1 DEF Cell
    <3>2. CASE i \notin 1 .. m + 1
      <4>1. Cell(h, i)' = h
        BY <1>3, <2>2, <3>2 DEF Cell
      <4>2. i = 0 \/ i = m + 2
        BY <1>1, <1>3, <2>2, <3>2
      <4>3. New(h, i) = h
        BY <1>0, <1>1, <4>2, CellType
      <4> QED
        BY <2>2, <4>1, <4>3
    <3> QED
      BY <3>1, <3>2
  <2> QED
    BY <2>1, <2>2
<1> HIDE DEF New
<1>9. ASSUME NEW g \in Heads, NEW i \in 0 .. Len(items'[g]), ~ (g = h /\ i = j + 1)
      PROVE  /\ Old(g, i) \in 0 .. Len(items[g]) /\ New(g, i) = Cell(g, Old(g, i))
             /\ ~ (g = h /\ i = j) => /\ ~ (g = h /\ Old(g, i) = j)
                                      /\ New(g, i + 1) = Cell(g, Old(g, i) + 1)
  <2>1. Len(items[g]) \in Nat
    BY <1>0, CellType
  <2> QED
    BY <1>1, <1>7, <1>9, <2>1 DEF New
<1>10. New(h, j + 1) = n
  BY DEF New
<1>11. ASSUME NEW g \in Heads, NEW k \in Heads,
              NEW i \in 0 .. Len(items'[g]), NEW l \in 0 .. Len(items'[k]),
              New(g, i) = New(k, l)
       PROVE  g = k /\ i = l
  <2>1. CASE (g = h /\ i = j + 1) \/ (k = h /\ l = j + 1)
    BY <1>2, <1>9, <1>10, <1>11, <2>1
  <2>2. CASE ~ (g = h /\ i = j + 1) /\ ~ (k = h /\ l = j + 1)
    <3>1. /\ Old(g, i) \in 0 .. Len(items[g]) /\ Old(k, l) \in 0 .. Len(items[k])
          /\ Cell(g, Old(g, i)) = Cell(k, Old(k, l))
      BY <1>9, <1>11, <2>2
    <3>2. g = k /\ Old(g, i) = Old(k, l)
      <4> HIDE DEF Old
      <4> QED
        BY <1>0, <3>1, CellUnique
    <3> QED
      BY <2>2, <3>2
  <2> QED
    BY <2>1, <2>2
<1>12. Apart'
  <2> SUFFICES ASSUME NEW g \in Heads, NEW k \in Heads,
                      NEW i \in 1 .. Len(items'[g]), NEW l \in 1 .. Len(items'[k]),
                      items'[g][i] = items'[k][l]
               PROVE  g = k /\ i = l
    BY DEF Apart
  <2>1. Cell(g, i)' = items'[g][i] /\ Cell(k, l)' = items'[k][l]
    BY DEF Cell
  <2>2. Len(items'[g]) \in Nat /\ Len(items'[k]) \in Nat
    BY <1>5
  <2>3. New(g, i) = New(k, l)
    BY <1>8, <2>1, <2>2
  <2> QED
    BY <1>11, <2>2, <2>3
<1>13. Chained'
  <2> SUFFICES ASSUME NEW g \in Heads, NEW i \in 0 .. Len(items'[g])
               PROVE  next'[Cell(g, i)'] = Cell(g, i + 1)' /\ prev'[Cell(g, i + 1)'] = Cell(g, i)'
    BY DEF Chained
  <2>1. Len(items'[g]) \in Nat
    BY <1>5
  <2>2. Cell(g, i)' = New(g, i) /\ Cell(g, i + 1)' = New(g, i + 1)
    BY <1>8, <2>1
  <2>3. prev \in [Cells -> Cells] /\ next \in [Cells -> Cells]
    BY <1>0 DEF TypeOK
  <2>4. Cell(h, j) # n /\ Cell(h, j + 1) # n
        /\ Cell(h, j) \in Cells /\ Cell(h, j + 1) \in Cells
    BY <1>2
  <2>5. CASE g = h /\ i = j
    <3>1. New(g, i) = Cell(h, j) /\ New(g, i + 1) = n
      BY <1>9, <1>10, <2>5
    <3> QED
      BY <1>0, <2>2, <2>3, <2>4, <3>1
  <2>6. CASE g = h /\ i = j + 1
    <3>1. New(g, i) = n /\ New(g, i + 1) = Cell(h, j + 1)
      BY <1>1, <2>6 DEF New
    <3> QED
      BY <1>0, <2>2, <2>3, <2>4, <3>1
  <2>7. CASE ~ (g = h /\ (i = j \/ i = j + 1))
    <3> DEFINE o == Old(g, i)
    <3>1. /\ o \in 0 .. Len(items[g]) /\ New(g, i) = Cell(g, o)
          /\ New(g, i + 1) = Cell(g, o + 1) /\ ~ (g = h /\ o = j)
      BY <1>9, <2>7
    <3> HIDE DEF o
    <3>2. next[Cell(g, o)] = Cell(g, o + 1) /\ prev[Cell(g, o + 1)] = Cell(g, o)
      BY <1>0, <3>1 DEF Chained
    <3>3. Cell(g, o) # Cell(h, j)
      BY <1>0, <3>1, CellUnique
    <3>4. Cell(g, o + 1) # Cell(h, j + 1)
      <4>1. o + 1 \in 1 .. Len(items[g]) + 1 /\ j + 1 \in 1 .. Len(items[h]) + 1
        BY <1>0, <1>1, <3>1, CellType
      <4>2. ~ (g = h /\ o + 1 = j + 1)
        BY <1>0, <3>1, CellType
      <4> QED
        BY <1>0, <4>1, <4>2, CellUniqueBack
    <3>5. /\ Cell(g, o) \in Cells /\ Cell(g, o + 1) \in Cells
          /\ Cell(g, o) # n /\ Cell(g, o + 1) # n
      BY <1>2
    <3>6. next'[Cell(g, o)] = next[Cell(g, o)]
      BY <2>3, <3>3, <3>5
    <3>7. prev'[Cell(g, o + 1)] = prev[Cell(g, o + 1)]
      BY <2>3, <3>4, <3>5
    <3> QED
      BY <2>2, <3>1, <3>2, <3>6, <3>7
  <2> QED
    BY <2>5, <2>6, <2>7
<1> QED
  BY <1>6, <1>12, <1>13 DEF IInv

(* The j-th item of list h goes. *)
LEMMA UnlinkKeeps ==
  ASSUME IInv, NEW h \in Heads, NEW j \in 1 .. Len(items[h]),
         next' = [next EXCEPT ![Cell(h, j - 1)] = Cell(h, j + 1)],
         prev' = [prev EXCEPT ![Cell(h, j + 1)] = Cell(h, j - 1)],
         items' = [items EXCEPT ![h] = RemoveAt(@, j)]
  PROVE  IInv'
<1> DEFINE m == Len(items[h])
           Old(g, i) == IF g = h /\ i >= j THEN i + 1 ELSE i
           New(g, i) == Cell(g, Old(g, i))
<1>0. TypeOK /\ Apart /\ Chained
  BY DEF IInv
<1>1. items[h] \in Seq(Nodes) /\ items \in [Heads -> Seq(Nodes)] /\ m \in Nat
  BY <1>0 DEF TypeOK
<1>2. \A g \in Heads : \A i : Cell(g, i) \in Cells
  BY <1>0, CellType
<1>3. /\ items'[h] \in Seq(Nodes) /\ Len(items'[h]) = m - 1
      /\ \A i \in 1 .. m - 1 : items'[h][i] = IF i < j THEN items[h][i] ELSE items[h][i + 1]
  <2> DEFINE s == items[h]
             t == items'[h]
  <2>1. t = RemoveAt(s, j) /\ s \in Seq(Nodes) /\ j \in 1 .. Len(s)
    BY <1>1
  <2> HIDE DEF s, t
  <2>2. /\ t \in Seq(Nodes) /\ Len(t) = Len(s) - 1
        /\ \A i \in 1 .. Len(t) : t[i] = IF i < j THEN s[i] ELSE s[i + 1]
    BY <2>1, RemovedAt
  <2> QED
    BY <2>2 DEF s, t
<1>4. \A g \in Heads : g # h => items'[g] = items[g]
  BY <1>1
<1>5. items' \in [Heads -> Seq(Nodes)]
  BY <1>1, <1>3
<1>6. TypeOK'
  BY <1>0, <1>2, <1>5 DEF TypeOK
<1>7. \A g \in Heads : Len(items'[g]) = IF g = h THEN m - 1 ELSE Len(items[g])
  BY <1>3, <1>4
<1>8. ASSUME NEW g \in Heads, NEW i \in 0 .. Len(items'[g]) + 1
      PROVE  Cell(g, i)' = New(g, i)
  <2>1. CASE g # h
    BY <1>4, <2>1 DEF Cell
  <2>2. CASE g = h
    <3>1. CASE i \in 1 .. m - 1
      BY <1>1, <1>3, <2>2, <3>1 DEF Cell
    <3>2. CASE i \notin 1 .. m - 1
      <4>1. Cell(h, i)' = h
        BY <1>3, <2>2, <3>2 DEF Cell
      <4>2. i = 0 \/ i = m
        BY <1>1, <1>3, <2>2, <3>2
      <4>3. Cell(h, 0) = h /\ Cell(h, m + 1) = h
        BY <1>0, CellType
      <4>4. Old(h, 0) = 0 /\ Old(h, m) = m + 1
        BY <1>1
      <4>5. New(h, i) = h
        BY <4>2, <4>3, <4>4
      <4> QED
        BY <2>2, <4>1, <4>5
    <3> QED
      BY <3>1, <3>2
  <2> QED
    BY <2>1, <2>2
<1>9. ASSUME NEW g \in Heads, NEW i \in 0 .. Len(items'[g])
      PROVE  /\ Old(g, i) \in 0 .. Len(items[g]) /\ ~ (g = h /\ Old(g, i) = j)
             /\ ~ (g = h /\ i = j - 1) => Old(g, i + 1) = Old(g, i) + 1
  <2>1. Len(items[g]) \in Nat
    BY <1>0, CellType
  <2> QED
    BY <1>1, <1>7, <2>1
<1>10. Apart'
  <2> SUFFICES ASSUME NEW g \in Heads, NEW k \in Heads,
                      NEW i \in 1 .. Len(items'[g]), NEW l \in 1 .. Len(items'[k]),
                      items'[g][i] = items'[k][l]
               PROVE  g = k /\ i = l
    BY DEF Apart
  <2>1. Cell(g, i)' = items'[g][i] /\ Cell(k, l)' = items'[k][l]
    BY DEF Cell
  <2>2. Len(items'[g]) \in Nat /\ Len(items'[k]) \in Nat
    BY <1>5
  <2>3. Cell(g, Old(g, i)) = Cell(k, Old(k, l))
    BY <1>8, <2>1, <2>2
  <2>4. Old(g, i) \in 0 .. Len(items[g]) /\ Old(k, l) \in 0 .. Len(items[k])
    <3>1. i \in 0 .. Len(items'[g]) /\ l \in 0 .. Len(items'[k])
      BY <2>2
    <3> HIDE DEF Old
    <3> QED
      BY <1>9, <3>1
  <2>5. g = k /\ Old(g, i) = Old(k, l)
    <3> HIDE DEF Old
    <3> QED
      BY <1>0, <2>3, <2>4, CellUnique
  <2> QED
    BY <2>2, <2>5
<1>11. Chained'
  <2> SUFFICES ASSUME NEW g \in Heads, NEW i \in 0 .. Len(items'[g])
               PROVE  next'[Cell(g, i)'] = Cell(g, i + 1)' /\ prev'[Cell(g, i + 1)'] = Cell(g, i)'
    BY DEF Chained
  <2>1. Len(items'[g]) \in Nat
    BY <1>5
  <2>2. Cell(g, i)' = New(g, i) /\ Cell(g, i + 1)' = New(g, i + 1)
    BY <1>8, <2>1
  <2>3. prev \in [Cells -> Cells] /\ next \in [Cells -> Cells]
    BY <1>0 DEF TypeOK
  <2>4. CASE g = h /\ i = j - 1
    <3>1. New(g, i) = Cell(h, j - 1) /\ New(g, i + 1) = Cell(h, j + 1)
      BY <1>1, <2>4
    <3>2. Cell(h, j - 1) \in Cells /\ Cell(h, j + 1) \in Cells
      BY <1>2
    <3> QED
      BY <2>2, <2>3, <3>1, <3>2
  <2>5. CASE ~ (g = h /\ i = j - 1)
    <3> DEFINE o == Old(g, i)
    <3>1. /\ o \in 0 .. Len(items[g]) /\ New(g, i) = Cell(g, o)
          /\ New(g, i + 1) = Cell(g, o + 1)
          /\ ~ (g = h /\ o = j) /\ ~ (g = h /\ o = j - 1)
      BY <1>1, <1>9, <2>5
    <3> HIDE DEF o, New, Old
    <3>2. next[Cell(g, o)] = Cell(g, o + 1) /\ prev[Cell(g, o + 1)] = Cell(g, o)
      BY <1>0, <3>1 DEF Chained
    <3>3. Cell(g, o) # Cell(h, j - 1)
      <4>1. j - 1 \in 0 .. Len(items[h])
        BY <1>1
      <4> QED
        BY <1>0, <3>1, <4>1, CellUnique
    <3>4. Cell(g, o + 1) # Cell(h, j + 1)
      <4>1. o + 1 \in 1 .. Len(items[g]) + 1 /\ j + 1 \in 1 .. Len(items[h]) + 1
        BY <1>0, <1>1, <3>1, CellType
      <4>2. ~ (g = h /\ o + 1 = j + 1)
        BY <1>0, <3>1, CellType
      <4> QED
        BY <1>0, <4>1, <4>2, CellUniqueBack
    <3>5. Cell(g, o) \in Cells /\ Cell(g, o + 1) \in Cells
      BY <1>2
    <3>6. next'[Cell(g, o)] = next[Cell(g, o)]
      BY <2>3, <3>3, <3>5
    <3>7. prev'[Cell(g, o + 1)] = prev[Cell(g, o + 1)]
      BY <2>3, <3>4, <3>5
    <3> QED
      BY <2>2, <3>1, <3>2, <3>6, <3>7
  <2> QED
    BY <2>4, <2>5
<1> QED
  BY <1>6, <1>10, <1>11 DEF IInv

(* The list is empty; the nodes that were on it are on none. *)
LEMMA ResetKeeps ==
  ASSUME IInv, NEW h \in Heads, list_head_init(h)
  PROVE  IInv'
<1>0. TypeOK /\ Apart /\ Chained /\ h \in Cells
  BY DEF IInv, Cells
<1>1. /\ items'[h] = <<>> /\ Len(items'[h]) = 0
      /\ \A g \in Heads : g # h => items'[g] = items[g]
  BY <1>0 DEF list_head_init, TypeOK
<1>2. TypeOK'
  BY <1>0 DEF list_head_init, TypeOK
<1>3. Apart'
  BY <1>0, <1>1 DEF Apart
<1>4. Chained'
  <2> SUFFICES ASSUME NEW g \in Heads, NEW i \in 0 .. Len(items'[g])
               PROVE  next'[Cell(g, i)'] = Cell(g, i + 1)' /\ prev'[Cell(g, i + 1)'] = Cell(g, i)'
    BY DEF Chained
  <2>1. prev \in [Cells -> Cells] /\ next \in [Cells -> Cells]
    BY <1>0 DEF TypeOK
  <2>2. CASE g = h
    <3>1. i = 0 /\ Cell(g, i)' = h /\ Cell(g, i + 1)' = h
      BY <1>1, <2>2 DEF Cell
    <3> QED
      BY <1>0, <2>1, <3>1 DEF list_head_init
  <2>3. CASE g # h
    <3>1. Cell(g, i)' = Cell(g, i) /\ Cell(g, i + 1)' = Cell(g, i + 1) /\ i \in 0 .. Len(items[g])
      BY <1>1, <2>3 DEF Cell
    <3>2. next[Cell(g, i)] = Cell(g, i + 1) /\ prev[Cell(g, i + 1)] = Cell(g, i)
      BY <1>0, <3>1 DEF Chained
    <3>3. Cell(g, i) # h /\ Cell(g, i + 1) # h
      BY <1>0, <2>3, <3>1, CellType, CellAssumption
    <3> QED
      BY <2>1, <3>1, <3>2, <3>3 DEF list_head_init
  <2> QED
    BY <2>2, <2>3
<1> QED
  BY <1>2, <1>3, <1>4 DEF IInv

-----------------------------------------------------------------------------
LEMMA InitIInv == Init => IInv
<1> SUFFICES ASSUME Init PROVE IInv
  OBVIOUS
<1>1. \A h \in Heads : items[h] = <<>> /\ Len(items[h]) = 0
  BY DEF Init
<1>2. TypeOK
  BY DEF Init, TypeOK
<1>3. Apart
  BY <1>1 DEF Apart
<1>4. Chained
  BY <1>1 DEF Chained, Cell, Init, Cells
<1> QED
  BY <1>2, <1>3, <1>4 DEF IInv

(* Each way to link a node is LinkKeeps at some place. *)
LEMMA LinkSteps ==
  ASSUME IInv, NEW n \in Free, NEW e \in Linked,
         list_add(n, e, next[e]) \/ list_add_prev(e, n) \/ list_add_next(e, n)
  PROVE  IInv'
<1> DEFINE h == ListOf(e)
           j == Place(h, e)
<1>0. TypeOK /\ Apart /\ Chained /\ n \notin Linked
  BY DEF IInv, Free
<1>1. h \in Heads /\ j \in 0 .. Len(items[h]) /\ Cell(h, j) = e
  BY <1>0, LinkedCell
<1>2. next[e] = Cell(h, j + 1)
  <2> HIDE DEF h, j
  <2> QED
    BY <1>0, <1>1 DEF Chained
<1>3. Cell(h, j + 1) # n
  <2> HIDE DEF h, j
  <2> QED
    BY <1>0, <1>1, CellLinked
<1>4. CASE list_add(n, e, next[e])
  <2>1. /\ prev' = [prev EXCEPT ![n] = Cell(h, j), ![Cell(h, j + 1)] = n]
        /\ next' = [next EXCEPT ![Cell(h, j)] = n, ![n] = Cell(h, j + 1)]
        /\ Inserted(h, j, n)
    BY <1>1, <1>2, <1>4 DEF list_add
  <2> HIDE DEF h, j
  <2> QED
    BY <1>1, <2>1, LinkKeeps
<1>5. CASE list_add_next(e, n)
  <2>1. /\ prev' = [prev EXCEPT ![Cell(h, j + 1)] = n, ![n] = Cell(h, j)]
        /\ next' = [next EXCEPT ![n] = Cell(h, j + 1), ![Cell(h, j)] = n]
        /\ Inserted(h, j, n)
    BY <1>1, <1>2, <1>5 DEF list_add_next
  <2>2. /\ prev' = [prev EXCEPT ![n] = Cell(h, j), ![Cell(h, j + 1)] = n]
        /\ next' = [next EXCEPT ![Cell(h, j)] = n, ![n] = Cell(h, j + 1)]
    <3>1. Cell(h, j) # n
      <4> HIDE DEF h, j
      <4> QED
        BY <1>0, <1>1, CellLinked
    <3> HIDE DEF h, j
    <3> QED
      BY <1>0, <1>3, <2>1, <3>1 DEF TypeOK
  <2> HIDE DEF h, j
  <2> QED
    BY <1>1, <2>1, <2>2, LinkKeeps
<1>6. CASE list_add_prev(e, n)
  <2>1. PICK l \in 0 .. Len(items[h]) : Cell(h, l) = prev[e] /\ Cell(h, l + 1) = e
    <3> HIDE DEF h, j
    <3>1. CASE j = 0
      <4>1. /\ Len(items[h]) \in 0 .. Len(items[h])
            /\ Cell(h, Len(items[h]) + 1) = e
        BY <1>0, <1>1, <3>1, CellType
      <4> QED
        BY <1>0, <1>1, <4>1 DEF Chained
    <3>2. CASE j # 0
      <4>1. j - 1 \in 0 .. Len(items[h]) /\ (j - 1) + 1 = j
        BY <1>0, <1>1, <3>2, CellType
      <4> QED
        BY <1>0, <1>1, <4>1 DEF Chained
    <3> QED
      BY <3>1, <3>2
  <2>2. ListOf(prev[e]) = h /\ Place(h, prev[e]) = l
    <3> HIDE DEF h, j
    <3> QED
      BY <1>0, <1>1, <2>1, PlaceOfCell
  <2>3. /\ prev' = [prev EXCEPT ![n] = Cell(h, l), ![Cell(h, l + 1)] = n]
        /\ next' = [next EXCEPT ![Cell(h, l)] = n, ![n] = Cell(h, l + 1)]
        /\ Inserted(h, l, n)
    BY <1>6, <2>1, <2>2 DEF list_add_prev
  <2> HIDE DEF h, j
  <2> QED
    BY <1>1, <2>3, LinkKeeps
<1> QED
  BY <1>4, <1>5, <1>6

LEMMA UnlinkStep ==
  ASSUME IInv, NEW n \in Nodes \cap Linked, list_del(n)
  PROVE  IInv'
<1> DEFINE h == ListOf(n)
           j == Place(h, n)
<1>0. TypeOK /\ Apart /\ Chained
  BY DEF IInv
<1>1. h \in Heads /\ j \in 0 .. Len(items[h]) /\ Cell(h, j) = n
  BY <1>0, LinkedCell
<1>2. /\ items' = [items EXCEPT ![h] = RemoveAt(@, j)]
      /\ next' = [next EXCEPT ![prev[n]] = next[n]]
      /\ prev' = [prev EXCEPT ![next[n]] = prev[n]]
  BY DEF list_del
<1> HIDE DEF h, j
<1>3. j \in 1 .. Len(items[h])
  BY <1>0, <1>1, CellType, CellAssumption
<1>4. next[n] = Cell(h, j + 1)
  BY <1>0, <1>1 DEF Chained
<1>5. prev[n] = Cell(h, j - 1)
  <2>1. j - 1 \in 0 .. Len(items[h]) /\ (j - 1) + 1 = j
    BY <1>0, <1>1, <1>3, CellType
  <2> QED
    BY <1>0, <1>1, <2>1 DEF Chained
<1> QED
  BY <1>1, <1>2, <1>3, <1>4, <1>5, UnlinkKeeps

LEMMA Steps == IInv /\ [Next]_vars => IInv'
<1> SUFFICES ASSUME IInv, [Next]_vars PROVE IInv'
  OBVIOUS
<1>1. CASE UNCHANGED vars
  BY <1>1 DEF IInv, TypeOK, Apart, Chained, Cell, vars
<1>2. CASE Next
  BY <1>2, ResetKeeps, LinkSteps, UnlinkStep DEF Next
<1> QED
  BY <1>1, <1>2

(* The pointers and the items agree: neighbours point at each other. *)
THEOREM Invariance == Spec => []IInv
<1> QED
  BY InitIInv, Steps, PTL DEF Spec

-----------------------------------------------------------------------------
(* A walk meets the cells of any sequence that follows the pointer. *)
LEMMA WalkFollows ==
  ASSUME NEW ptr, NEW k \in Nat, NEW g,
         \A i \in 1 .. k : g[i] = ptr[g[i - 1]]
  PROVE  Walk(ptr, g[0], k) = [i \in 1 .. k |-> g[i]]
<1> DEFINE w == CHOOSE v : Iteration(ptr, g[0], k, v)
<1>1. Iteration(ptr, g[0], k, w)
  BY IterationExists
<1>2. Walk(ptr, g[0], k) = [i \in 1 .. k |-> w[i]]
  BY DEF Walk, Iteration
<1> HIDE DEF w
<1>3. w[0] = g[0] /\ \A i \in 1 .. k : w[i] = ptr[w[i - 1]]
  BY <1>1 DEF Iteration
<1>4. \A i \in 0 .. k : w[i] = g[i]
  BY <1>3, IterationUnique
<1> QED
  BY <1>2, <1>4

(* Forward the cells are met from the sentinel on, backward from it too.   *)
LEMMA WalksMeetCells ==
  ASSUME TypeOK, Chained, NEW h \in Heads, NEW k, k = Len(items[h]) + 1
  PROVE  /\ Walk(next, h, k) = [i \in 1 .. k |-> Cell(h, i)]
         /\ Walk(prev, h, k) = [i \in 1 .. k |-> Cell(h, k - i)]
<1> DEFINE fore == [i \in 0 .. k |-> Cell(h, i)]
           back == [i \in 0 .. k |-> Cell(h, k - i)]
<1>1. /\ k \in Nat /\ Cell(h, 0) = h /\ Cell(h, k) = h
  BY CellType
<1>2. fore[0] = h /\ back[0] = h
  BY <1>1
<1>3. ASSUME NEW i \in 1 .. k
      PROVE  fore[i] = next[fore[i - 1]] /\ back[i] = prev[back[i - 1]]
  <2>1. /\ i - 1 \in 0 .. Len(items[h]) /\ (i - 1) + 1 = i
        /\ k - i \in 0 .. Len(items[h]) /\ (k - i) + 1 = k - (i - 1)
    BY <1>1, CellType
  <2>2. next[Cell(h, i - 1)] = Cell(h, i)
    BY <2>1 DEF Chained
  <2>3. prev[Cell(h, k - (i - 1))] = Cell(h, k - i)
    BY <2>1 DEF Chained
  <2>4. i \in 0 .. k /\ i - 1 \in 0 .. k
    BY <1>1
  <2> QED
    BY <2>2, <2>3, <2>4
<1>4. /\ \A i \in 1 .. k : fore[i] = Cell(h, i) /\ back[i] = Cell(h, k - i)
  BY <1>1
<1> HIDE DEF fore, back
<1>5. \A i \in 1 .. k : fore[i] = next[fore[i - 1]]
  BY <1>3
<1>6. Walk(next, h, k) = [i \in 1 .. k |-> fore[i]]
  <2>1. Walk(next, fore[0], k) = [i \in 1 .. k |-> fore[i]]
    BY <1>1, <1>5, WalkFollows
  <2> QED
    BY <1>2, <2>1
<1>7. \A i \in 1 .. k : back[i] = prev[back[i - 1]]
  BY <1>3
<1>8. Walk(prev, h, k) = [i \in 1 .. k |-> back[i]]
  <2>1. Walk(prev, back[0], k) = [i \in 1 .. k |-> back[i]]
    BY <1>1, <1>7, WalkFollows
  <2> QED
    BY <1>2, <2>1
<1> QED
  BY <1>4, <1>6, <1>8

LEMMA InOrder ==
  ASSUME TypeOK, Apart, Chained
  PROVE  WalksAreItems
<1> SUFFICES ASSUME NEW h \in Heads
             PROVE  LET k == Len(items[h]) + 1
                    IN  /\ Walk(next, h, k) = Append(items[h], h)
                        /\ Walk(prev, h, k) = Append(Reverse(items[h]), h)
                        /\ list_empty(h) <=> items[h] = <<>>
  BY DEF WalksAreItems
<1> DEFINE m == Len(items[h])
           s == items[h]
           r == Reverse(items[h])
<1>1. s \in Seq(Nodes) /\ s \in Seq(Cells) /\ m \in Nat /\ h \in Cells
  BY DEF TypeOK, Cells
<1>2. /\ \A i \in 1 .. m : Cell(h, i) = s[i]
      /\ Cell(h, 0) = h /\ Cell(h, m + 1) = h
      /\ \A i : Cell(h, i) \in Cells
  BY CellType
<1>3. [i \in 1 .. m + 1 |-> Cell(h, i)] = Append(s, h)
  <2> DEFINE f == [i \in 1 .. m + 1 |-> Cell(h, i)]
  <2>1. f \in Seq(Cells) /\ Len(f) = m + 1
    <3>1. f \in [1 .. m + 1 -> Cells] /\ m + 1 \in Nat
      BY <1>1, <1>2
    <3> HIDE DEF f
    <3> QED
      BY <3>1, SeqOfFunction
  <2>2. /\ Append(s, h) \in Seq(Cells) /\ Len(Append(s, h)) = m + 1
        /\ \A i \in 1 .. m : Append(s, h)[i] = s[i]
        /\ Append(s, h)[m + 1] = h
    BY <1>1, AppendProperties
  <2>3. ASSUME NEW i \in 1 .. m + 1 PROVE f[i] = Append(s, h)[i]
    BY <1>1, <1>2, <2>2
  <2> HIDE DEF f
  <2>4. f = Append(s, h)
    BY <2>1, <2>2, <2>3, SeqEqual
  <2> QED
    BY <2>4 DEF f
<1>4. [i \in 1 .. m + 1 |-> Cell(h, (m + 1) - i)] = Append(r, h)
  <2> DEFINE f == [i \in 1 .. m + 1 |-> Cell(h, (m + 1) - i)]
  <2>1. f \in Seq(Cells) /\ Len(f) = m + 1
    <3>1. f \in [1 .. m + 1 -> Cells] /\ m + 1 \in Nat
      BY <1>1, <1>2
    <3> HIDE DEF f
    <3> QED
      BY <3>1, SeqOfFunction
  <2>2. r \in Seq(Cells) /\ Len(r) = m /\ \A i \in 1 .. m : r[i] = s[(m - i) + 1]
    <3>1. r = [i \in 1 .. m |-> s[(m - i) + 1]]
      BY DEF Reverse
    <3>2. \A i \in 1 .. m : (m - i) + 1 \in 1 .. m /\ s[(m - i) + 1] \in Cells
      BY <1>1
    <3>3. r \in [1 .. m -> Cells]
      BY <3>1, <3>2
    <3>4. \A i \in 1 .. m : r[i] = s[(m - i) + 1]
      BY <3>1
    <3> HIDE DEF r
    <3> QED
      BY <1>1, <3>3, <3>4, SeqOfFunction
  <2> HIDE DEF r
  <2>3. /\ Append(r, h) \in Seq(Cells) /\ Len(Append(r, h)) = m + 1
        /\ \A i \in 1 .. m : Append(r, h)[i] = r[i]
        /\ Append(r, h)[m + 1] = h
    BY <1>1, <2>2, AppendProperties
  <2>4. ASSUME NEW i \in 1 .. m + 1 PROVE f[i] = Append(r, h)[i]
    <3>1. CASE i = m + 1
      BY <1>1, <1>2, <2>3, <3>1
    <3>2. CASE i \in 1 .. m
      <4>1. (m + 1) - i = (m - i) + 1 /\ (m - i) + 1 \in 1 .. m
        BY <1>1, <3>2
      <4>2. f[i] = s[(m - i) + 1]
        BY <1>2, <4>1
      <4> QED
        BY <2>2, <2>3, <3>2, <4>2
    <3>3. i = m + 1 \/ i \in 1 .. m
      BY <1>1
    <3> QED
      BY <3>1, <3>2, <3>3
  <2> HIDE DEF f
  <2>5. f = Append(r, h)
    BY <2>1, <2>3, <2>4, SeqEqual
  <2> QED
    BY <2>5 DEF f
<1>5. list_empty(h) <=> s = <<>>
  <2>1. next[Cell(h, 0)] = Cell(h, 1) /\ prev[Cell(h, m + 1)] = Cell(h, m)
    BY <1>1 DEF Chained
  <2>2. m = 0 => Cell(h, 1) = h /\ Cell(h, m) = h
    BY <1>2
  <2>3. m # 0 => Cell(h, 1) # h
    BY <1>1, CellType, CellAssumption
  <2>4. s = <<>> <=> m = 0
    BY <1>1, EmptySeq
  <2> QED
    BY <1>2, <2>1, <2>2, <2>3, <2>4 DEF list_empty
<1>6. Walk(next, h, m + 1) = Append(s, h) /\ Walk(prev, h, m + 1) = Append(r, h)
  <2> HIDE DEF r
  <2> QED
    BY <1>3, <1>4, WalksMeetCells
<1> QED
  BY <1>5, <1>6

(* Every list's pointers visit its items, in order and backward, whatever  *)
(* was linked and unlinked on it or on another; and list_empty is right.   *)
THEOREM VisitsItems == Spec => []WalksAreItems
<1>1. IInv => WalksAreItems
  BY InOrder DEF IInv
<1> QED
  BY <1>1, Invariance, PTL
=============================================================================
