------------------------------ MODULE ListHead ------------------------------
(***************************************************************************)
(* The circular doubly linked lists of src/kernel/lib/list/list_main.cppm: *)
(* the free lists of PagePool and the page lists of KMemCache.  A cell is  *)
(* a ListHead, a sentinel (Heads) or one embedded in a Page (Nodes); prev  *)
(* and next are the two pointers of each cell.  The pointers are written   *)
(* one assignment at a time in the code, and a cell can be its own         *)
(* neighbour, so the order of the assignments is kept.                     *)
(*                                                                         *)
(* items is what the callers mean: the nodes of each list, in order.  As   *)
(* in PagePool and KMemCache, every call runs under the lock of the lists  *)
(* it works on, a node is linked only while it is on no list and unlinked  *)
(* only while it is on one.                                                *)
(***************************************************************************)
EXTENDS Integers, SequencesExt

CONSTANTS Heads, Nodes

ASSUME CellAssumption == Heads \cap Nodes = {}

VARIABLES prev, next, items

vars == <<prev, next, items>>

Cells == Heads \cup Nodes

(* The list that cell x is on, and x's place in it (0 for the sentinel). *)
OnList(h) == {h} \cup ToSet(items[h])
Linked == UNION {OnList(h) : h \in Heads}
Free == Nodes \ Linked
ListOf(x) == CHOOSE h \in Heads : x \in OnList(h)
Place(h, x) == IF x = h THEN 0 ELSE CHOOSE i \in DOMAIN items[h] : items[h][i] = x

(* list_head_init of every sentinel; a node's own pointers are not set     *)
(* before it is first linked (here: to itself).                            *)
Init ==
  /\ prev = [x \in Cells |-> x]
  /\ next = [x \in Cells |-> x]
  /\ items = [h \in Heads |-> <<>>]

(* list_head_init again: the nodes that were on the list are forgotten. *)
list_head_init(h) ==
  /\ prev' = [prev EXCEPT ![h] = h]
  /\ next' = [next EXCEPT ![h] = h]
  /\ items' = [items EXCEPT ![h] = <<>>]

(* n goes in behind the i-th item of list h. *)
Inserted(h, i, n) == items' = [items EXCEPT ![h] = InsertAt(@, i + 1, n)]

(* list_add(n, p, q), for neighbours p and q = p->next. *)
list_add(n, p, q) ==
  /\ prev' = [prev EXCEPT ![n] = p, ![q] = n]
  /\ next' = [next EXCEPT ![p] = n, ![n] = q]
  /\ Inserted(ListOf(p), Place(ListOf(p), p), n)

(* n becomes entry->prev: entry->prev is read twice before it is written. *)
list_add_prev(e, n) ==
  /\ next' = [next EXCEPT ![prev[e]] = n, ![n] = e]
  /\ prev' = [prev EXCEPT ![n] = prev[e], ![e] = n]
  /\ Inserted(ListOf(e), Place(ListOf(e), prev[e]), n)

(* n becomes entry->next: entry->next is read twice before it is written. *)
list_add_next(e, n) ==
  /\ prev' = [prev EXCEPT ![next[e]] = n, ![n] = e]
  /\ next' = [next EXCEPT ![n] = next[e], ![e] = n]
  /\ Inserted(ListOf(e), Place(ListOf(e), e), n)

(* Mutant of list_del: only the forward pointer is bridged. *)
list_del_half(n) ==
  /\ next' = [next EXCEPT ![prev[n]] = next[n]]
  /\ items' = [items EXCEPT ![ListOf(n)] = RemoveAt(@, Place(ListOf(n), n))]
  /\ UNCHANGED prev

(* The neighbours are joined; n's own pointers keep pointing at them. *)
list_del(n) ==
  /\ next' = [next EXCEPT ![prev[n]] = next[n]]
  /\ prev' = [prev EXCEPT ![next[n]] = prev[n]]
  /\ items' = [items EXCEPT ![ListOf(n)] = RemoveAt(@, Place(ListOf(n), n))]

list_empty(h) == next[h] = h /\ prev[h] = h

Next ==
  \/ \E h \in Heads : list_head_init(h)
  \/ \E n \in Free : \E e \in Linked :
       list_add(n, e, next[e]) \/ list_add_prev(e, n) \/ list_add_next(e, n)
  \/ \E n \in Nodes \cap Linked : list_del(n)

Spec == Init /\ [][Next]_vars

-----------------------------------------------------------------------------
(* The cells met from x by following a pointer k times. *)
Walk(ptr, x, k) ==
  LET w[i \in 0..k] == IF i = 0 THEN x ELSE ptr[w[i - 1]]
  IN  [i \in 1..k |-> w[i]]

TypeOK ==
  /\ prev \in [Cells -> Cells]
  /\ next \in [Cells -> Cells]
  /\ items \in [Heads -> Seq(Nodes)]

(* Followed forward, the pointers visit exactly the items of the list in   *)
(* order and come back to the sentinel; followed backward they visit them  *)
(* in the reverse order: whatever was linked and unlinked, here or on      *)
(* another list, no item is lost and no cell of another list is reached.   *)
(* list_empty says so of an empty list and of no other: AllocPages takes    *)
(* freelist[o].next for a Page on its word.                                *)
WalksAreItems ==
  \A h \in Heads :
    LET k == Len(items[h]) + 1
    IN  /\ Walk(next, h, k) = Append(items[h], h)
        /\ Walk(prev, h, k) = Append(Reverse(items[h]), h)
        /\ list_empty(h) <=> items[h] = <<>>
=============================================================================
