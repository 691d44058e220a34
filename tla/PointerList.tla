------------------------------ MODULE PointerList ------------------------------
(***************************************************************************)
(* List<T> of list.h: a circular list that is linked through its items,    *)
(* with its head as an entry of its own.  The registry keeps its providers *)
(* and addresses in such lists, and deletes items while it walks along     *)
(* them (ndfrmwrk.cpp, 888-906).                                           *)
(***************************************************************************)
EXTENDS Integers, Sequences

CONSTANTS Items, m_head, Null, NoWalk

ASSUME EntryAssumption ==
  /\ m_head \notin Items /\ Null \notin Items \cup {m_head}
  /\ NoWalk \notin Items \cup {m_head, Null}

VARIABLES
  Flink, Blink,   \* the links of each entry
  iter,           \* the iterator of a walk, or NoWalk
  order,          \* history: what the calls so far have made of the list
  visited, start  \* history: items the walk has seen; the list when it began

links == <<Flink, Blink>>
vars  == <<links, iter, order, visited, start>>

Entries == Items \cup {m_head}

TypeOK ==
  /\ Flink \in [Entries -> Entries \cup {Null}]
  /\ Blink \in [Entries -> Entries \cup {Null}]
  /\ iter \in Entries \cup {NoWalk}
  /\ order \in Seq(Items) /\ visited \in Seq(Items) /\ start \in Seq(Items)

Linked(i) == \E k \in 1 .. Len(order) : order[k] = i

(* The list is empty; an item points to itself (ndaddr.cpp, 20-21). *)
Init ==
  /\ Flink = [e \in Entries |-> e] /\ Blink = [e \in Entries |-> e]
  /\ iter = NoWalk
  /\ order = <<>> /\ visited = <<>> /\ start = <<>>

-----------------------------------------------------------------------------
(* Mutant: the last two assignments swapped (205-206). *)
InsertBeforeSwapped(next, e) ==
  /\ Flink' = [Flink EXCEPT ![e] = next, ![e] = e]
  /\ Blink' = [Blink EXCEPT ![e] = Blink[next], ![next] = e]

InsertBefore(next, e) ==
  /\ Flink' = [Flink EXCEPT ![e] = next, ![Blink[next]] = e]
  /\ Blink' = [Blink EXCEPT ![e] = Blink[next], ![next] = e]

InsertAfter(prev, e) ==
  /\ Blink' = [Blink EXCEPT ![e] = prev, ![Flink[prev]] = e]
  /\ Flink' = [Flink EXCEPT ![e] = Flink[prev], ![prev] = e]

RemoveEntry(e) ==
  /\ Flink' = [Flink EXCEPT ![Blink[e]] = Flink[e], ![e] = Null]
  /\ Blink' = [Blink EXCEPT ![Flink[e]] = Blink[e], ![e] = Null]

(* Sequences with e behind the first p items, and without item p. *)
With(s, p, e) ==
  [k \in 1 .. Len(s) + 1 |-> IF k <= p THEN s[k] ELSE IF k = p + 1 THEN e ELSE s[k - 1]]
Without(s, p) == [k \in 1 .. Len(s) - 1 |-> IF k < p THEN s[k] ELSE s[k + 1]]

-----------------------------------------------------------------------------
(* The callers never insert an item that is in a list, nor pop from an      *)
(* empty one (52-55, 568, 805, 821).                                        *)
Call == iter = NoWalk /\ UNCHANGED <<iter, visited, start>>

push_front(i) ==
  /\ Call /\ ~Linked(i) /\ InsertAfter(m_head, i)
  /\ order' = With(order, 0, i)

push_back(i) ==
  /\ Call /\ ~Linked(i) /\ InsertBefore(m_head, i)
  /\ order' = With(order, Len(order), i)

pop_front ==
  /\ Call /\ Flink[m_head] # m_head /\ RemoveEntry(Flink[m_head])
  /\ order' = Without(order, 1)

pop_back ==
  /\ Call /\ Flink[m_head] # m_head /\ RemoveEntry(Blink[m_head])
  /\ order' = Without(order, Len(order))

(* insert(it, item), with `it' at item p or, p = Len + 1, at the end.       *)
insert(p, i) ==
  /\ Call /\ ~Linked(i)
  /\ InsertBefore(IF p = Len(order) + 1 THEN m_head ELSE order[p], i)
  /\ order' = With(order, p - 1, i)

remove(p) ==
  /\ Call /\ RemoveEntry(order[p])
  /\ order' = Without(order, p)

-----------------------------------------------------------------------------
(* A walk from begin() to end(). *)
begin ==
  /\ iter = NoWalk /\ iter' = Flink[m_head]
  /\ visited' = <<>> /\ start' = order
  /\ UNCHANGED <<links, order>>

See == visited' = Append(visited, iter) /\ UNCHANGED start

Advance ==
  /\ iter \in Items /\ iter' = Flink[iter] /\ See
  /\ UNCHANGED <<links, order>>

(* Mutant: the iterator is moved after the removal (896-902). *)
EraseThenAdvance(p) ==
  /\ iter \in Items /\ order[p] = iter
  /\ RemoveEntry(iter) /\ iter' = Flink'[iter] /\ See
  /\ order' = Without(order, p)

(* erase, and FlushProviders: the iterator moves on before the item goes. *)
Erase(p) ==
  /\ iter \in Items /\ order[p] = iter
  /\ RemoveEntry(iter) /\ iter' = Flink[iter] /\ See
  /\ order' = Without(order, p)

end ==
  /\ iter = m_head /\ iter' = NoWalk
  /\ UNCHANGED <<links, order, visited, start>>

Next ==
  \/ \E i \in Items : push_front(i) \/ push_back(i)
  \/ pop_front \/ pop_back
  \/ \E p \in 1 .. Len(order) + 1, i \in Items : insert(p, i)
  \/ \E p \in 1 .. Len(order) : remove(p) \/ Erase(p)
  \/ begin \/ Advance \/ end

Spec == Init /\ [][Next]_vars

-----------------------------------------------------------------------------
(* The ring: the head, the items in their order, and the head again. *)
Ring(k) == IF k = 0 \/ k = Len(order) + 1 THEN m_head ELSE order[k]

(* The links lead along the items in their order and back the same way, and *)
(* no item is in the list twice, after any calls and within any walk.       *)
InOrder ==
  /\ \A k \in 0 .. Len(order) : Flink[Ring(k)] = Ring(k + 1) /\ Blink[Ring(k + 1)] = Ring(k)
  /\ \A j, k \in 1 .. Len(order) : order[j] = order[k] => j = k

(* A walk stays on the list although it removes items (ndfrmwrk.cpp,        *)
(* 888-906): its iterator is never at an item that has left.                *)
IterOnList == iter = NoWalk \/ \E k \in 1 .. Len(order) + 1 : iter = Ring(k)

Inv == TypeOK /\ InOrder /\ IterOnList

(* It sees every item that was in the list when it began, once and in       *)
(* order, whichever of them it removes.                                     *)
WalkSeesAll ==
  iter # NoWalk =>
    \E k \in 1 .. Len(order) + 1 :
      iter = Ring(k) /\ start = visited \o SubSeq(order, k, Len(order))
==============================================================================
