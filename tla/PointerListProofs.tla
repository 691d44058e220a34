--------------------------- MODULE PointerListProofs ---------------------------
(***************************************************************************)
(* The list keeps its order, for any number of items: insertion and        *)
(* removal are one lemma each, about the place in the ring where they      *)
(* happen, and every method is one of the two at a place of its own.       *)
(***************************************************************************)
EXTENDS PointerList, SequenceTheorems, TLAPS

USE EntryAssumption

(* The entries of the ring. *)
LEMMA RingTypes ==
  ASSUME TypeOK
  PROVE  /\ Len(order) \in Nat /\ DOMAIN order = 1 .. Len(order)
         /\ \A k \in 0 .. Len(order) + 1 : Ring(k) \in Entries
         /\ \A k \in 1 .. Len(order) : Ring(k) = order[k] /\ order[k] \in Items
         /\ Ring(0) = m_head /\ Ring(Len(order) + 1) = m_head
<1>1. /\ Len(order) \in Nat /\ DOMAIN order = 1 .. Len(order)
      /\ \A k \in 1 .. Len(order) : order[k] \in Items
  BY DEF TypeOK
<1>2. \A k \in 0 .. Len(order) + 1 : k = 0 \/ k = Len(order) + 1 \/ k \in 1 .. Len(order)
  BY <1>1
<1> QED BY <1>1, <1>2 DEF Ring, Entries

(* Neither end of the ring repeats an entry. *)
LEMMA RingInjective ==
  ASSUME TypeOK, InOrder
  PROVE  /\ \A j, k \in 0 .. Len(order) : Ring(j) = Ring(k) => j = k
         /\ \A j, k \in 1 .. Len(order) + 1 : Ring(j) = Ring(k) => j = k
<1>1. /\ \A k \in 0 .. Len(order) : k = 0 \/ k \in 1 .. Len(order)
      /\ \A k \in 1 .. Len(order) + 1 : k = Len(order) + 1 \/ k \in 1 .. Len(order)
  BY RingTypes
<1>2. \A j, k \in 1 .. Len(order) : Ring(j) = Ring(k) => j = k
  BY RingTypes DEF InOrder
<1>3. \A k \in 1 .. Len(order) : Ring(k) # m_head
  BY RingTypes
<1>4. \A j, k \in 0 .. Len(order) : Ring(j) = Ring(k) => j = k
  BY <1>1, <1>2, <1>3, RingTypes
<1>5. \A j, k \in 1 .. Len(order) + 1 : Ring(j) = Ring(k) => j = k
  BY <1>1, <1>2, <1>3, RingTypes
<1> QED BY <1>4, <1>5

(* What With and Without make of the order. *)
InsertedAt(p, i) ==
  /\ order' \in Seq(Items) /\ Len(order') = Len(order) + 1
  /\ \A k \in 1 .. Len(order) + 1 :
       order'[k] = IF k <= p THEN order[k] ELSE IF k = p + 1 THEN i ELSE order[k - 1]

RemovedAt(p) ==
  /\ order' \in Seq(Items) /\ Len(order') = Len(order) - 1
  /\ \A k \in 1 .. Len(order) - 1 : order'[k] = IF k < p THEN order[k] ELSE order[k + 1]

LEMMA WithInserts ==
  ASSUME TypeOK, NEW p \in 0 .. Len(order), NEW i \in Items, order' = With(order, p, i)
  PROVE  InsertedAt(p, i)
<1>1. Len(order) \in Nat /\ \A k \in 1 .. Len(order) : order[k] \in Items
  BY RingTypes
<1>2. \A k \in 1 .. Len(order) + 1 :
        (IF k <= p THEN order[k] ELSE IF k = p + 1 THEN i ELSE order[k - 1]) \in Items
  BY <1>1
<1>3. With(order, p, i) \in [1 .. Len(order) + 1 -> Items]
  BY <1>2 DEF With
<1>4. order' \in Seq(Items) /\ Len(order') = Len(order) + 1
  BY <1>1, <1>3
<1> QED BY <1>4 DEF With, InsertedAt

LEMMA WithoutRemoves ==
  ASSUME TypeOK, NEW p \in 1 .. Len(order), order' = Without(order, p)
  PROVE  RemovedAt(p)
<1>1. /\ Len(order) \in Nat /\ Len(order) - 1 \in Nat
      /\ \A k \in 1 .. Len(order) : order[k] \in Items
  BY RingTypes
<1>2. \A k \in 1 .. Len(order) - 1 : (IF k < p THEN order[k] ELSE order[k + 1]) \in Items
  BY <1>1
<1>3. Without(order, p) \in [1 .. Len(order) - 1 -> Items]
  BY <1>2 DEF Without
<1>4. order' \in Seq(Items) /\ Len(order') = Len(order) - 1
  BY <1>1, <1>3
<1> QED BY <1>4 DEF Without, RemovedAt

(* Item i put in between entries p and p + 1 of the ring. *)
LEMMA InsertKeepsOrder ==
  ASSUME TypeOK, InOrder,
         NEW p \in 0 .. Len(order), NEW i \in Items, ~Linked(i),
         Flink' = [Flink EXCEPT ![i] = Ring(p + 1), ![Ring(p)] = i],
         Blink' = [Blink EXCEPT ![i] = Ring(p), ![Ring(p + 1)] = i],
         InsertedAt(p, i)
  PROVE  /\ Flink' \in [Entries -> Entries \cup {Null}]
         /\ Blink' \in [Entries -> Entries \cup {Null}]
         /\ order' \in Seq(Items)
         /\ InOrder'
<1> DEFINE N == Len(order)
           R(k) == IF k = 0 \/ k = N + 2 THEN m_head ELSE order'[k]
<1>1. N \in Nat /\ p \in Nat /\ p <= N
  BY RingTypes
<1>2. order \in Seq(Items)
  BY DEF TypeOK
<1>3. /\ order' \in Seq(Items) /\ Len(order') = N + 1
      /\ \A k \in 1 .. N + 1 :
           order'[k] = IF k <= p THEN order[k] ELSE IF k = p + 1 THEN i ELSE order[k - 1]
  BY DEF InsertedAt
<1>4. \A k \in 0 .. N + 2 : Ring(k)' = R(k)
  BY <1>3, <1>1 DEF Ring
<1>5. \A k \in 0 .. N + 2 :
        R(k) = IF k <= p THEN Ring(k) ELSE IF k = p + 1 THEN i ELSE Ring(k - 1)
  <2> SUFFICES ASSUME NEW k \in 0 .. N + 2
               PROVE  R(k) = IF k <= p THEN Ring(k) ELSE IF k = p + 1 THEN i ELSE Ring(k - 1)
    OBVIOUS
  <2>1. CASE k = 0
    BY <2>1, <1>1, RingTypes
  <2>2. CASE k = N + 2
    BY <2>2, <1>1, RingTypes
  <2>3. CASE k \in 1 .. N + 1
    <3>1. R(k) = order'[k]
      BY <2>3, <1>1
    <3>2. CASE k <= p
      BY <3>1, <3>2, <2>3, <1>1, <1>3, RingTypes
    <3>3. CASE k = p + 1
      BY <3>1, <3>3, <2>3, <1>1, <1>3
    <3>4. CASE k > p + 1
      <4>1. k - 1 \in 1 .. N /\ Ring(k - 1) = order[k - 1]
        BY <3>4, <2>3, <1>1, RingTypes
      <4> QED BY <4>1, <3>1, <3>4, <2>3, <1>1, <1>3
    <3> QED BY <3>2, <3>3, <3>4, <2>3, <1>1
  <2> QED BY <2>1, <2>2, <2>3, <1>1
<1>6. \A k \in 0 .. N + 1 : Ring(k) # i /\ Ring(k) \in Entries
  <2>1. \A k \in 1 .. N : order[k] # i
    BY DEF Linked
  <2>2. \A k \in 0 .. N + 1 : k = 0 \/ k = N + 1 \/ k \in 1 .. N
    BY <1>1
  <2> QED BY <2>1, <2>2, RingTypes
<1>7. i \in Entries /\ p + 1 \in 0 .. N + 1 /\ p \in 0 .. N + 1
  BY <1>1 DEF Entries
<1>8. /\ Flink' \in [Entries -> Entries \cup {Null}]
      /\ Blink' \in [Entries -> Entries \cup {Null}]
  BY <1>6, <1>7 DEF TypeOK
<1>9. \A k \in 0 .. N : k # p => Flink'[Ring(k)] = Ring(k + 1)
  <2> SUFFICES ASSUME NEW k \in 0 .. N, k # p PROVE Flink'[Ring(k)] = Ring(k + 1)
    OBVIOUS
  <2>1. Ring(k) # Ring(p) /\ Ring(k) # i /\ Ring(k) \in Entries
    BY RingInjective, <1>1, <1>6
  <2>2. Flink[Ring(k)] = Ring(k + 1)
    BY DEF InOrder
  <2> QED BY <2>1, <2>2 DEF TypeOK
<1>10. \A k \in 0 .. N : k # p => Blink'[Ring(k + 1)] = Ring(k)
  <2> SUFFICES ASSUME NEW k \in 0 .. N, k # p PROVE Blink'[Ring(k + 1)] = Ring(k)
    OBVIOUS
  <2>1. k + 1 \in 1 .. N + 1 /\ p + 1 \in 1 .. N + 1 /\ k + 1 # p + 1
    BY <1>1
  <2>2. Ring(k + 1) # Ring(p + 1) /\ Ring(k + 1) # i /\ Ring(k + 1) \in Entries
    BY RingInjective, <1>1, <1>6, <2>1
  <2>3. Blink[Ring(k + 1)] = Ring(k)
    BY DEF InOrder
  <2> QED BY <2>2, <2>3 DEF TypeOK
<1>11. /\ Flink'[Ring(p)] = i /\ Flink'[i] = Ring(p + 1)
       /\ Blink'[Ring(p + 1)] = i /\ Blink'[i] = Ring(p)
  BY <1>6, <1>7 DEF TypeOK
<1>12. \A k \in 0 .. N + 1 : Flink'[R(k)] = R(k + 1) /\ Blink'[R(k + 1)] = R(k)
  <2> SUFFICES ASSUME NEW k \in 0 .. N + 1
               PROVE  Flink'[R(k)] = R(k + 1) /\ Blink'[R(k + 1)] = R(k)
    OBVIOUS
  <2> HIDE DEF R
  <2>0. k \in 0 .. N + 2 /\ k + 1 \in 0 .. N + 2
    BY <1>1
  <2>1. CASE k < p
    <3>1. R(k) = Ring(k) /\ R(k + 1) = Ring(k + 1) /\ k \in 0 .. N /\ k # p
      BY <2>1, <2>0, <1>1, <1>5
    <3> QED BY <3>1, <1>9, <1>10
  <2>2. CASE k = p
    <3>1. R(k) = Ring(p) /\ R(k + 1) = i
      BY <2>2, <2>0, <1>1, <1>5
    <3> QED BY <3>1, <1>11
  <2>3. CASE k = p + 1
    <3>1. R(k) = i /\ R(k + 1) = Ring(p + 1)
      BY <2>3, <2>0, <1>1, <1>5
    <3> QED BY <3>1, <1>11
  <2>4. CASE k > p + 1
    <3>1. R(k) = Ring(k - 1) /\ R(k + 1) = Ring(k) /\ k - 1 \in 0 .. N /\ k - 1 # p
      BY <2>4, <2>0, <1>1, <1>5
    <3>2. (k - 1) + 1 = k
      BY <1>1
    <3> QED BY <3>1, <3>2, <1>9, <1>10
  <2> QED BY <2>1, <2>2, <2>3, <2>4, <1>1
<1>13. \A k \in 0 .. Len(order') :
         Flink'[Ring(k)'] = Ring(k + 1)' /\ Blink'[Ring(k + 1)'] = Ring(k)'
  <2> HIDE DEF R
  <2>1. \A k \in 0 .. Len(order') : k \in 0 .. N + 1 /\ k \in 0 .. N + 2 /\ k + 1 \in 0 .. N + 2
    BY <1>1, <1>3
  <2> QED BY <2>1, <1>4, <1>12
<1>14. \A j, k \in 1 .. Len(order') : order'[j] = order'[k] => j = k
  <2>1. \A j \in 1 .. N : order[j] # i
    BY DEF Linked
  <2>2. \A j, k \in 1 .. N : order[j] = order[k] => j = k
    BY DEF InOrder
  <2> DEFINE old(k) == IF k <= p THEN k ELSE k - 1
  <2>3. \A k \in 1 .. N + 1 : k # p + 1 => old(k) \in 1 .. N /\ order'[k] = order[old(k)]
    BY <1>1, <1>3
  <2>4. order'[p + 1] = i
    BY <1>1, <1>3
  <2>5. \A j, k \in 1 .. N + 1 : j # p + 1 /\ k # p + 1 /\ old(j) = old(k) => j = k
    BY <1>1
  <2> HIDE DEF old
  <2>6. SUFFICES ASSUME NEW j \in 1 .. N + 1, NEW k \in 1 .. N + 1, order'[j] = order'[k]
                 PROVE  j = k
    BY <1>3
  <2>7. CASE j # p + 1 /\ k # p + 1
    BY <2>7, <2>6, <2>2, <2>3, <2>5
  <2>8. CASE j = p + 1 \/ k = p + 1
    BY <2>8, <2>6, <2>1, <2>3, <2>4
  <2> QED BY <2>7, <2>8
<1> QED
  <2>1. InOrder'
    BY <1>13, <1>14 DEF InOrder
  <2> QED BY <2>1, <1>3, <1>8

(* Entry p taken out of the ring. *)
LEMMA RemoveKeepsOrder ==
  ASSUME TypeOK, InOrder, NEW p \in 1 .. Len(order),
         Flink' = [Flink EXCEPT ![Ring(p - 1)] = Ring(p + 1), ![Ring(p)] = Null],
         Blink' = [Blink EXCEPT ![Ring(p + 1)] = Ring(p - 1), ![Ring(p)] = Null],
         RemovedAt(p)
  PROVE  /\ Flink' \in [Entries -> Entries \cup {Null}]
         /\ Blink' \in [Entries -> Entries \cup {Null}]
         /\ order' \in Seq(Items)
         /\ InOrder'
         /\ Ring(p)' = Ring(p + 1)
<1> DEFINE N == Len(order)
           R(k) == IF k = 0 \/ k = N THEN m_head ELSE order'[k]
<1>1. N \in Nat /\ p \in Nat /\ p >= 1 /\ p <= N
  BY RingTypes
<1>2. /\ order' \in Seq(Items) /\ Len(order') = N - 1
      /\ \A k \in 1 .. N - 1 : order'[k] = IF k < p THEN order[k] ELSE order[k + 1]
  BY DEF RemovedAt
<1>3. \A k \in 0 .. N : Ring(k)' = R(k)
  BY <1>1, <1>2 DEF Ring
<1>4. \A k \in 0 .. N : R(k) = IF k < p THEN Ring(k) ELSE Ring(k + 1)
  <2> SUFFICES ASSUME NEW k \in 0 .. N PROVE R(k) = IF k < p THEN Ring(k) ELSE Ring(k + 1)
    OBVIOUS
  <2>1. CASE k = 0
    BY <2>1, <1>1, RingTypes
  <2>2. CASE k = N
    BY <2>2, <1>1, RingTypes
  <2>3. CASE k \in 1 .. N - 1
    <3>1. R(k) = order'[k]
      BY <2>3, <1>1
    <3>2. CASE k < p
      BY <3>1, <3>2, <2>3, <1>1, <1>2, RingTypes
    <3>3. CASE k >= p
      <4>1. k + 1 \in 1 .. N /\ Ring(k + 1) = order[k + 1]
        BY <2>3, <1>1, RingTypes
      <4> QED BY <4>1, <3>1, <3>3, <2>3, <1>1, <1>2
    <3> QED BY <3>2, <3>3, <2>3, <1>1
  <2> QED BY <2>1, <2>2, <2>3, <1>1
<1>5. /\ \A k \in 0 .. N + 1 : Ring(k) \in Entries
      /\ p - 1 \in 0 .. N /\ p + 1 \in 1 .. N + 1 /\ p \in 0 .. N /\ p \in 1 .. N + 1
      /\ p - 1 \in 0 .. N + 1 /\ p + 1 \in 0 .. N + 1 /\ p - 1 # p /\ p + 1 # p
  BY <1>1, RingTypes
<1>6. /\ Flink' \in [Entries -> Entries \cup {Null}]
      /\ Blink' \in [Entries -> Entries \cup {Null}]
  BY <1>5 DEF TypeOK
<1>7. \A k \in 0 .. N : k # p /\ k # p - 1 => Flink'[Ring(k)] = Ring(k + 1)
  <2> SUFFICES ASSUME NEW k \in 0 .. N, k # p, k # p - 1 PROVE Flink'[Ring(k)] = Ring(k + 1)
    OBVIOUS
  <2>1. Ring(k) # Ring(p) /\ Ring(k) # Ring(p - 1)
    BY <1>5, RingInjective
  <2>2. Flink[Ring(k)] = Ring(k + 1) /\ Ring(k) \in Entries
    BY <1>1, <1>5 DEF InOrder
  <2> QED BY <2>1, <2>2 DEF TypeOK
<1>8. \A k \in 0 .. N : k + 1 # p /\ k # p => Blink'[Ring(k + 1)] = Ring(k)
  <2> SUFFICES ASSUME NEW k \in 0 .. N, k + 1 # p, k # p PROVE Blink'[Ring(k + 1)] = Ring(k)
    OBVIOUS
  <2>1. k + 1 \in 1 .. N + 1 /\ k + 1 \in 0 .. N + 1 /\ k + 1 # p + 1
    BY <1>1
  <2>2. Ring(k + 1) # Ring(p) /\ Ring(k + 1) # Ring(p + 1)
    BY <2>1, <1>5, RingInjective
  <2>3. Blink[Ring(k + 1)] = Ring(k) /\ Ring(k + 1) \in Entries
    BY <2>1, <1>5 DEF InOrder
  <2> QED BY <2>2, <2>3 DEF TypeOK
<1>9. Flink'[Ring(p - 1)] = Ring(p + 1) /\ Blink'[Ring(p + 1)] = Ring(p - 1)
  <2>1. Ring(p - 1) # Ring(p) /\ Ring(p + 1) # Ring(p)
    BY <1>5, RingInjective
  <2> QED BY <2>1, <1>5 DEF TypeOK
<1>10. \A k \in 0 .. N - 1 : Flink'[R(k)] = R(k + 1) /\ Blink'[R(k + 1)] = R(k)
  <2> SUFFICES ASSUME NEW k \in 0 .. N - 1
               PROVE  Flink'[R(k)] = R(k + 1) /\ Blink'[R(k + 1)] = R(k)
    OBVIOUS
  <2> HIDE DEF R
  <2>0. k \in 0 .. N /\ k + 1 \in 0 .. N
    BY <1>1
  <2>1. CASE k < p - 1
    <3>1. R(k) = Ring(k) /\ R(k + 1) = Ring(k + 1) /\ k # p /\ k # p - 1 /\ k + 1 # p
      BY <2>1, <2>0, <1>1, <1>4
    <3> QED BY <3>1, <2>0, <1>7, <1>8
  <2>2. CASE k = p - 1
    <3>1. R(k) = Ring(p - 1) /\ R(k + 1) = Ring(p + 1)
      <4>1. k < p /\ ~ (k + 1 < p) /\ (k + 1) + 1 = p + 1
        BY <2>2, <1>1
      <4> QED BY <4>1, <2>2, <2>0, <1>4
    <3> QED BY <3>1, <1>9
  <2>3. CASE k >= p
    <3>1. R(k) = Ring(k + 1) /\ R(k + 1) = Ring((k + 1) + 1)
      BY <2>3, <2>0, <1>1, <1>4
    <3>2. k + 1 # p /\ k + 1 # p - 1 /\ (k + 1) + 1 # p
      BY <2>3, <2>0, <1>1
    <3> QED BY <3>1, <3>2, <2>0, <1>7, <1>8
  <2> QED BY <2>1, <2>2, <2>3, <2>0, <1>1
<1>11. \A k \in 0 .. Len(order') :
         Flink'[Ring(k)'] = Ring(k + 1)' /\ Blink'[Ring(k + 1)'] = Ring(k)'
  <2> HIDE DEF R
  <2>1. \A k \in 0 .. Len(order') : k \in 0 .. N - 1 /\ k \in 0 .. N /\ k + 1 \in 0 .. N
    BY <1>1, <1>2
  <2> QED BY <2>1, <1>3, <1>10
<1>12. \A j, k \in 1 .. Len(order') : order'[j] = order'[k] => j = k
  <2> DEFINE old(k) == IF k < p THEN k ELSE k + 1
  <2>1. \A k \in 1 .. N - 1 : old(k) \in 1 .. N /\ order'[k] = order[old(k)]
    BY <1>1, <1>2
  <2>2. \A j, k \in 1 .. N - 1 : old(j) = old(k) => j = k
    BY <1>1
  <2>3. \A j, k \in 1 .. N : order[j] = order[k] => j = k
    BY DEF InOrder
  <2> HIDE DEF old
  <2> QED BY <2>1, <2>2, <2>3, <1>2
<1>13. Ring(p)' = Ring(p + 1)
  <2>1. Ring(p)' = R(p)
    BY <1>3, <1>5
  <2> HIDE DEF R
  <2>2. R(p) = Ring(p + 1)
    BY <1>4, <1>5, <1>1
  <2> QED BY <2>1, <2>2
<1> QED
  <2>1. InOrder'
    BY <1>11, <1>12 DEF InOrder
  <2> QED BY <2>1, <1>2, <1>6, <1>13

-----------------------------------------------------------------------------
(* What a call must preserve of the list. *)
ListOK == /\ Flink \in [Entries -> Entries \cup {Null}]
          /\ Blink \in [Entries -> Entries \cup {Null}]
          /\ order \in Seq(Items)
          /\ InOrder

LEMMA InsertsBefore ==
  ASSUME TypeOK, InOrder, NEW p \in 0 .. Len(order), NEW i \in Items, ~Linked(i),
         InsertBefore(Ring(p + 1), i), order' = With(order, p, i)
  PROVE  ListOK'
<1>1. Blink[Ring(p + 1)] = Ring(p)
  BY DEF InOrder
<1>2. /\ Flink' = [Flink EXCEPT ![i] = Ring(p + 1), ![Ring(p)] = i]
      /\ Blink' = [Blink EXCEPT ![i] = Ring(p), ![Ring(p + 1)] = i]
  BY <1>1 DEF InsertBefore
<1>3. InsertedAt(p, i)
  BY WithInserts
<1> QED BY <1>2, <1>3, InsertKeepsOrder DEF ListOK

LEMMA InsertsAfter ==
  ASSUME TypeOK, InOrder, NEW p \in 0 .. Len(order), NEW i \in Items, ~Linked(i),
         InsertAfter(Ring(p), i), order' = With(order, p, i)
  PROVE  ListOK'
<1>1. Flink[Ring(p)] = Ring(p + 1)
  BY DEF InOrder
<1>2. /\ Flink' = [Flink EXCEPT ![i] = Ring(p + 1), ![Ring(p)] = i]
      /\ Blink' = [Blink EXCEPT ![i] = Ring(p), ![Ring(p + 1)] = i]
  BY <1>1 DEF InsertAfter
<1>3. InsertedAt(p, i)
  BY WithInserts
<1> QED BY <1>2, <1>3, InsertKeepsOrder DEF ListOK

LEMMA Removes ==
  ASSUME TypeOK, InOrder, NEW p \in 1 .. Len(order),
         RemoveEntry(Ring(p)), order' = Without(order, p)
  PROVE  ListOK' /\ Ring(p)' = Ring(p + 1)
<1>1. p - 1 \in 0 .. Len(order) /\ p \in 0 .. Len(order) /\ (p - 1) + 1 = p
  BY RingTypes
<1>2. Blink[Ring(p)] = Ring(p - 1) /\ Flink[Ring(p)] = Ring(p + 1)
  BY <1>1 DEF InOrder
<1>3. /\ Flink' = [Flink EXCEPT ![Ring(p - 1)] = Ring(p + 1), ![Ring(p)] = Null]
      /\ Blink' = [Blink EXCEPT ![Ring(p + 1)] = Ring(p - 1), ![Ring(p)] = Null]
  BY <1>2 DEF RemoveEntry
<1>4. RemovedAt(p)
  BY WithoutRemoves
<1> QED BY <1>3, <1>4, RemoveKeepsOrder DEF ListOK

(* Popping: a list whose head does not point to itself has a first item,    *)
(* that the head points to, and a last one, that it points back to.         *)
LEMMA EndsOfList ==
  ASSUME TypeOK, InOrder, Flink[m_head] # m_head
  PROVE  /\ 1 \in 1 .. Len(order) /\ Len(order) \in 1 .. Len(order)
         /\ Flink[m_head] = Ring(1) /\ Blink[m_head] = Ring(Len(order))
<1>1. Len(order) \in Nat /\ 0 \in 0 .. Len(order) /\ Len(order) \in 0 .. Len(order)
  BY RingTypes
<1>2. Flink[m_head] = Ring(0 + 1) /\ Blink[m_head] = Ring(Len(order))
  BY <1>1, RingTypes DEF InOrder
<1>3. 0 + 1 = 1
  OBVIOUS
<1>4. Len(order) # 0
  BY <1>2, <1>3, RingTypes
<1> QED BY <1>1, <1>2, <1>3, <1>4

-----------------------------------------------------------------------------
LEMMA Start == Init => Inv
<1> SUFFICES ASSUME Init PROVE Inv
  OBVIOUS
<1>1. TypeOK
  BY DEF Init, TypeOK, Entries
<1>2. Len(order) = 0 /\ Ring(0) = m_head /\ Ring(1) = m_head
  BY DEF Init, Ring
<1>3. InOrder
  <2>1. \A k \in 0 .. Len(order) : k = 0 /\ k + 1 = 1
    BY <1>2
  <2>2. m_head \in Entries /\ Flink[m_head] = m_head /\ Blink[m_head] = m_head
    BY DEF Init, Entries
  <2>3. \A k \in 0 .. Len(order) : Flink[Ring(k)] = Ring(k + 1) /\ Blink[Ring(k + 1)] = Ring(k)
    BY <1>2, <2>1, <2>2
  <2>4. \A j, k \in 1 .. Len(order) : order[j] = order[k] => j = k
    BY <1>2
  <2> QED BY <2>3, <2>4 DEF InOrder
<1> QED BY <1>1, <1>3 DEF Inv, IterOnList, Init

LEMMA Calls ==
  ASSUME Inv, ListOK', iter' = iter, iter = NoWalk, UNCHANGED <<visited, start>>
  PROVE  Inv'
BY DEF Inv, TypeOK, ListOK, IterOnList

LEMMA Step == Inv /\ [Next]_vars => Inv'
<1> SUFFICES ASSUME Inv, [Next]_vars PROVE Inv'
  OBVIOUS
<1> USE DEF Inv
<1>0. Len(order) \in Nat /\ 0 \in 0 .. Len(order) /\ Len(order) \in 0 .. Len(order)
  BY RingTypes
<1>1. ASSUME NEW i \in Items, push_front(i) PROVE Inv'
  <2>1. InsertAfter(Ring(0), i) /\ order' = With(order, 0, i) /\ ~Linked(i)
    BY <1>1, RingTypes DEF push_front
  <2>2. ListOK'
    BY <2>1, <1>0, InsertsAfter
  <2> QED BY <2>2, <1>1, Calls DEF push_front, Call
<1>2. ASSUME NEW i \in Items, push_back(i) PROVE Inv'
  <2>1. /\ InsertBefore(Ring(Len(order) + 1), i) /\ order' = With(order, Len(order), i)
        /\ ~Linked(i)
    BY <1>2, RingTypes DEF push_back
  <2>2. ListOK'
    BY <2>1, <1>0, InsertsBefore
  <2> QED BY <2>2, <1>2, Calls DEF push_back, Call
<1>3. ASSUME pop_front PROVE Inv'
  <2>1. 1 \in 1 .. Len(order) /\ RemoveEntry(Ring(1)) /\ order' = Without(order, 1)
    BY <1>3, EndsOfList DEF pop_front
  <2>2. ListOK'
    BY <2>1, Removes
  <2> QED BY <2>2, <1>3, Calls DEF pop_front, Call
<1>4. ASSUME pop_back PROVE Inv'
  <2>1. /\ Len(order) \in 1 .. Len(order) /\ RemoveEntry(Ring(Len(order)))
        /\ order' = Without(order, Len(order))
    BY <1>4, EndsOfList DEF pop_back
  <2>2. ListOK'
    BY <2>1, Removes
  <2> QED BY <2>2, <1>4, Calls DEF pop_back, Call
<1>5. ASSUME NEW p \in 1 .. Len(order) + 1, NEW i \in Items, insert(p, i) PROVE Inv'
  <2>1. p - 1 \in 0 .. Len(order) /\ (p - 1) + 1 = p
    BY <1>0
  <2>2. Ring(p) = IF p = Len(order) + 1 THEN m_head ELSE order[p]
    BY <1>0 DEF Ring
  <2>3. InsertBefore(Ring((p - 1) + 1), i) /\ order' = With(order, p - 1, i) /\ ~Linked(i)
    BY <1>5, <2>1, <2>2 DEF insert
  <2>4. ListOK'
    BY <2>1, <2>3, InsertsBefore
  <2> QED BY <2>4, <1>5, Calls DEF insert, Call
<1>6. ASSUME NEW p \in 1 .. Len(order), remove(p) PROVE Inv'
  <2>1. RemoveEntry(Ring(p)) /\ order' = Without(order, p)
    BY <1>6, RingTypes DEF remove
  <2>2. ListOK'
    BY <2>1, Removes
  <2> QED BY <2>2, <1>6, Calls DEF remove, Call
<1>7. ASSUME NEW p \in 1 .. Len(order), Erase(p) PROVE Inv'
  <2>1. iter = Ring(p) /\ RemoveEntry(Ring(p)) /\ order' = Without(order, p) /\ iter \in Items
    BY <1>7, RingTypes DEF Erase
  <2>2. ListOK' /\ Ring(p)' = Ring(p + 1)
    BY <2>1, Removes
  <2>3. iter' = Ring(p + 1)
    <3>1. p \in 0 .. Len(order)
      BY <1>0
    <3> QED BY <3>1, <2>1, <1>7 DEF Erase, InOrder
  <2>4. Len(order') = Len(order) - 1 /\ p \in 1 .. Len(order') + 1
    BY <2>1, <1>0, WithoutRemoves DEF RemovedAt
  <2>5. IterOnList'
    BY <2>2, <2>3, <2>4 DEF IterOnList
  <2>6. iter' \in Entries
    <3>1. p + 1 \in 0 .. Len(order) + 1
      BY <1>0
    <3> QED BY <3>1, <2>3, RingTypes
  <2>7. visited' \in Seq(Items) /\ start' = start
    BY <2>1, <1>7 DEF Erase, See, TypeOK
  <2> QED BY <2>2, <2>5, <2>6, <2>7 DEF ListOK, TypeOK
<1>8. ASSUME begin PROVE Inv'
  <2>1. iter' = Ring(0 + 1)
    BY <1>0, <1>8, RingTypes DEF begin, InOrder
  <2>2. 0 + 1 = 1 /\ 1 \in 1 .. Len(order) + 1 /\ 1 \in 0 .. Len(order) + 1
    BY <1>0
  <2>3. iter' \in Entries
    BY <2>1, <2>2, RingTypes
  <2>4. UNCHANGED <<Flink, Blink, order>> /\ visited' = <<>> /\ start' = order
    BY <1>8 DEF begin, links
  <2>5. TypeOK' /\ InOrder'
    BY <2>3, <2>4 DEF TypeOK, InOrder, Ring
  <2>6. IterOnList'
    BY <2>1, <2>2, <2>4 DEF IterOnList, Ring
  <2> QED BY <2>5, <2>6
<1>9. ASSUME Advance PROVE Inv'
  <2>1. PICK k \in 1 .. Len(order) + 1 : iter = Ring(k)
    BY <1>9 DEF Advance, IterOnList
  <2>2. k # Len(order) + 1
    BY <2>1, <1>9, RingTypes DEF Advance
  <2>3. k \in 0 .. Len(order) /\ k + 1 \in 1 .. Len(order) + 1 /\ k + 1 \in 0 .. Len(order) + 1
    BY <2>2, <1>0
  <2>4. iter' = Ring(k + 1)
    BY <2>1, <2>3, <1>9 DEF Advance, InOrder
  <2>5. iter' \in Entries
    BY <2>3, <2>4, RingTypes
  <2>6. UNCHANGED <<Flink, Blink, order, start>> /\ visited' \in Seq(Items)
    BY <1>9 DEF Advance, See, links, TypeOK
  <2>7. TypeOK' /\ InOrder'
    BY <2>5, <2>6 DEF TypeOK, InOrder, Ring
  <2>8. IterOnList'
    BY <2>3, <2>4, <2>6 DEF IterOnList, Ring
  <2> QED BY <2>7, <2>8
<1>10. ASSUME end PROVE Inv'
  BY <1>10 DEF end, TypeOK, InOrder, IterOnList, Ring, links
<1>11. ASSUME UNCHANGED vars PROVE Inv'
  BY <1>11 DEF vars, links, TypeOK, InOrder, IterOnList, Ring
<1> QED
  BY <1>1, <1>2, <1>3, <1>4, <1>5, <1>6, <1>7, <1>8, <1>9, <1>10, <1>11 DEF Next

-----------------------------------------------------------------------------
(* The item a walk stands on, moved from what is left to what was seen.     *)
LEMMA SeenAndLeft ==
  ASSUME NEW S, NEW v \in Seq(S), NEW s \in Seq(S), NEW k \in 1 .. Len(s)
  PROVE  v \o SubSeq(s, k, Len(s)) = Append(v, s[k]) \o SubSeq(s, k + 1, Len(s))
<1> DEFINE left == SubSeq(s, k, Len(s))
           rest == SubSeq(s, k + 1, Len(s))
<1>1. Len(s) \in Nat /\ k \in Nat /\ k >= 1 /\ k <= Len(s) /\ Len(v) \in Nat
  OBVIOUS
<1>2. /\ left \in Seq(S) /\ Len(left) = Len(s) - k + 1
      /\ \A i \in 1 .. Len(s) - k + 1 : left[i] = s[k + i - 1]
  BY <1>1
<1>3. /\ rest \in Seq(S) /\ Len(rest) = Len(s) - k
      /\ \A i \in 1 .. Len(s) - k : rest[i] = s[k + i]
  BY <1>1
<1> HIDE DEF left, rest
<1>4. /\ Append(v, s[k]) \in Seq(S) /\ Len(Append(v, s[k])) = Len(v) + 1
      /\ \A i \in 1 .. Len(v) : Append(v, s[k])[i] = v[i]
      /\ Append(v, s[k])[Len(v) + 1] = s[k]
  BY <1>1
<1>5. /\ v \o left \in Seq(S) /\ Len(v \o left) = Len(v) + Len(s) - k + 1
      /\ \A i \in 1 .. Len(v) + Len(s) - k + 1 :
           (v \o left)[i] = IF i <= Len(v) THEN v[i] ELSE left[i - Len(v)]
  <2>1. Len(v) + Len(left) = Len(v) + Len(s) - k + 1
    BY <1>1, <1>2
  <2>2. v \in Seq(S) /\ left \in Seq(S)
    BY <1>2
  <2>3. /\ v \o left \in Seq(S) /\ Len(v \o left) = Len(v) + Len(left)
        /\ \A i \in 1 .. Len(v) + Len(left) :
             (v \o left)[i] = IF i <= Len(v) THEN v[i] ELSE left[i - Len(v)]
    BY <2>2, ConcatProperties, Zenon
  <2> QED BY <2>1, <2>3, Zenon
<1>6. /\ Append(v, s[k]) \o rest \in Seq(S)
      /\ Len(Append(v, s[k]) \o rest) = Len(v) + Len(s) - k + 1
      /\ \A i \in 1 .. Len(v) + Len(s) - k + 1 :
           (Append(v, s[k]) \o rest)[i] =
             IF i <= Len(v) + 1 THEN Append(v, s[k])[i] ELSE rest[i - (Len(v) + 1)]
  <2>1. Len(Append(v, s[k])) + Len(rest) = Len(v) + Len(s) - k + 1
    BY <1>1, <1>3, <1>4
  <2> DEFINE u == Append(v, s[k])
  <2>2. u \in Seq(S) /\ rest \in Seq(S) /\ Len(u) = Len(v) + 1
    BY <1>3, <1>4
  <2> HIDE DEF u
  <2>3. /\ u \o rest \in Seq(S) /\ Len(u \o rest) = Len(u) + Len(rest)
        /\ \A i \in 1 .. Len(u) + Len(rest) :
             (u \o rest)[i] = IF i <= Len(u) THEN u[i] ELSE rest[i - Len(u)]
    BY <2>2, ConcatProperties, Zenon
  <2> QED BY <2>1, <2>2, <2>3, Zenon DEF u
<1>7. ASSUME NEW i \in 1 .. Len(v \o left)
      PROVE  (v \o left)[i] = (Append(v, s[k]) \o rest)[i]
  <2>1. i \in 1 .. Len(v) + Len(s) - k + 1 /\ i \in Nat
    BY <1>1, <1>5
  <2>2. CASE i <= Len(v)
    <3>1. i \in 1 .. Len(v) /\ i <= Len(v) + 1
      BY <2>1, <2>2, <1>1
    <3> QED BY <3>1, <2>1, <2>2, <1>4, <1>5, <1>6
  <2>3. CASE i = Len(v) + 1
    <3>1. i - Len(v) = 1 /\ ~ (i <= Len(v)) /\ i <= Len(v) + 1 /\ 1 \in 1 .. Len(s) - k + 1
      BY <2>3, <1>1
    <3>2. left[1] = s[k]
      BY <3>1, <1>1, <1>2
    <3> QED BY <3>1, <3>2, <2>1, <2>3, <1>4, <1>5, <1>6
  <2>4. CASE i > Len(v) + 1
    <3>1. /\ ~ (i <= Len(v)) /\ ~ (i <= Len(v) + 1)
          /\ i - Len(v) \in 1 .. Len(s) - k + 1
          /\ i - (Len(v) + 1) \in 1 .. Len(s) - k
          /\ k + (i - Len(v)) - 1 = k + (i - (Len(v) + 1))
      BY <2>1, <2>4, <1>1
    <3>2. left[i - Len(v)] = s[k + (i - (Len(v) + 1))]
      <4>1. left[i - Len(v)] = s[k + (i - Len(v)) - 1]
        BY <3>1, <1>2, Zenon
      <4> QED BY <3>1, <4>1, Zenon
    <3>3. rest[i - (Len(v) + 1)] = s[k + (i - (Len(v) + 1))]
      BY <3>1, <1>3, Zenon
    <3>4. (v \o left)[i] = left[i - Len(v)]
      BY <3>1, <2>1, <1>5, Zenon
    <3>5. (Append(v, s[k]) \o rest)[i] = rest[i - (Len(v) + 1)]
      BY <3>1, <2>1, <1>6, Zenon
    <3> QED BY <3>1, <3>2, <3>3, <3>4, <3>5, Zenon
  <2>5. i <= Len(v) \/ i = Len(v) + 1 \/ i > Len(v) + 1
    BY <2>1, <1>1
  <2> QED BY <2>2, <2>3, <2>4, <2>5, Zenon
<1>8. v \o left = Append(v, s[k]) \o rest
  BY <1>5, <1>6, <1>7, SeqEqual
<1> QED BY <1>8 DEF left, rest

(* What is left after item p is left when item p is taken out.              *)
LEMMA LeftAfterRemoval ==
  ASSUME TypeOK, NEW p \in 1 .. Len(order), RemovedAt(p)
  PROVE  SubSeq(order', p, Len(order')) = SubSeq(order, p + 1, Len(order))
<1> DEFINE old == SubSeq(order, p + 1, Len(order))
           new == SubSeq(order', p, Len(order'))
<1>1. Len(order) \in Nat /\ p \in Nat /\ p >= 1 /\ p <= Len(order) /\ order \in Seq(Items)
  BY DEF TypeOK
<1>2. /\ order' \in Seq(Items) /\ Len(order') = Len(order) - 1
      /\ \A k \in 1 .. Len(order) - 1 : order'[k] = IF k < p THEN order[k] ELSE order[k + 1]
  BY DEF RemovedAt
<1>3. /\ old \in Seq(Items) /\ Len(old) = Len(order) - p
      /\ \A i \in 1 .. Len(order) - p : old[i] = order[p + i]
  BY <1>1
<1>4. /\ new \in Seq(Items) /\ Len(new) = Len(order) - p
      /\ \A i \in 1 .. Len(order) - p : new[i] = order'[p + i - 1]
  BY <1>1, <1>2
<1> HIDE DEF old, new
<1>5. ASSUME NEW i \in 1 .. Len(new) PROVE new[i] = old[i]
  <2>1. /\ i \in 1 .. Len(order) - p /\ p + i - 1 \in 1 .. Len(order) - 1
        /\ ~ (p + i - 1 < p) /\ (p + i - 1) + 1 = p + i
    BY <1>1, <1>4
  <2> QED BY <2>1, <1>2, <1>3, <1>4
<1>6. new = old
  BY <1>3, <1>4, <1>5, SeqEqual
<1> QED BY <1>6 DEF old, new

LEMMA WalkStart == Init => WalkSeesAll
BY DEF Init, WalkSeesAll

LEMMA WalkStep == Inv /\ WalkSeesAll /\ [Next]_vars => WalkSeesAll'
<1> SUFFICES ASSUME Inv, WalkSeesAll, [Next]_vars PROVE WalkSeesAll'
  OBVIOUS
<1>0. /\ TypeOK /\ InOrder /\ Len(order) \in Nat
      /\ order \in Seq(Items) /\ visited \in Seq(Items)
  BY RingTypes DEF Inv, TypeOK
<1>1. ASSUME iter = NoWalk, UNCHANGED iter PROVE WalkSeesAll'
  BY <1>1 DEF WalkSeesAll
<1>2. ASSUME NEW i \in Items, push_front(i) \/ push_back(i) PROVE WalkSeesAll'
  BY <1>1, <1>2 DEF push_front, push_back, Call
<1>3. ASSUME pop_front \/ pop_back PROVE WalkSeesAll'
  BY <1>1, <1>3 DEF pop_front, pop_back, Call
<1>4. ASSUME NEW p \in 1 .. Len(order) + 1, NEW i \in Items, insert(p, i) PROVE WalkSeesAll'
  BY <1>1, <1>4 DEF insert, Call
<1>5. ASSUME NEW p \in 1 .. Len(order), remove(p) PROVE WalkSeesAll'
  BY <1>1, <1>5 DEF remove, Call
<1>6. ASSUME NEW p \in 1 .. Len(order), Erase(p) PROVE WalkSeesAll'
  <2>1. /\ iter \in Items /\ order[p] = iter /\ RemoveEntry(iter)
        /\ visited' = Append(visited, iter) /\ start' = start
        /\ order' = Without(order, p) /\ iter' = Flink[iter]
    BY <1>6 DEF Erase, See
  <2>2. PICK k \in 1 .. Len(order) + 1 :
          iter = Ring(k) /\ start = visited \o SubSeq(order, k, Len(order))
    BY <2>1 DEF WalkSeesAll
  <2>3. Ring(p) = order[p] /\ p \in 1 .. Len(order) + 1 /\ p \in 0 .. Len(order)
    BY <1>0, RingTypes
  <2>4. k = p
    BY <2>1, <2>2, <2>3, <1>0, RingInjective
  <2>5. start = Append(visited, iter) \o SubSeq(order, p + 1, Len(order))
    BY <2>1, <2>2, <2>4, <1>0, SeenAndLeft
  <2>6. RemovedAt(p)
    BY <2>1, <1>0, WithoutRemoves
  <2>7. start' = visited' \o SubSeq(order', p, Len(order'))
    BY <2>1, <2>5, <2>6, <1>0, LeftAfterRemoval
  <2>8. Ring(p)' = Ring(p + 1) /\ iter' = Ring(p + 1)
    <3>1. Ring(p)' = Ring(p + 1)
      BY <2>1, <2>3, <1>0, Removes
    <3>2. Flink[Ring(p)] = Ring(p + 1)
      BY <2>3, <1>0 DEF InOrder
    <3> QED BY <3>1, <3>2, <2>1, <2>3
  <2>9. p \in 1 .. Len(order') + 1
    BY <2>6, <1>0 DEF RemovedAt
  <2> QED BY <2>7, <2>8, <2>9 DEF WalkSeesAll
<1>7. ASSUME begin PROVE WalkSeesAll'
  <2>1. iter' = Flink[Ring(0)] /\ visited' = <<>> /\ start' = order /\ order' = order
    BY <1>7, <1>0, RingTypes DEF begin
  <2>2. 0 \in 0 .. Len(order) /\ 0 + 1 = 1 /\ 1 \in 1 .. Len(order) + 1
    BY <1>0
  <2>3. iter' = Ring(1)
    BY <2>1, <2>2, <1>0 DEF InOrder
  <2>4. SubSeq(order, 1, Len(order)) = order /\ <<>> \o order = order
    BY <1>0, SubSeqFull, ConcatEmptySeq
  <2> QED BY <2>1, <2>2, <2>3, <2>4 DEF WalkSeesAll, Ring
<1>8. ASSUME Advance PROVE WalkSeesAll'
  <2>1. /\ iter \in Items /\ iter' = Flink[iter] /\ order' = order
        /\ visited' = Append(visited, iter) /\ start' = start
    BY <1>8 DEF Advance, See
  <2>2. PICK k \in 1 .. Len(order) + 1 :
          iter = Ring(k) /\ start = visited \o SubSeq(order, k, Len(order))
    BY <2>1 DEF WalkSeesAll
  <2>3. k # Len(order) + 1
    BY <2>1, <2>2, <1>0, RingTypes
  <2>4. k \in 1 .. Len(order) /\ k \in 0 .. Len(order) /\ k + 1 \in 1 .. Len(order) + 1
    BY <2>3, <1>0
  <2>5. iter = order[k] /\ iter' = Ring(k + 1)
    BY <2>1, <2>2, <2>4, <1>0, RingTypes DEF InOrder
  <2>6. start = Append(visited, iter) \o SubSeq(order, k + 1, Len(order))
    BY <2>2, <2>4, <2>5, <1>0, SeenAndLeft
  <2> QED BY <2>1, <2>4, <2>5, <2>6 DEF WalkSeesAll, Ring
<1>9. ASSUME end PROVE WalkSeesAll'
  BY <1>9 DEF end, WalkSeesAll
<1>10. ASSUME UNCHANGED vars PROVE WalkSeesAll'
  BY <1>10 DEF vars, links, WalkSeesAll, Ring
<1> QED
  BY <1>2, <1>3, <1>4, <1>5, <1>6, <1>7, <1>8, <1>9, <1>10 DEF Next

-----------------------------------------------------------------------------
(* The list, its order and its walk, for any items: whatever calls and      *)
(* walks a caller makes (list.h, 166-331).                                  *)
THEOREM Invariance == Spec => []Inv
BY Start, Step, PTL DEF Spec

(* Every entry links to entries of the list (list.h, 172-237).              *)
THEOREM Typing == Spec => []TypeOK
<1>1. Inv => TypeOK
  BY DEF Inv
<1> QED BY <1>1, Invariance, PTL

(* Both directions of the links agree with the calls made so far (list.h,   *)
(* 198-237).                                                                *)
THEOREM KeepsOrder == Spec => []InOrder
<1>1. Inv => InOrder
  BY DEF Inv
<1> QED BY <1>1, Invariance, PTL

(* A walk that removes items as it goes stays on the list (ndfrmwrk.cpp,    *)
(* 888-906).                                                                *)
THEOREM WalkStays == Spec => []IterOnList
<1>1. Inv => IterOnList
  BY DEF Inv
<1> QED BY <1>1, Invariance, PTL

(* A walk comes to every item that was in the list when it began, once and  *)
(* in order, whichever of them it removes: no provider that FlushProviders  *)
(* should unload is passed over (ndfrmwrk.cpp, 888-906).                    *)
THEOREM WalkIsComplete == Spec => []WalkSeesAll
BY WalkStart, WalkStep, Invariance, PTL DEF Spec
=============================================================================
