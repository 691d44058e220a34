-------------------------- MODULE AddressProofs -----------------------------
(***************************************************************************)
(* Proofs about the two modules of the framework's address lists, for      *)
(* lists, buffers, providers and an INT_MAX of every number and size:      *)
(* AddressQuery first, AddressGather after it.  What makes the copying to  *)
(* a caller safe is that the bytes of the addresses it has come to are     *)
(* part of the bytes that were counted.                                    *)
(***************************************************************************)
EXTENDS AddressQuery, AddressGather, FiniteSetTheorems, SequenceTheorems, TLAPS

-----------------------------------------------------------------------------
(* The sizes. *)
Taken(s, n) == Sum(SubSeq(s, 1, n))
Upto(s, n, f) == {i \in 1 .. n : s[i] = f}

LEMMA Start ==
  ASSUME NEW S, NEW s \in Seq(S), NEW n \in 0 .. Len(s)
  PROVE  /\ SubSeq(s, 1, n) \in Seq(S) /\ Len(SubSeq(s, 1, n)) = n
         /\ DOMAIN SubSeq(s, 1, n) = 1 .. n
         /\ \A i \in 1 .. n : SubSeq(s, 1, n)[i] = s[i]
<1>1. /\ SubSeq(s, 1, n) \in Seq(S) /\ Len(SubSeq(s, 1, n)) = n
      /\ \A i \in 1 .. n : SubSeq(s, 1, n)[i] = s[i]
  OBVIOUS
<1> QED BY <1>1

LEMMA Rest ==
  ASSUME NEW S, NEW s \in Seq(S), NEW n \in 0 .. Len(s)
  PROVE  SubSeq(s, n + 1, Len(s)) \in Seq(S) /\ Len(SubSeq(s, n + 1, Len(s))) = Len(s) - n
<1>1. /\ n + 1 \in Int /\ Len(s) \in Int
      /\ \A i \in n + 1 .. Len(s) : s[i] \in S
  OBVIOUS
<1>2. /\ SubSeq(s, n + 1, Len(s)) \in Seq(S)
      /\ Len(SubSeq(s, n + 1, Len(s))) =
           IF n + 1 <= Len(s) THEN Len(s) - (n + 1) + 1 ELSE 0
  BY <1>1, SubSeqProperties, Zenon
<1> QED BY <1>2

LEMMA FamilyOfStart ==
  ASSUME NEW s \in Seq(Family), NEW n \in 0 .. Len(s), NEW f
  PROVE  /\ OfFamily(SubSeq(s, 1, n), f) = Cardinality(Upto(s, n, f))
         /\ IsFiniteSet(Upto(s, n, f)) /\ Cardinality(Upto(s, n, f)) \in Nat
<1>1. {i \in DOMAIN SubSeq(s, 1, n) : SubSeq(s, 1, n)[i] = f} = Upto(s, n, f)
  BY Start DEF Upto
<1>2. IsFiniteSet(1 .. n) /\ Upto(s, n, f) \in SUBSET (1 .. n)
  BY FS_Interval DEF Upto
<1>3. IsFiniteSet(Upto(s, n, f))
  BY <1>2, FS_Subset
<1> QED BY <1>1, <1>3, FS_CardinalityType DEF OfFamily

LEMMA NextFamily ==
  ASSUME NEW s \in Seq(Family), NEW n \in 0 .. Len(s), n < Len(s), NEW f
  PROVE  Cardinality(Upto(s, n + 1, f)) =
           IF s[n + 1] = f THEN Cardinality(Upto(s, n, f)) + 1
                           ELSE Cardinality(Upto(s, n, f))
<1>1. n + 1 \notin Upto(s, n, f)
  BY DEF Upto
<1>2. IsFiniteSet(Upto(s, n, f))
  BY FamilyOfStart
<1>3. CASE s[n + 1] = f
  <2>1. Upto(s, n + 1, f) = Upto(s, n, f) \union {n + 1}
    BY <1>3 DEF Upto
  <2> QED BY <1>1, <1>2, <1>3, <2>1, FS_AddElement
<1>4. CASE s[n + 1] # f
  <2>1. Upto(s, n + 1, f) = Upto(s, n, f)
    BY <1>4 DEF Upto
  <2> QED BY <1>4, <2>1
<1> QED BY <1>3, <1>4

(* The bytes of the first n addresses; one more adds its own length, and    *)
(* fewer take no more.                                                      *)
LEMMA BytesAre ==
  ASSUME NEW s \in Seq(Family), NEW n \in 0 .. Len(s)
  PROVE  /\ Taken(s, n) \in Nat
         /\ Taken(s, n) = 16 * Cardinality(Upto(s, n, "v4"))
                          + 28 * Cardinality(Upto(s, n, "v6"))
<1>1. Taken(s, n) = 16 * Cardinality(Upto(s, n, "v4"))
                    + 28 * Cardinality(Upto(s, n, "v6"))
  BY FamilyOfStart DEF Taken, Sum, Length
<1>2. Cardinality(Upto(s, n, "v4")) \in Nat /\ Cardinality(Upto(s, n, "v6")) \in Nat
  BY FamilyOfStart
<1> QED BY <1>1, <1>2

LEMMA NoBytes ==
  ASSUME NEW s \in Seq(Family) PROVE Taken(s, 0) = 0
<1>1. Upto(s, 0, "v4") = {} /\ Upto(s, 0, "v6") = {}
  BY DEF Upto
<1>2. Taken(s, 0) = 16 * Cardinality(Upto(s, 0, "v4")) + 28 * Cardinality(Upto(s, 0, "v6"))
  BY BytesAre
<1>3. Cardinality(Upto(s, 0, "v4")) = 0 /\ Cardinality(Upto(s, 0, "v6")) = 0
  BY <1>1, FS_EmptySet
<1> QED BY <1>2, <1>3

LEMMA NextBytes ==
  ASSUME NEW s \in Seq(Family), NEW n \in 0 .. Len(s), n < Len(s)
  PROVE  Taken(s, n + 1) = Taken(s, n) + Length(s[n + 1])
<1>1. n + 1 \in 0 .. Len(s) /\ s[n + 1] \in {"v4", "v6"}
  BY DEF Family
<1>2. Cardinality(Upto(s, n, "v4")) \in Nat /\ Cardinality(Upto(s, n, "v6")) \in Nat
  BY FamilyOfStart
<1>3. CASE s[n + 1] = "v4"
  <2>1. /\ Cardinality(Upto(s, n + 1, "v4")) = Cardinality(Upto(s, n, "v4")) + 1
        /\ Cardinality(Upto(s, n + 1, "v6")) = Cardinality(Upto(s, n, "v6"))
    BY <1>3, NextFamily
  <2> QED BY <1>1, <1>2, <1>3, <2>1, BytesAre DEF Length
<1>4. CASE s[n + 1] = "v6"
  <2>1. /\ Cardinality(Upto(s, n + 1, "v4")) = Cardinality(Upto(s, n, "v4"))
        /\ Cardinality(Upto(s, n + 1, "v6")) = Cardinality(Upto(s, n, "v6")) + 1
    BY <1>4, NextFamily
  <2> QED BY <1>1, <1>2, <1>4, <2>1, BytesAre DEF Length
<1> QED BY <1>1, <1>3, <1>4

LEMMA FewerBytes ==
  ASSUME NEW s \in Seq(Family), NEW m \in 0 .. Len(s), NEW n \in 0 .. m
  PROVE  Taken(s, n) <= Taken(s, m)
<1>1. ASSUME NEW f PROVE /\ Cardinality(Upto(s, n, f)) <= Cardinality(Upto(s, m, f))
                         /\ Cardinality(Upto(s, n, f)) \in Nat
                         /\ Cardinality(Upto(s, m, f)) \in Nat
  <2>1. Upto(s, n, f) \in SUBSET Upto(s, m, f)
    BY DEF Upto
  <2>2. n \in 0 .. Len(s)
    OBVIOUS
  <2> QED BY <2>1, <2>2, FamilyOfStart, FS_Subset
<1>2. n \in 0 .. Len(s)
  OBVIOUS
<1> QED BY <1>1, <1>2, BytesAre

LEMMA BoundedIs ==
  ASSUME NEW S, NEW n \in Nat
  PROVE  \A s : s \in BoundedSeq(S, n) <=> s \in Seq(S) /\ Len(s) <= n
<1>1. ASSUME NEW s \in BoundedSeq(S, n) PROVE s \in Seq(S) /\ Len(s) <= n
  <2>1. PICK m \in 0 .. n : s \in [1 .. m -> S]
    BY DEF BoundedSeq, SeqOf
  <2> QED BY <2>1
<1>2. ASSUME NEW s \in Seq(S), Len(s) <= n PROVE s \in BoundedSeq(S, n)
  <2>1. Len(s) \in 0 .. n /\ s \in [1 .. Len(s) -> S]
    BY <1>2
  <2> QED BY <2>1 DEF BoundedSeq, SeqOf
<1> QED BY <1>1, <1>2

-----------------------------------------------------------------------------
(* The inductive invariant: a buffer that is there has the size it is said  *)
(* to have; and what is copied is a start of the counted addresses, laid    *)
(* out without a gap, in a buffer that was found large enough for all.      *)
CallInv == pc \in {"called", "copy"} => buffer \in {0, size}
CopyInv ==
  pc = "copy" =>
    /\ iAddressCount \in 0 .. Len(Counted)
    /\ todo = SubSeq(Asked, iAddressCount + 1, Len(Asked))
    /\ array = Len(Counted)
    /\ pBuf = Entry(array) + Taken(Asked, iAddressCount)
    /\ pBuf + cbRemaining = size
    /\ Required(Counted) <= size /\ buffer = size
IInv == TypeOK /\ CallInv /\ CopyInv

LEMMA InitInv == Init => IInv
<1> SUFFICES ASSUME Init PROVE IInv
  OBVIOUS
<1>1. <<>> \in BoundedSeq(Family, 2 * MaxList)
  <2>1. 2 * MaxList \in Nat /\ 0 <= 2 * MaxList
    BY QueryAssumption
  <2>2. <<>> \in Seq(Family) /\ Len(<<>>) = 0
    OBVIOUS
  <2> QED BY <2>1, <2>2, BoundedIs
<1>2. TypeOK
  BY <1>1, QueryAssumption DEF Init, TypeOK
<1> QED BY <1>2 DEF Init, IInv, CallInv, CopyInv

(* What is asked for and what of it is counted. *)
LEMMA AskedIs ==
  ASSUME TypeOK
  PROVE  /\ Asked \in Seq(Family) /\ Len(Asked) <= 2 * MaxList
         /\ Len(Counted) \in 0 .. Len(Asked) /\ Len(Counted) <= IntMax
         /\ Len(Counted) < Len(Asked) => Len(Counted) = IntMax
         /\ Counted = SubSeq(Asked, 1, Len(Counted))
         /\ Required(Counted) = Entry(Len(Counted)) + Taken(Asked, Len(Counted))
         /\ Required(Counted) \in Nat
         /\ Counted # <<>> => Len(Counted) > 0
<1> DEFINE first  == IF "nd2" \in flags THEN <<>> ELSE nd2
           second == IF "nd1" \in flags THEN <<>> ELSE nd1
<1>1. nd2 \in Seq(Family) /\ Len(nd2) <= MaxList /\ nd1 \in Seq(Family) /\ Len(nd1) <= MaxList
  BY QueryAssumption, BoundedIs DEF TypeOK, Lists
<1>2. /\ first \in Seq(Family) /\ Len(first) <= MaxList
      /\ second \in Seq(Family) /\ Len(second) <= MaxList
  BY <1>1, QueryAssumption
<1>3. Asked = first \o second
  BY DEF Asked
<1> HIDE DEF first, second
<1>4. Asked \in Seq(Family) /\ Len(Asked) = Len(first) + Len(second)
  BY <1>2, <1>3
<1>5. Len(Asked) <= 2 * MaxList
  BY <1>2, <1>4, QueryAssumption
<1> DEFINE n == IF Len(Asked) < IntMax THEN Len(Asked) ELSE IntMax
<1>6. n \in 0 .. Len(Asked) /\ n <= IntMax /\ (n < Len(Asked) => n = IntMax)
  BY <1>4, QueryAssumption
<1>7. Counted = SubSeq(Asked, 1, n)
  BY DEF Counted
<1> HIDE DEF n
<1>8. Len(Counted) = n /\ Counted \in Seq(Family)
  BY <1>4, <1>6, <1>7, Start
<1>9. Taken(Asked, n) \in Nat
  BY <1>4, <1>6, BytesAre
<1>10. Required(Counted) = Entry(Len(Counted)) + Taken(Asked, Len(Counted))
  BY <1>7, <1>8 DEF Required, Taken
<1>11. Required(Counted) \in Nat
  BY <1>6, <1>8, <1>9, <1>10 DEF Entry
<1>12. Counted # <<>> => Len(Counted) > 0
  BY <1>8
<1> QED BY <1>4, <1>5, <1>6, <1>7, <1>8, <1>10, <1>11, <1>12

(* One address of l bytes moves from what remains to what is written. *)
LEMMA Room ==
  ASSUME NEW e \in Nat, NEW b \in Nat, NEW all \in Nat, NEW l \in Nat,
         NEW total \in Nat, NEW left \in Nat, NEW pos \in Nat,
         pos = e + b, pos + left = total, e + all <= total, b + l <= all
  PROVE  /\ pos + l <= total /\ l <= left
         /\ pos + l \in Nat /\ left - l \in Nat
         /\ pos + l = e + (b + l) /\ (pos + l) + (left - l) = total
OBVIOUS

(* While there is more to copy, the next address is one of the counted      *)
(* ones, and it fits.                                                       *)
LEMMA NextFits ==
  ASSUME IInv, pc = "copy", More
  PROVE  /\ iAddressCount < Len(Counted) /\ todo[1] = Asked[iAddressCount + 1]
         /\ todo[1] \in Family
         /\ Taken(Asked, iAddressCount + 1) = Taken(Asked, iAddressCount) + Length(todo[1])
         /\ Fits /\ pBuf + Length(todo[1]) <= size
<1>1. /\ iAddressCount \in 0 .. Len(Counted) /\ array = Len(Counted)
      /\ todo = SubSeq(Asked, iAddressCount + 1, Len(Asked))
      /\ pBuf = Entry(array) + Taken(Asked, iAddressCount) /\ pBuf + cbRemaining = size
      /\ Required(Counted) <= size
  BY DEF IInv, CopyInv
<1>2. /\ Asked \in Seq(Family) /\ Len(Asked) \in Nat /\ Len(Counted) \in 0 .. Len(Asked)
      /\ Len(Counted) < Len(Asked) => Len(Counted) = IntMax
      /\ Required(Counted) = Entry(Len(Counted)) + Taken(Asked, Len(Counted))
  BY AskedIs DEF IInv
<1>3. iAddressCount < Len(Asked) /\ iAddressCount < Len(Counted)
  <2>1. todo # <<>> /\ iAddressCount < IntMax
    BY DEF More
  <2>2. iAddressCount < Len(Asked)
    BY <1>1, <1>2, <2>1
  <2> QED BY <1>1, <1>2, <2>1, <2>2
<1>4. todo[1] = Asked[iAddressCount + 1] /\ todo[1] \in Family
  BY <1>1, <1>2, <1>3
<1>5. /\ iAddressCount \in 0 .. Len(Asked)
      /\ iAddressCount + 1 \in 0 .. Len(Counted)
      /\ iAddressCount + 1 \in 0 .. Len(Asked)
  BY <1>1, <1>2, <1>3
<1>6. Taken(Asked, iAddressCount + 1) = Taken(Asked, iAddressCount) + Length(todo[1])
  BY <1>2, <1>3, <1>4, <1>5, NextBytes
<1>7. Taken(Asked, iAddressCount + 1) <= Taken(Asked, Len(Counted))
  BY <1>2, <1>5, FewerBytes
<1>8. /\ Taken(Asked, iAddressCount) \in Nat /\ Taken(Asked, Len(Counted)) \in Nat
      /\ Length(todo[1]) \in Nat /\ Entry(array) \in Nat
      /\ size \in Nat /\ cbRemaining \in Nat /\ pBuf \in Nat
  BY <1>1, <1>2, <1>5, BytesAre DEF IInv, TypeOK, Length, Entry
<1>9. pBuf + Length(todo[1]) <= size /\ Length(todo[1]) <= cbRemaining
  <2>1. Entry(array) + Taken(Asked, Len(Counted)) <= size
    BY <1>1, <1>2
  <2>2. Taken(Asked, iAddressCount) + Length(todo[1]) <= Taken(Asked, Len(Counted))
    BY <1>6, <1>7
  <2>3. pBuf = Entry(array) + Taken(Asked, iAddressCount) /\ pBuf + cbRemaining = size
    BY <1>1
  <2> QED BY <1>8, <2>1, <2>2, <2>3, Room
<1> QED BY <1>3, <1>4, <1>6, <1>9 DEF Fits

LEMMA ListsChangePreserves == ASSUME IInv, ListsChange PROVE IInv'
<1>1. TypeOK'
  BY QueryAssumption DEF IInv, TypeOK, ListsChange, copying
<1> QED BY <1>1 DEF IInv, CallInv, CopyInv, ListsChange, copying

LEMMA AskPreserves == ASSUME IInv, Ask \/ AskAgain PROVE IInv'
<1>1. CASE Ask
  <2>1. /\ size' \in Nat /\ buffer' \in {0, size'} /\ buffer' \in Nat /\ pc' = "called"
        /\ flags' \subseteq {"nd2", "nd1"} /\ UNCHANGED <<registry, reply, copying>>
    BY <1>1, QueryAssumption DEF Ask
  <2>2. TypeOK'
    BY <2>1 DEF IInv, TypeOK, registry, copying
  <2> QED BY <2>1, <2>2 DEF IInv, CallInv, CopyInv
<1>2. CASE AskAgain
  <2>1. TypeOK'
    BY <1>2 DEF IInv, TypeOK, AskAgain, registry, copying
  <2> QED BY <1>2, <2>1 DEF IInv, CallInv, CopyInv, AskAgain
<1> QED BY <1>1, <1>2

LEMMA ReturnPreserves == ASSUME IInv, Nothing \/ Overflow \/ Copied PROVE IInv'
<1>1. /\ pc' = "idle" /\ reply' \in {"success", "overflow"} /\ size' \in Nat
      /\ UNCHANGED <<registry, flags, buffer, copying>>
  BY AskedIs DEF IInv, TypeOK, Nothing, Overflow, Copied
<1>2. TypeOK'
  BY <1>1 DEF IInv, TypeOK, registry, copying
<1> QED BY <1>1, <1>2 DEF IInv, CallInv, CopyInv

LEMMA StartCopyPreserves == ASSUME IInv, StartCopy PROVE IInv'
<1>1. /\ pc = "called" /\ buffer # 0 /\ Required(Counted) <= size /\ pc' = "copy"
      /\ todo' = Asked /\ iAddressCount' = 0 /\ array' = Len(Counted)
      /\ pBuf' = Entry(Len(Counted)) /\ cbRemaining' = size - Entry(Len(Counted))
      /\ UNCHANGED <<registry, flags, buffer, size, reply>>
  BY DEF StartCopy
<1>2. buffer = size
  BY <1>1 DEF IInv, CallInv
<1>3. /\ Asked \in Seq(Family) /\ Len(Asked) <= 2 * MaxList /\ Len(Counted) \in 0 .. Len(Asked)
      /\ Required(Counted) = Entry(Len(Counted)) + Taken(Asked, Len(Counted))
  BY AskedIs DEF IInv
<1>4. Taken(Asked, Len(Counted)) \in Nat /\ Entry(Len(Counted)) \in Nat
  BY <1>3, BytesAre DEF Entry
<1>5. pBuf' \in Nat /\ cbRemaining' \in Nat /\ size \in Nat /\ array' \in Nat
  BY <1>1, <1>3, <1>4 DEF IInv, TypeOK
<1>6. Asked' = Asked /\ Counted' = Counted /\ Required(Counted)' = Required(Counted)
  BY <1>1 DEF Asked, Counted, Required, registry
<1>7. TypeOK'
  <2>1. todo' \in BoundedSeq(Family, 2 * MaxList)
    BY <1>1, <1>3, BoundedIs, QueryAssumption
  <2>2. iAddressCount' \in 0 .. IntMax
    BY <1>1, QueryAssumption
  <2> QED BY <1>1, <1>5, <2>1, <2>2 DEF IInv, TypeOK, registry
<1>8. CopyInv'
  <2>1. Taken(Asked, 0) = 0
    BY <1>3, NoBytes
  <2>2. Taken(Asked, iAddressCount)' = 0
    BY <1>1, <1>6, <2>1 DEF Taken
  <2>3. todo' = SubSeq(Asked', iAddressCount' + 1, Len(Asked'))
    BY <1>1, <1>3, <1>6
  <2>4. iAddressCount' \in 0 .. Len(Counted')
    BY <1>1, <1>3, <1>6
  <2>5. pBuf' = Entry(array') + 0 /\ pBuf' + cbRemaining' = size'
    BY <1>1, <1>4, <1>5
  <2> QED BY <1>1, <1>2, <1>6, <2>2, <2>3, <2>4, <2>5 DEF CopyInv
<1> QED BY <1>1, <1>2, <1>7, <1>8 DEF IInv, CallInv

LEMMA CopyOnePreserves == ASSUME IInv, CopyOne PROVE IInv'
<1>1. pc = "copy" /\ More
  BY DEF CopyOne
<1>2. Fits
  BY <1>1, NextFits
<1>3. /\ todo' = Tail(todo) /\ iAddressCount' = iAddressCount + 1
      /\ pBuf' = pBuf + Length(todo[1]) /\ cbRemaining' = cbRemaining - Length(todo[1])
      /\ UNCHANGED <<registry, flags, buffer, size, pc, reply, array>>
  BY <1>2 DEF CopyOne
<1>4. /\ iAddressCount \in 0 .. Len(Counted) /\ array = Len(Counted) /\ buffer = size
      /\ todo = SubSeq(Asked, iAddressCount + 1, Len(Asked))
      /\ pBuf = Entry(array) + Taken(Asked, iAddressCount) /\ pBuf + cbRemaining = size
      /\ Required(Counted) <= size
  BY <1>1 DEF IInv, CopyInv
<1>5. /\ Asked \in Seq(Family) /\ Len(Counted) \in 0 .. Len(Asked) /\ Len(Counted) <= IntMax
      /\ Len(Asked) <= 2 * MaxList
  BY AskedIs DEF IInv
<1>6. /\ iAddressCount < Len(Counted) /\ todo[1] \in Family
      /\ Taken(Asked, iAddressCount + 1) = Taken(Asked, iAddressCount) + Length(todo[1])
      /\ Length(todo[1]) <= cbRemaining
  BY <1>1, NextFits DEF Fits
<1>7. Asked' = Asked /\ Counted' = Counted /\ Required(Counted)' = Required(Counted)
  BY <1>3 DEF Asked, Counted, Required, registry
<1>8. /\ iAddressCount' \in 0 .. Len(Counted)
      /\ todo' = SubSeq(Asked, iAddressCount' + 1, Len(Asked))
  <2>1. iAddressCount \in Nat /\ Len(Asked) \in Nat /\ iAddressCount < Len(Asked)
    BY <1>4, <1>5, <1>6
  <2> QED BY <1>3, <1>4, <1>5, <1>6, <2>1
<1>9. /\ Length(todo[1]) \in Nat /\ Taken(Asked, iAddressCount) \in Nat /\ Entry(array) \in Nat
      /\ size \in Nat /\ cbRemaining \in Nat /\ pBuf \in Nat
  <2>1. iAddressCount \in 0 .. Len(Asked) /\ array \in Nat
    BY <1>4, <1>5
  <2> QED BY <1>5, <2>1, BytesAre DEF Length, Entry, IInv, TypeOK
<1>10. /\ pBuf' = Entry(array) + Taken(Asked, iAddressCount + 1)
       /\ pBuf' + cbRemaining' = size /\ pBuf' \in Nat /\ cbRemaining' \in Nat
  <2> DEFINE l == Length(todo[1])
             b == Taken(Asked, iAddressCount)
             e == Entry(array)
  <2>1. l \in Nat /\ b \in Nat /\ e \in Nat
    BY <1>9
  <2>2. pBuf = e + b /\ pBuf + cbRemaining = size /\ l <= cbRemaining
    BY <1>4, <1>6
  <2>3. pBuf' = pBuf + l /\ cbRemaining' = cbRemaining - l
    BY <1>3
  <2>4. Taken(Asked, iAddressCount + 1) = b + l
    BY <1>6
  <2> HIDE DEF l, b, e
  <2>5. /\ pBuf' = e + (b + l) /\ pBuf' + cbRemaining' = size
        /\ pBuf' \in Nat /\ cbRemaining' \in Nat
    BY <1>9, <2>1, <2>2, <2>3
  <2> QED BY <2>4, <2>5 DEF e
<1>11. TypeOK'
  <2>1. todo' \in Seq(Family) /\ Len(todo') <= 2 * MaxList
    <3> DEFINE k == iAddressCount'
    <3>1. k \in 0 .. Len(Asked) /\ Len(Asked) \in Nat
      BY <1>5, <1>8
    <3>2. todo' = SubSeq(Asked, k + 1, Len(Asked))
      BY <1>8
    <3> HIDE DEF k
    <3>3. todo' \in Seq(Family) /\ Len(todo') = Len(Asked) - k
      BY <1>5, <3>1, <3>2, Rest
    <3> QED BY <1>5, <3>1, <3>3, QueryAssumption
  <2>2. todo' \in BoundedSeq(Family, 2 * MaxList)
    BY <2>1, BoundedIs, QueryAssumption
  <2>3. iAddressCount' \in 0 .. IntMax
    BY <1>5, <1>8, QueryAssumption
  <2> QED BY <1>3, <1>10, <2>2, <2>3 DEF IInv, TypeOK, registry
<1>12. CopyInv'
  <2>1. Taken(Asked, iAddressCount)' = Taken(Asked, iAddressCount + 1)
    BY <1>3, <1>7 DEF Taken
  <2> QED BY <1>3, <1>4, <1>7, <1>8, <1>10, <2>1 DEF CopyInv
<1> QED BY <1>1, <1>3, <1>4, <1>11, <1>12 DEF IInv, CallInv

LEMMA NextInv == IInv /\ [Next]_vars => IInv'
<1> SUFFICES ASSUME IInv, [Next]_vars PROVE IInv'
  OBVIOUS
<1>1. CASE UNCHANGED vars
  BY <1>1 DEF vars, registry, copying, IInv, TypeOK, CallInv, CopyInv, Asked, Counted,
     Required
<1>2. CASE Next
  BY <1>2, ListsChangePreserves, AskPreserves, ReturnPreserves, StartCopyPreserves,
     CopyOnePreserves DEF Next, Answer
<1> QED BY <1>1, <1>2

LEMMA Inductive == Spec => []IInv
  BY InitInv, NextInv, PTL DEF Spec

-----------------------------------------------------------------------------
(* The types, and every write of CopyAddressList inside the buffer of the   *)
(* caller, for lists and buffers of every size.                             *)
THEOREM Invariance == Spec => []Inv
<1>1. IInv => Inv
  <2> SUFFICES ASSUME IInv, pc = "copy", More, Fits
               PROVE  /\ Entry(iAddressCount + 1) <= Entry(array) /\ Entry(array) <= pBuf
                      /\ pBuf + Length(todo[1]) <= buffer
    BY DEF IInv, Inv, WritesStayInside
  <2>1. iAddressCount < Len(Counted) /\ pBuf + Length(todo[1]) <= size
    BY NextFits
  <2>2. /\ iAddressCount \in 0 .. Len(Counted) /\ array = Len(Counted) /\ buffer = size
        /\ pBuf = Entry(array) + Taken(Asked, iAddressCount)
    BY DEF IInv, CopyInv
  <2>3. Asked \in Seq(Family) /\ Len(Counted) \in 0 .. Len(Asked)
    BY AskedIs DEF IInv
  <2>4. Taken(Asked, iAddressCount) \in Nat /\ iAddressCount \in Nat /\ array \in Nat
    BY <2>2, <2>3, BytesAre
  <2> QED BY <2>1, <2>2, <2>4 DEF Entry
<1> QED BY Inductive, <1>1, PTL

(* An answer has every address that was asked for, up to INT_MAX of them:   *)
(* what CopySockaddr would leave out for want of room never comes up.       *)
THEOREM NothingIsLeftOut == Spec => []AnswerIsWhole
<1>1. IInv => AnswerIsWhole
  <2> SUFFICES ASSUME IInv, pc = "copy", ~More
               PROVE  iAddressCount = array /\ array = Len(Counted)
    BY DEF AnswerIsWhole
  <2>1. /\ iAddressCount \in 0 .. Len(Counted) /\ array = Len(Counted)
        /\ todo = SubSeq(Asked, iAddressCount + 1, Len(Asked))
    BY DEF IInv, CopyInv
  <2>2. /\ Asked \in Seq(Family) /\ Len(Asked) \in Nat /\ Len(Counted) \in 0 .. Len(Asked)
        /\ Len(Counted) <= IntMax
    BY AskedIs DEF IInv
  <2>3. CASE todo = <<>>
    <3>1. Len(todo) = 0
      BY <2>3
    <3>2. iAddressCount < Len(Asked) => Len(todo) = Len(Asked) - iAddressCount
      BY <2>1, <2>2
    <3>3. iAddressCount = Len(Asked)
      BY <2>1, <2>2, <3>1, <3>2
    <3> QED BY <2>1, <2>2, <3>3
  <2>4. CASE ~(iAddressCount < IntMax)
    BY <2>1, <2>2, <2>4, QueryAssumption
  <2> QED BY <2>3, <2>4 DEF More
<1> QED BY Inductive, <1>1, PTL

(* As long as the lists stay as they are, the size that came with an        *)
(* overflow is the size of the answer, and the buffer of the second call    *)
(* has it.                                                                  *)
SizeIsEnough ==
  changes = 0 /\ reply = "overflow" =>
    size = Required(Counted) /\ Counted # <<>> /\ (pc = "called" => buffer = size)

LEMMA SizeStays ==
  ASSUME IInv, SizeIsEnough, [Next]_vars PROVE SizeIsEnough'
<1>1. CASE ListsChange
  BY <1>1 DEF ListsChange, SizeIsEnough, IInv, TypeOK
<1>2. CASE UNCHANGED vars
  BY <1>2 DEF vars, registry, copying, SizeIsEnough, Required, Counted, Asked
<1>3. CASE Ask
  BY <1>3 DEF Ask, registry, SizeIsEnough
<1>4. CASE AskAgain
  <2>1. UNCHANGED <<nd2, nd1, changes, flags, size, reply>> /\ buffer' = size
    BY <1>4 DEF AskAgain, registry
  <2> QED BY <2>1 DEF SizeIsEnough, Required, Counted, Asked
<1>5. CASE Nothing \/ Copied
  BY <1>5 DEF Nothing, Copied, registry, SizeIsEnough
<1>6. CASE Overflow
  <2>1. UNCHANGED <<nd2, nd1, changes, flags>> /\ pc' = "idle" /\ Counted # <<>>
    BY <1>6 DEF Overflow, registry
  <2>2. size' = Required(Counted)
    BY <1>6 DEF Overflow
  <2>3. Counted' = Counted /\ Required(Counted)' = Required(Counted)
    BY <2>1 DEF Required, Counted, Asked
  <2> QED BY <2>1, <2>2, <2>3 DEF SizeIsEnough
<1>7. CASE StartCopy \/ CopyOne
  <2>1. UNCHANGED <<nd2, nd1, changes, flags, size, reply>> /\ pc' = "copy"
    BY <1>7 DEF StartCopy, CopyOne, registry
  <2> QED BY <2>1 DEF SizeIsEnough, Required, Counted, Asked
<1> QED BY <1>1, <1>2, <1>3, <1>4, <1>5, <1>6, <1>7 DEF Next, Answer

(* A caller that comes again with a buffer of the size it was told is not   *)
(* told again that its buffer is too small, as long as the lists stay as    *)
(* they are: the half of CallerGetsAnswer that is no liveness (230-234).    *)
THEOREM NoSecondOverflow ==
  Spec => [][reply = "overflow" /\ changes = 0 => ~Overflow]_vars
<1>1. Init => SizeIsEnough
  BY DEF Init, SizeIsEnough
<1>2. IInv /\ SizeIsEnough /\ [Next]_vars => SizeIsEnough'
  BY SizeStays
<1>3. IInv /\ SizeIsEnough /\ [Next]_vars
      => [reply = "overflow" /\ changes = 0 => ~Overflow]_vars
  <2> SUFFICES ASSUME IInv, SizeIsEnough, reply = "overflow", changes = 0, Overflow
               PROVE  FALSE
    OBVIOUS
  <2>1. pc = "called" /\ Counted # <<>> /\ (buffer = 0 \/ Required(Counted) > size)
    BY DEF Overflow
  <2>2. size = Required(Counted) /\ buffer = size
    BY <2>1 DEF SizeIsEnough
  <2>3. /\ Asked \in Seq(Family) /\ Len(Counted) \in 0 .. Len(Asked) /\ Len(Counted) > 0
        /\ Required(Counted) = Entry(Len(Counted)) + Taken(Asked, Len(Counted))
    BY <2>1, AskedIs DEF IInv
  <2>4. Taken(Asked, Len(Counted)) \in Nat
    BY <2>3, BytesAre
  <2>5. Required(Counted) \in Nat /\ Required(Counted) > 0
    BY <2>3, <2>4 DEF Entry
  <2> QED BY <2>1, <2>2, <2>5
<1> QED BY Inductive, <1>1, <1>2, <1>3, PTL DEF Spec

-----------------------------------------------------------------------------
(* The inductive invariant.  The buffer: the length stays that of the       *)
(* buffer until the next provider is asked.  The lists: the providers up to *)
(* `at' have given what they have, the others nothing.                      *)
Asking  == step \notin {"ask", "done"} => at \in Providers
LastOne == step = "done" => at = N + 1
BufferInv ==
  /\ step \in {"ask", "again", "build"} /\ pAddrList # 0 /\ ~grew => len <= pAddrList
  /\ content.list \in Seq(Kind)
BuildInv ==
  step = "build" => content.of = at /\ (moves = 0 => content.list = has[at])
SoFar(p) == IF p < at THEN Expected(p) ELSE 0
Behind == step # "threw" =>
  /\ \A k \in DOMAIN ndV1 : ndV1[k][1] < at
  /\ \A k \in DOMAIN ndV2 : ndV2[k][1] < at
  /\ \A p \in skipped : p < at
GatheredInv ==
  moves = 0 /\ step # "threw" =>
    /\ \A p \in OfV1 : From(ndV1, p) = SoFar(p)
    /\ \A p \in Providers \ OfV1 : From(ndV2, p) = SoFar(p)
Ordered == InOrder(ndV1) /\ InOrder(ndV2)
GatherIInv ==
  /\ GatherTypeOK /\ Asking /\ LastOne /\ BufferInv /\ BuildInv
  /\ Behind /\ GatheredInv /\ Ordered

LEMMA HasIs == GatherTypeOK => has \in [Providers -> Seq(Kind)]
<1> SUFFICES ASSUME GatherTypeOK, NEW p \in Providers PROVE has[p] \in Seq(Kind)
  BY DEF GatherTypeOK
<1>1. has[p] \in BoundedSeq(Kind, MaxAddrs)
  BY DEF GatherTypeOK
<1> QED BY <1>1, BoundedIs, GatherAssumption

LEMMA UsableIs ==
  ASSUME NEW s \in Seq(Kind) PROVE Usable(s) \in Nat
<1>1. IsFiniteSet(DOMAIN s)
  BY FS_Interval
<1>2. {i \in DOMAIN s : s[i] = "v4"} \in SUBSET DOMAIN s
  OBVIOUS
<1> QED BY <1>1, <1>2, FS_Subset, FS_CardinalityType DEF Usable

LEMMA EntriesAre ==
  ASSUME GatherTypeOK
  PROVE  /\ \A k \in DOMAIN ndV1 : ndV1[k][1] \in Int
         /\ \A k \in DOMAIN ndV2 : ndV2[k][1] \in Int
<1>1. OfV1 \subseteq Int /\ Providers \ OfV1 \subseteq Int
  BY GatherAssumption DEF Providers
<1>2. ASSUME NEW k \in DOMAIN ndV1 PROVE ndV1[k][1] \in Int
  <2>1. ndV1[k] \in OfV1 \X {"v4"}
    BY DEF GatherTypeOK
  <2> QED BY <1>1, <2>1
<1>3. ASSUME NEW k \in DOMAIN ndV2 PROVE ndV2[k][1] \in Int
  <2>1. ndV2[k] \in (Providers \ OfV1) \X {"v4"}
    BY DEF GatherTypeOK
  <2> QED BY <1>1, <2>1
<1> QED BY <1>2, <1>3

(* What Build appends: n entries of provider a behind those of providers    *)
(* before it.                                                               *)
Given(a, n) == [k \in 1 .. n |-> <<a, "v4">>]

LEMMA Appended ==
  ASSUME NEW P \in SUBSET Int, NEW list \in Seq(P \X {"v4"}), NEW a \in P, NEW n \in Nat,
         \A k \in DOMAIN list : list[k][1] < a
  PROVE  /\ list \o Given(a, n) \in Seq(P \X {"v4"})
         /\ From(list \o Given(a, n), a) = n
         /\ \A p \in P : p # a => From(list \o Given(a, n), p) = From(list, p)
         /\ InOrder(list) => InOrder(list \o Given(a, n))
         /\ \A k \in DOMAIN (list \o Given(a, n)) : (list \o Given(a, n))[k][1] < a + 1
<1> DEFINE all == list \o Given(a, n)
<1>1. DOMAIN list = 1 .. Len(list) /\ Len(list) \in Nat
  OBVIOUS
<1>2. /\ list \o Given(a, n) \in Seq(P \X {"v4"})
      /\ DOMAIN (list \o Given(a, n)) = 1 .. (Len(list) + n)
      /\ \A k \in 1 .. Len(list) : (list \o Given(a, n))[k] = list[k]
      /\ \A k \in Len(list) + 1 .. Len(list) + n : (list \o Given(a, n))[k][1] = a
  <2>1. Given(a, n) \in Seq(P \X {"v4"}) /\ Len(Given(a, n)) = n
    BY DEF Given
  <2>2. \A k \in 1 .. n : Given(a, n)[k][1] = a
    BY DEF Given
  <2> DEFINE g == Given(a, n)
  <2>3. g \in Seq(P \X {"v4"}) /\ Len(g) = n
    BY <2>1
  <2>4. \A k \in 1 .. n : g[k][1] = a
    BY <2>2
  <2> HIDE DEF g
  <2>5. /\ list \o g \in Seq(P \X {"v4"})
        /\ Len(list \o g) = Len(list) + Len(g)
        /\ \A i \in 1 .. Len(list) + Len(g) :
             (list \o g)[i] = IF i <= Len(list) THEN list[i] ELSE g[i - Len(list)]
    BY <2>3, ConcatProperties, Zenon
  <2>6. DOMAIN (list \o g) = 1 .. (Len(list) + n)
    BY <2>3, <2>5
  <2>7. \A k \in 1 .. Len(list) : (list \o g)[k] = list[k]
    BY <2>3, <2>5
  <2>8. \A k \in Len(list) + 1 .. Len(list) + n : (list \o g)[k] = g[k - Len(list)]
    BY <2>3, <2>5
  <2>9. \A k \in Len(list) + 1 .. Len(list) + n : k - Len(list) \in 1 .. n
    BY <2>3
  <2>10. \A k \in Len(list) + 1 .. Len(list) + n : (list \o g)[k][1] = a
    BY <2>4, <2>8, <2>9
  <2> QED BY <2>5, <2>6, <2>7, <2>10 DEF g
<1>3. /\ DOMAIN all = 1 .. (Len(list) + n)
      /\ \A k \in 1 .. Len(list) : all[k] = list[k]
      /\ \A k \in Len(list) + 1 .. Len(list) + n : all[k][1] = a
  BY <1>2
<1> HIDE DEF all
<1>4. /\ DOMAIN all = 1 .. (Len(list) + n) /\ DOMAIN list = 1 .. Len(list) /\ Len(list) \in Nat
      /\ \A k \in 1 .. Len(list) : all[k] = list[k]
      /\ \A k \in Len(list) + 1 .. Len(list) + n : all[k][1] = a
  BY <1>1, <1>3
<1>5. a \in Int /\ \A k \in 1 .. Len(list) : list[k][1] \in Int /\ list[k][1] < a
  <2>1. ASSUME NEW k \in 1 .. Len(list) PROVE list[k][1] \in Int
    <3>1. list[k] \in P \X {"v4"}
      OBVIOUS
    <3> QED BY <3>1
  <2> QED BY <1>1, <2>1
<1>6. {k \in DOMAIN all : all[k][1] = a} = Len(list) + 1 .. Len(list) + n
  <2>1. ASSUME NEW k \in 1 .. Len(list) PROVE all[k][1] # a
    BY <1>4, <1>5
  <2>2. \A k \in 1 .. (Len(list) + n) :
          k \in 1 .. Len(list) \/ k \in Len(list) + 1 .. Len(list) + n
    BY <1>4
  <2>3. \A k \in Len(list) + 1 .. Len(list) + n : k \in 1 .. (Len(list) + n)
    BY <1>4
  <2> QED BY <1>4, <2>1, <2>2, <2>3
<1>7. From(all, a) = n
  <2> DEFINE lo == Len(list) + 1
             hi == Len(list) + n
  <2>1. lo \in Int /\ hi \in Int /\ hi = lo - 1 + n
    BY <1>4
  <2> HIDE DEF lo, hi
  <2>2. Cardinality(lo .. hi) = IF lo > hi THEN 0 ELSE hi - lo + 1
    BY <2>1, FS_Interval
  <2>3. Cardinality(lo .. hi) = n
    BY <2>1, <2>2
  <2> QED BY <1>6, <2>3 DEF From, lo, hi
<1>8. ASSUME NEW p \in P, p # a PROVE From(all, p) = From(list, p)
  <2>1. \A k \in 1 .. (Len(list) + n) :
          k \in 1 .. Len(list) \/ k \in Len(list) + 1 .. Len(list) + n
    BY <1>4
  <2>2. \A k \in 1 .. Len(list) : k \in 1 .. (Len(list) + n)
    BY <1>4
  <2>3. {k \in DOMAIN all : all[k][1] = p} = {k \in DOMAIN list : list[k][1] = p}
    BY <1>4, <1>8, <2>1, <2>2
  <2> QED BY <2>3 DEF From
<1>9. ASSUME InOrder(list) PROVE InOrder(all)
  <2> SUFFICES ASSUME NEW j \in 1 .. (Len(list) + n), NEW k \in 1 .. (Len(list) + n), j <= k
               PROVE  all[j][1] <= all[k][1]
    BY <1>4 DEF InOrder
  <2>1. CASE k \in 1 .. Len(list)
    <3>1. j \in 1 .. Len(list)
      BY <1>4, <2>1
    <3> QED BY <1>4, <1>9, <2>1, <3>1 DEF InOrder
  <2>2. CASE k \in Len(list) + 1 .. Len(list) + n
    <3>1. all[k][1] = a
      BY <1>4, <2>2
    <3>2. CASE j \in 1 .. Len(list)
      BY <1>4, <1>5, <3>1, <3>2
    <3>3. CASE j \in Len(list) + 1 .. Len(list) + n
      BY <1>4, <1>5, <3>1, <3>3
    <3> QED BY <1>4, <3>2, <3>3
  <2> QED BY <1>4, <2>1, <2>2
<1>10. \A k \in DOMAIN all : all[k][1] < a + 1
  BY <1>4, <1>5
<1> QED BY <1>2, <1>7, <1>8, <1>9, <1>10 DEF all

(* The length in bytes of what a provider has. *)
LEMMA AskedLength ==
  ASSUME GatherTypeOK, at \in Providers
  PROVE  has[at] \in Seq(Kind) /\ Bytes(has[at]) \in Nat
<1>1. has[at] \in Seq(Kind)
  BY HasIs
<1>2. Len(has[at]) \in Nat
  BY <1>1
<1> QED BY <1>1, <1>2 DEF Bytes

(* The lists, when the step leaves them and the provider alone, and when it *)
(* passes over the provider.                                                *)
LEMMA Stays ==
  ASSUME GatherIInv, at \in Providers, step # "threw", step' \notin {"done", "threw"},
         UNCHANGED <<has, moves, at, lists, skipped>>
  PROVE  Asking' /\ LastOne' /\ Behind' /\ GatheredInv' /\ Ordered'
BY DEF GatherIInv, Asking, LastOne, Behind, GatheredInv, Ordered, SoFar, Expected, From, Usable,
   InOrder, lists, Providers

LEMMA Skipped ==
  ASSUME GatherIInv, at \in Providers, step # "threw", Skip, UNCHANGED <<has, moves, lists>>
  PROVE  /\ at' \in 1 .. N + 1 /\ step' = "ask" /\ skipped' \subseteq Providers
         /\ Asking' /\ LastOne' /\ Behind' /\ GatheredInv' /\ Ordered'
<1>1. /\ at' = at + 1 /\ step' = "ask" /\ skipped' = skipped \union {at}
      /\ UNCHANGED <<has, moves, ndV1, ndV2>>
  BY DEF Skip, NextProvider, lists
<1>2. at \in 1 .. N /\ N \in Nat /\ skipped \subseteq 1 .. N
  BY GatherAssumption DEF GatherIInv, GatherTypeOK, Providers
<1>3. Ordered' /\ Asking' /\ LastOne'
  BY <1>1 DEF GatherIInv, Ordered, InOrder, Asking, LastOne
<1>4. Behind'
  <2>1. /\ \A k \in DOMAIN ndV1 : ndV1[k][1] \in Int
        /\ \A k \in DOMAIN ndV2 : ndV2[k][1] \in Int
    BY EntriesAre DEF GatherIInv
  <2> QED BY <1>1, <1>2, <2>1 DEF GatherIInv, Behind
<1>5. ASSUME NEW p \in Providers, p # at PROVE SoFar(p)' = SoFar(p)
  <2>1. p < at + 1 <=> p < at
    BY <1>2, <1>5 DEF Providers
  <2> QED BY <1>1, <1>5, <2>1 DEF SoFar, Expected
<1>6. SoFar(at) = 0
  BY <1>2 DEF SoFar
<1>7. at \in skipped' /\ at < at'
  BY <1>1, <1>2
<1>8. GatheredInv'
  <2> SUFFICES ASSUME moves = 0
               PROVE  /\ \A p \in OfV1 : From(ndV1, p) = SoFar(p)'
                      /\ \A p \in Providers \ OfV1 : From(ndV2, p) = SoFar(p)'
    BY <1>1 DEF GatheredInv, From
  <2>1. /\ \A p \in OfV1 : From(ndV1, p) = SoFar(p)
        /\ \A p \in Providers \ OfV1 : From(ndV2, p) = SoFar(p)
    BY DEF GatherIInv, GatheredInv
  <2>2. \A p \in Providers : p = at => SoFar(p)' = 0 /\ SoFar(p) = 0
    BY <1>6, <1>7 DEF SoFar, Expected
  <2>3. OfV1 \subseteq Providers
    BY GatherAssumption DEF Providers
  <2> QED BY <1>5, <2>1, <2>2, <2>3
<1> QED BY <1>1, <1>2, <1>3, <1>4, <1>8 DEF Providers

LEMMA InitGather == GatherInit => GatherIInv
<1> SUFFICES ASSUME GatherInit PROVE GatherIInv
  OBVIOUS
<1>1. GatherTypeOK
  <2>1. /\ at \in 1 .. N + 1 /\ moves \in 0 .. MaxMoves /\ len \in Nat /\ pAddrList \in Nat
        /\ content.of = 0 /\ has \in [Providers -> BoundedSeq(Kind, MaxAddrs)]
        /\ step = "ask" /\ skipped = {}
    BY GatherAssumption DEF GatherInit, NoContent
  <2>2. ndV1 \in Seq(OfV1 \X {"v4"}) /\ ndV2 \in Seq((Providers \ OfV1) \X {"v4"})
    BY DEF GatherInit
  <2>3. grew \in BOOLEAN
    BY DEF GatherInit
  <2> QED BY <2>1, <2>2, <2>3 DEF GatherTypeOK
<1>2. ASSUME NEW p PROVE From(ndV1, p) = 0 /\ From(ndV2, p) = 0
  <2>1. {k \in DOMAIN ndV1 : ndV1[k][1] = p} = {} /\ {k \in DOMAIN ndV2 : ndV2[k][1] = p} = {}
    BY DEF GatherInit
  <2> QED BY <2>1, FS_EmptySet DEF From
<1>3. \A p \in Providers : SoFar(p) = 0
  BY GatherAssumption DEF GatherInit, SoFar, Providers
<1>4. GatheredInv
  BY <1>2, <1>3, GatherAssumption DEF GatheredInv, Providers
<1> QED BY <1>1, <1>4 DEF GatherInit, GatherIInv, Asking, LastOne, BufferInv, BuildInv, Behind, Ordered,
         InOrder, NoContent

LEMMA ChangePreserves == ASSUME GatherIInv, AddressesChange PROVE GatherIInv'
<1>1. /\ moves < MaxMoves /\ moves' = moves + 1 /\ step # "done"
      /\ UNCHANGED <<at, step, pAddrList, len, content, ndV1, ndV2, grew, skipped>>
  BY DEF AddressesChange, lists
<1>2. moves \in Nat /\ moves' # 0 /\ moves' \in 0 .. MaxMoves
  BY <1>1, GatherAssumption DEF GatherIInv, GatherTypeOK
<1>3. GatherTypeOK'
  <2>1. has' \in [Providers -> BoundedSeq(Kind, MaxAddrs)]
    BY DEF GatherIInv, GatherTypeOK, AddressesChange
  <2> QED BY <1>1, <1>2, <2>1 DEF GatherIInv, GatherTypeOK
<1> QED BY <1>1, <1>2, <1>3 DEF GatherIInv, Asking, LastOne, BufferInv, BuildInv, Behind,
         GatheredInv, Ordered, InOrder

LEMMA AskProviderPreserves == ASSUME GatherIInv, AskProvider PROVE GatherIInv'
<1>1. /\ step = "ask" /\ at \in Providers
      /\ UNCHANGED <<has, moves, pAddrList, lists, grew>>
  BY DEF AskProvider
<1>2. has[at] \in Seq(Kind) /\ Bytes(has[at]) \in Nat
  BY <1>1, AskedLength DEF GatherIInv
<1>3. CASE Succeeds /\ step' = "build" /\ UNCHANGED <<at, skipped>>
  <2>1. /\ pAddrList # 0 /\ Bytes(has[at]) <= len /\ len' = Bytes(has[at])
        /\ content' = [of |-> at, list |-> has[at]]
    BY <1>2, <1>3 DEF Succeeds, Small, GatherIInv, GatherTypeOK
  <2>2. GatherTypeOK'
    BY <1>1, <1>2, <1>3, <2>1 DEF GatherIInv, GatherTypeOK, lists
  <2>3. BufferInv' /\ BuildInv'
    BY <1>1, <1>2, <1>3, <2>1 DEF GatherIInv, GatherTypeOK, BufferInv, BuildInv
  <2> QED BY <1>1, <1>3, <2>2, <2>3, Stays DEF GatherIInv
<1>4. CASE Overflows /\ step' = "allocate" /\ UNCHANGED <<at, skipped>>
  <2>1. len' = Bytes(has[at]) /\ content' = content
    BY <1>4 DEF Overflows
  <2>2. GatherTypeOK'
    BY <1>1, <1>2, <1>4, <2>1 DEF GatherIInv, GatherTypeOK, lists
  <2>3. BufferInv' /\ BuildInv'
    BY <1>4, <2>1 DEF GatherIInv, BufferInv, BuildInv
  <2> QED BY <1>1, <1>4, <2>2, <2>3, Stays DEF GatherIInv
<1>5. CASE Skip /\ UNCHANGED <<len, content>>
  BY <1>1, <1>5, Skipped DEF GatherIInv, GatherTypeOK, BufferInv, BuildInv, lists
<1> QED BY <1>3, <1>4, <1>5 DEF AskProvider

LEMMA AllocatePreserves == ASSUME GatherIInv, Allocate PROVE GatherIInv'
<1>1. /\ step = "allocate" /\ at \in Providers /\ content' = NoContent
      /\ UNCHANGED <<has, moves, len, lists, grew>>
  BY DEF Allocate, GatherIInv, Asking
<1>2. CASE pAddrList' = len /\ step' = "again" /\ UNCHANGED <<at, skipped>>
  <2>1. GatherTypeOK' /\ BufferInv' /\ BuildInv'
    BY <1>1, <1>2 DEF GatherIInv, GatherTypeOK, BufferInv, BuildInv, NoContent, lists
  <2> QED BY <1>1, <1>2, <2>1, Stays DEF GatherIInv
<1>3. CASE pAddrList' = 0 /\ Skip
  BY <1>1, <1>3, Skipped DEF GatherIInv, GatherTypeOK, BufferInv, BuildInv, NoContent, lists
<1> QED BY <1>2, <1>3 DEF Allocate

LEMMA AskProviderAgainPreserves == ASSUME GatherIInv, AskProviderAgain PROVE GatherIInv'
<1>1. /\ step = "again" /\ at \in Providers /\ UNCHANGED <<has, moves, pAddrList, lists>>
  BY DEF AskProviderAgain, GatherIInv, Asking
<1>2. has[at] \in Seq(Kind) /\ Bytes(has[at]) \in Nat
  BY <1>1, AskedLength DEF GatherIInv
<1>3. CASE Succeeds /\ step' = "build" /\ UNCHANGED <<at, skipped, grew>>
  <2>1. /\ pAddrList # 0 /\ Bytes(has[at]) <= len /\ len' = Bytes(has[at])
        /\ content' = [of |-> at, list |-> has[at]]
    BY <1>2, <1>3 DEF Succeeds, Small, GatherIInv, GatherTypeOK
  <2>2. GatherTypeOK'
    BY <1>1, <1>2, <1>3, <2>1 DEF GatherIInv, GatherTypeOK, lists
  <2>3. BufferInv' /\ BuildInv'
    BY <1>1, <1>2, <1>3, <2>1 DEF GatherIInv, GatherTypeOK, BufferInv, BuildInv
  <2> QED BY <1>1, <1>3, <2>2, <2>3, Stays DEF GatherIInv
<1>4. CASE Overflows /\ Skip /\ grew' = TRUE
  <2>1. len' = Bytes(has[at]) /\ content' = content
    BY <1>4 DEF Overflows
  <2>2. GatherTypeOK' /\ BufferInv' /\ BuildInv'
    BY <1>1, <1>2, <1>4, <2>1, Skipped DEF GatherIInv, GatherTypeOK, BufferInv, BuildInv, lists
  <2> QED BY <1>1, <1>4, <2>2, Skipped DEF GatherIInv
<1>5. CASE Skip /\ UNCHANGED <<len, content, grew>>
  BY <1>1, <1>5, Skipped DEF GatherIInv, GatherTypeOK, BufferInv, BuildInv, lists
<1> QED BY <1>3, <1>4, <1>5 DEF AskProviderAgain

LEMMA BuildPreserves == ASSUME GatherIInv, Build PROVE GatherIInv'
<1> DEFINE n == Usable(content.list)
<1>1. /\ step = "build" /\ at \in Providers /\ at' = at + 1 /\ step' = "ask"
      /\ UNCHANGED <<has, moves, pAddrList, len, content, grew, skipped>>
      /\ moves = 0 => content.list = has[at]
  BY DEF Build, NextProvider, GatherIInv, Asking, BuildInv
<1>2. n \in Nat
  BY UsableIs DEF GatherIInv, BufferInv
<1>3. \/ at \in OfV1 /\ ndV1' = ndV1 \o Given(at, n) /\ ndV2' = ndV2
      \/ at \in Providers \ OfV1 /\ ndV2' = ndV2 \o Given(at, n) /\ ndV1' = ndV1
  BY <1>1 DEF Build, Adds, Given
<1>4. \A p \in Providers : p = at /\ moves = 0 => SoFar(p)' = n
  <2>1. at \notin skipped /\ at < at + 1
    BY <1>1, GatherAssumption DEF GatherIInv, Behind, Providers
  <2> QED BY <1>1, <2>1 DEF SoFar, Expected
<1> HIDE DEF n
<1>5. ASSUME NEW p \in Providers, p # at PROVE SoFar(p)' = SoFar(p)
  <2>1. p < at + 1 <=> p < at
    BY <1>1, <1>5, GatherAssumption DEF Providers
  <2> QED BY <1>1, <1>5, <2>1 DEF SoFar, Expected
<1>6. /\ at \in 1 .. N /\ N \in Nat /\ at' \in 1 .. N + 1
      /\ OfV1 \subseteq Providers /\ OfV1 \in SUBSET Int /\ Providers \ OfV1 \in SUBSET Int
  BY <1>1, GatherAssumption DEF Providers
<1>7. BufferInv' /\ BuildInv' /\ Asking' /\ LastOne'
  BY <1>1 DEF GatherIInv, BufferInv, BuildInv, Asking, LastOne
<1>8. /\ ndV1 \in Seq(OfV1 \X {"v4"}) /\ ndV2 \in Seq((Providers \ OfV1) \X {"v4"})
      /\ \A k \in DOMAIN ndV1 : ndV1[k][1] \in Int /\ ndV1[k][1] < at
      /\ \A k \in DOMAIN ndV2 : ndV2[k][1] \in Int /\ ndV2[k][1] < at
      /\ \A p \in skipped : p \in Int /\ p < at
      /\ InOrder(ndV1) /\ InOrder(ndV2)
  BY <1>1, EntriesAre, GatherAssumption DEF GatherIInv, GatherTypeOK, Behind, Ordered, Providers
<1>9. moves = 0 => /\ \A p \in OfV1 : From(ndV1, p) = SoFar(p)
                   /\ \A p \in Providers \ OfV1 : From(ndV2, p) = SoFar(p)
  BY <1>1 DEF GatherIInv, GatheredInv
<1>10. CASE at \in OfV1 /\ ndV1' = ndV1 \o Given(at, n) /\ ndV2' = ndV2
  <2>1. /\ ndV1' \in Seq(OfV1 \X {"v4"})
        /\ From(ndV1', at) = n
        /\ \A p \in OfV1 : p # at => From(ndV1', p) = From(ndV1, p)
        /\ InOrder(ndV1') /\ \A k \in DOMAIN ndV1' : ndV1'[k][1] < at + 1
    <3>1. \A k \in DOMAIN ndV1 : ndV1[k][1] < at
      BY <1>8
    <3>2. /\ ndV1 \o Given(at, n) \in Seq(OfV1 \X {"v4"})
          /\ From(ndV1 \o Given(at, n), at) = n
          /\ \A p \in OfV1 : p # at => From(ndV1 \o Given(at, n), p) = From(ndV1, p)
          /\ InOrder(ndV1) => InOrder(ndV1 \o Given(at, n))
          /\ \A k \in DOMAIN (ndV1 \o Given(at, n)) : (ndV1 \o Given(at, n))[k][1] < at + 1
      BY <1>2, <1>6, <1>8, <1>10, <3>1, Appended, Zenon
    <3> QED BY <1>8, <1>10, <3>2
  <2>2. GatherTypeOK'
    BY <1>1, <1>6, <1>10, <2>1 DEF GatherIInv, GatherTypeOK
  <2>3. Behind'
    BY <1>1, <1>6, <1>8, <1>10, <2>1 DEF Behind
  <2>4. Ordered'
    BY <1>8, <1>10, <2>1 DEF Ordered, InOrder
  <2>5. GatheredInv'
    <3> SUFFICES ASSUME moves = 0
                 PROVE  /\ \A p \in OfV1 : From(ndV1', p) = SoFar(p)'
                        /\ \A p \in Providers \ OfV1 : From(ndV2', p) = SoFar(p)'
      BY <1>1 DEF GatheredInv, From
    <3>1. ASSUME NEW p \in OfV1 PROVE From(ndV1', p) = SoFar(p)'
      <4>1. CASE p = at
        BY <1>4, <1>6, <2>1, <4>1
      <4>2. CASE p # at
        BY <1>5, <1>6, <1>9, <2>1, <4>2
      <4> QED BY <4>1, <4>2
    <3>2. ASSUME NEW p \in Providers \ OfV1 PROVE From(ndV2', p) = SoFar(p)'
      <4>1. p \in Providers /\ p # at
        BY <1>6, <1>10
      <4> QED BY <1>5, <1>9, <1>10, <4>1
    <3> QED BY <3>1, <3>2
  <2> QED BY <1>7, <2>2, <2>3, <2>4, <2>5 DEF GatherIInv
<1>11. CASE at \in Providers \ OfV1 /\ ndV2' = ndV2 \o Given(at, n) /\ ndV1' = ndV1
  <2>1. /\ ndV2' \in Seq((Providers \ OfV1) \X {"v4"})
        /\ From(ndV2', at) = n
        /\ \A p \in Providers \ OfV1 : p # at => From(ndV2', p) = From(ndV2, p)
        /\ InOrder(ndV2') /\ \A k \in DOMAIN ndV2' : ndV2'[k][1] < at + 1
    <3>1. \A k \in DOMAIN ndV2 : ndV2[k][1] < at
      BY <1>8
    <3>2. /\ ndV2 \o Given(at, n) \in Seq((Providers \ OfV1) \X {"v4"})
          /\ From(ndV2 \o Given(at, n), at) = n
          /\ \A p \in (Providers \ OfV1) : p # at => From(ndV2 \o Given(at, n), p) = From(ndV2, p)
          /\ InOrder(ndV2) => InOrder(ndV2 \o Given(at, n))
          /\ \A k \in DOMAIN (ndV2 \o Given(at, n)) : (ndV2 \o Given(at, n))[k][1] < at + 1
      BY <1>2, <1>6, <1>8, <1>11, <3>1, Appended, Zenon
    <3> QED BY <1>8, <1>11, <3>2
  <2>2. GatherTypeOK'
    BY <1>1, <1>6, <1>11, <2>1 DEF GatherIInv, GatherTypeOK
  <2>3. Behind'
    BY <1>1, <1>6, <1>8, <1>11, <2>1 DEF Behind
  <2>4. Ordered'
    BY <1>8, <1>11, <2>1 DEF Ordered, InOrder
  <2>5. GatheredInv'
    <3> SUFFICES ASSUME moves = 0
                 PROVE  /\ \A p \in OfV1 : From(ndV1', p) = SoFar(p)'
                        /\ \A p \in Providers \ OfV1 : From(ndV2', p) = SoFar(p)'
      BY <1>1 DEF GatheredInv, From
    <3>1. ASSUME NEW p \in Providers \ OfV1 PROVE From(ndV2', p) = SoFar(p)'
      <4>1. CASE p = at
        BY <1>4, <1>6, <2>1, <4>1
      <4>2. CASE p # at
        BY <1>5, <1>6, <1>9, <2>1, <4>2
      <4> QED BY <4>1, <4>2
    <3>2. ASSUME NEW p \in OfV1 PROVE From(ndV1', p) = SoFar(p)'
      <4>1. p \in Providers /\ p # at
        BY <1>6, <1>11
      <4> QED BY <1>5, <1>9, <1>11, <4>1
    <3> QED BY <3>1, <3>2
  <2> QED BY <1>7, <2>2, <2>3, <2>4, <2>5 DEF GatherIInv
<1> QED BY <1>3, <1>10, <1>11

LEMMA BuildThrowsPreserves == ASSUME GatherIInv, BuildThrows PROVE GatherIInv'
<1>1. /\ step = "build" /\ step' = "threw" /\ at \in Providers
      /\ UNCHANGED <<has, moves, at, pAddrList, len, content, grew, skipped>>
  BY DEF BuildThrows, GatherIInv, Asking
<1>2. PICK n \in 0 .. Usable(content.list) - 1 : Adds(n)
  BY DEF BuildThrows
<1>3. n \in Nat
  BY <1>2, UsableIs DEF GatherIInv, BufferInv
<1>4. \/ at \in OfV1 /\ ndV1' = ndV1 \o Given(at, n) /\ ndV2' = ndV2
      \/ at \in Providers \ OfV1 /\ ndV2' = ndV2 \o Given(at, n) /\ ndV1' = ndV1
  BY <1>1, <1>2 DEF Adds, Given
<1>5. /\ OfV1 \in SUBSET Int /\ Providers \ OfV1 \in SUBSET Int
      /\ ndV1 \in Seq(OfV1 \X {"v4"}) /\ ndV2 \in Seq((Providers \ OfV1) \X {"v4"})
      /\ \A k \in DOMAIN ndV1 : ndV1[k][1] < at
      /\ \A k \in DOMAIN ndV2 : ndV2[k][1] < at
      /\ InOrder(ndV1) /\ InOrder(ndV2)
  BY <1>1, GatherAssumption DEF GatherIInv, GatherTypeOK, Behind, Ordered, Providers
<1>6. /\ ndV1' \in Seq(OfV1 \X {"v4"}) /\ ndV2' \in Seq((Providers \ OfV1) \X {"v4"})
      /\ InOrder(ndV1') /\ InOrder(ndV2')
  <2>1. CASE at \in OfV1 /\ ndV1' = ndV1 \o Given(at, n) /\ ndV2' = ndV2
    <3>1. /\ ndV1 \o Given(at, n) \in Seq(OfV1 \X {"v4"})
          /\ InOrder(ndV1) => InOrder(ndV1 \o Given(at, n))
      BY <1>3, <1>5, <2>1, Appended, Zenon
    <3> QED BY <1>5, <2>1, <3>1
  <2>2. CASE at \in Providers \ OfV1 /\ ndV2' = ndV2 \o Given(at, n) /\ ndV1' = ndV1
    <3>1. /\ ndV2 \o Given(at, n) \in Seq((Providers \ OfV1) \X {"v4"})
          /\ InOrder(ndV2) => InOrder(ndV2 \o Given(at, n))
      BY <1>3, <1>5, <2>2, Appended, Zenon
    <3> QED BY <1>5, <2>2, <3>1
  <2> QED BY <1>4, <2>1, <2>2
<1>7. GatherTypeOK'
  BY <1>1, <1>6 DEF GatherIInv, GatherTypeOK
<1>8. Ordered'
  BY <1>6 DEF Ordered, InOrder
<1> QED BY <1>1, <1>7, <1>8 DEF GatherIInv, Asking, LastOne, BufferInv, BuildInv, Behind,
         GatheredInv

LEMMA DonePreserves == ASSUME GatherIInv, Done PROVE GatherIInv'
<1>1. /\ step = "ask" /\ step' = "done" /\ at \notin Providers
      /\ UNCHANGED <<has, moves, at, pAddrList, len, content, ndV1, ndV2, grew, skipped>>
  BY DEF Done, lists
<1>2. at = N + 1
  BY <1>1, GatherAssumption DEF GatherIInv, GatherTypeOK, Providers
<1>3. GatherTypeOK'
  BY <1>1 DEF GatherIInv, GatherTypeOK
<1>4. BufferInv' /\ BuildInv' /\ Asking' /\ LastOne' /\ Behind' /\ Ordered'
  BY <1>1, <1>2 DEF GatherIInv, BufferInv, BuildInv, Asking, LastOne, Behind, Ordered, InOrder
<1>5. GatheredInv'
  BY <1>1 DEF GatherIInv, GatheredInv, From, SoFar, Expected
<1> QED BY <1>3, <1>4, <1>5 DEF GatherIInv

LEMMA NextGather == GatherIInv /\ [GatherNext]_gathering => GatherIInv'
<1> SUFFICES ASSUME GatherIInv, [GatherNext]_gathering PROVE GatherIInv'
  OBVIOUS
<1>1. CASE UNCHANGED gathering
  BY <1>1 DEF gathering, lists, GatherIInv, GatherTypeOK, Asking, LastOne, BufferInv, BuildInv, Behind,
     GatheredInv, Ordered, InOrder, From, SoFar, Expected
<1>2. CASE GatherNext
  BY <1>2, ChangePreserves, AskProviderPreserves, AllocatePreserves, AskProviderAgainPreserves,
     BuildPreserves, BuildThrowsPreserves, DonePreserves DEF GatherNext
<1> QED BY <1>1, <1>2

LEMMA GatherInductive == GatherSpec => []GatherIInv
  BY InitGather, NextGather, PTL DEF GatherSpec

-----------------------------------------------------------------------------
(* The types, the length a provider is told, and that BuildAddressList      *)
(* reads the list of the provider it makes addresses for.                   *)
THEOREM GatherInvariance == GatherSpec => []GatherInv
<1>1. GatherIInv => GatherInv
  BY DEF GatherIInv, GatherInv, BufferInv, BuildInv, LengthIsOfBuffer, BuildsFromOwnList
<1> QED BY GatherInductive, <1>1, PTL

(* When nothing changed meanwhile, the lists hold the usable addresses of   *)
(* every provider that could be asked, in order.                            *)
THEOREM GatheringIsComplete == GatherSpec => []ListsAreComplete
<1>1. GatherIInv => ListsAreComplete
  <2> SUFFICES ASSUME GatherIInv, step = "done", moves = 0
               PROVE  /\ \A p \in OfV1 : From(ndV1, p) = Expected(p)
                      /\ \A p \in Providers \ OfV1 : From(ndV2, p) = Expected(p)
                      /\ InOrder(ndV1) /\ InOrder(ndV2)
    BY DEF ListsAreComplete
  <2>1. \A p \in Providers : p < at
    BY GatherAssumption DEF GatherIInv, LastOne, Providers
  <2>2. \A p \in Providers : SoFar(p) = Expected(p)
    BY <2>1 DEF SoFar
  <2>3. OfV1 \subseteq Providers
    BY GatherAssumption DEF Providers
  <2> QED BY <2>2, <2>3 DEF GatherIInv, GatheredInv, Ordered
<1> QED BY GatherInductive, <1>1, PTL
==============================================================================
