------------------------- MODULE ClientTeardownProofs -------------------------
(***************************************************************************)
(* What DestroyConnection of the client does to its members, for owners    *)
(* that call its methods any number of times, in any order.  The argument  *)
(* is that of the server; here Deregister is the call that can be refused  *)
(* after releases, and nothing gives the framework back.                   *)
(***************************************************************************)
EXTENDS ClientTeardown, SequenceTheorems, TLAPS

(* The members that are behind each step of DestroyConnection.              *)
Passed ==
  [idle |-> {}, Disconnect |-> {}, Disconnecting |-> {}, pQp |-> {},
   pConnector |-> {"pQp"}, pCq |-> {"pQp", "pConnector"},
   Deregister |-> {"pQp", "pConnector", "pCq"},
   Deregistering |-> {"pQp", "pConnector", "pCq"},
   pAdapter |-> {"pQp", "pConnector", "pCq", "registration"},
   pResult |-> {"pQp", "pConnector", "pCq", "registration", "pAdapter"},
   Last |-> Releases \union {"registration"}]

Inside   == pc \notin {"idle", "crashed"}
Confused == {"stopped", "reused"} \subseteq past   \* a second setup, one of them stopped
Kept     == {"pMr", "pRq", "Sgl", "SglBatchRead", "hAdapterFile", "ov", "v4_Local"}

(* Which members are set, and what a setup has made of them.                *)
SetInv ==
  /\ \A m \in Members \ {"registration"} : ptr[m] = "set" <=> object[m] # "none"
  /\ \A m \in Members : ptr[m] # "null"
  /\ "set up" \notin past => \A m \in Members : object[m] = "none"
  /\ "set up" \in past /\ "stopped" \notin past => \A m \in Members : object[m] # "none"
  /\ object["registration"] # "none" => object["pMr"] # "none"

(* DestroyConnection does something only after a setup that came as far as  *)
(* the adapter.                                                             *)
CallInv ==
  /\ Inside => connected
  /\ connected => "set up" \in past /\ object["pAdapter"] # "none"

(* It leaves no live object behind it.                                      *)
PassedInv == Inside => \A m \in Passed[pc] : object[m] # "live"

(* Before it comes to an object, the object is there; but the three before  *)
(* Deregister need not be, when an earlier call was refused there.          *)
Retried == IF "Deregister" \in past THEN {"pQp", "pConnector", "pCq"} ELSE {}
AheadInv ==
  connected /\ pc # "crashed" /\ ~Confused =>
    \A m \in Members : object[m] = "released" => m \in Passed[pc] \union Retried

(* The references to the framework and to Winsock are never given back.     *)
HeldInv ==
  /\ \A c \in Counted : held[c] <= calls
  /\ "set up" \notin past => \A c \in Counted : held[c] = 0
  /\ "set up" \in past /\ {"stopped", "reused"} \intersect past = {} =>
       \A c \in Counted : held[c] = 1

(* What DestroyConnection never releases, and what it leaves of the rest.   *)
LeakInv ==
  /\ \A m \in Kept : object[m] # "released"
  /\ ~connected /\ "set up" \in past /\ "stopped" \notin past =>
       \A m \in Members \ Kept : object[m] # "live"

(* As long as the buffer is registered, DestroyConnection has work to do;   *)
(* so a registration is only lost to a setup that finds the client          *)
(* connected.                                                               *)
BufferInv ==
  /\ object["registration"] = "live" => connected
  /\ "registration" \in abandoned => "still connected" \in past

IInv == /\ TypeOK /\ SetInv /\ CallInv /\ PassedInv /\ AheadInv /\ HeldInv /\ LeakInv
        /\ BufferInv /\ DependantsFirst /\ RegionLast /\ MisusesAreKnown

-----------------------------------------------------------------------------
(* The members, and the steps of DestroyConnection.                         *)
Called == Releases \union {"pMr"}       \* members it calls something through
Steps  == DOMAIN After \union {"Disconnecting", "Deregistering", "Last"}

LEMMA MakesAre ==
  /\ Len(Makes) = 15 /\ DOMAIN Makes = 1 .. 15
  /\ Makes[1] = "wsa" /\ Makes[2] = "ov" /\ Makes[3] = "framework"
  /\ Makes[4] = "v4_Local" /\ Makes[5] = "pAdapter" /\ Makes[6] = "hAdapterFile"
  /\ Makes[7] = "Sgl" /\ Makes[8] = "SglBatchRead" /\ Makes[9] = "pResult"
  /\ Makes[10] = "pMr" /\ Makes[11] = "registration" /\ Makes[12] = "pCq"
  /\ Makes[13] = "pRq" /\ Makes[14] = "pConnector" /\ Makes[15] = "pQp"
<1> DEFINE S == {ClientMakes[k] : k \in 1 .. 14}
           a == SubSeq(ClientMakes, 1, 10)
           b == <<"registration">>
           c == SubSeq(ClientMakes, 11, 14)
           T == S \union {"registration"}
<1>1. /\ Len(ClientMakes) = 14
      /\ ClientMakes[1] = "wsa" /\ ClientMakes[2] = "ov" /\ ClientMakes[3] = "framework"
      /\ ClientMakes[4] = "v4_Local" /\ ClientMakes[5] = "pAdapter"
      /\ ClientMakes[6] = "hAdapterFile" /\ ClientMakes[7] = "Sgl"
      /\ ClientMakes[8] = "SglBatchRead" /\ ClientMakes[9] = "pResult"
      /\ ClientMakes[10] = "pMr" /\ ClientMakes[11] = "pCq"
      /\ ClientMakes[12] = "pRq" /\ ClientMakes[13] = "pConnector"
      /\ ClientMakes[14] = "pQp"
  BY DEF ClientMakes
<1>2. \A k \in 1 .. 14 : ClientMakes[k] \in T
  OBVIOUS
<1>3. /\ a \in Seq(T) /\ Len(a) = 10
      /\ \A k \in 1 .. 10 : a[k] = ClientMakes[k]
  <2>1. \A k \in 1 .. 10 : ClientMakes[k] \in T
    BY <1>2
  <2> HIDE DEF T
  <2>2. /\ a \in Seq(T) /\ Len(a) = IF 1 <= 10 THEN 10 - 1 + 1 ELSE 0
        /\ \A k \in 1 .. 10 - 1 + 1 : a[k] = ClientMakes[1 + k - 1]
    BY <2>1, SubSeqProperties
  <2> HIDE DEF a
  <2> QED BY <2>2
<1>4. /\ c \in Seq(T) /\ Len(c) = 4
      /\ \A k \in 1 .. 4 : c[k] = ClientMakes[10 + k]
  <2>1. \A k \in 11 .. 14 : ClientMakes[k] \in T
    BY <1>2
  <2> HIDE DEF T
  <2>2. /\ c \in Seq(T) /\ Len(c) = IF 11 <= 14 THEN 14 - 11 + 1 ELSE 0
        /\ \A k \in 1 .. 14 - 11 + 1 : c[k] = ClientMakes[11 + k - 1]
    BY <2>1, SubSeqProperties
  <2> HIDE DEF c
  <2> QED BY <2>2
<1>5. b \in Seq(T) /\ Len(b) = 1 /\ b[1] = "registration"
  OBVIOUS
<1>6. Makes = (a \o b) \o c
  BY <1>1, ClientAssumption DEF ClientRegisters
<1> HIDE DEF a, b, c, T
<1>7. /\ a \o b \in Seq(T) /\ Len(a \o b) = 11
      /\ \A k \in 1 .. 11 : (a \o b)[k] = IF k <= 10 THEN a[k] ELSE b[k - 10]
  <2>1. /\ a \o b \in Seq(T) /\ Len(a \o b) = Len(a) + Len(b)
        /\ \A k \in 1 .. Len(a) + Len(b) : (a \o b)[k] = IF k <= Len(a) THEN a[k] ELSE b[k - Len(a)]
    BY <1>3, <1>5, ConcatProperties, Zenon
  <2> QED BY <2>1, <1>3, <1>5
<1>8. /\ Makes \in Seq(T) /\ Len(Makes) = 15
      /\ \A k \in 1 .. 15 : Makes[k] = IF k <= 11 THEN (a \o b)[k] ELSE c[k - 11]
  <2> DEFINE d == a \o b
  <2> HIDE DEF d
  <2>0. d \in Seq(T) /\ Len(d) = 11
    BY <1>7 DEF d
  <2>1. /\ d \o c \in Seq(T) /\ Len(d \o c) = Len(d) + Len(c)
        /\ \A k \in 1 .. Len(d) + Len(c) : (d \o c)[k] = IF k <= Len(d) THEN d[k] ELSE c[k - Len(d)]
    BY <2>0, <1>4, ConcatProperties, Zenon
  <2>2. Makes = d \o c
    BY <1>6 DEF d
  <2>3. Len(d) + Len(c) = 15
    BY <2>0, <1>4
  <2>4. /\ Makes \in Seq(T) /\ Len(Makes) = 15
        /\ \A k \in 1 .. 15 : Makes[k] = IF k <= 11 THEN d[k] ELSE c[k - 11]
    BY <2>0, <2>1, <2>2, <2>3, Zenon
  <2> QED BY <2>4, Zenon DEF d
<1>9. \A k \in 1 .. 10 : Makes[k] = ClientMakes[k]
  <2> SUFFICES ASSUME NEW k \in 1 .. 10 PROVE Makes[k] = ClientMakes[k]
    OBVIOUS
  <2>1. k <= 10 /\ k <= 11 /\ k \in 1 .. 11 /\ k \in 1 .. 15
    OBVIOUS
  <2> QED BY <2>1, <1>3, <1>7, <1>8, Zenon
<1>10. Makes[11] = "registration"
  BY <1>5, <1>7, <1>8
<1>11. \A k \in 12 .. 15 : Makes[k] = ClientMakes[k - 1]
  <2> SUFFICES ASSUME NEW k \in 12 .. 15 PROVE Makes[k] = ClientMakes[k - 1]
    OBVIOUS
  <2>1. ~(k <= 11) /\ k - 11 \in 1 .. 4 /\ k \in 1 .. 15 /\ 10 + (k - 11) = k - 1
    OBVIOUS
  <2>2. Makes[k] = c[k - 11] /\ c[k - 11] = ClientMakes[10 + (k - 11)]
    BY <2>1, <1>4, <1>8, Zenon
  <2> QED BY <2>1, <2>2, Zenon
<1> QED BY <1>1, <1>8, <1>9, <1>10, <1>11

LEMMA MembersAre ==
  /\ Counted \subseteq Elements(Makes)
  /\ Members = {"ov", "v4_Local", "pAdapter", "hAdapterFile", "Sgl", "SglBatchRead",
                "pResult", "pMr", "registration", "pCq", "pRq", "pConnector", "pQp"}
<1>1. Elements(Makes) = {Makes[n] : n \in 1 .. 15}
  BY MakesAre DEF Elements
<1>2. Elements(Makes) =
        {"wsa", "ov", "framework", "v4_Local", "pAdapter", "hAdapterFile", "Sgl", "SglBatchRead",
         "pResult", "pMr", "registration", "pCq", "pRq", "pConnector", "pQp"}
  BY <1>1, MakesAre
<1> QED BY <1>2 DEF Members, Counted

(* What an Initialize that gets so far has made.                            *)
LEMMA Prefix ==
  ASSUME NEW n \in 0 .. Len(Makes)
  PROVE  /\ Elements(SubSeq(Makes, 1, n)) \subseteq Elements(Makes)
         /\ n = Len(Makes) => Elements(SubSeq(Makes, 1, n)) = Elements(Makes)
         /\ "registration" \in Elements(SubSeq(Makes, 1, n)) =>
              {"pAdapter", "hAdapterFile", "pMr"} \subseteq Elements(SubSeq(Makes, 1, n))
<1>1. Elements(SubSeq(Makes, 1, n)) = {Makes[k] : k \in 1 .. n}
  <2> DEFINE s == SubSeq(Makes, 1, n)
  <2>1. n \in Nat /\ \A k \in 1 .. n : Makes[k] \in Elements(Makes)
    BY MakesAre DEF Elements
  <2>2. /\ s \in Seq(Elements(Makes)) /\ Len(s) = IF 1 <= n THEN n - 1 + 1 ELSE 0
        /\ \A k \in 1 .. n - 1 + 1 : s[k] = Makes[1 + k - 1]
    BY <2>1, SubSeqProperties
  <2> HIDE DEF s
  <2>3. DOMAIN s = 1 .. n /\ \A k \in 1 .. n : s[k] = Makes[k]
    BY <2>1, <2>2
  <2>4. Elements(s) = {Makes[k] : k \in 1 .. n}
    BY <2>3 DEF Elements
  <2> QED BY <2>4 DEF s
<1>2. Elements(Makes) = {Makes[k] : k \in 1 .. 15}
  BY MakesAre DEF Elements
<1>3. "registration" \in {Makes[k] : k \in 1 .. n} => n >= 11
  BY MakesAre
<1> QED BY <1>1, <1>2, <1>3, MakesAre

LEMMA StepsAre ==
  /\ Steps = {"Disconnect", "Disconnecting", "pQp", "pConnector", "pCq", "Deregister",
              "Deregistering", "pAdapter", "pResult", "Last"}
  /\ \A m \in Releases :
       /\ m \in Members \ Kept /\ m \in Steps /\ m \notin {"idle", "crashed"}
       /\ m # "registration"
       /\ After[m] \in Steps
       /\ m \notin Passed[m] /\ Passed[After[m]] = Passed[m] \union {m}
  /\ After["Disconnect"] = "pQp" /\ After["Deregister"] = "pAdapter"
  /\ Called \subseteq Members \ {"registration"}
BY MembersAre DEF Steps, After, Releases, Passed, Kept, Called

LEMMA Inner ==
  ASSUME TypeOK
  PROVE  Inside <=> pc \in Steps
BY StepsAre DEF TypeOK, Inside, Steps, After

-----------------------------------------------------------------------------
LEMMA Start == Init => IInv
<1> SUFFICES ASSUME Init PROVE IInv
  OBVIOUS
<1> USE DEF Init
<1>1. TypeOK
  <2>1. ptr \in [Members -> {"garbage", "null", "set"}]
    OBVIOUS
  <2>2. held \in [Counted -> 0 .. MaxCalls] /\ calls \in 0 .. MaxCalls
    BY CallsAssumption
  <2> QED BY <2>1, <2>2 DEF TypeOK, OwnershipTypeOK
<1>2. SetInv
  BY MembersAre, ClientAssumption DEF SetInv
<1>3. CallInv /\ PassedInv /\ AheadInv
  BY DEF CallInv, PassedInv, AheadInv, Inside
<1>4. HeldInv
  BY DEF HeldInv
<1>5. LeakInv
  BY MembersAre DEF LeakInv, Kept
<1>6. BufferInv /\ DependantsFirst /\ RegionLast /\ MisusesAreKnown
  BY MembersAre DEF BufferInv, DependantsFirst, RegionLast, MisusesAreKnown
<1> QED BY <1>1, <1>2, <1>3, <1>4, <1>5, <1>6 DEF IInv

-----------------------------------------------------------------------------
(* DestroyConnection moves on past a call that changes nothing.             *)
LEMMA MovesOn ==
  ASSUME IInv, Inside, NEW next \in Steps,
         pc' = next, Passed[pc] \subseteq Passed[next],
         \A m \in Passed[next] : object[m] # "live",
         UNCHANGED <<owned, history, reply, connected, calls>>
  PROVE  IInv'
<1> USE DEF owned, history
<1>1. next \notin {"idle", "crashed"}
  BY StepsAre
<1>2. TypeOK'
  BY StepsAre DEF IInv, TypeOK, OwnershipTypeOK, Steps
<1>3. SetInv' /\ HeldInv' /\ LeakInv' /\ BufferInv'
  BY DEF IInv, SetInv, HeldInv, LeakInv, BufferInv
<1>4. DependantsFirst' /\ RegionLast' /\ MisusesAreKnown'
  BY DEF IInv, DependantsFirst, RegionLast, MisusesAreKnown
<1>5. CallInv' /\ PassedInv'
  BY DEF IInv, CallInv, PassedInv, Inside
<1>6. AheadInv'
  BY <1>1 DEF IInv, AheadInv, Inside, Confused, Retried
<1> QED BY <1>2, <1>3, <1>4, <1>5, <1>6 DEF IInv

(* A use that is neither right nor left out is one of the known ones.       *)
LEMMA WrongUses ==
  ASSUME IInv, Inside, NEW m \in Called, m \notin Passed[pc],
         ~Right(m), ptr[m] # "null"
  PROVE  IF ptr[m] = "set"
         THEN \/ "Deregister" \in past /\ m \in {"pQp", "pConnector", "pCq"}
              \/ {"stopped", "reused"} \subseteq past
         ELSE "stopped" \in past /\ m # "pAdapter"
<1>1. /\ m \in Members \ {"registration"} /\ connected
      /\ "set up" \in past /\ object["pAdapter"] # "none"
  BY StepsAre DEF IInv, CallInv
<1>2. CASE ptr[m] = "set"
  <2>1. object[m] = "released"
    BY <1>1, <1>2 DEF IInv, TypeOK, OwnershipTypeOK, SetInv, Right
  <2>2. ~Confused => m \in Retried
    BY <1>1, <2>1 DEF IInv, AheadInv, Inside
  <2> QED BY <1>2, <2>2 DEF Confused, Retried
<1>3. CASE ptr[m] # "set"
  <2>1. object[m] = "none"
    BY <1>1, <1>3 DEF IInv, SetInv
  <2> QED BY <1>1, <1>3, <2>1 DEF IInv, SetInv
<1> QED BY <1>2, <1>3

LEMMA MisusePreserves ==
  ASSUME IInv, Inside, NEW m \in Called, m \notin Passed[pc],
         NEW next \in Steps, Passed[pc] \subseteq Passed[next],
         ~Right(m) => \A k \in Passed[next] : object[k] # "live",
         Misuse(m, next), UNCHANGED <<connected, calls>>
  PROVE  IInv'
<1> DEFINE tag == IF ptr[m] = "set" THEN "again" ELSE "unset"
<1>1. /\ ~Right(m) /\ ptr[m] # "null" /\ misused' = misused \union {<<tag, m>>}
      /\ pc' \in {next, "crashed"}
      /\ UNCHANGED <<ptr, object, held, abandoned, past, reply, calls>>
  BY DEF Misuse, owned
<1>0. connected /\ connected' = connected /\ connected'
  <2>1. connected
    BY DEF IInv, CallInv
  <2>2. connected' = connected
    BY Zenon
  <2> QED BY <2>1, <2>2
<1>2. next \notin {"idle", "crashed"} /\ m \in Members
  BY StepsAre
<1>3. TypeOK'
  <2>1. misused' \subseteq {"unset", "again"} \X Members
    BY <1>1, <1>2 DEF IInv, TypeOK, OwnershipTypeOK
  <2>2. pc' \in DOMAIN After \union {"idle", "Disconnecting", "Deregistering", "Last", "crashed"}
    BY <1>1 DEF Steps
  <2> QED BY <1>0, <1>1, <2>1, <2>2 DEF IInv, TypeOK, OwnershipTypeOK
<1>4. SetInv' /\ HeldInv' /\ LeakInv' /\ BufferInv' /\ DependantsFirst' /\ RegionLast'
  <2>1. SetInv' /\ DependantsFirst' /\ RegionLast'
    BY <1>1 DEF IInv, SetInv, DependantsFirst, RegionLast
  <2>2. HeldInv'
    BY <1>1 DEF IInv, HeldInv
  <2>3. LeakInv' /\ BufferInv'
    BY <1>0, <1>1 DEF IInv, LeakInv, BufferInv
  <2> QED BY <2>1, <2>2, <2>3
<1>5. CallInv' /\ PassedInv'
  <2>1. connected' /\ "set up" \in past' /\ object'["pAdapter"] # "none"
    BY <1>0, <1>1 DEF IInv, CallInv
  <2> QED BY <1>1, <1>2, <2>1 DEF IInv, CallInv, PassedInv, Inside
<1>6. AheadInv'
  BY <1>0, <1>1, <1>2 DEF IInv, AheadInv, Inside, Confused, Retried
<1>7. MisusesAreKnown'
  <2>1. \A use \in misused' : use \in misused \/ (use[1] = tag /\ use[2] = m)
    BY <1>1
  <2>2. IF tag = "unset"
        THEN "stopped" \in past /\ m # "pAdapter"
        ELSE \/ "Deregister" \in past /\ m \in {"pQp", "pConnector", "pCq"}
             \/ {"stopped", "reused"} \subseteq past
    BY <1>1, WrongUses
  <2> HIDE DEF tag
  <2> QED BY <1>1, <2>1, <2>2 DEF IInv, MisusesAreKnown
<1> QED BY <1>3, <1>4, <1>5, <1>6, <1>7 DEF IInv

LEMMA ReleasePreserves ==
  ASSUME IInv, NEW m \in Releases, Release(m, After[m])
  PROVE  IInv'
<1>0. pc = m /\ UNCHANGED <<connected, calls>>
  BY DEF Release
<1>1. /\ m \in Members \ Kept /\ m \in Steps /\ Inside /\ After[m] \in Steps
      /\ After[m] \notin {"idle", "crashed"} /\ m \in Called /\ m # "registration"
      /\ m \notin Passed[pc] /\ Passed[After[m]] = Passed[pc] \union {m}
  BY <1>0, StepsAre DEF Inside, Called
<1>2. \A k \in Passed[pc] : object[k] # "live"
  BY <1>1 DEF IInv, PassedInv
<1>3. CASE Right(m) /\ pc' = After[m] /\ object' = [object EXCEPT ![m] = "released"]
           /\ UNCHANGED <<ptr, held, history, reply>>
  <2> USE <1>0, <1>1, <1>3 DEF history
  <2>1. /\ \A k \in Members : object'[k] = IF k = m THEN "released" ELSE object[k]
        /\ object' \in [Members -> {"none", "live", "released"}]
        /\ object[m] = "live"
    BY DEF IInv, TypeOK, OwnershipTypeOK, Right
  <2>2. TypeOK'
    BY <2>1 DEF IInv, TypeOK, OwnershipTypeOK, Steps
  <2>3. SetInv'
    <3>1. object["registration"] # "none" => object["pMr"] # "none"
      BY DEF IInv, SetInv
    <3>2. object'["registration"] # "none" => object'["pMr"] # "none"
      BY <2>1, <3>1, MembersAre
    <3> QED BY <2>1, <3>2 DEF IInv, SetInv
  <2>4. CallInv'
    BY <2>1, MembersAre DEF IInv, CallInv, Inside
  <2>5. Passed[After[m]] \subseteq Members
    BY MembersAre, StepsAre DEF Passed, Releases, After
  <2>6. PassedInv'
    BY <1>2, <2>1, <2>5 DEF PassedInv
  <2>7. AheadInv'
    BY <2>1 DEF IInv, AheadInv, Inside, Confused, Retried
  <2>8. HeldInv'
    BY DEF IInv, HeldInv
  <2>9. LeakInv'
    BY <2>1, MembersAre DEF IInv, LeakInv, Kept
  <2>10. BufferInv'
    BY <2>1, MembersAre DEF IInv, BufferInv
  <2>11. DependantsFirst'
    <3>1. CASE m = "pAdapter"
      <4>1. {"pQp", "pCq", "pConnector"} \subseteq Passed[pc]
        BY <3>1 DEF Passed
      <4> QED BY <3>1, <4>1, <1>2, <2>1, MembersAre DEF DependantsFirst
    <3>2. CASE m # "pAdapter"
      BY <3>2, <2>1, MembersAre DEF IInv, DependantsFirst
    <3> QED BY <3>1, <3>2
  <2>12. RegionLast' /\ MisusesAreKnown'
    BY <2>1, MembersAre DEF IInv, RegionLast, MisusesAreKnown
  <2> QED BY <2>2, <2>3, <2>4, <2>6, <2>7, <2>8, <2>9, <2>10, <2>11, <2>12 DEF IInv
<1>4. CASE Skipped(m) /\ GoesOn(After[m])
  <2>1. object[m] # "live"
    BY <1>1, <1>4 DEF IInv, SetInv, Skipped
  <2> QED BY <1>0, <1>1, <1>2, <1>4, <2>1, MovesOn DEF GoesOn
<1>5. CASE Misuse(m, After[m])
  <2>1. ~Right(m) => object[m] # "live"
    BY <1>1 DEF IInv, SetInv, Right
  <2> QED BY <1>0, <1>1, <1>2, <1>5, <2>1, MisusePreserves
<1> QED BY <1>3, <1>4, <1>5 DEF Release

(* A call that is refused leaves what is not released for the next one.     *)
LEMMA RefusedPreserves ==
  ASSUME IInv, Inside, NEW step \in {"Disconnect", "Deregister"}, Refused(step),
         Passed[pc] \subseteq (IF step = "Deregister" THEN {"pQp", "pConnector", "pCq"} ELSE {}),
         UNCHANGED <<connected, calls>>
  PROVE  IInv'
<1>1. /\ past' = past \union {step} /\ pc' = "idle" /\ reply' = "error"
      /\ UNCHANGED <<ptr, object, held, abandoned, misused, calls>>
  BY DEF Refused, Finish, owned
<1>2. connected' = connected
  BY Zenon
<1> USE <1>1, <1>2
<1>3. TypeOK'
  BY DEF IInv, TypeOK, OwnershipTypeOK, Events
<1>4. SetInv' /\ HeldInv' /\ LeakInv' /\ BufferInv'
  <2>1. SetInv'
    BY DEF IInv, SetInv
  <2>2. HeldInv'
    BY DEF IInv, HeldInv
  <2>3. LeakInv'
    <3>1. connected
      BY DEF IInv, CallInv
    <3>2. connected'
      BY <3>1
    <3> QED BY <3>1, <3>2 DEF IInv, LeakInv
  <2>4. BufferInv'
    <3>1. connected'
      <4>1. connected
        BY DEF IInv, CallInv
      <4> QED BY <4>1
    <3>2. "registration" \in abandoned' => "still connected" \in past'
      BY DEF IInv, BufferInv
    <3> QED BY <3>1, <3>2 DEF BufferInv
  <2> QED BY <2>1, <2>2, <2>3, <2>4
<1>5. CallInv' /\ PassedInv'
  <2>1. CallInv'
    BY DEF IInv, CallInv, Inside
  <2>2. PassedInv'
    BY DEF PassedInv, Inside
  <2> QED BY <2>1, <2>2
<1>6. AheadInv'
  <2> SUFFICES ASSUME connected', ~Confused', NEW m \in Members, object'[m] = "released"
               PROVE  m \in Retried'
    BY DEF AheadInv
  <2>1. ~Confused
    BY DEF Confused
  <2>2. m \in Passed[pc] \union Retried
    BY <2>1 DEF IInv, AheadInv, Inside
  <2> QED BY <2>2 DEF Retried
<1>7. DependantsFirst' /\ RegionLast' /\ MisusesAreKnown'
  BY DEF IInv, DependantsFirst, RegionLast, MisusesAreKnown
<1> QED BY <1>3, <1>4, <1>5, <1>6, <1>7 DEF IInv

LEMMA DisconnectPreserves ==
  ASSUME IInv, Disconnect \/ Disconnecting
  PROVE  IInv'
<1>0. pc \in {"Disconnect", "Disconnecting"} /\ UNCHANGED <<connected, calls>> /\ Inside
  BY DEF Disconnect, Disconnecting, Inside
<1>1. /\ After["Disconnect"] = "pQp" /\ {"pQp", "Disconnecting"} \subseteq Steps
      /\ Passed["pQp"] = {} /\ Passed["Disconnecting"] = {} /\ Passed[pc] = {}
  BY <1>0, StepsAre DEF Passed
<1>2. CASE GoesOn("pQp") \/ GoesOn("Disconnecting")
  BY <1>0, <1>1, <1>2, MovesOn DEF GoesOn
<1>3. CASE Refused("Disconnect")
  BY <1>0, <1>1, <1>3, RefusedPreserves
<1>4. CASE Misuse("pConnector", "pQp")
  <2>1. "pConnector" \in Called
    BY DEF Called, Releases
  <2> QED BY <1>0, <1>1, <1>4, <2>1, MisusePreserves
<1> QED BY <1>1, <1>2, <1>3, <1>4 DEF Disconnect, Disconnecting

(* The buffer is taken back, if the region holds it.                        *)
LEMMA DeregisteredPreserves ==
  ASSUME IInv, pc \in {"Deregister", "Deregistering"}, Deregistered("pAdapter"),
         UNCHANGED <<connected, calls>>
  PROVE  IInv'
<1>1. /\ Inside /\ "pAdapter" \in Steps /\ Passed[pc] = {"pQp", "pConnector", "pCq"}
      /\ Passed["pAdapter"] = {"pQp", "pConnector", "pCq", "registration"}
  BY StepsAre DEF Inside, Passed
<1>2. /\ \A k \in Members : object'[k] = IF k = "registration" /\ object[k] = "live"
                                         THEN "released" ELSE object[k]
      /\ object' \in [Members -> {"none", "live", "released"}]
      /\ pc' = "pAdapter" /\ UNCHANGED <<ptr, held, reply, abandoned, misused, past, calls>>
  BY MembersAre DEF IInv, TypeOK, OwnershipTypeOK, Deregistered, history
<1>3. connected /\ connected' = connected /\ connected'
  <2>1. connected
    BY <1>1 DEF IInv, CallInv
  <2>2. connected' = connected
    BY Zenon
  <2> QED BY <2>1, <2>2
<1>4. TypeOK'
  BY <1>1, <1>2, <1>3 DEF IInv, TypeOK, OwnershipTypeOK, Steps
<1>5. SetInv'
  <2>1. /\ \A m \in Members : object'[m] = "none" <=> object[m] = "none"
        /\ \A m \in Members \ {"registration"} : object'[m] = object[m]
        /\ {"registration", "pMr"} \subseteq Members
    BY <1>2, MembersAre
  <2>2. \A m \in Members \ {"registration"} : ptr'[m] = "set" <=> object'[m] # "none"
    BY <1>2, <2>1 DEF IInv, SetInv
  <2>3. object'["registration"] # "none" => object'["pMr"] # "none"
    BY <2>1 DEF IInv, SetInv
  <2> QED BY <1>2, <2>1, <2>2, <2>3 DEF IInv, SetInv
<1>6. CallInv'
  <2>1. object'["pAdapter"] = object["pAdapter"]
    BY <1>2, MembersAre
  <2> QED BY <1>2, <1>3, <2>1 DEF IInv, CallInv, Inside
<1>7. PassedInv'
  <2>1. \A k \in {"pQp", "pConnector", "pCq"} : object[k] # "live"
    BY <1>1 DEF IInv, PassedInv
  <2>2. \A k \in {"pQp", "pConnector", "pCq", "registration"} : object'[k] # "live"
    BY <1>2, <2>1, MembersAre
  <2> QED BY <1>1, <1>2, <2>2 DEF PassedInv
<1>8. AheadInv'
  <2> SUFFICES ASSUME ~Confused', NEW m \in Members, object'[m] = "released"
               PROVE  m \in Passed["pAdapter"] \union Retried'
    BY <1>2 DEF AheadInv
  <2>1. ~Confused
    BY <1>2 DEF Confused
  <2>2. m = "registration" \/ m \in Passed[pc] \union Retried
    BY <1>1, <1>2, <1>3, <2>1 DEF IInv, AheadInv, Inside
  <2> QED BY <1>1, <1>2, <2>2 DEF Retried
<1>9. HeldInv'
  BY <1>2 DEF IInv, HeldInv
<1>10. LeakInv' /\ BufferInv'
  BY <1>2, <1>3, MembersAre DEF IInv, LeakInv, BufferInv, Kept
<1>11. DependantsFirst'
  BY <1>2, MembersAre DEF IInv, DependantsFirst
<1>12. RegionLast'
  <2>1. object["pQp"] # "live"
    BY <1>1 DEF IInv, PassedInv
  <2> QED BY <1>2, <2>1, MembersAre DEF RegionLast
<1>13. MisusesAreKnown'
  BY <1>2 DEF IInv, MisusesAreKnown
<1> QED
  BY <1>4, <1>5, <1>6, <1>7, <1>8, <1>9, <1>10, <1>11, <1>12, <1>13 DEF IInv

(* The buffer is in the region, if it is anywhere.                          *)
LEMMA NothingRegistered ==
  ASSUME IInv, ~Right("pMr")
  PROVE  object["registration"] # "live"
<1>1. "pMr" \in Members /\ "pMr" \in Kept
  BY MembersAre DEF Kept
<1>2. object["pMr"] = "none"
  BY <1>1 DEF IInv, TypeOK, OwnershipTypeOK, SetInv, LeakInv, Right
<1> QED BY <1>2 DEF IInv, SetInv

LEMMA DeregisterPreserves ==
  ASSUME IInv, Deregister \/ Deregistering
  PROVE  IInv'
<1>0. pc \in {"Deregister", "Deregistering"} /\ UNCHANGED <<connected, calls>> /\ Inside
  BY DEF Deregister, Deregistering, Inside
<1>1. /\ After["Deregister"] = "pAdapter" /\ {"pAdapter", "Deregistering"} \subseteq Steps
      /\ Passed[pc] = {"pQp", "pConnector", "pCq"}
      /\ Passed["Deregistering"] = Passed[pc]
      /\ Passed["pAdapter"] = Passed[pc] \union {"registration"}
      /\ "pMr" \in Called
  BY <1>0, StepsAre DEF Passed, Called
<1>2. \A k \in Passed[pc] : object[k] # "live"
  BY <1>0 DEF IInv, PassedInv
<1>3. CASE Skipped("pMr") /\ GoesOn("pAdapter")
  <2>1. object["registration"] # "live"
    BY <1>3, NothingRegistered DEF Skipped, Right
  <2> QED BY <1>0, <1>1, <1>2, <1>3, <2>1, MovesOn DEF GoesOn
<1>4. CASE GoesOn("Deregistering")
  BY <1>0, <1>1, <1>2, <1>4, MovesOn DEF GoesOn
<1>5. CASE Deregistered("pAdapter")
  BY <1>0, <1>5, DeregisteredPreserves
<1>6. CASE Refused("Deregister")
  BY <1>0, <1>1, <1>6, RefusedPreserves
<1>7. CASE Misuse("pMr", "pAdapter")
  BY <1>0, <1>1, <1>2, <1>7, NothingRegistered, MisusePreserves
<1> QED BY <1>1, <1>3, <1>4, <1>5, <1>6, <1>7 DEF Deregister, Deregistering

LEMMA LastPreserves ==
  ASSUME IInv, Last
  PROVE  IInv'
<1>1. /\ pc = "Last" /\ Inside /\ pc' = "idle" /\ reply' = "OK" /\ connected' = FALSE
      /\ UNCHANGED <<ptr, object, held, abandoned, misused, past, calls>>
  BY DEF Last, Finish, Inside, owned, history
<1>2. \A k \in Releases \union {"registration"} : object[k] # "live"
  BY <1>1 DEF IInv, PassedInv, Passed
<1>3. TypeOK'
  BY <1>1 DEF IInv, TypeOK, OwnershipTypeOK
<1>4. SetInv' /\ HeldInv'
  BY <1>1 DEF IInv, SetInv, HeldInv
<1>5. CallInv' /\ PassedInv' /\ AheadInv'
  BY <1>1 DEF CallInv, PassedInv, AheadInv, Inside
<1>6. LeakInv' /\ BufferInv'
  <2>1. \A m \in Members \ Kept : m \in Releases \union {"registration"}
    BY MembersAre DEF Kept, Releases
  <2> QED BY <1>1, <1>2, <2>1 DEF IInv, LeakInv, BufferInv
<1>7. DependantsFirst' /\ RegionLast' /\ MisusesAreKnown'
  BY <1>1 DEF IInv, DependantsFirst, RegionLast, MisusesAreKnown
<1> QED BY <1>3, <1>4, <1>5, <1>6, <1>7 DEF IInv

LEMMA DestroyPreserves ==
  ASSUME IInv, DestroyConnection
  PROVE  IInv'
<1>1. /\ pc = "idle" /\ calls < MaxCalls /\ calls' = calls + 1
      /\ pc' \in {"idle", "Disconnect"} /\ reply' \in {reply, "OK"}
      /\ UNCHANGED <<ptr, object, held, abandoned, misused, past>>
  BY DEF DestroyConnection, Destroy, Finish, owned, history
<1>2. connected' = connected
  BY Zenon DEF DestroyConnection, Destroy
<1>3. pc' = "Disconnect" => connected
  BY DEF DestroyConnection, Destroy, Finish
<1>4. calls \in 0 .. MaxCalls /\ MaxCalls \in Nat /\ held \in [Counted -> 0 .. MaxCalls]
  BY CallsAssumption DEF IInv, TypeOK, OwnershipTypeOK
<1>5. TypeOK'
  <2>1. calls' \in 0 .. MaxCalls
    BY <1>1, <1>4
  <2>2. pc' \in DOMAIN After \union {"idle", "Disconnecting", "Deregistering", "Last", "crashed"}
    BY <1>1 DEF After
  <2> QED BY <1>1, <1>2, <2>1, <2>2 DEF IInv, TypeOK, OwnershipTypeOK
<1>6. SetInv' /\ DependantsFirst' /\ RegionLast' /\ MisusesAreKnown'
  BY <1>1 DEF IInv, SetInv, DependantsFirst, RegionLast, MisusesAreKnown
<1>7. CallInv'
  <2>1. connected' => "set up" \in past' /\ object'["pAdapter"] # "none"
    BY <1>1, <1>2 DEF IInv, CallInv
  <2>2. Inside' => connected'
    BY <1>1, <1>2, <1>3 DEF Inside
  <2> QED BY <2>1, <2>2 DEF CallInv
<1>8. PassedInv'
  BY <1>1 DEF PassedInv, Inside, Passed
<1>9. AheadInv'
  BY <1>1, <1>2 DEF IInv, AheadInv, Confused, Retried, Passed
<1>10. HeldInv'
  <2>1. \A c \in Counted : held[c] <= calls /\ held[c] \in Nat
    <3>1. \A c \in Counted : held[c] \in 0 .. MaxCalls
      BY <1>4
    <3>2. \A c \in Counted : held[c] <= calls
      BY DEF IInv, HeldInv
    <3> QED BY <3>1, <3>2
  <2>2. held' = held /\ calls' = calls + 1 /\ calls \in Nat
    BY <1>1, <1>4
  <2>3. \A c \in Counted : held'[c] <= calls'
    BY <2>1, <2>2
  <2> QED BY <1>1, <2>3 DEF IInv, HeldInv
<1>11. LeakInv' /\ BufferInv'
  BY <1>1, <1>2 DEF IInv, LeakInv, BufferInv
<1> QED BY <1>5, <1>6, <1>7, <1>8, <1>9, <1>10, <1>11 DEF IInv

LEMMA InitializePreserves ==
  ASSUME IInv, Initialize
  PROVE  IInv'
<1>1. pc = "idle" /\ calls < MaxCalls /\ calls' = calls + 1 /\ pc' = pc /\ misused' = misused
  BY DEF Initialize
<1>2. PICK n \in 0 .. Len(Makes) :
        LET made == Elements(SubSeq(Makes, 1, n)) IN
        /\ ptr' = [m \in Members |-> IF m \in made THEN "set" ELSE ptr[m]]
        /\ object' = [m \in Members |-> IF m \in made THEN "live"
                                       ELSE IF m \in Anew(made) THEN "none" ELSE object[m]]
        /\ held' = [c \in Counted |-> IF c \in made THEN held[c] + 1 ELSE held[c]]
        /\ connected' = (connected \/ {"pAdapter", "hAdapterFile"} \subseteq made)
        /\ abandoned' =
             abandoned \union {m \in Members \intersect Anew(made) : object[m] = "live"}
        /\ past' = past \union {"set up"}
                        \union (IF n < Len(Makes) THEN {"stopped"} ELSE {})
                        \union (IF "set up" \in past THEN {"reused"} ELSE {})
                        \union (IF made # {} /\ ~connected' THEN {"half open"} ELSE {})
                        \union (IF connected THEN {"still connected"} ELSE {})
        /\ reply' = IF n < Len(Makes) THEN "error" ELSE "OK"
  BY DEF Initialize
<1> DEFINE made == Elements(SubSeq(Makes, 1, n))
<1>3. /\ made \subseteq Elements(Makes)
      /\ n = Len(Makes) => made = Elements(Makes)
      /\ "registration" \in made => {"pAdapter", "hAdapterFile", "pMr"} \subseteq made
  BY Prefix
<1>4. /\ ptr' = [m \in Members |-> IF m \in made THEN "set" ELSE ptr[m]]
      /\ object' = [m \in Members |-> IF m \in made THEN "live"
                                     ELSE IF m \in Anew(made) THEN "none" ELSE object[m]]
      /\ held' = [c \in Counted |-> IF c \in made THEN held[c] + 1 ELSE held[c]]
      /\ connected' = (connected \/ {"pAdapter", "hAdapterFile"} \subseteq made)
      /\ abandoned' =
           abandoned \union {m \in Members \intersect Anew(made) : object[m] = "live"}
      /\ reply' \in {"OK", "error"}
  BY <1>2
<1>5. /\ past \subseteq past' /\ "set up" \in past'
      /\ past' \subseteq past \union {"set up", "stopped", "reused", "half open",
                                      "still connected"}
      /\ "stopped" \in past' <=> "stopped" \in past \/ n # Len(Makes)
      /\ "reused" \in past' <=> "reused" \in past \/ "set up" \in past
      /\ connected => "still connected" \in past'
  <2>1. Len(Makes) = 15 /\ n \in 0 .. 15
    BY MakesAre
  <2>2. past' = past \union {"set up"}
                    \union (IF n < Len(Makes) THEN {"stopped"} ELSE {})
                    \union (IF "set up" \in past THEN {"reused"} ELSE {})
                    \union (IF made # {} /\ ~connected' THEN {"half open"} ELSE {})
                    \union (IF connected THEN {"still connected"} ELSE {})
    BY <1>2
  <2>3. n < Len(Makes) <=> n # Len(Makes)
    BY <2>1
  <2> QED BY <2>2, <2>3
<1> HIDE DEF made
<1>a. /\ \A m \in Members \ {"registration"} :
           object'[m] = IF m \in made THEN "live" ELSE object[m]
      /\ object'["registration"] = IF "registration" \in made THEN "live"
                                   ELSE IF "pMr" \in made THEN "none"
                                   ELSE object["registration"]
      /\ "registration" \in abandoned' =>
           "registration" \in abandoned \/ object["registration"] = "live"
  BY <1>4, MembersAre DEF Anew
<1>6. /\ calls \in 0 .. MaxCalls /\ MaxCalls \in Nat /\ held \in [Counted -> 0 .. MaxCalls]
      /\ \A c \in Counted : held[c] <= calls
  BY CallsAssumption DEF IInv, TypeOK, OwnershipTypeOK, HeldInv
<1>7. \A c \in Counted : held'[c] \in 0 .. calls'
  BY <1>1, <1>4, <1>6
<1>8. TypeOK'
  <2>1. ptr' \in [Members -> {"garbage", "null", "set"}]
    BY <1>4 DEF IInv, TypeOK, OwnershipTypeOK
  <2>2. object' \in [Members -> {"none", "live", "released"}]
    BY <1>4 DEF IInv, TypeOK, OwnershipTypeOK
  <2>3. held' \in [Counted -> 0 .. MaxCalls] /\ calls' \in 0 .. MaxCalls
    BY <1>1, <1>4, <1>6, <1>7
  <2>4. connected' \in BOOLEAN
    BY <1>4
  <2>5. abandoned' \subseteq Members /\ past' \subseteq Events
    BY <1>4, <1>5 DEF IInv, TypeOK, OwnershipTypeOK, Events
  <2> QED BY <1>1, <1>4, <2>1, <2>2, <2>3, <2>4, <2>5 DEF IInv, TypeOK, OwnershipTypeOK
<1>9. n = Len(Makes) => \A m \in Members : object'[m] = "live"
  BY <1>3, <1>4 DEF Members
<1>10. SetInv'
  <2>1. \A m \in Members \ {"registration"} : ptr'[m] = "set" <=> object'[m] # "none"
    BY <1>4, <1>a DEF IInv, SetInv
  <2>2. \A m \in Members : ptr'[m] # "null"
    BY <1>4 DEF IInv, SetInv
  <2>3. "stopped" \notin past' => \A m \in Members : object'[m] # "none"
    BY <1>5, <1>9
  <2>4. object'["registration"] # "none" => object'["pMr"] # "none"
    BY <1>3, <1>a, MembersAre DEF IInv, SetInv
  <2> QED BY <1>5, <2>1, <2>2, <2>3, <2>4 DEF SetInv
<1>11. CallInv'
  <2>1. connected => object'["pAdapter"] # "none"
    BY <1>a, MembersAre DEF IInv, CallInv
  <2>2. {"pAdapter", "hAdapterFile"} \subseteq made => object'["pAdapter"] # "none"
    BY <1>4, MembersAre
  <2>3. connected' => object'["pAdapter"] # "none"
    BY <1>4, <2>1, <2>2
  <2> QED BY <1>1, <1>5, <2>3 DEF CallInv, Inside
<1>12. PassedInv'
  BY <1>1 DEF PassedInv, Inside
<1>13. "reused" \notin past' => "set up" \notin past /\ \A m \in Members : object'[m] # "released"
  <2>1. SUFFICES ASSUME "reused" \notin past', NEW m \in Members
                 PROVE  "set up" \notin past /\ object'[m] # "released"
    BY <1>5
  <2>2. "set up" \notin past /\ object[m] = "none"
    BY <2>1, <1>5 DEF IInv, SetInv
  <2> QED BY <2>2, <1>4
<1>14. AheadInv'
  <2>1. SUFFICES ASSUME ~Confused', NEW m \in Members PROVE object'[m] # "released"
    BY DEF AheadInv
  <2>2. CASE "stopped" \notin past'
    BY <2>2, <1>5, <1>9
  <2>3. CASE "reused" \notin past'
    BY <2>3, <1>13
  <2> QED BY <2>1, <2>2, <2>3 DEF Confused
<1>15. HeldInv'
  <2>1. \A c \in Counted : held'[c] <= calls'
    BY <1>1, <1>6, <1>7
  <2>2. ASSUME {"stopped", "reused"} \intersect past' = {}, NEW c \in Counted
        PROVE  held'[c] = 1
    <3>1. "set up" \notin past /\ n = Len(Makes)
      BY <2>2, <1>5
    <3>2. held[c] = 0 /\ c \in made
      BY <3>1, <1>3, MembersAre DEF IInv, HeldInv
    <3> QED BY <3>2, <1>4
  <2> QED BY <1>5, <2>1, <2>2 DEF HeldInv
<1>16. LeakInv'
  <2>1. \A m \in Kept : object'[m] # "released"
    BY <1>4, MembersAre DEF IInv, LeakInv, Kept
  <2>2. "stopped" \notin past' => connected'
    <3>1. "stopped" \notin past' => {"pAdapter", "hAdapterFile"} \subseteq made
      BY <1>3, <1>5, MembersAre DEF Members
    <3> QED BY <3>1, <1>4
  <2> QED BY <2>1, <2>2 DEF LeakInv
<1>17. BufferInv'
  <2>1. ASSUME "registration" \in made PROVE connected'
    BY <2>1, <1>3, <1>4
  <2>2. ASSUME "registration" \notin made, object'["registration"] = "live" PROVE connected'
    <3>1. object'["registration"] \in {"none", object["registration"]}
      BY <2>2, <1>a
    <3>2. connected => connected'
      BY <1>4
    <3> QED BY <2>2, <3>1, <3>2 DEF IInv, BufferInv
  <2>3. object'["registration"] = "live" => connected'
    BY <2>1, <2>2
  <2>4. "registration" \in abandoned' => "still connected" \in past'
    BY <1>5, <1>a DEF IInv, BufferInv
  <2> QED BY <2>3, <2>4 DEF BufferInv
<1>18. DependantsFirst' /\ RegionLast'
  BY <1>13, MembersAre DEF DependantsFirst, RegionLast
<1>19. MisusesAreKnown'
  BY <1>1, <1>5 DEF IInv, MisusesAreKnown
<1> QED
  BY <1>8, <1>10, <1>11, <1>12, <1>14, <1>15, <1>16, <1>17, <1>18, <1>19 DEF IInv

LEMMA Step == IInv /\ [Next]_vars => IInv'
<1> SUFFICES ASSUME IInv, [Next]_vars PROVE IInv'
  OBVIOUS
<1>1. ASSUME ReleaseOne PROVE IInv'
  BY <1>1, ReleasePreserves DEF ReleaseOne
<1>2. ASSUME UNCHANGED vars PROVE IInv'
  <2>1. UNCHANGED <<ptr, object, held, pc, reply, calls, abandoned, misused, past>>
    BY <1>2 DEF vars, owned, history
  <2>2. connected' = connected
    BY <1>2, Zenon DEF vars
  <2> USE <2>1, <2>2
  <2>3. TypeOK' /\ SetInv' /\ CallInv' /\ PassedInv'
    BY DEF IInv, TypeOK, OwnershipTypeOK, SetInv, CallInv, PassedInv, Inside
  <2>4. AheadInv' /\ HeldInv' /\ LeakInv' /\ BufferInv'
    BY DEF IInv, AheadInv, HeldInv, LeakInv, BufferInv, Confused, Retried
  <2>5. DependantsFirst' /\ RegionLast' /\ MisusesAreKnown'
    BY DEF IInv, DependantsFirst, RegionLast, MisusesAreKnown
  <2> QED BY <2>3, <2>4, <2>5 DEF IInv
<1> QED
  BY <1>1, <1>2, InitializePreserves, DestroyPreserves, DisconnectPreserves,
     DeregisterPreserves, LastPreserves DEF Next, Work

LEMMA Strengthened == Spec => []IInv
BY Start, Step, PTL DEF Spec

-----------------------------------------------------------------------------
(* The types of the state (RDMAClient.cpp, 379-439).                        *)
THEOREM Typing == Spec => []TypeOK
<1>1. IInv => TypeOK
  BY DEF IInv
<1> QED BY <1>1, Strengthened, PTL

(* What is made from the adapter goes before it, and the buffer stays       *)
(* registered as long as a queue pair can use it.                           *)
THEOREM Invariance == Spec => []Inv
<1>1. IInv => Inv
  BY DEF IInv, Inv
<1> QED BY <1>1, Strengthened, PTL

(* The uses of a member that is not set, or of one that was released, are   *)
(* the known ones, however often the methods are called (380-432).          *)
THEOREM UsesAreKnown == Spec => []MisusesAreKnown
<1>1. IInv => MisusesAreKnown
  BY DEF IInv
<1> QED BY <1>1, Strengthened, PTL

(* After a DestroyConnection that returned OK no region holds the buffer,   *)
(* neither the one pMr points to nor one it has lost, however many setups   *)
(* and refused calls there were before it; setups of a client that was      *)
(* still connected excepted.  The buffer may be freed (379-439).            *)
THEOREM BufferMayBeFreed == Spec => []BufferIsFree
<1>1. IInv => BufferIsFree
  BY DEF IInv, BufferInv, BufferIsFree
<1> QED BY <1>1, Strengthened, PTL

(* What a DestroyConnection leaves when it returns OK (379-439).            *)
THEOREM LeaksAreKnown == Spec => []OnlyKnownLeaks
<1>1. IInv => OnlyKnownLeaks
  <2> SUFFICES ASSUME IInv, ~connected, object["pQp"] # "none",
                      {"stopped", "reused"} \intersect past = {}
               PROVE  /\ {m \in Members : object[m] = "live"} = Kept
                      /\ held = [c \in Counted |-> 1]
    BY DEF OnlyKnownLeaks, Kept
  <2>1. "pQp" \in Members /\ Kept \subseteq Members
    BY MembersAre DEF Kept
  <2>2. "set up" \in past
    BY <2>1 DEF IInv, SetInv
  <2>3. \A m \in Kept : object[m] = "live"
    BY <2>1, <2>2 DEF IInv, TypeOK, OwnershipTypeOK, SetInv, LeakInv
  <2>4. \A m \in Members \ Kept : object[m] # "live"
    BY <2>2 DEF IInv, LeakInv
  <2>5. held \in [Counted -> 0 .. MaxCalls] /\ \A c \in Counted : held[c] = 1
    BY <2>2 DEF IInv, TypeOK, OwnershipTypeOK, HeldInv
  <2>6. held = [c \in Counted |-> 1]
    BY <2>5
  <2> QED BY <2>1, <2>3, <2>4, <2>6
<1> QED BY <1>1, Strengthened, PTL
=============================================================================
