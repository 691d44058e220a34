------------------------- MODULE ServerTeardownProofs -------------------------
(***************************************************************************)
(* What DestroyConnection of the server does to its members, for owners    *)
(* that call its methods any number of times, in any order.                *)
(***************************************************************************)
EXTENDS ServerTeardown, SequenceTheorems, TLAPS

(* The members that are behind each step of DestroyConnection.              *)
Passed ==
  [idle |-> {}, pMw |-> {}, Disconnect |-> {"pMw"}, Disconnecting |-> {"pMw"},
   pQp |-> {"pMw"}, pConnector |-> {"pMw", "pQp"},
   pCq |-> {"pMw", "pQp", "pConnector"},
   pListen |-> {"pMw", "pQp", "pConnector", "pCq"},
   Deregister |-> {"pMw", "pQp", "pConnector", "pCq", "pListen"},
   pAdapter |-> {"pMw", "pQp", "pConnector", "pCq", "pListen"},
   Results_Server |-> {"pMw", "pQp", "pConnector", "pCq", "pListen", "pAdapter"},
   NdCleanup |-> Releases]

Inside  == pc \notin {"idle", "crashed"}
Confused == {"stopped", "reused"} \subseteq past   \* a second setup, one of them stopped
Kept    == {"pMr", "hAdapterFile", "Sgl"}

(* Which members are set, and what a setup has made of them.                *)
SetInv ==
  /\ \A m \in Members : ptr[m] = "set" <=> object[m] # "none"
  /\ \A m \in Members : ptr[m] = "garbage" => m \in {"pListen", "Sgl", "Results_Server"}
  /\ "set up" \notin past => \A m \in Members : object[m] = "none"
  /\ "set up" \in past /\ "stopped" \notin past => \A m \in Members : object[m] # "none"

(* DestroyConnection does something only after a setup, and one that got as *)
(* far as the event.                                                        *)
CallInv ==
  /\ Inside => connected
  /\ connected => "set up" \in past /\ object["ov"] # "none"

(* It leaves no live object behind it.                                      *)
PassedInv == Inside => \A m \in Passed[pc] : object[m] # "live"

(* Before it comes to an object, the object is there; but pMw need not be,  *)
(* when an earlier call was refused.                                        *)
Retried == IF "Disconnect" \in past THEN {"pMw"} ELSE {}
AheadInv ==
  connected /\ pc # "crashed" /\ ~Confused =>
    \A m \in Members : object[m] = "released" => m \in Passed[pc] \union Retried

(* The references to the framework: one for what the server holds now, and  *)
(* one for each adapter it forgot.                                          *)
One(b) == IF b THEN 1 ELSE 0
HeldInv ==
  /\ \A c \in Counted : held[c] <= calls
  /\ connected => held["wsa"] >= 1
  /\ held["framework"] >=
       One(connected \/ object["pAdapter"] = "live") + One("pAdapter" \in abandoned)

(* What DestroyConnection never releases, and what it leaves of the rest.   *)
LeakInv ==
  /\ \A m \in Kept : object[m] # "released"
  /\ ~connected /\ "set up" \in past /\ "stopped" \notin past =>
       \A m \in Members \ Kept : object[m] # "live"

(* Without a setup that stopped half open or met a server that was still    *)
(* connected, what is held and what is alive goes with m_bConnected.        *)
Balanced == {"half open", "still connected"} \intersect past = {}
BalanceInv ==
  Balanced =>
    /\ \A c \in Counted : held[c] = One(connected)
    /\ abandoned \subseteq Kept
    /\ ~connected => \A m \in Members \ Kept : object[m] # "live"

IInv == /\ TypeOK /\ SetInv /\ CallInv /\ PassedInv /\ AheadInv /\ HeldInv /\ LeakInv
        /\ BalanceInv
        /\ DependantsFirst /\ CleanupIsPaired /\ MisusesAreKnown

-----------------------------------------------------------------------------
(* The members, and the steps of DestroyConnection.                         *)
Called == Releases \union {"pMr"}       \* members it calls something through
Steps  == DOMAIN After \union {"Disconnecting", "NdCleanup"}

LEMMA MakesAre ==
  /\ Len(Makes) = 13 /\ DOMAIN Makes = 1 .. 13
  /\ Makes[1] = "wsa" /\ Makes[2] = "framework" /\ Makes[3] = "pAdapter"
  /\ Makes[4] = "ov" /\ Makes[5] = "hAdapterFile" /\ Makes[6] = "pMr"
  /\ Makes[7] = "pMw" /\ Makes[8] = "pCq" /\ Makes[9] = "Sgl"
  /\ Makes[10] = "pConnector" /\ Makes[11] = "Results_Server"
  /\ Makes[12] = "pQp" /\ Makes[13] = "pListen"
BY ServerAssumption DEF ServerMakes

LEMMA MembersAre ==
  /\ Counted \subseteq Elements(Makes)
  /\ Members = {"pAdapter", "ov", "hAdapterFile", "pMr", "pMw", "pCq", "Sgl",
                "pConnector", "Results_Server", "pQp", "pListen"}
<1>1. Elements(Makes) = {Makes[n] : n \in 1 .. 13}
  BY MakesAre DEF Elements
<1>2. Elements(Makes) =
        {"wsa", "framework", "pAdapter", "ov", "hAdapterFile", "pMr", "pMw", "pCq", "Sgl",
         "pConnector", "Results_Server", "pQp", "pListen"}
  BY <1>1, MakesAre
<1> QED BY <1>2 DEF Members, Counted

(* What an Initialize that gets so far has made.                            *)
LEMMA Prefix ==
  ASSUME NEW n \in 0 .. Len(Makes)
  PROVE  /\ Elements(SubSeq(Makes, 1, n)) \subseteq Elements(Makes)
         /\ n = Len(Makes) => Elements(SubSeq(Makes, 1, n)) = Elements(Makes)
         /\ "pAdapter" \in Elements(SubSeq(Makes, 1, n)) =>
              Counted \subseteq Elements(SubSeq(Makes, 1, n))
         /\ "hAdapterFile" \in Elements(SubSeq(Makes, 1, n)) =>
              "ov" \in Elements(SubSeq(Makes, 1, n))
<1>1. Elements(SubSeq(Makes, 1, n)) = {Makes[k] : k \in 1 .. n}
  <2> DEFINE s == SubSeq(Makes, 1, n)
  <2>1. n \in Nat /\ \A k \in 1 .. n : Makes[k] \in Elements(Makes)
    BY MakesAre DEF Elements
  <2>2. /\ s \in Seq(Elements(Makes)) /\ Len(s) = IF 1 <= n THEN n - 1 + 1 ELSE 0
        /\ \A k \in 1 .. n - 1 + 1 : s[k] = Makes[1 + k - 1]
    BY <2>1, SubSeqProperties
  <2> HIDE DEF s
  <2>3. DOMAIN s = 1 .. n /\ \A k \in 1 .. n : s[k] = Makes[k]
    BY <2>1, <2>2
  <2>4. Elements(s) = {Makes[k] : k \in 1 .. n}
    BY <2>3 DEF Elements
  <2> QED BY <2>4 DEF s
<1>2. Elements(Makes) = {Makes[k] : k \in 1 .. 13}
  BY MakesAre DEF Elements
<1>3. /\ "pAdapter" \in {Makes[k] : k \in 1 .. n} => n >= 3
      /\ "hAdapterFile" \in {Makes[k] : k \in 1 .. n} => n >= 5
  BY MakesAre
<1> QED BY <1>1, <1>2, <1>3, MakesAre DEF Counted

LEMMA StepsAre ==
  /\ Steps = {"pMw", "Disconnect", "Disconnecting", "pQp", "pConnector", "pCq", "pListen",
              "Deregister", "pAdapter", "Results_Server", "NdCleanup"}
  /\ \A m \in Releases :
       /\ m \in Members \ Kept /\ m \in Steps /\ m \notin {"idle", "crashed"}
       /\ After[m] \in Steps
       /\ m \notin Passed[m] /\ Passed[After[m]] = Passed[m] \union {m}
  /\ After["Disconnect"] = "pQp" /\ After["Deregister"] = "pAdapter"
  /\ Called \subseteq Members
BY MembersAre DEF Steps, After, Releases, Passed, Kept, Called

LEMMA Inner ==
  ASSUME TypeOK
  PROVE  Inside <=> pc \in Steps
BY StepsAre DEF TypeOK, Inside, Steps, After

-----------------------------------------------------------------------------
LEMMA Start == Init => IInv
<1> SUFFICES ASSUME Init PROVE IInv
  OBVIOUS
<1> USE DEF Init
<1>1. TypeOK
  <2>1. ptr \in [Members -> {"garbage", "null", "set"}]
    OBVIOUS
  <2>2. held \in [Counted -> 0 .. MaxCalls] /\ calls \in 0 .. MaxCalls
    BY CallsAssumption
  <2> QED BY <2>1, <2>2 DEF TypeOK, OwnershipTypeOK
<1>2. SetInv
  BY MembersAre, ServerAssumption DEF SetInv, ServerZeroed
<1>3. CallInv /\ PassedInv /\ AheadInv
  BY DEF CallInv, PassedInv, AheadInv, Inside
<1>4. HeldInv
  BY MembersAre DEF HeldInv, One, Counted
<1>5. LeakInv /\ BalanceInv
  BY MembersAre DEF LeakInv, BalanceInv, One, Kept
<1>6. DependantsFirst /\ CleanupIsPaired /\ MisusesAreKnown
  BY MembersAre DEF DependantsFirst, CleanupIsPaired, MisusesAreKnown
<1> QED BY <1>1, <1>2, <1>3, <1>4, <1>5, <1>6 DEF IInv
-----------------------------------------------------------------------------
(* DestroyConnection moves on past a call that changes nothing.             *)
LEMMA MovesOn ==
  ASSUME IInv, Inside, NEW next \in Steps,
         pc' = next, Passed[pc] \subseteq Passed[next],
         \A m \in Passed[next] : object[m] # "live",
         UNCHANGED <<owned, history, reply, connected, calls>>
  PROVE  IInv'
<1> USE DEF owned, history
<1>1. next \notin {"idle", "crashed"}
  BY StepsAre
<1>2. TypeOK'
  BY StepsAre DEF IInv, TypeOK, OwnershipTypeOK, Steps
<1>3. SetInv' /\ HeldInv' /\ LeakInv' /\ DependantsFirst' /\ CleanupIsPaired' /\ MisusesAreKnown'
  BY DEF IInv, SetInv, HeldInv, LeakInv, DependantsFirst, CleanupIsPaired, MisusesAreKnown
<1>4. CallInv' /\ PassedInv'
  BY DEF IInv, CallInv, PassedInv, Inside
<1>5. AheadInv'
  BY <1>1 DEF IInv, AheadInv, Inside, Confused, Retried
<1>6. BalanceInv'
  BY DEF IInv, BalanceInv, Balanced, One
<1> QED BY <1>2, <1>3, <1>4, <1>5, <1>6 DEF IInv

(* A use that is neither right nor left out is one of the known ones.       *)
LEMMA WrongUses ==
  ASSUME IInv, Inside, NEW m \in Called, m \notin Passed[pc],
         ~Right(m), ptr[m] # "null"
  PROVE  IF ptr[m] = "set"
         THEN ("Disconnect" \in past /\ m = "pMw") \/ {"stopped", "reused"} \subseteq past
         ELSE "stopped" \in past /\ m \in {"pListen", "Results_Server"}
<1>1. m \in Members /\ connected /\ "set up" \in past
  BY StepsAre DEF IInv, CallInv
<1>2. CASE ptr[m] = "set"
  <2>1. object[m] = "released"
    BY <1>1, <1>2 DEF IInv, TypeOK, OwnershipTypeOK, SetInv, Right
  <2>2. ~Confused => m \in Retried
    BY <1>1, <2>1 DEF IInv, AheadInv, Inside
  <2> QED BY <1>2, <2>2 DEF Confused, Retried
<1>3. CASE ptr[m] # "set"
  <2>1. ptr[m] = "garbage" /\ object[m] = "none"
    BY <1>1, <1>3 DEF IInv, TypeOK, OwnershipTypeOK, SetInv
  <2>2. m # "Sgl"
    BY DEF Called, Releases
  <2> QED BY <1>1, <1>3, <2>1, <2>2 DEF IInv, SetInv
<1> QED BY <1>2, <1>3

LEMMA MisusePreserves ==
  ASSUME IInv, Inside, NEW m \in Called, m \notin Passed[pc],
         NEW next \in Steps, Passed[pc] \subseteq Passed[next],
         ~Right(m) => \A k \in Passed[next] : object[k] # "live",
         Misuse(m, next), UNCHANGED <<connected, calls>>
  PROVE  IInv'
<1> DEFINE tag == IF ptr[m] = "set" THEN "again" ELSE "unset"
<1>1. /\ ~Right(m) /\ ptr[m] # "null" /\ misused' = misused \union {<<tag, m>>}
      /\ pc' \in {next, "crashed"}
      /\ UNCHANGED <<ptr, object, held, abandoned, past, reply, calls>>
  BY DEF Misuse, owned
<1>0. connected /\ connected' = connected /\ connected'
  <2>1. connected
    BY DEF IInv, CallInv
  <2>2. connected' = connected
    BY Zenon
  <2> QED BY <2>1, <2>2
<1>2. next \notin {"idle", "crashed"} /\ m \in Members
  BY StepsAre
<1>3. TypeOK'
  <2>1. misused' \subseteq {"unset", "again"} \X Members
    BY <1>1, <1>2 DEF IInv, TypeOK, OwnershipTypeOK
  <2>2. pc' \in DOMAIN After \union {"idle", "Disconnecting", "NdCleanup", "crashed"}
    BY <1>1 DEF Steps
  <2> QED BY <1>0, <1>1, <2>1, <2>2 DEF IInv, TypeOK, OwnershipTypeOK
<1>4. /\ SetInv' /\ HeldInv' /\ LeakInv' /\ BalanceInv'
      /\ DependantsFirst' /\ CleanupIsPaired'
  <2>1. SetInv' /\ DependantsFirst' /\ CleanupIsPaired'
    BY <1>1 DEF IInv, SetInv, DependantsFirst, CleanupIsPaired
  <2>2. HeldInv'
    BY <1>1, <1>0 DEF IInv, HeldInv, One
  <2>3. LeakInv'
    BY <1>1, <1>0 DEF IInv, LeakInv
  <2>4. BalanceInv'
    BY <1>1, <1>0 DEF IInv, BalanceInv, Balanced, One
  <2> QED BY <2>1, <2>2, <2>3, <2>4
<1>5. CallInv' /\ PassedInv'
  <2>1. connected' /\ "set up" \in past'
    BY <1>1, <1>0 DEF IInv, CallInv
  <2> QED BY <1>1, <1>2, <2>1 DEF IInv, CallInv, PassedInv, Inside
<1>6. AheadInv'
  BY <1>0, <1>1, <1>2 DEF IInv, AheadInv, Inside, Confused, Retried
<1>7. MisusesAreKnown'
  <2>1. \A use \in misused' : use \in misused \/ (use[1] = tag /\ use[2] = m)
    BY <1>1
  <2>2. IF tag = "unset"
        THEN "stopped" \in past /\ m \in {"pListen", "Results_Server"}
        ELSE ("Disconnect" \in past /\ m = "pMw") \/ {"stopped", "reused"} \subseteq past
    BY <1>1, WrongUses
  <2> HIDE DEF tag
  <2> QED BY <1>1, <2>1, <2>2 DEF IInv, MisusesAreKnown
<1> QED BY <1>3, <1>4, <1>5, <1>6, <1>7 DEF IInv

LEMMA ReleasePreserves ==
  ASSUME IInv, NEW m \in Releases, Release(m, After[m])
  PROVE  IInv'
<1>0. pc = m /\ UNCHANGED <<connected, calls>>
  BY DEF Release
<1>1. /\ m \in Members \ Kept /\ m \in Steps /\ Inside /\ After[m] \in Steps
      /\ After[m] \notin {"idle", "crashed"} /\ m \in Called
      /\ m \notin Passed[pc] /\ Passed[After[m]] = Passed[pc] \union {m}
  BY <1>0, StepsAre DEF Inside, Called
<1>2. \A k \in Passed[pc] : object[k] # "live"
  BY <1>1 DEF IInv, PassedInv
<1>3. CASE Right(m) /\ pc' = After[m] /\ object' = [object EXCEPT ![m] = "released"]
           /\ UNCHANGED <<ptr, held, history, reply>>
  <2> USE <1>0, <1>1, <1>3 DEF history
  <2>1. /\ \A k \in Members : object'[k] = IF k = m THEN "released" ELSE object[k]
        /\ object' \in [Members -> {"none", "live", "released"}]
        /\ object[m] = "live"
    BY DEF IInv, TypeOK, OwnershipTypeOK, Right
  <2>2. TypeOK'
    BY <2>1 DEF IInv, TypeOK, OwnershipTypeOK, Steps
  <2>3. SetInv'
    BY <2>1 DEF IInv, SetInv
  <2>4. CallInv'
    BY <2>1, MembersAre DEF IInv, CallInv, Inside
  <2>5. Passed[After[m]] \subseteq Members
    BY MembersAre, StepsAre DEF Passed, Releases, After
  <2>6. PassedInv'
    BY <1>2, <2>1, <2>5 DEF PassedInv
  <2>7. AheadInv'
    BY <2>1 DEF IInv, AheadInv, Inside, Confused, Retried
  <2>8. HeldInv'
    <3>1. connected
      BY DEF IInv, CallInv
    <3> QED BY <3>1 DEF IInv, HeldInv, One
  <2>9. LeakInv'
    BY <2>1, MembersAre DEF IInv, LeakInv, Kept
  <2>10. DependantsFirst'
    <3>1. CASE m = "pAdapter"
      <4>1. {"pQp", "pCq", "pConnector", "pListen", "pMw"} \subseteq Passed[pc]
        BY <3>1 DEF Passed
      <4> QED BY <3>1, <4>1, <1>2, <2>1, MembersAre DEF DependantsFirst
    <3>2. CASE m # "pAdapter"
      BY <3>2, <2>1, MembersAre DEF IInv, DependantsFirst
    <3> QED BY <3>1, <3>2
  <2>11. CleanupIsPaired' /\ MisusesAreKnown'
    BY DEF IInv, CleanupIsPaired, MisusesAreKnown
  <2>12. BalanceInv'
    <3>1. connected
      BY DEF IInv, CallInv
    <3> QED BY <3>1 DEF IInv, BalanceInv, Balanced, One
  <2> QED BY <2>2, <2>3, <2>4, <2>6, <2>7, <2>8, <2>9, <2>10, <2>11, <2>12 DEF IInv
<1>4. CASE Skipped(m) /\ GoesOn(After[m])
  <2>1. object[m] # "live"
    BY <1>1, <1>4 DEF IInv, SetInv, Skipped
  <2> QED BY <1>0, <1>1, <1>2, <1>4, <2>1, MovesOn DEF GoesOn
<1>5. CASE Misuse(m, After[m])
  <2>1. ~Right(m) => object[m] # "live"
    BY <1>1 DEF IInv, SetInv, Right
  <2> QED BY <1>0, <1>1, <1>2, <1>5, <2>1, MisusePreserves
<1> QED BY <1>3, <1>4, <1>5 DEF Release

LEMMA DisconnectPreserves ==
  ASSUME IInv, Disconnect
  PROVE  IInv'
<1>0. pc = "Disconnect" /\ UNCHANGED <<connected, calls>> /\ Inside /\ connected
  BY DEF Disconnect, Inside, IInv, CallInv
<1>1. /\ After[pc] = "pQp" /\ {"pQp", "Disconnecting"} \subseteq Steps
      /\ Passed["pQp"] = Passed[pc] /\ Passed["Disconnecting"] = Passed[pc]
      /\ Passed[pc] = {"pMw"}
  BY <1>0, StepsAre DEF Passed
<1>2. object["pMw"] # "live"
  BY <1>0, <1>1 DEF IInv, PassedInv
<1>3. CASE GoesOn(After[pc]) \/ GoesOn("Disconnecting")
  BY <1>0, <1>1, <1>2, <1>3, MovesOn DEF GoesOn
<1>4. CASE Refused("Disconnect")
  <2>1. /\ past' = past \union {"Disconnect"} /\ pc' = "idle" /\ reply' = "error"
        /\ UNCHANGED <<owned, abandoned, misused, connected, calls>>
    BY <1>0, <1>4 DEF Refused, Finish
  <2> USE <1>0, <2>1 DEF owned
  <2>2. TypeOK'
    BY DEF IInv, TypeOK, OwnershipTypeOK, Events
  <2>3. "set up" \in past /\ connected' = connected /\ connected'
    <3>1. connected' = connected
      BY Zenon
    <3>2. "set up" \in past
      BY DEF IInv, CallInv
    <3>3. connected
      BY <1>0
    <3>4. connected'
      BY <3>1, <3>3, Zenon
    <3> QED BY <3>1, <3>2, <3>4, Zenon
  <2>4. SetInv'
    BY DEF IInv, SetInv
  <2>5. HeldInv'
    BY <2>3 DEF IInv, HeldInv, One
  <2>6. LeakInv'
    BY <2>3 DEF IInv, LeakInv
  <2>7. CallInv' /\ PassedInv'
    BY <2>3 DEF IInv, CallInv, PassedInv, Inside
  <2>8. AheadInv'
    BY <1>1 DEF IInv, AheadInv, Confused, Retried, Passed
  <2>9. DependantsFirst' /\ CleanupIsPaired' /\ MisusesAreKnown'
    BY DEF IInv, DependantsFirst, CleanupIsPaired, MisusesAreKnown
  <2>10. BalanceInv'
    BY <2>3 DEF IInv, BalanceInv, Balanced, One
  <2> QED BY <2>2, <2>4, <2>5, <2>6, <2>7, <2>8, <2>9, <2>10 DEF IInv
<1>5. CASE Misuse("pConnector", After[pc])
  <2>1. "pConnector" \in Called /\ "pConnector" \notin Passed[pc]
    BY <1>1 DEF Called, Releases
  <2> QED BY <1>0, <1>1, <1>2, <1>5, <2>1, MisusePreserves
<1> QED BY <1>3, <1>4, <1>5 DEF Disconnect

LEMMA DeregisterPreserves ==
  ASSUME IInv, Deregister
  PROVE  IInv'
<1>0. pc = "Deregister" /\ UNCHANGED <<connected, calls>> /\ Inside
  BY DEF Deregister, Inside
<1>1. /\ After[pc] = "pAdapter" /\ "pAdapter" \in Steps
      /\ Passed["pAdapter"] = Passed[pc] /\ "pMr" \notin Passed[pc] /\ "pMr" \in Called
  BY <1>0, StepsAre DEF Passed, Called
<1>2. \A k \in Passed[pc] : object[k] # "live"
  BY <1>0 DEF IInv, PassedInv
<1>3. CASE GoesOn(After[pc])
  BY <1>0, <1>1, <1>2, <1>3, MovesOn DEF GoesOn
<1>4. CASE Misuse("pMr", After[pc])
  BY <1>0, <1>1, <1>2, <1>4, MisusePreserves
<1> QED BY <1>3, <1>4 DEF Deregister

LEMMA DisconnectedPreserves ==
  ASSUME IInv, Disconnected
  PROVE  IInv'
<1>1. pc = "Disconnecting" /\ GoesOn("pQp") /\ UNCHANGED <<connected, calls>> /\ Inside
  BY StepsAre DEF Disconnected, Inside
<1>2. "pQp" \in Steps /\ Passed["pQp"] = Passed[pc]
  BY <1>1, StepsAre DEF Passed
<1>3. \A k \in Passed[pc] : object[k] # "live"
  BY <1>1 DEF IInv, PassedInv
<1> QED BY <1>1, <1>2, <1>3, MovesOn DEF GoesOn
LEMMA CleanupPreserves ==
  ASSUME IInv, Cleanup
  PROVE  IInv'
<1>1. pc = "NdCleanup" /\ Inside /\ calls' = calls
  BY DEF Cleanup, Inside
<1>2. connected /\ "set up" \in past
  BY <1>1 DEF IInv, CallInv
<1>3. /\ held \in [Counted -> 0 .. MaxCalls] /\ calls \in 0 .. MaxCalls /\ MaxCalls \in Nat
      /\ Counted = {"wsa", "framework"}
  BY CallsAssumption DEF IInv, TypeOK, OwnershipTypeOK, Counted
<1>4. One(connected \/ object["pAdapter"] = "live") = 1 /\ One("pAdapter" \in abandoned) \in {0, 1}
  BY <1>2 DEF One
<1>5. held["wsa"] >= 1 /\ held["framework"] >= 1 + One("pAdapter" \in abandoned)
  BY <1>2, <1>3, <1>4 DEF IInv, HeldInv
<1>6. held["framework"] # 0
  BY <1>3, <1>4, <1>5
<1>7. /\ held' = [c \in Counted |-> held[c] - 1]
      /\ object' = [object EXCEPT !["ov"] = "released"]
      /\ connected' = FALSE /\ pc' = "idle" /\ reply' = "OK"
      /\ UNCHANGED <<ptr, abandoned, misused, past>>
  BY <1>6 DEF Cleanup, Finish, history
<1>8. /\ \A k \in Members : object'[k] = IF k = "ov" THEN "released" ELSE object[k]
      /\ object' \in [Members -> {"none", "live", "released"}]
  BY <1>7 DEF IInv, TypeOK, OwnershipTypeOK
<1>9. \A k \in Releases : object[k] # "live"
  BY <1>1 DEF IInv, PassedInv, Passed
<1>10. TypeOK'
  <2>1. held' \in [Counted -> 0 .. MaxCalls]
    BY <1>3, <1>4, <1>5, <1>7
  <2> QED BY <1>1, <1>7, <1>8, <2>1 DEF IInv, TypeOK, OwnershipTypeOK
<1>11. SetInv'
  <2>1. object["ov"] # "none" /\ "ov" \in Members
    BY MembersAre, <1>2 DEF IInv, CallInv
  <2> QED BY <1>2, <1>7, <1>8, <2>1 DEF IInv, SetInv
<1>12. CallInv' /\ PassedInv' /\ AheadInv'
  BY <1>7 DEF CallInv, PassedInv, AheadInv, Inside
<1>13. HeldInv'
  <2>1. object'["pAdapter"] # "live"
    BY <1>8, <1>9, MembersAre DEF Releases
  <2>2. One(connected' \/ object'["pAdapter"] = "live") = 0
    BY <1>7, <2>1 DEF One
  <2>3. One("pAdapter" \in abandoned') = One("pAdapter" \in abandoned)
    BY <1>7
  <2>4. held'["framework"] = held["framework"] - 1
    BY <1>3, <1>7
  <2>5. held'["framework"] >=
          One(connected' \/ object'["pAdapter"] = "live") + One("pAdapter" \in abandoned')
    BY <1>3, <1>4, <1>5, <2>2, <2>3, <2>4
  <2>6. \A c \in Counted : held'[c] <= calls'
    BY <1>1, <1>3, <1>7 DEF IInv, HeldInv
  <2> QED BY <1>7, <2>5, <2>6 DEF HeldInv
<1>14. LeakInv'
  <2>1. "ov" \in Members \ Kept /\ \A m \in Members \ Kept : m \in Releases \/ m = "ov"
    BY MembersAre DEF Kept, Releases
  <2>2. Kept \subseteq Members
    BY MembersAre DEF Kept
  <2> QED BY <1>7, <1>8, <1>9, <2>1, <2>2 DEF IInv, LeakInv
<1>15. DependantsFirst' /\ CleanupIsPaired' /\ MisusesAreKnown'
  BY <1>7, <1>8, MembersAre DEF IInv, DependantsFirst, CleanupIsPaired, MisusesAreKnown
<1>16. BalanceInv'
  <2> SUFFICES ASSUME Balanced'
               PROVE  /\ \A c \in Counted : held'[c] = 0
                      /\ abandoned' \subseteq Kept
                      /\ \A m \in Members \ Kept : object'[m] # "live"
    BY <1>7 DEF BalanceInv, One
  <2>1. Balanced
    BY <1>7 DEF Balanced
  <2>2. \A c \in Counted : held[c] = 1
    BY <1>2, <2>1 DEF IInv, BalanceInv, One
  <2>3. \A m \in Members \ Kept : m \in Releases \/ m = "ov"
    BY MembersAre DEF Kept, Releases
  <2>4. \A m \in Members \ Kept : object'[m] # "live"
    BY <1>8, <1>9, <2>3
  <2> QED BY <1>3, <1>7, <2>1, <2>2, <2>4 DEF IInv, BalanceInv
<1> QED BY <1>10, <1>11, <1>12, <1>13, <1>14, <1>15, <1>16 DEF IInv

LEMMA DestroyPreserves ==
  ASSUME IInv, DestroyConnection
  PROVE  IInv'
<1>1. /\ pc = "idle" /\ calls < MaxCalls /\ calls' = calls + 1
      /\ pc' \in {"idle", "pMw"} /\ reply' \in {reply, "OK"}
      /\ UNCHANGED <<ptr, object, held, abandoned, misused, past>>
  BY DEF DestroyConnection, Destroy, Finish, owned, history
<1>2. connected' = connected
  BY Zenon DEF DestroyConnection, Destroy
<1>3. pc' = "pMw" => connected
  BY DEF DestroyConnection, Destroy, Finish
<1>4. calls \in 0 .. MaxCalls /\ MaxCalls \in Nat /\ held \in [Counted -> 0 .. MaxCalls]
  BY CallsAssumption DEF IInv, TypeOK, OwnershipTypeOK
<1>5. TypeOK'
  <2>1. calls' \in 0 .. MaxCalls
    BY <1>1, <1>4
  <2>2. pc' \in DOMAIN After \union {"idle", "Disconnecting", "NdCleanup", "crashed"}
    BY <1>1 DEF After
  <2> QED BY <1>1, <1>2, <2>1, <2>2 DEF IInv, TypeOK, OwnershipTypeOK
<1>6. SetInv' /\ DependantsFirst' /\ CleanupIsPaired' /\ MisusesAreKnown'
  BY <1>1 DEF IInv, SetInv, DependantsFirst, CleanupIsPaired, MisusesAreKnown
<1>7. CallInv'
  <2>1. connected' => "set up" \in past' /\ object'["ov"] # "none"
    BY <1>1, <1>2 DEF IInv, CallInv
  <2>2. Inside' => connected'
    BY <1>1, <1>2, <1>3 DEF Inside
  <2> QED BY <2>1, <2>2 DEF CallInv
<1>8. PassedInv'
  BY <1>1 DEF PassedInv, Inside, Passed
<1>9. AheadInv'
  BY <1>1, <1>2 DEF IInv, AheadInv, Confused, Retried, Passed
<1>10. HeldInv'
  <2>1. \A c \in Counted : held'[c] <= calls'
    BY <1>1, <1>4 DEF IInv, HeldInv
  <2> QED BY <1>1, <1>2, <2>1 DEF IInv, HeldInv, One
<1>11. LeakInv' /\ BalanceInv'
  <2>1. LeakInv'
    BY <1>1, <1>2 DEF IInv, LeakInv
  <2>2. BalanceInv'
    BY <1>1, <1>2 DEF IInv, BalanceInv, Balanced, One
  <2> QED BY <2>1, <2>2
<1> QED BY <1>5, <1>6, <1>7, <1>8, <1>9, <1>10, <1>11 DEF IInv
LEMMA InitializePreserves ==
  ASSUME IInv, Initialize
  PROVE  IInv'
<1>1. pc = "idle" /\ calls < MaxCalls /\ calls' = calls + 1 /\ pc' = pc /\ misused' = misused
  BY DEF Initialize
<1>2. PICK n \in 0 .. Len(Makes) :
        LET made == Elements(SubSeq(Makes, 1, n)) IN
        /\ ptr' = [m \in Members |-> IF m \in made THEN "set" ELSE ptr[m]]
        /\ object' = [m \in Members |-> IF m \in made THEN "live"
                                       ELSE IF m \in Anew(made) THEN "none" ELSE object[m]]
        /\ held' = [c \in Counted |-> IF c \in made THEN held[c] + 1 ELSE held[c]]
        /\ connected' = (connected \/ {"pAdapter", "hAdapterFile"} \subseteq made)
        /\ abandoned' =
             abandoned \union {m \in Members \intersect Anew(made) : object[m] = "live"}
        /\ past' = past \union {"set up"}
                        \union (IF n < Len(Makes) THEN {"stopped"} ELSE {})
                        \union (IF "set up" \in past THEN {"reused"} ELSE {})
                        \union (IF made # {} /\ ~connected' THEN {"half open"} ELSE {})
                        \union (IF connected THEN {"still connected"} ELSE {})
        /\ reply' = IF n < Len(Makes) THEN "error" ELSE "OK"
  BY DEF Initialize
<1> DEFINE made == Elements(SubSeq(Makes, 1, n))
<1>3. /\ made \subseteq Elements(Makes)
      /\ n = Len(Makes) => made = Elements(Makes)
      /\ "pAdapter" \in made => Counted \subseteq made
      /\ "hAdapterFile" \in made => "ov" \in made
  BY Prefix
<1>4. /\ ptr' = [m \in Members |-> IF m \in made THEN "set" ELSE ptr[m]]
      /\ object' = [m \in Members |-> IF m \in made THEN "live" ELSE object[m]]
      /\ held' = [c \in Counted |-> IF c \in made THEN held[c] + 1 ELSE held[c]]
      /\ connected' = (connected \/ {"pAdapter", "hAdapterFile"} \subseteq made)
      /\ abandoned' = abandoned \union {m \in Members \intersect made : object[m] = "live"}
      /\ reply' \in {"OK", "error"}
  <2>1. \A m \in Members : m \in Anew(made) <=> m \in made
    BY MembersAre DEF Anew
  <2> HIDE DEF made
  <2>2. /\ object' = [m \in Members |-> IF m \in made THEN "live"
                                       ELSE IF m \in Anew(made) THEN "none" ELSE object[m]]
        /\ abandoned' =
             abandoned \union {m \in Members \intersect Anew(made) : object[m] = "live"}
    BY <1>2 DEF made
  <2>3. object' = [m \in Members |-> IF m \in made THEN "live" ELSE object[m]]
    BY <2>1, <2>2
  <2>4. abandoned' = abandoned \union {m \in Members \intersect made : object[m] = "live"}
    BY <2>1, <2>2
  <2> QED BY <1>2, <2>3, <2>4 DEF made
<1>5. /\ past \subseteq past' /\ "set up" \in past'
      /\ past' \subseteq past \union {"set up", "stopped", "reused", "half open",
                                      "still connected"}
      /\ "stopped" \in past' <=> "stopped" \in past \/ n # Len(Makes)
      /\ "reused" \in past' <=> "reused" \in past \/ "set up" \in past
      /\ made # {} /\ ~connected' => "half open" \in past'
      /\ connected => "still connected" \in past'
  <2>1. Len(Makes) = 13 /\ n \in 0 .. 13
    BY MakesAre
  <2>2. past' = past \union {"set up"}
                    \union (IF n < Len(Makes) THEN {"stopped"} ELSE {})
                    \union (IF "set up" \in past THEN {"reused"} ELSE {})
                    \union (IF made # {} /\ ~connected' THEN {"half open"} ELSE {})
                    \union (IF connected THEN {"still connected"} ELSE {})
    BY <1>2
  <2>3. n < Len(Makes) <=> n # Len(Makes)
    BY <2>1
  <2> QED BY <2>2, <2>3
<1> HIDE DEF made
<1>6. /\ calls \in 0 .. MaxCalls /\ MaxCalls \in Nat /\ held \in [Counted -> 0 .. MaxCalls]
      /\ \A c \in Counted : held[c] <= calls
      /\ Counted = {"wsa", "framework"}
  BY CallsAssumption DEF IInv, TypeOK, OwnershipTypeOK, HeldInv, Counted
<1>7. \A c \in Counted : held'[c] \in 0 .. calls' /\ held'[c] >= held[c]
  BY <1>1, <1>4, <1>6
<1>8. TypeOK'
  <2>1. ptr' \in [Members -> {"garbage", "null", "set"}]
    BY <1>4 DEF IInv, TypeOK, OwnershipTypeOK
  <2>2. object' \in [Members -> {"none", "live", "released"}]
    BY <1>4 DEF IInv, TypeOK, OwnershipTypeOK
  <2>3. held' \in [Counted -> 0 .. MaxCalls] /\ calls' \in 0 .. MaxCalls
    BY <1>1, <1>4, <1>6, <1>7
  <2>4. connected' \in BOOLEAN
    BY <1>4
  <2>5. abandoned' \subseteq Members /\ past' \subseteq Events
    BY <1>4, <1>5 DEF IInv, TypeOK, OwnershipTypeOK, Events
  <2> QED BY <1>1, <1>4, <2>1, <2>2, <2>3, <2>4, <2>5 DEF IInv, TypeOK, OwnershipTypeOK
<1>9. n = Len(Makes) => \A m \in Members : object'[m] = "live"
  BY <1>3, <1>4 DEF Members
<1>10. SetInv'
  <2>1. \A m \in Members : ptr'[m] = "set" <=> object'[m] # "none"
    BY <1>4 DEF IInv, SetInv
  <2>2. \A m \in Members : ptr'[m] = "garbage" => m \in {"pListen", "Sgl", "Results_Server"}
    BY <1>4 DEF IInv, SetInv
  <2>3. "stopped" \notin past' => \A m \in Members : object'[m] # "none"
    BY <1>5, <1>9
  <2> QED BY <1>5, <2>1, <2>2, <2>3 DEF SetInv
<1>11. CallInv'
  <2>1. connected => object'["ov"] # "none"
    BY <1>4, MembersAre DEF IInv, CallInv
  <2>2. {"pAdapter", "hAdapterFile"} \subseteq made => object'["ov"] # "none"
    BY <1>3, <1>4, MembersAre
  <2>3. connected' => object'["ov"] # "none"
    BY <1>4, <2>1, <2>2
  <2> QED BY <1>1, <1>5, <2>3 DEF CallInv, Inside
<1>12. PassedInv'
  BY <1>1 DEF PassedInv, Inside
<1>13. ~Confused' => \A m \in Members : object'[m] # "released"
  <2>1. SUFFICES ASSUME ~Confused', NEW m \in Members PROVE object'[m] # "released"
    OBVIOUS
  <2>2. CASE "stopped" \notin past'
    BY <2>2, <1>5, <1>9
  <2>3. CASE "reused" \notin past'
    <3>1. object[m] = "none"
      BY <2>3, <1>5 DEF IInv, SetInv
    <3> QED BY <3>1, <1>4
  <2> QED BY <2>1, <2>2, <2>3 DEF Confused
<1>14. AheadInv'
  BY <1>13 DEF AheadInv
<1>15. HeldInv'
  <2> DEFINE live == object["pAdapter"] = "live"
             ab == "pAdapter" \in abandoned
  <2>1. held["framework"] >= One(connected \/ live) + One(ab) /\ held["framework"] \in Nat
    BY <1>6 DEF IInv, HeldInv
  <2>2. connected' => held'["wsa"] >= 1
    <3>1. connected => held["wsa"] >= 1
      BY DEF IInv, HeldInv
    <3>2. {"pAdapter", "hAdapterFile"} \subseteq made => held'["wsa"] >= 1
      BY <1>3, <1>4, <1>6
    <3>3. connected => held'["wsa"] >= 1
      BY <3>1, <1>6, <1>7
    <3> QED BY <3>2, <3>3, <1>4
  <2>3. held'["framework"] >=
          One(connected' \/ object'["pAdapter"] = "live") + One("pAdapter" \in abandoned')
    <3>1. CASE "pAdapter" \in made
      <4>1. held'["framework"] = held["framework"] + 1
        BY <3>1, <1>3, <1>4, <1>6
      <4>2. "pAdapter" \in abandoned' <=> ab \/ live
        BY <3>1, <1>4, MembersAre
      <4>3. held["framework"] >= One("pAdapter" \in abandoned')
        BY <2>1, <4>2 DEF One
      <4> QED BY <2>1, <4>1, <4>3 DEF One
    <3>2. CASE "pAdapter" \notin made
      <4>1. object'["pAdapter"] = object["pAdapter"]
        BY <3>2, <1>4, MembersAre
      <4>2. "pAdapter" \in abandoned' <=> ab
        BY <3>2, <1>4
      <4>3. connected' = connected
        BY <3>2, <1>4 DEF IInv, TypeOK, OwnershipTypeOK
      <4>4. held'["framework"] >= held["framework"] /\ held'["framework"] \in Nat
        BY <1>1, <1>6, <1>7
      <4> QED BY <2>1, <4>1, <4>2, <4>3, <4>4 DEF One
    <3> QED BY <3>1, <3>2
  <2>4. \A c \in Counted : held'[c] <= calls'
    BY <1>1, <1>6, <1>7
  <2> QED BY <2>2, <2>3, <2>4 DEF HeldInv
<1>16. LeakInv'
  <2>1. \A m \in Kept : object'[m] # "released"
    BY <1>4, MembersAre DEF IInv, LeakInv, Kept
  <2>2. "stopped" \notin past' => connected'
    <3>1. "stopped" \notin past' => {"pAdapter", "hAdapterFile"} \subseteq made
      BY <1>3, <1>5, MembersAre DEF Members
    <3> QED BY <3>1, <1>4
  <2> QED BY <2>1, <2>2 DEF LeakInv
<1>17. DependantsFirst'
  <2>1. SUFFICES ASSUME object'["pAdapter"] = "released", "reused" \notin past' PROVE FALSE
    BY DEF DependantsFirst
  <2>2. ~Confused' /\ "pAdapter" \in Members
    BY <2>1, MembersAre DEF Confused
  <2> QED BY <2>1, <2>2, <1>13
<1>18. CleanupIsPaired'
  BY <1>5 DEF IInv, CleanupIsPaired
<1>19. MisusesAreKnown'
  BY <1>1, <1>5 DEF IInv, MisusesAreKnown
<1>20. BalanceInv'
  <2> SUFFICES ASSUME Balanced'
               PROVE  /\ \A c \in Counted : held'[c] = One(connected')
                      /\ abandoned' \subseteq Kept
                      /\ ~connected' => \A m \in Members \ Kept : object'[m] # "live"
    BY DEF BalanceInv
  <2>1. Balanced /\ ~connected /\ (made = {} \/ connected')
    BY <1>5 DEF Balanced
  <2>2. /\ \A c \in Counted : held[c] = 0
        /\ abandoned \subseteq Kept
        /\ \A m \in Members \ Kept : object[m] # "live"
    BY <2>1 DEF IInv, BalanceInv, One
  <2>3. abandoned' \subseteq Kept
    BY <1>4, <2>2
  <2>4. CASE made = {}
    <3>1. /\ ~connected' /\ \A c \in Counted : held'[c] = 0
          /\ \A m \in Members : object'[m] = object[m]
      BY <1>4, <2>1, <2>2, <2>4
    <3> QED BY <2>2, <2>3, <3>1 DEF One
  <2>5. CASE connected'
    <3>1. "pAdapter" \in made
      BY <1>4, <2>1, <2>5
    <3>2. \A c \in Counted : held'[c] = 1
      BY <1>3, <1>4, <2>2, <3>1
    <3> QED BY <2>3, <2>5, <3>2 DEF One
  <2> QED BY <2>1, <2>4, <2>5
<1> QED
  BY <1>8, <1>10, <1>11, <1>12, <1>14, <1>15, <1>16, <1>17, <1>18, <1>19, <1>20 DEF IInv
LEMMA Step == IInv /\ [Next]_vars => IInv'
<1> SUFFICES ASSUME IInv, [Next]_vars PROVE IInv'
  OBVIOUS
<1>1. ASSUME ReleaseOne PROVE IInv'
  BY <1>1, ReleasePreserves DEF ReleaseOne
<1>2. ASSUME UNCHANGED vars PROVE IInv'
  <2>1. UNCHANGED <<ptr, object, held, pc, reply, calls, abandoned, misused, past>>
    BY <1>2 DEF vars, owned, history
  <2>2. connected' = connected
    BY <1>2, Zenon DEF vars
  <2> USE <2>1, <2>2
  <2>3. TypeOK' /\ SetInv' /\ CallInv' /\ PassedInv'
    BY DEF IInv, TypeOK, OwnershipTypeOK, SetInv, CallInv, PassedInv, Inside
  <2>4. AheadInv' /\ HeldInv' /\ LeakInv'
    BY DEF IInv, AheadInv, HeldInv, LeakInv, Confused, Retried, One
  <2>5. DependantsFirst' /\ CleanupIsPaired' /\ MisusesAreKnown'
    BY DEF IInv, DependantsFirst, CleanupIsPaired, MisusesAreKnown
  <2>6. BalanceInv'
    BY DEF IInv, BalanceInv, Balanced, One
  <2> QED BY <2>3, <2>4, <2>5, <2>6 DEF IInv
<1> QED
  BY <1>1, <1>2, InitializePreserves, DestroyPreserves, DisconnectPreserves,
     DisconnectedPreserves, DeregisterPreserves, CleanupPreserves DEF Next, Work

LEMMA Strengthened == Spec => []IInv
BY Start, Step, PTL DEF Spec

-----------------------------------------------------------------------------
(* The types of the state (RDMAServer.cpp, 436-486).                        *)
THEOREM Typing == Spec => []TypeOK
<1>1. IInv => TypeOK
  BY DEF IInv
<1> QED BY <1>1, Strengthened, PTL

(* What is made from the adapter goes before it, the framework is kept as   *)
(* long as an adapter that came from it, and NdCleanup is never refused.    *)
THEOREM Invariance == Spec => []Inv
<1>1. IInv => FrameworkOutlivesAdapter
  <2> SUFFICES ASSUME IInv, held["framework"] = 0
               PROVE  object["pAdapter"] # "live" /\ "pAdapter" \notin abandoned
    BY DEF FrameworkOutlivesAdapter
  <2>1. 0 >= One(connected \/ object["pAdapter"] = "live") + One("pAdapter" \in abandoned)
    BY DEF IInv, HeldInv
  <2> QED BY <2>1 DEF One
<1>2. IInv => Inv
  BY <1>1 DEF IInv, Inv
<1> QED BY <1>2, Strengthened, PTL

(* The uses of a member that is not set, or of one that was released, are   *)
(* the known ones, however often the methods are called (440-471).          *)
THEOREM UsesAreKnown == Spec => []MisusesAreKnown
<1>1. IInv => MisusesAreKnown
  BY DEF IInv
<1> QED BY <1>1, Strengthened, PTL

(* What a DestroyConnection leaves when it returns OK (436-486).            *)
THEOREM LeaksAreKnown == Spec => []OnlyKnownLeaks
<1>1. IInv => OnlyKnownLeaks
  <2> SUFFICES ASSUME IInv, ~connected, object["pListen"] # "none",
                      "stopped" \notin past
               PROVE  {m \in Members : object[m] = "live"} = Kept
    BY DEF OnlyKnownLeaks, Kept
  <2>1. "pListen" \in Members /\ Kept \subseteq Members
    BY MembersAre DEF Kept
  <2>2. "set up" \in past
    BY <2>1 DEF IInv, SetInv
  <2>3. \A m \in Kept : object[m] = "live"
    BY <2>1, <2>2 DEF IInv, TypeOK, OwnershipTypeOK, SetInv, LeakInv
  <2>4. \A m \in Members \ Kept : object[m] # "live"
    BY <2>2 DEF IInv, LeakInv
  <2> QED BY <2>1, <2>3, <2>4
<1> QED BY <1>1, Strengthened, PTL

(* Everything but what is never released is given back by whatever sequence *)
(* of setups and teardowns, stopped and refused ones included, as long as   *)
(* no setup stops half open or meets a connected server (436-486).          *)
THEOREM GivesAllBack == Spec => []AllGivenBack
<1>1. IInv => AllGivenBack
  <2> SUFFICES ASSUME IInv, ~connected, {"half open", "still connected"} \intersect past = {}
               PROVE  /\ held = [c \in Counted |-> 0]
                      /\ {m \in Members : object[m] = "live"} \union abandoned \subseteq
                           {"pMr", "hAdapterFile", "Sgl"}
    BY DEF AllGivenBack
  <2>1. /\ \A c \in Counted : held[c] = 0
        /\ abandoned \subseteq Kept
        /\ \A m \in Members \ Kept : object[m] # "live"
    BY DEF IInv, BalanceInv, Balanced, One
  <2>2. held \in [Counted -> 0 .. MaxCalls]
    BY DEF IInv, TypeOK, OwnershipTypeOK
  <2> QED BY <2>1, <2>2 DEF Kept
<1> QED BY <1>1, Strengthened, PTL
=============================================================================
