--------------------------- MODULE NdRegistryProofs ---------------------------
(* Proofs about NdRegistry for every set of callers, of providers and of     *)
(* faults, and any number of changes.                                        *)
EXTENDS NdRegistry, FiniteSetTheorems, TLAPS

LEMMA CatalogCounted ==
  ASSUME TypeOK
  PROVE  Cardinality(catalog) \in Nat
  BY RegistryAssumption, FS_Subset, FS_CardinalityType DEF TypeOK

LEMMA InitInv == Init => Inv
  <1> SUFFICES ASSUME Init PROVE Inv
    OBVIOUS
  <1> USE RegistryAssumption DEF Init
  <1>1. TypeOK
    BY DEF TypeOK, Keys
  <1>2. HandInv
    BY DEF HandInv, InLock, Keys, Iids
  <1>3. CurrentInv
    BY DEF CurrentInv, Keys
  <1>4. ListedAreActive /\ CodeStaysLoaded
    BY DEF ListedAreActive, CodeStaysLoaded
  <1> QED BY <1>1, <1>2, <1>3, <1>4 DEF Inv

(* The system: a change sends the packet of a request that waits, so that   *)
(* nothing is claimed of the lists any more.                                *)
LEMMA SystemStep == Inv /\ System => Inv'
  <1> SUFFICES ASSUME Inv, System PROVE Inv'
    OBVIOUS
  <1>1. CASE CatalogChanges
    <2> USE <1>1, RegistryAssumption DEF Inv, CatalogChanges, Notify, lists, code, locals, history
    <2>1. TypeOK'
      BY DEF TypeOK, Keys
    <2>2. HandInv'
      BY DEF HandInv, TypeOK, Keys, OfVersion
    <2>3. CurrentInv'
      BY DEF CurrentInv, TypeOK, Keys
    <2> QED BY <2>1, <2>2, <2>3 DEF ListedAreActive, CodeStaysLoaded
  <1>2. CASE AddressesChange
    <2> USE <1>2, RegistryAssumption DEF Inv, AddressesChange, Notify, lists, code, locals, history
    <2>1. TypeOK'
      BY DEF TypeOK, Keys
    <2>2. HandInv'
      BY DEF HandInv, TypeOK, Keys, OfVersion
    <2>3. CurrentInv'
      BY DEF CurrentInv, TypeOK, Keys
    <2> QED BY <2>1, <2>2, <2>3 DEF ListedAreActive, CodeStaysLoaded
  <1>3. ASSUME NEW k \in Keys, RequestFails(k) PROVE Inv'
    <2> USE <1>3 DEF Inv, RequestFails, Lose, system, lists, code, locals, history
    <2>1. TypeOK'
      BY DEF TypeOK, Keys
    <2>2. HandInv'
      BY DEF HandInv, TypeOK, Keys, OfVersion
    <2>3. CurrentInv'
      BY DEF CurrentInv
    <2> QED BY <2>1, <2>2, <2>3 DEF ListedAreActive, CodeStaysLoaded
  <1>4. ASSUME NEW p \in Providers, CloseAdapter(p) PROVE Inv'
    <2> USE <1>4 DEF Inv, CloseAdapter, system, lists, code, locals, history
    <2>1. TypeOK' /\ HandInv' /\ CurrentInv'
      BY DEF TypeOK, HandInv, CurrentInv, OfVersion
    <2> QED BY <2>1 DEF ListedAreActive, CodeStaysLoaded
  <1> QED BY <1>1, <1>2, <1>3, <1>4 DEF System

LEMMA TakeStep ==
  ASSUME Inv, NEW t \in Threads,
         \/ Call(t) \/ NothingQueued(t)
         \/ \E k \in Keys : Take(t, k) \/ TakeFailed(t, k)
  PROVE  Inv'
  <1> USE DEF Inv, Call, Take, TakeFailed, NothingQueued, Goto, system, lists, code, locals, history
  <1>1. TypeOK'
    BY DEF TypeOK, Keys
  <1>2. HandInv'
    BY DEF HandInv, TypeOK, Keys, InLock, Iids, OfVersion
  <1>3. CurrentInv'
    BY DEF CurrentInv, TypeOK, Keys
  <1> QED BY <1>1, <1>2, <1>3 DEF ListedAreActive, CodeStaysLoaded

(* The lock is taken and the request issued again. *)
LEMMA ChangeStep == ASSUME Inv, NEW t \in Threads, Change(t) PROVE Inv'
  <1>1. CASE ProviderChange(t)
    <2> USE <1>1 DEF Inv, ProviderChange, Rearm, Goto, Lose, system, lists, code, locals, history
    <2>1. TypeOK'
      BY DEF TypeOK, Keys, InLock
    <2>2. HandInv'
      BY DEF HandInv, TypeOK, Free, Keys, InLock, Iids, OfVersion
    <2>3. CurrentInv'
      BY DEF CurrentInv, TypeOK, Free, Keys, InLock
    <2> QED BY <2>1, <2>2, <2>3 DEF ListedAreActive, CodeStaysLoaded
  <1>2. CASE AddressChange(t)
    <2> USE <1>2 DEF Inv, AddressChange, StartAddresses, Rearm, Goto, Lose, system, code
    <2>1. TypeOK'
      BY DEF TypeOK, Keys, InLock
    <2>2. HandInv'
      BY DEF HandInv, TypeOK, Free, Keys, InLock, Iids, OfVersion
    <2>3. CurrentInv'
      BY DEF CurrentInv, TypeOK, Free, Keys, InLock
    <2> QED BY <2>1, <2>2, <2>3 DEF ListedAreActive, CodeStaysLoaded
  <1> QED BY <1>1, <1>2 DEF Change

LEMMA CatalogStep ==
  ASSUME Inv, NEW t \in Threads,
         Probe(t) \/ GiveUp(t) \/ Outgrown(t) \/ Enumerate(t) \/ EnumerateThrows(t)
  PROVE  Inv'
  <1>0. Cardinality(catalog) \in Nat
    BY CatalogCounted DEF Inv
  <1>a. pc[t] \in {"probe", "enumerate"} /\ \A u \in Threads \ {t} : pc[u] \notin InLock
    BY DEF Inv, HandInv, InLock, Probe, GiveUp, Outgrown, Enumerate, EnumerateThrows, Goto
  <1>1. CASE Probe(t)
    <2> USE <1>1, <1>0 DEF Inv, Probe, Goto, system, lists, code, history
    <2>1. TypeOK'
      BY DEF TypeOK, InLock
    <2>2. HandInv'
      BY DEF HandInv, TypeOK, InLock, Iids, Keys, OfVersion
    <2>3. CurrentInv'
      BY DEF CurrentInv, TypeOK
    <2> QED BY <2>1, <2>2, <2>3 DEF ListedAreActive, CodeStaysLoaded
  <1>2. CASE GiveUp(t)
    <2> USE <1>2 DEF Inv, GiveUp, Goto, Lose, system, lists, code, locals, history
    <2>1. TypeOK'
      BY DEF TypeOK, InLock
    <2>2. HandInv'
      BY DEF HandInv, TypeOK, InLock, Iids, Keys, OfVersion
    <2>3. CurrentInv'
      BY DEF CurrentInv
    <2> QED BY <2>1, <2>2, <2>3 DEF ListedAreActive, CodeStaysLoaded
  <1>3. CASE Outgrown(t)
    <2> USE <1>3, <1>0 DEF Inv, Outgrown, Goto, system, lists, code, history
    <2>1. TypeOK'
      BY DEF TypeOK, InLock
    <2>2. HandInv'
      BY DEF HandInv, TypeOK, InLock, Iids, Keys, OfVersion
    <2>3. lost = "nothing" => note["provider"] # "armed"
      BY DEF CurrentInv, TypeOK
    <2>4. CurrentInv'
      BY <2>3 DEF CurrentInv, TypeOK
    <2> QED BY <2>1, <2>2, <2>4 DEF ListedAreActive, CodeStaysLoaded
  <1>4. CASE Enumerate(t)
    <2> USE <1>4, <1>a DEF Inv, Enumerate, StartAddresses, Goto, Lose, system, code
    <2>1. TypeOK'
      BY DEF TypeOK, InLock
    <2>2. HandInv'
      BY DEF HandInv, TypeOK, InLock, Iids, Keys, OfVersion
    <2>3. CurrentInv'
      BY DEF CurrentInv, TypeOK, InLock
    <2>4. (listed \subseteq active /\ active \subseteq providers)'
      BY DEF TypeOK
    <2>5. "memory" \notin Faults => CodeStaysLoaded'
      BY DEF CodeStaysLoaded
    <2> QED BY <2>1, <2>2, <2>3, <2>4, <2>5 DEF ListedAreActive
  <1>5. CASE EnumerateThrows(t)
    <2> USE <1>5 DEF Inv, EnumerateThrows, Goto, Lose, system, code
    <2>1. TypeOK'
      BY DEF TypeOK, InLock
    <2>2. HandInv'
      BY DEF HandInv, TypeOK, InLock, Iids, Keys, OfVersion
    <2>3. CurrentInv'
      BY DEF CurrentInv
    <2> QED BY <2>1, <2>2, <2>3 DEF ListedAreActive, CodeStaysLoaded
  <1> QED BY <1>1, <1>2, <1>3, <1>4, <1>5

LEMMA AddressStep ==
  ASSUME Inv, NEW t \in Threads,
         \/ \E p \in Providers : Query(t, p) \/ QuerySkips(t, p) \/ QueryThrows(t, p)
         \/ AskedAll(t)
  PROVE  Inv'
  <1>a. pc[t] = "query" /\ \A u \in Threads \ {t} : pc[u] \notin InLock
    BY DEF Inv, HandInv, InLock, Query, QuerySkips, QueryThrows, AskedAll, Goto
  <1>1. ASSUME NEW p \in Providers, Query(t, p) PROVE Inv'
    <2> USE <1>1 DEF Inv, Query, Unloaded, system, history
    <2>1. TypeOK'
      BY DEF TypeOK
    <2>2. HandInv'
      BY <1>a DEF HandInv, TypeOK, InLock, Iids, OfVersion
    <2>3. CurrentInv'
      BY DEF CurrentInv, HandInv
    <2> QED BY <2>1, <2>2, <2>3 DEF ListedAreActive, CodeStaysLoaded, HandInv
  <1>2. ASSUME NEW p \in Providers, QuerySkips(t, p) PROVE Inv'
    <2> USE <1>2 DEF Inv, QuerySkips, Unloaded, Lose, system, lists
    <2>1. TypeOK'
      BY DEF TypeOK
    <2>2. HandInv'
      BY <1>a DEF HandInv, TypeOK, InLock, Iids, OfVersion
    <2>3. CurrentInv'
      BY DEF CurrentInv, HandInv
    <2> QED BY <2>1, <2>2, <2>3 DEF ListedAreActive, CodeStaysLoaded, HandInv
  <1>3. CASE AskedAll(t)
    <2> USE <1>3 DEF Inv, AskedAll, Goto, system, lists, code, locals, history
    <2>1. TypeOK'
      BY DEF TypeOK, InLock
    <2>2. HandInv'
      BY DEF HandInv, TypeOK, InLock, Iids, Keys, OfVersion
    <2>3. CurrentInv'
      BY <1>a DEF CurrentInv, TypeOK, InLock
    <2> QED BY <2>1, <2>2, <2>3 DEF ListedAreActive, CodeStaysLoaded
  <1>4. ASSUME NEW p \in Providers, QueryThrows(t, p) PROVE Inv'
    <2> USE <1>4 DEF Inv, QueryThrows, Unloaded, Goto, Lose, system
    <2>1. TypeOK'
      BY DEF TypeOK, InLock
    <2>2. HandInv'
      BY <1>a DEF HandInv, TypeOK, InLock, Iids, Keys, OfVersion
    <2>3. CurrentInv'
      BY DEF CurrentInv
    <2> QED BY <2>1, <2>2, <2>3 DEF ListedAreActive, CodeStaysLoaded
  <1> QED BY <1>1, <1>2, <1>3, <1>4

LEMMA FlushStep ==
  ASSUME Inv, NEW t \in Threads, Flush(t) \/ FlushProvidersForUser(t)
  PROVE  Inv'
  <1> USE DEF Inv, Flush, FlushProvidersForUser, FlushProviders, Goto, system, locals, history
  <1>1. TypeOK'
    BY DEF TypeOK, InLock
  <1>2. HandInv'
    BY DEF HandInv, TypeOK, InLock, Iids, Keys, OfVersion
  <1>3. CurrentInv'
    BY DEF CurrentInv, TypeOK
  <1> QED BY <1>1, <1>2, <1>3 DEF ListedAreActive, CodeStaysLoaded, TypeOK

LEMMA LookUpStep == ASSUME Inv, NEW t \in Threads, LookUp(t) PROVE Inv'
  <1>1. CASE Answer(t)
    <2> USE <1>1 DEF Inv, Answer, Goto, system, lists, code, locals, history
    <2>1. TypeOK' /\ HandInv' /\ CurrentInv'
      BY DEF TypeOK, HandInv, CurrentInv, InLock, Iids, Keys, OfVersion
    <2> QED BY <2>1 DEF ListedAreActive, CodeStaysLoaded
  <1>2. ASSUME NEW i \in Iids, OpenAdapter(t, i) PROVE Inv'
    <2> USE <1>2 DEF Inv, OpenAdapter, Goto, system, lists, code
    <2>1. TypeOK'
      BY DEF TypeOK, InLock
    <2>2. HandInv'
      BY DEF HandInv, TypeOK, Free, InLock, Iids, Keys, OfVersion
    <2>3. CurrentInv'
      BY DEF CurrentInv, TypeOK, Free, InLock, Iids
    <2> QED BY <2>1, <2>2, <2>3 DEF ListedAreActive, CodeStaysLoaded
  <1> QED BY <1>1, <1>2 DEF LookUp

LEMMA OpenStep == ASSUME Inv, NEW t \in Threads, Opening(t) PROVE Inv'
  <1>a. pc[t] \in Iids /\ \A u \in Threads \ {t} : pc[u] \notin InLock
    BY DEF Inv, HandInv, InLock, Opening, Opens, Refuses, InvalidAddress
  <1> USE DEF Inv, Goto, Unloaded, system, lists, code, locals
  <1>1. ASSUME NEW p \in Providers, Opens(t, p) PROVE Inv'
    <2> USE <1>1 DEF Opens
    <2>0. p \in listed
      BY <1>a DEF HandInv
    <2>1. TypeOK'
      BY DEF TypeOK, InLock
    <2>2. HandInv'
      BY <1>a DEF HandInv, TypeOK, InLock, Iids, Keys, OfVersion
    <2>3. CurrentInv'
      BY <1>a DEF CurrentInv, TypeOK, InLock, Iids
    <2> QED BY <2>0, <2>1, <2>2, <2>3 DEF ListedAreActive, CodeStaysLoaded
  <1>2. ASSUME NEW p \in Providers, Refuses(t, p) PROVE Inv'
    <2> USE <1>2 DEF Refuses
    <2>1. TypeOK'
      BY DEF TypeOK
    <2>2. HandInv'
      BY <1>a DEF HandInv, TypeOK, InLock, Iids, Keys, OfVersion
    <2>3. CurrentInv'
      BY <1>a DEF CurrentInv, InLock, Iids
    <2> QED BY <2>1, <2>2, <2>3 DEF ListedAreActive, CodeStaysLoaded
  <1>3. CASE InvalidAddress(t)
    <2> USE <1>3 DEF InvalidAddress
    <2>1. TypeOK'
      BY DEF TypeOK, InLock
    <2>2. HandInv'
      BY <1>a DEF HandInv, TypeOK, InLock, Iids, Keys, OfVersion
    <2>3. CurrentInv'
      BY <1>a DEF CurrentInv, TypeOK, InLock, Iids
    <2> QED BY <2>1, <2>2, <2>3 DEF ListedAreActive, CodeStaysLoaded
  <1> QED BY <1>1, <1>2, <1>3 DEF Opening

(* The inductive invariant of the registry (193-498, 609-906). *)
THEOREM Invariance == Spec => []Inv
  <1>1. Inv /\ [Next]_vars => Inv'
    <2> SUFFICES ASSUME Inv, [Next]_vars PROVE Inv'
      OBVIOUS
    <2>1. CASE UNCHANGED vars
      BY <2>1 DEF vars, system, lists, code, locals, history, Inv, TypeOK, HandInv, CurrentInv,
         ListedAreActive, CodeStaysLoaded, OfVersion
    <2>2. CASE Next
      BY <2>2, SystemStep, TakeStep, ChangeStep, CatalogStep, AddressStep, FlushStep, LookUpStep,
         OpenStep DEF Next, Updating
    <2> QED BY <2>1, <2>2
  <1> QED BY InitInv, <1>1, PTL DEF Spec

(* Type correctness. *)
THEOREM Typing == Spec => []TypeOK
  BY Invariance, PTL DEF Inv

(* Without an exception in the middle of an update, no address is left with *)
(* a deleted provider, whatever else fails.                                 *)
THEOREM NoDanglingProvider == "memory" \notin Faults /\ Spec => []AddressesHaveProviders
  <1> SUFFICES ASSUME "memory" \notin Faults PROVE Spec => []AddressesHaveProviders
    OBVIOUS
  <1>1. Inv => AddressesHaveProviders
    BY DEF Inv, ListedAreActive, AddressesHaveProviders
  <1> QED BY <1>1, Invariance, PTL

(* The registry follows the system for any number of changes. *)
THEOREM Current == Spec => []NothingIsMissed
  <1>1. Inv => NothingIsMissed
    BY DEF Inv, CurrentInv, Free, InLock, Keys, NothingIsMissed
  <1> QED BY <1>1, Invariance, PTL

(* The DLL of a live adapter stays loaded, and its provider known. *)
THEOREM LoadedWhileInUse == "memory" \notin Faults /\ Spec => []CodeStaysLoaded
  <1> SUFFICES ASSUME "memory" \notin Faults PROVE Spec => []CodeStaysLoaded
    OBVIOUS
  <1>1. Inv => CodeStaysLoaded
    BY DEF Inv
  <1> QED BY <1>1, Invariance, PTL

(* An address is refused only after every provider of it was tried. *)
THEOREM AllAreTried == Spec => AnotherProviderIsTried
  <1>1. ASSUME Inv, NEW t \in Threads, InvalidAddress(t)
        PROVE  listed \cap OfVersion(pc[t]) \subseteq refused
    BY <1>1 DEF Inv, HandInv, InvalidAddress
  <1>2. Inv => [\A t \in Threads : InvalidAddress(t) => listed \cap OfVersion(pc[t]) \subseteq refused]_vars
    BY <1>1
  <1> QED BY <1>2, Invariance, PTL DEF AnotherProviderIsTried
==============================================================================
