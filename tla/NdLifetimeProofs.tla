--------------------------- MODULE NdLifetimeProofs ---------------------------
(* Proofs about NdLifetime for every finite set of callers, paired or not,   *)
(* and every set of faults.                                                  *)
EXTENDS NdLifetime, FiniteSetTheorems, TLAPS

(* What the thread in the lock may assume of the others. *)
LEMMA Alone ==
  ASSUME Inv, NEW t \in Threads, InLock(t)
  PROVE  /\ gInitializing = 1
         /\ \A u \in Threads \ {t} : pc[u] \in {"idle", "tested", "inside"}
  BY DEF Inv, TypeOK, LockInv, OneInLock, InLock

(* Counting a caller that was not counted, and dropping one that was. *)
LEMMA Counting ==
  ASSUME TypeOK, NEW t \in Threads
  PROVE  /\ Cardinality(holders) \in Nat
         /\ Cardinality(holders) = 0 <=> holders = {}
         /\ t \notin holders => Cardinality(holders \cup {t}) = Cardinality(holders) + 1
         /\ t \in holders => Cardinality(holders \ {t}) = Cardinality(holders) - 1
  <1>1. IsFiniteSet(holders)
    BY LifetimeAssumption, FS_Subset DEF TypeOK
  <1> QED BY <1>1, FS_CardinalityType, FS_EmptySet, FS_AddElement, FS_RemoveElement

LEMMA InitInv == Init => Inv
  <1> SUFFICES ASSUME Init PROVE Inv
    OBVIOUS
  <1> USE DEF Init
  <1>1. TypeOK /\ LockInv
    BY DEF TypeOK, LockInv, OneInLock, InLock, Locked
  <1>2. StateInv
    BY DEF StateInv, Settled, Unsettled
  <1>3. HolderInv
    BY FS_EmptySet DEF HolderInv
  <1> QED BY <1>1, <1>2, <1>3 DEF Inv

LEMMA EnterStep ==
  ASSUME Inv, NEW t \in Threads, EnterStartup(t) \/ EnterCleanup(t)
  PROVE  Inv'
  <1>1. PICK to \in {"startup", "cleanup"} :
          /\ Acquire(t, to)
          /\ to = "startup" => t \notin holders
          /\ to = "startup" => UNCHANGED paired
          /\ to = "cleanup" => paired' = (paired /\ t \in holders)
    BY DEF EnterStartup, EnterCleanup, MayBreak
  <1> USE <1>1 DEF Inv, TypeOK, Acquire, Goto
  <1>2. TypeOK'
    BY DEF Locked
  <1>3. LockInv'
    BY DEF LockInv, OneInLock, InLock, Locked
  <1>4. StateInv'
    BY DEF StateInv, Settled, Unsettled
  <1>5. HolderInv'
    BY DEF HolderInv
  <1> QED BY <1>2, <1>3, <1>4, <1>5 DEF Inv

LEMMA UnlockStep == ASSUME Inv, NEW t \in Threads, Unlock(t) PROVE Inv'
  <1>0. gInitializing = 1 /\ \A u \in Threads \ {t} : pc[u] \in {"idle", "tested", "inside"}
    BY Alone DEF Unlock, Goto, InLock, Locked
  <1> USE DEF Inv, TypeOK, Unlock, Goto
  <1>1. TypeOK'
    BY <1>0
  <1>2. LockInv'
    BY <1>0 DEF LockInv, OneInLock, InLock, Locked
  <1>3. StateInv'
    BY <1>0 DEF StateInv, Settled, Unsettled
  <1>4. HolderInv'
    BY DEF HolderInv
  <1> QED BY <1>1, <1>2, <1>3, <1>4 DEF Inv

(* The steps of NdStartup before the reference is counted. *)
LEMMA BuildStep ==
  ASSUME Inv, NEW t \in Threads,
         \/ FindFramework(t) \/ CreateHeap(t) \/ CreateHeapFails(t)
         \/ Construct(t) \/ ConstructThrows(t) \/ Initialise(t) \/ InitialiseFails(t)
  PROVE  Inv'
  <1> USE DEF FindFramework, CreateHeap, CreateHeapFails, Construct, ConstructThrows,
              Initialise, InitialiseFails, Goto, shared
  <1>0. gInitializing = 1 /\ \A u \in Threads \ {t} : pc[u] \in {"idle", "tested", "inside"}
    BY Alone DEF InLock, Locked
  <1>1. TypeOK'
    BY DEF Inv, TypeOK, Locked
  <1>2. LockInv'
    BY <1>0 DEF Inv, TypeOK, LockInv, OneInLock, InLock, Locked
  <1>3. StateInv'
    BY <1>0 DEF Inv, TypeOK, StateInv, Settled, Unsettled
  <1>4. HolderInv'
    BY <1>0 DEF Inv, TypeOK, HolderInv, StateInv, Settled, Unsettled
  <1> QED BY <1>1, <1>2, <1>3, <1>4 DEF Inv

LEMMA AddRefStep == ASSUME Inv, NEW t \in Threads, AddRef(t) PROVE Inv'
  <1>0. gInitializing = 1 /\ \A u \in Threads \ {t} : pc[u] \in {"idle", "tested", "inside"}
    BY Alone DEF AddRef, Goto, InLock, Locked
  <1> USE DEF Inv, TypeOK, AddRef, Goto
  <1>1. TypeOK'
    BY DEF Locked
  <1>2. LockInv'
    BY <1>0 DEF LockInv, OneInLock, InLock, Locked
  <1>3. StateInv'
    BY <1>0 DEF StateInv, Settled, Unsettled
  <1>4. HolderInv'
    BY <1>0, Counting DEF HolderInv
  <1> QED BY <1>1, <1>2, <1>3, <1>4 DEF Inv

LEMMA DisposeStep == ASSUME Inv, NEW t \in Threads, Dispose(t) PROVE Inv'
  <1>0. gInitializing = 1 /\ \A u \in Threads \ {t} : pc[u] \in {"idle", "tested", "inside"}
    BY Alone DEF Dispose, Goto, InLock, Locked
  <1> USE DEF Inv, TypeOK, Dispose, Goto
  <1>1. TypeOK'
    BY DEF Locked
  <1>2. LockInv'
    BY <1>0 DEF LockInv, OneInLock, InLock, Locked
  <1>3. StateInv'
    BY <1>0 DEF StateInv, Settled, Unsettled
  <1>4. HolderInv'
    BY <1>0 DEF HolderInv
  <1> QED BY <1>1, <1>2, <1>3, <1>4 DEF Inv

LEMMA CleanupStep ==
  ASSUME Inv, NEW t \in Threads, NotReady(t) \/ Release(t)
  PROVE  Inv'
  <1>0. gInitializing = 1 /\ \A u \in Threads \ {t} : pc[u] \in {"idle", "tested", "inside"}
    BY Alone DEF NotReady, Release, Goto, InLock, Locked
  <1>a. Settled
    BY <1>0 DEF Inv, StateInv, Unsettled, NotReady, Release, Goto
  <1> USE DEF NotReady, Release, Goto, shared
  <1>1. TypeOK'
    BY <1>a DEF Inv, TypeOK, Locked, Settled
  <1>2. LockInv'
    BY <1>0 DEF Inv, TypeOK, LockInv, OneInLock, InLock, Locked
  <1>3. StateInv'
    BY <1>0, <1>a DEF Inv, TypeOK, StateInv, Settled, Unsettled
  <1>4. HolderInv'
    BY <1>0, Counting DEF Inv, TypeOK, HolderInv
  <1> QED BY <1>1, <1>2, <1>3, <1>4 DEF Inv

LEMMA UseStep == ASSUME Inv, NEW t \in Threads, Use(t) PROVE Inv'
  <1> USE DEF Use, Test, OpenV1Adapter, GoThrough, Return, MayBreak, Goto, shared
  <1>1. TypeOK'
    BY DEF Inv, TypeOK, Locked
  <1>2. LockInv'
    BY DEF Inv, TypeOK, LockInv, OneInLock, InLock, Locked
  <1>3. StateInv'
    BY DEF Inv, TypeOK, StateInv, Settled, Unsettled
  <1>4. HolderInv'
    BY DEF Inv, TypeOK, HolderInv
  <1> QED BY <1>1, <1>2, <1>3, <1>4 DEF Inv

(* The inductive invariant: one thread in the lock, and what the lock       *)
(* protects is as far as that thread got (917-988).                         *)
THEOREM Invariance == Spec => []Inv
  <1>1. Inv /\ [Next]_vars => Inv'
    <2> SUFFICES ASSUME Inv, [Next]_vars PROVE Inv'
      OBVIOUS
    <2>1. CASE UNCHANGED vars
      BY <2>1, Zenon DEF vars, shared, Inv, TypeOK, LockInv, OneInLock, InLock, StateInv, Settled,
         HolderInv
    <2>2. CASE Next
      BY <2>2, EnterStep, UnlockStep, BuildStep, AddRefStep, DisposeStep, CleanupStep, UseStep
         DEF Next, Continue
    <2> QED BY <2>1, <2>2
  <1> QED BY InitInv, <1>1, PTL DEF Spec

(* Type correctness. *)
THEOREM Typing == Spec => []TypeOK
  BY Invariance, PTL DEF Inv

(* Mutual exclusion of NdStartup and NdCleanup. *)
THEOREM MutualExclusion == Spec => []OneInLock
  BY Invariance, PTL DEF Inv, LockInv

(* The assertions of Init and of Release hold whatever callers do. *)
THEOREM Assertions == Spec => []AssertsHold
  <1>1. Inv => AssertsHold
    <2> SUFFICES ASSUME Inv, NEW t \in Threads
                 PROVE  /\ pc[t] = "init" => m_nRef = 0
                        /\ pc[t] = "cleanup" /\ gpFramework = "set" => m_nRef > 0 /\ object = "ready"
      BY DEF AssertsHold
    <2>1. pc[t] = "init" => m_nRef = 0
      BY DEF Inv, StateInv
    <2>2. pc[t] = "cleanup" => \A u \in Threads : pc[u] \notin Unsettled
      BY Alone DEF InLock, Locked, Unsettled
    <2> QED BY <2>1, <2>2 DEF Inv, StateInv, Settled
  <1> QED BY <1>1, Invariance, PTL

(* The framework never outlives the heap it allocates from. *)
THEOREM HeapLast == Spec => []HeapOutlives
  <1>1. Inv => HeapOutlives
    BY DEF Inv, StateInv, Settled, Unsettled, HeapOutlives
  <1> QED BY <1>1, Invariance, PTL

(* What holds of the framework while a reference is counted. *)
LEMMA Referenced ==
  ASSUME Inv, paired, holders # {}
  PROVE  gpFramework = "set" /\ object = "ready" /\ m_nRef > 0
  <1>1. PICK h \in Threads : h \in holders
    BY DEF Inv, TypeOK
  <1>a. TypeOK /\ m_nRef = Cardinality(holders)
    BY DEF Inv, HolderInv
  <1>b. Cardinality(holders) \in Nat /\ Cardinality(holders) # 0
    BY <1>a, <1>1, Counting
  <1>2. m_nRef > 0
    BY <1>a, <1>b
  <1>3. \A t \in Threads : pc[t] \notin {"create", "init", "dispose", "threw"}
    BY <1>2 DEF Inv, StateInv
  <1>4. CASE \E t \in Threads : pc[t] = "addref"
    BY <1>2, <1>4 DEF Inv, StateInv
  <1>5. CASE \A t \in Threads : pc[t] # "addref"
    <2>1. Settled
      BY <1>3, <1>5 DEF Inv, StateInv, Unsettled
    <2> QED BY <1>2, <2>1 DEF Settled, Inv, TypeOK
  <1> QED BY <1>4, <1>5

(* References of paired callers keep the framework, and nothing else does. *)
THEOREM References == Spec => []ReferencesCount
  <1>1. Inv => ReferencesCount
    <2> SUFFICES ASSUME Inv, paired PROVE ReferencesCount
      BY DEF ReferencesCount
    <2>1. holders # {} => gpFramework = "set" /\ object = "ready"
      BY Referenced
    <2>2. ASSUME gInitializing = 0, holders = {} PROVE object = "none" /\ ghHeap = "null"
      <3>1. m_nRef = 0
        BY <2>2, FS_EmptySet DEF Inv, HolderInv
      <3>2. Settled
        BY <2>2 DEF Inv, LockInv, StateInv, InLock, Locked, Unsettled
      <3> QED BY <3>1, <3>2 DEF Settled, Inv, TypeOK
    <2> QED BY <2>1, <2>2 DEF ReferencesCount
  <1> QED BY <1>1, Invariance, PTL

(* Calls of paired callers meet an initialised framework (992-1091). *)
THEOREM SafeCalls == Spec => []CallsMeetAFramework
  <1>1. Inv => CallsMeetAFramework
    BY Referenced DEF Inv, HolderInv, CallsMeetAFramework
  <1> QED BY <1>1, Invariance, PTL

-----------------------------------------------------------------------------
(* A caller that broke the rule has broken it for good. *)
LEMMA PairedBefore ==
  ASSUME Next, paired'
  PROVE  paired
  BY DEF Next, EnterStartup, EnterCleanup, MayBreak, Acquire, Continue, Use, Unlock, FindFramework,
     CreateHeap, CreateHeapFails, Construct, ConstructThrows, Initialise, InitialiseFails, AddRef,
     Dispose, NotReady, Release, Test, OpenV1Adapter, GoThrough, Return

(* As long as callers pair, every step is a step of the service or none of  *)
(* it.                                                                      *)
LEMMA StepImplements ==
  ASSUME paired, paired', Inv, Inv', NEW t \in Threads,
         EnterStartup(t) \/ EnterCleanup(t) \/ Continue(t) \/ Use(t)
  PROVE  [Service!Next]_(Service!vars)
  <1> DEFINE W == {u \in Threads : pc[u] \in {"tested", "inside"}}
             Up == IF object = "ready" /\ m_nRef > 0 THEN "up" ELSE "down"
  <1> USE DEF Service!vars, Goto, shared
  <1>0. TypeOK
    BY DEF Inv
  <1>1. CASE EnterStartup(t) \/ EnterCleanup(t)
    <2>1. W' = W
      BY <1>0, <1>1 DEF EnterStartup, EnterCleanup, MayBreak, Acquire, TypeOK
    <2> QED BY <1>1, <2>1 DEF EnterStartup, EnterCleanup, MayBreak, Acquire
  <1>2. CASE Unlock(t) \/ FindFramework(t) \/ CreateHeap(t) \/ CreateHeapFails(t)
             \/ Construct(t) \/ ConstructThrows(t) \/ Initialise(t) \/ InitialiseFails(t)
             \/ Dispose(t) \/ NotReady(t)
    <2> USE DEF Unlock, FindFramework, CreateHeap, CreateHeapFails, Construct, ConstructThrows,
                Initialise, InitialiseFails, Dispose, NotReady
    <2>1. W' = W
      BY <1>0, <1>2 DEF TypeOK
    <2>2. Up' = Up /\ holders' = holders
      BY <1>2 DEF Inv, StateInv, TypeOK
    <2> QED BY <2>1, <2>2
  <1>3. CASE AddRef(t)
    <2>1. W' = W
      BY <1>0, <1>3 DEF AddRef, TypeOK
    <2>2. t \notin holders /\ holders' = holders \cup {t} /\ Up' = "up"
      BY <1>3 DEF AddRef, Inv, HolderInv, StateInv, TypeOK
    <2> QED BY <2>1, <2>2 DEF Service!Next, Service!Start
  <1>4. CASE Release(t)
    <2>1. W' = W
      BY <1>0, <1>4 DEF Release, TypeOK
    <2>2. t \in holders /\ holders' = holders \ {t} /\ t \notin W
      BY <1>4 DEF Release, Inv, HolderInv
    <2>3. Up' = IF holders' = {} THEN "down" ELSE "up"
      <3>1. m_nRef' = Cardinality(holders')
        BY DEF Inv, HolderInv
      <3>2. ASSUME holders' # {} PROVE Up' = "up"
        <4>1. IsFiniteSet(holders')
          BY LifetimeAssumption, FS_Subset DEF Inv, TypeOK
        <4>2. m_nRef' # 0 /\ m_nRef' \in Nat
          BY <3>1, <3>2, <4>1, FS_EmptySet, FS_CardinalityType
        <4>3. object = "ready"
          BY <2>2, Referenced
        <4>4. object' = "ready"
          BY <1>4, <4>2, <4>3 DEF Release
        <4>5. m_nRef' > 0
          BY <4>2
        <4> QED BY <4>4, <4>5
      <3>3. holders' = {} => Up' = "down"
        BY <3>1, FS_EmptySet
      <3> QED BY <3>2, <3>3
    <2> QED BY <2>1, <2>2, <2>3 DEF Service!Next, Service!Stop
  <1>5. CASE Test(t) \/ OpenV1Adapter(t)
    <2>1. t \in holders \ W /\ W' = W \cup {t} /\ UNCHANGED holders
      BY <1>0, <1>5 DEF Test, OpenV1Adapter, MayBreak, TypeOK
    <2>2. Up = "up" /\ Up' = Up
      BY <1>5, <2>1, Referenced DEF Test, OpenV1Adapter
    <2> QED BY <2>1, <2>2 DEF Service!Next, Service!Enter
  <1>6. CASE GoThrough(t)
    <2>1. W' = W
      BY <1>0, <1>6 DEF GoThrough, TypeOK
    <2> QED BY <1>6, <2>1 DEF GoThrough
  <1>7. CASE Return(t)
    <2>1. t \in W /\ W' = W \ {t}
      BY <1>0, <1>7 DEF Return, TypeOK
    <2> QED BY <1>7, <2>1 DEF Return, Service!Next, Service!Leave
  <1> QED BY <1>1, <1>2, <1>3, <1>4, <1>5, <1>6, <1>7 DEF Continue, Use

(* NdStartup and NdCleanup implement the service: callers that pair them    *)
(* see a framework that is there exactly as long as somebody counts on it.  *)
THEOREM Implementation == Spec => CountsItsUsers
  <1>1. Init => Service!Init
    BY DEF Init, Service!Init
  <1>2. Inv /\ Inv' /\ [Next]_vars => [Service!Next]_(Service!vars)
    <2> SUFFICES ASSUME Inv, Inv', [Next]_vars PROVE [Service!Next]_(Service!vars)
      OBVIOUS
    <2>1. CASE UNCHANGED vars
      BY <2>1 DEF vars, shared, Service!vars
    <2>2. CASE Next /\ ~paired'
      <3>1. paired' = FALSE
        BY <2>2 DEF Inv, TypeOK
      <3> QED BY <3>1 DEF Service!Next, Service!Broken
    <2>3. CASE Next /\ paired'
      <3>1. paired
        BY <2>3, PairedBefore
      <3> QED BY <2>3, <3>1, StepImplements DEF Next
    <2> QED BY <2>1, <2>2, <2>3
  <1> QED BY <1>1, <1>2, Invariance, PTL DEF Spec, CountsItsUsers, Service!Spec
==============================================================================
