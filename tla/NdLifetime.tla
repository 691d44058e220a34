------------------------------ MODULE NdLifetime ------------------------------
(***************************************************************************)
(* The life of the one Framework of a process: NdStartup and NdCleanup     *)
(* under the spin lock gInitializing, the reference count, the private     *)
(* heap, and the exported calls that go through gpFramework without a lock *)
(* (ndfrmwrk.cpp, 31-190 and 917-1091).                                    *)
(*                                                                         *)
(* A caller holds at most one reference; one that starts the framework     *)
(* twice is two callers.                                                   *)
(***************************************************************************)
EXTENDS Integers, FiniteSets

CONSTANTS
  Threads,   \* the callers
  Faults     \* what can fail: "heap", "memory", "init"

ASSUME LifetimeAssumption ==
  /\ IsFiniteSet(Threads)
  /\ Faults \subseteq {"heap", "memory", "init"}

VARIABLES
  gInitializing,  \* the spin lock
  gpFramework,    \* the pointer: "null" or "set"
  ghHeap,         \* the private heap: "null" or "live"
  object,         \* the Framework itself: "none", "raw" until Init is done, "ready"
  m_nRef,
  pc,             \* where each caller is
  holders,        \* history: callers whose reference is counted
  paired          \* history: callers cleaned up, and called, only what they started

shared == <<gInitializing, gpFramework, ghHeap, object, m_nRef>>
vars   == <<shared, pc, holders, paired>>

Locked == {"startup", "create", "init", "addref", "cleanup", "dispose", "unlock", "threw"}

TypeOK ==
  /\ gInitializing \in {0, 1}
  /\ gpFramework \in {"null", "set"}
  /\ ghHeap \in {"null", "live"}
  /\ object \in {"none", "raw", "ready"}
  /\ m_nRef \in Nat
  /\ pc \in [Threads -> {"idle", "tested", "inside"} \cup Locked]
  /\ holders \subseteq Threads
  /\ paired \in BOOLEAN

Init ==
  /\ gInitializing = 0 /\ gpFramework = "null" /\ ghHeap = "null"
  /\ object = "none" /\ m_nRef = 0
  /\ pc = [t \in Threads |-> "idle"] /\ holders = {} /\ paired = TRUE

Goto(t, from, to) == pc[t] = from /\ pc' = [pc EXCEPT ![t] = to]

-----------------------------------------------------------------------------
(* Mutant: the old value of the exchange (924) is not looked at. *)
AcquireBlindly(t, to) ==
  /\ Goto(t, "idle", to)
  /\ gInitializing' = 1
  /\ UNCHANGED <<gpFramework, ghHeap, object, m_nRef, holders>>

(* The turn of the loop whose compare-and-exchange finds 0; the others      *)
(* change nothing.                                                         *)
Acquire(t, to) ==
  /\ gInitializing = 0
  /\ Goto(t, "idle", to)
  /\ gInitializing' = 1
  /\ UNCHANGED <<gpFramework, ghHeap, object, m_nRef, holders>>

(* A caller may clean up, and call, what it never started; `paired' says    *)
(* that none has.                                                          *)
MayBreak(t) == paired' = (paired /\ t \in holders)

EnterStartup(t) == t \notin holders /\ Acquire(t, "startup") /\ UNCHANGED paired
EnterCleanup(t) == Acquire(t, "cleanup") /\ MayBreak(t)

(* Mutant: a return without the decrement (932, 941, 951, 975, 986). *)
UnlockForgotten(t) ==
  /\ Goto(t, "unlock", "idle")
  /\ UNCHANGED <<shared, holders, paired>>

Unlock(t) ==
  /\ Goto(t, "unlock", "idle")
  /\ gInitializing' = gInitializing - 1
  /\ UNCHANGED <<gpFramework, ghHeap, object, m_nRef, holders, paired>>

-----------------------------------------------------------------------------
(* NdStartup. *)
FindFramework(t) ==
  /\ gpFramework = "set"
  /\ Goto(t, "startup", "addref")
  /\ UNCHANGED <<shared, holders, paired>>

CreateHeap(t) ==
  /\ gpFramework = "null"
  /\ Goto(t, "startup", "create")
  /\ ghHeap' = "live"
  /\ UNCHANGED <<gInitializing, gpFramework, object, m_nRef, holders, paired>>

CreateHeapFails(t) ==
  /\ "heap" \in Faults /\ gpFramework = "null"
  /\ Goto(t, "startup", "unlock")
  /\ UNCHANGED <<shared, holders, paired>>

(* The pointer is published before Init runs (936). *)
Construct(t) ==
  /\ Goto(t, "create", "init")
  /\ gpFramework' = "set" /\ object' = "raw" /\ m_nRef' = 0
  /\ UNCHANGED <<gInitializing, ghHeap, holders, paired>>

(* This new is not the one that returns null: the test of 937 is never true *)
(* and the exception leaves NdStartup with the lock taken.                  *)
ConstructThrows(t) ==
  /\ "memory" \in Faults
  /\ Goto(t, "create", "threw")
  /\ UNCHANGED <<shared, holders, paired>>

Initialise(t) ==
  /\ Goto(t, "init", "addref")
  /\ object' = "ready"
  /\ UNCHANGED <<gInitializing, gpFramework, ghHeap, m_nRef, holders, paired>>

InitialiseFails(t) ==
  /\ "init" \in Faults
  /\ Goto(t, "init", "dispose")
  /\ object' = "none"
  /\ UNCHANGED <<gInitializing, gpFramework, ghHeap, m_nRef, holders, paired>>

AddRef(t) ==
  /\ Goto(t, "addref", "unlock")
  /\ m_nRef' = m_nRef + 1 /\ holders' = holders \cup {t}
  /\ UNCHANGED <<gInitializing, gpFramework, ghHeap, object, paired>>

(* Mutant: the pointer to the deleted framework stays (948, 981). *)
DisposeHeapOnly(t) ==
  /\ Goto(t, "dispose", "unlock")
  /\ ghHeap' = "null"
  /\ UNCHANGED <<gInitializing, gpFramework, object, m_nRef, holders, paired>>

(* The framework is deleted; its pointer and its heap follow. *)
Dispose(t) ==
  /\ Goto(t, "dispose", "unlock")
  /\ gpFramework' = "null" /\ ghHeap' = "null"
  /\ UNCHANGED <<gInitializing, object, m_nRef, holders, paired>>

-----------------------------------------------------------------------------
(* NdCleanup. *)
NotReady(t) ==
  /\ gpFramework = "null"
  /\ Goto(t, "cleanup", "unlock")
  /\ UNCHANGED <<shared, holders, paired>>

(* Mutant: a count tested before it is decremented (185). *)
ReleaseEarly(t) ==
  /\ gpFramework = "set"
  /\ m_nRef' = m_nRef - 1 /\ holders' = holders \ {t}
  /\ IF m_nRef' <= 1
       THEN Goto(t, "cleanup", "dispose") /\ object' = "none"
       ELSE Goto(t, "cleanup", "unlock") /\ UNCHANGED object
  /\ UNCHANGED <<gInitializing, gpFramework, ghHeap, paired>>

Release(t) ==
  /\ gpFramework = "set"
  /\ m_nRef' = m_nRef - 1 /\ holders' = holders \ {t}
  /\ IF m_nRef' = 0
       THEN Goto(t, "cleanup", "dispose") /\ object' = "none"
       ELSE Goto(t, "cleanup", "unlock") /\ UNCHANGED object
  /\ UNCHANGED <<gInitializing, gpFramework, ghHeap, paired>>

-----------------------------------------------------------------------------
(* The exported calls test the pointer and then go through it, without a    *)
(* lock; NdOpenV1Adapter does not test.                                     *)
Test(t) ==
  /\ gpFramework = "set" /\ MayBreak(t)
  /\ Goto(t, "idle", "tested")
  /\ UNCHANGED <<shared, holders>>

OpenV1Adapter(t) ==
  /\ MayBreak(t)
  /\ Goto(t, "idle", "inside")
  /\ UNCHANGED <<shared, holders>>

GoThrough(t) ==
  /\ Goto(t, "tested", "inside")
  /\ UNCHANGED <<shared, holders, paired>>

Return(t) ==
  /\ Goto(t, "inside", "idle")
  /\ UNCHANGED <<shared, holders, paired>>

-----------------------------------------------------------------------------
Continue(t) ==
  \/ Unlock(t)
  \/ FindFramework(t) \/ CreateHeap(t) \/ CreateHeapFails(t)
  \/ Construct(t) \/ ConstructThrows(t) \/ Initialise(t) \/ InitialiseFails(t)
  \/ AddRef(t) \/ Dispose(t)
  \/ NotReady(t) \/ Release(t)

Use(t) == Test(t) \/ OpenV1Adapter(t) \/ GoThrough(t) \/ Return(t)

Next == \E t \in Threads : EnterStartup(t) \/ EnterCleanup(t) \/ Continue(t) \/ Use(t)

(* A thread that has the lock is scheduled again; nothing is assumed of     *)
(* those that spin for it, nor of callers.                                  *)
Fairness == \A t \in Threads : WF_vars(Continue(t))
Spec == Init /\ [][Next]_vars /\ Fairness

-----------------------------------------------------------------------------
InLock(t) == pc[t] \in Locked

(* At most one thread builds or tears down the framework: the lock that     *)
(* NdStartup (920-924) and NdCleanup (966-970) spin for excludes the others. *)
OneInLock == \A t, u \in Threads : InLock(t) /\ InLock(u) => t = u

LockInv ==
  /\ gInitializing = 0 => \A t \in Threads : ~InLock(t)
  /\ OneInLock

(* There is a framework that somebody counts on, or nothing at all. *)
Settled ==
  IF gpFramework = "set"
    THEN object = "ready" /\ ghHeap = "live" /\ m_nRef > 0
    ELSE object = "none" /\ ghHeap = "null" /\ m_nRef = 0

Unsettled == {"create", "init", "addref", "dispose", "threw"}

(* What the lock protects, by how far the thread that has it got. *)
StateInv ==
  /\ (\A t \in Threads : pc[t] \notin Unsettled) => Settled
  /\ \A t \in Threads :
       /\ pc[t] \in {"create", "threw"} =>
            gpFramework = "null" /\ object = "none" /\ ghHeap = "live" /\ m_nRef = 0
       /\ pc[t] = "init" =>
            gpFramework = "set" /\ object = "raw" /\ ghHeap = "live" /\ m_nRef = 0
       /\ pc[t] = "addref" => gpFramework = "set" /\ object = "ready" /\ ghHeap = "live"
       /\ pc[t] = "dispose" =>
            gpFramework = "set" /\ object = "none" /\ ghHeap = "live" /\ m_nRef = 0

HolderInv ==
  paired =>
    /\ m_nRef = Cardinality(holders)
    /\ \A t \in Threads :
         /\ pc[t] \in {"cleanup", "tested", "inside"} => t \in holders
         /\ pc[t] \in {"startup", "create", "init", "addref", "dispose", "threw"} => t \notin holders

Inv == TypeOK /\ LockInv /\ StateInv /\ HolderInv

(* ASSERT(m_nRef == 0) of Init (99) and ASSERT(m_nRef > 0) of Release (180) *)
(* hold, and Release is called on a framework that is there, whatever the   *)
(* callers do.                                                              *)
AssertsHold ==
  \A t \in Threads :
    /\ pc[t] = "init" => m_nRef = 0
    /\ pc[t] = "cleanup" /\ gpFramework = "set" => m_nRef > 0 /\ object = "ready"

(* The framework lives within the heap it allocates from: HeapDestroy comes *)
(* after the destructor that frees into it (ndprov.cpp, 36-39).             *)
HeapOutlives == object # "none" => ghHeap = "live"

(* A call that goes through gpFramework meets an initialised framework,     *)
(* and keeps it until it returns (992-1091), as long as callers pair.       *)
CallsMeetAFramework ==
  paired => \A t \in Threads : pc[t] = "inside" => gpFramework = "set" /\ object = "ready"

(* A caller that holds a reference never finds the framework gone, and when *)
(* the last one has let go nothing of it is left, as long as callers pair.  *)
ReferencesCount ==
  paired =>
    /\ holders # {} => gpFramework = "set" /\ object = "ready"
    /\ gInitializing = 0 /\ holders = {} => object = "none" /\ ghHeap = "null"

(* The lock is given back, and does not keep the others spinning for ever,  *)
(* unless the framework could not be allocated: that exception takes it     *)
(* along (936).                                                             *)
LockIsReturned ==
  gInitializing = 1 ~> gInitializing = 0 \/ \E t \in Threads : pc[t] = "threw"

(* Callers see start-up and clean-up as atomic until one breaks the rule.   *)
Service == INSTANCE NdService WITH
  users   <- holders,
  working <- {t \in Threads : pc[t] \in {"tested", "inside"}},
  service <- IF object = "ready" /\ m_nRef > 0 THEN "up" ELSE "down"
CountsItsUsers == Service!Spec
==============================================================================
