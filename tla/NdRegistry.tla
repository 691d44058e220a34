------------------------------ MODULE NdRegistry ------------------------------
(***************************************************************************)
(* The registry of a Framework: its providers, the addresses they serve,   *)
(* the two notifications that keep them current, and the lookups           *)
(* (ndfrmwrk.cpp, 193-498 and 609-906; ndprov.cpp).                        *)
(*                                                                         *)
(* One address is followed: `listed' are the providers that m_NdAddrList   *)
(* and m_NdV1AddrList name for it.  Each notification has one OVERLAPPED,  *)
(* so its packet is in one place at a time: `note' says where.  Packets    *)
(* of the two may be taken in either order.  Whatever the lists are and    *)
(* the system is, `lost' records that something failed for which nothing   *)
(* will come back.                                                         *)
(***************************************************************************)
EXTENDS Integers, FiniteSets

CONSTANTS
  Threads,      \* callers of the framework
  Providers,    \* provider ids that the catalog of the system may hold
  V1Providers,  \* those of version 1
  MaxChanges,   \* bound: changes of the catalog and of the addresses
  Faults        \* what can fail: "call", "note", "rearm", "memory"

ASSUME RegistryAssumption ==
  /\ IsFiniteSet(Providers) /\ V1Providers \subseteq Providers
  /\ MaxChanges \in Nat
  /\ Faults \subseteq {"call", "note", "rearm", "memory"}

VARIABLES
  catalog, serving,   \* the system: providers installed, providers serving the address
  note,               \* where the packet of each notification is
  pc,                 \* where each caller is; the key of the packet in its hands
  providers, active,  \* m_ProviderList, and those of it that are marked active
  listed,             \* providers of the address in the two address lists
  loaded, inUse,      \* providers whose DLL is loaded, and has live objects
  probed, work,       \* locals of the caller that has m_lock
  lost, populated, refused, changes   \* history, read by no action but to bound it

system  == <<catalog, serving, changes>>
lists   == <<providers, active, listed>>
code    == <<loaded, inUse>>
locals  == <<probed, work>>
history == <<lost, populated, refused>>
vars    == <<system, note, pc, lists, code, locals, history>>

Keys  == {"provider", "address"}
Iids  == {"INDAdapter", "IND2Adapter"}   \* inside OpenAdapter, by what is asked for
InLock == {"probe", "enumerate", "query", "flush"} \cup Iids
Free  == \A t \in Threads : pc[t] \notin InLock
OfVersion(i) == IF i = "INDAdapter" THEN V1Providers ELSE Providers \ V1Providers

TypeOK ==
  /\ catalog \subseteq Providers /\ serving \subseteq Providers
  /\ note \in [Keys -> {"unarmed", "armed", "queued", "failed", "taken"}]
  /\ pc \in [Threads -> {"idle", "sync", "lookup"} \cup Keys \cup InLock]
  /\ providers \subseteq Providers /\ active \subseteq providers
  /\ listed \subseteq Providers
  /\ loaded \subseteq Providers /\ inUse \subseteq Providers
  /\ probed \in Nat /\ work \subseteq Providers
  /\ lost \in {"nothing", "something"} /\ populated \in {"no", "yes"}
  /\ refused \subseteq Providers /\ changes \in 0 .. MaxChanges

(* Framework::Init asks for address changes and posts the first provider    *)
(* change itself (146-164).                                                 *)
Init ==
  /\ catalog \in SUBSET Providers /\ serving \in SUBSET Providers
  /\ note = [k \in Keys |-> IF k = "provider" THEN "queued" ELSE "armed"]
  /\ pc = [t \in Threads |-> "idle"]
  /\ providers = {} /\ active = {} /\ listed = {} /\ loaded = {} /\ inUse = {}
  /\ probed = 0 /\ work = {}
  /\ lost = "nothing" /\ populated = "no" /\ refused = {} /\ changes = 0

Goto(t, from, to) == pc[t] = from /\ pc' = [pc EXCEPT ![t] = to]
Lose == lost' = "something"

-----------------------------------------------------------------------------
(* The system.  A change completes the request that waits for it.           *)
Notify(k) == note' = [note EXCEPT ![k] = IF @ = "armed" THEN "queued" ELSE @]

CatalogChanges ==
  /\ changes < MaxChanges /\ changes' = changes + 1
  /\ catalog' \in SUBSET Providers \ {catalog}
  /\ Notify("provider")
  /\ UNCHANGED <<serving, pc, lists, code, locals, history>>

AddressesChange ==
  /\ changes < MaxChanges /\ changes' = changes + 1
  /\ serving' \in SUBSET Providers \ {serving}
  /\ Notify("address")
  /\ UNCHANGED <<catalog, pc, lists, code, locals, history>>

RequestFails(k) ==
  /\ "note" \in Faults
  /\ note[k] = "armed" /\ note' = [note EXCEPT ![k] = "failed"] /\ Lose
  /\ UNCHANGED <<system, pc, lists, code, locals, populated, refused>>

(* A caller gives its adapter back: a call of the provider's DLL alone. *)
CloseAdapter(p) ==
  /\ p \in inUse /\ inUse' = inUse \ {p}
  /\ UNCHANGED <<system, note, pc, lists, loaded, locals, history>>

-----------------------------------------------------------------------------
(* ProcessUpdates: the packet is taken before the lock is.                  *)
Call(t) ==
  /\ Goto(t, "idle", "sync")
  /\ UNCHANGED <<system, note, lists, code, locals, history>>

Take(t, k) ==
  /\ note[k] = "queued" /\ note' = [note EXCEPT ![k] = "taken"]
  /\ Goto(t, "sync", k)
  /\ UNCHANGED <<system, lists, code, locals, history>>

(* Mutant: the failed request is issued again and fails again (659-661). *)
TakeFailedAgain(t, k) ==
  /\ note[k] = "failed" /\ pc[t] = "sync"
  /\ UNCHANGED vars

(* A packet that reports a failure is dropped, and its request with it.  A  *)
(* call that fails without a packet, but not because none is there, turns   *)
(* the loop and changes nothing: a stutter, which Fairness takes not to go  *)
(* on for ever (663-665).                                                   *)
TakeFailed(t, k) ==
  /\ note[k] = "failed" /\ pc[t] = "sync"
  /\ note' = [note EXCEPT ![k] = "unarmed"]
  /\ UNCHANGED <<system, pc, lists, code, locals, history>>

NothingQueued(t) ==
  /\ \A k \in Keys : note[k] \notin {"queued", "failed"}
  /\ Goto(t, "sync", "lookup")
  /\ UNCHANGED <<system, note, lists, code, locals, history>>

(* The address table is emptied; the active providers are to be asked.      *)
StartAddresses == listed' = {} /\ work' = active'

(* Under the lock, the next request first; one that fails is only asserted. *)
Rearm(k) ==
  \/ note' = [note EXCEPT ![k] = "armed"] /\ UNCHANGED lost
  \/ "rearm" \in Faults /\ note' = [note EXCEPT ![k] = "unarmed"] /\ Lose

ProviderChange(t) ==
  /\ Free /\ Goto(t, "provider", "probe") /\ Rearm("provider")
  /\ UNCHANGED <<system, lists, code, locals, populated, refused>>

AddressChange(t) ==
  /\ Free /\ Goto(t, "address", "query") /\ Rearm("address")
  /\ UNCHANGED active /\ StartAddresses
  /\ UNCHANGED <<system, providers, code, probed, populated, refused>>

-----------------------------------------------------------------------------
(* ProcessProviderChange: the size of the catalog, then the catalog. *)
Probe(t) ==
  /\ Goto(t, "probe", "enumerate")
  /\ probed' = Cardinality(catalog)
  /\ UNCHANGED <<system, note, lists, code, work, history>>

GiveUp(t) ==
  /\ "call" \in Faults /\ Lose
  /\ Goto(t, "probe", "flush")
  /\ UNCHANGED <<system, note, lists, code, locals, populated, refused>>

(* The catalog outgrew the buffer: the request issued before will bring the *)
(* caller back (683-684).                                                   *)
Outgrown(t) ==
  /\ Cardinality(catalog) > probed
  /\ Goto(t, "enumerate", "flush") /\ probed' = 0
  /\ UNCHANGED <<system, note, lists, code, work, history>>

(* Mutant: providers that left the catalog are not marked (704-709). *)
EnumerateUnmarked(t) ==
  /\ Cardinality(catalog) <= probed
  /\ Goto(t, "enumerate", "query")
  /\ providers' = providers \cup catalog /\ active' = active \cup catalog
  /\ StartAddresses
  /\ probed' = 0 /\ populated' = "yes"
  /\ UNCHANGED <<system, note, code, lost, refused>>

(* Providers of the catalog that are known are marked active, the others    *)
(* are added unless their Init fails.                                       *)
Enumerate(t) ==
  /\ Cardinality(catalog) <= probed
  /\ Goto(t, "enumerate", "query")
  /\ \E bad \in SUBSET (catalog \ providers) :
       /\ \/ bad = {} /\ UNCHANGED lost
          \/ "call" \in Faults /\ bad # {} /\ Lose
       /\ providers' = providers \cup (catalog \ bad)
       /\ active' = catalog \ bad
  /\ StartAddresses
  /\ probed' = 0 /\ populated' = "yes"
  /\ UNCHANGED <<system, note, code, refused>>

(* This new is not the one that returns null: the exception leaves the call *)
(* when some providers are marked or added and the addresses are as before. *)
EnumerateThrows(t) ==
  /\ "memory" \in Faults /\ Cardinality(catalog) <= probed
  /\ Goto(t, "enumerate", "idle") /\ probed' = 0 /\ Lose
  /\ \E some \in SUBSET catalog :
       /\ ~ (catalog \subseteq providers \cup some)
       /\ providers' = providers \cup some /\ active' = some
  /\ UNCHANGED <<system, note, listed, code, work, populated, refused>>

-----------------------------------------------------------------------------
(* ProcessAddressChange: each active provider is loaded and asked.          *)
Unloaded(p) == IF p \in inUse THEN loaded ELSE loaded \ {p}   \* TryUnload

Query(t, p) ==
  /\ pc[t] = "query" /\ p \in work /\ work' = work \ {p}
  /\ listed' = IF p \in serving THEN listed \cup {p} ELSE listed
  /\ loaded' = Unloaded(p)
  /\ UNCHANGED <<system, note, pc, providers, active, inUse, probed, history>>

(* Its addresses outgrew the buffer between the two calls (844-867), which  *)
(* only a change of the addresses can do; or its DLL fails.                 *)
QuerySkips(t, p) ==
  /\ pc[t] = "query" /\ p \in work /\ work' = work \ {p}
  /\ \/ note["address"] # "armed" /\ UNCHANGED lost
     \/ "call" \in Faults /\ Lose
  /\ loaded' = Unloaded(p)
  /\ UNCHANGED <<system, note, pc, lists, inUse, probed, populated, refused>>

(* Its addresses are put into the table by a new that throws: the exception *)
(* leaves the call with some of them listed, and nobody flushes (564-569).  *)
QueryThrows(t, p) ==
  /\ "memory" \in Faults /\ p \in work /\ work' = {}
  /\ Goto(t, "query", "idle") /\ Lose
  /\ \/ UNCHANGED listed
     \/ p \in serving /\ listed' = listed \cup {p}
  /\ loaded' = Unloaded(p)
  /\ UNCHANGED <<system, note, providers, active, inUse, probed, populated, refused>>

AskedAll(t) ==
  /\ work = {} /\ Goto(t, "query", "flush")
  /\ UNCHANGED <<system, note, lists, code, locals, history>>

-----------------------------------------------------------------------------
(* Mutant: a provider is deleted when it can be unloaded or is inactive. *)
FlushEither ==
  /\ loaded' = loaded \cap inUse
  /\ providers' = providers \cap active \cap inUse /\ active' = active \cap inUse

(* Mutant: a DLL is unloaded without asking it (TryUnload, 167). *)
FlushUnasked ==
  /\ loaded' = {}
  /\ providers' = active /\ UNCHANGED active

(* FlushProviders: unload what can be unloaded; of that, delete what is     *)
(* inactive.                                                                *)
FlushProviders ==
  /\ loaded' = loaded \cap inUse
  /\ providers' = active \cup (providers \cap inUse) /\ UNCHANGED active

Flush(t) ==
  /\ Goto(t, "flush", "sync") /\ FlushProviders
  /\ UNCHANGED <<system, note, listed, inUse, locals, history>>

FlushProvidersForUser(t) ==
  /\ pc[t] = "idle" /\ Free /\ FlushProviders
  /\ UNCHANGED <<system, note, pc, listed, inUse, locals, history>>

-----------------------------------------------------------------------------
(* ResolveAddress, CheckAddress and QueryAddressList read the lists. *)
Answer(t) ==
  /\ Free /\ Goto(t, "lookup", "idle")
  /\ UNCHANGED <<system, note, lists, code, locals, history>>

(* OpenAdapter tries the providers of the address one after the other. *)
OpenAdapter(t, i) ==
  /\ Free /\ Goto(t, "lookup", i)
  /\ work' = listed \cap OfVersion(i) /\ refused' = {}
  /\ UNCHANGED <<system, note, lists, code, probed, lost, populated>>

Opens(t, p) ==
  /\ pc[t] \in Iids /\ p \in work
  /\ Goto(t, pc[t], "idle") /\ work' = {} /\ refused' = {}
  /\ loaded' = loaded \cup {p} /\ inUse' = inUse \cup {p}
  /\ UNCHANGED <<system, note, lists, probed, lost, populated>>

(* Mutant: the first provider that refuses ends the search (442-445). *)
RefusesForAll(t, p) ==
  /\ pc[t] \in Iids /\ p \in work
  /\ work' = {} /\ refused' = refused \cup {p} /\ loaded' = Unloaded(p)
  /\ UNCHANGED <<system, note, pc, lists, inUse, probed, lost, populated>>

Refuses(t, p) ==
  /\ pc[t] \in Iids /\ p \in work
  /\ work' = work \ {p} /\ refused' = refused \cup {p} /\ loaded' = Unloaded(p)
  /\ UNCHANGED <<system, note, pc, lists, inUse, probed, lost, populated>>

InvalidAddress(t) ==
  /\ pc[t] \in Iids /\ work = {}
  /\ Goto(t, pc[t], "idle") /\ refused' = {}
  /\ UNCHANGED <<system, note, lists, code, locals, lost, populated>>

-----------------------------------------------------------------------------
System ==
  \/ CatalogChanges \/ AddressesChange
  \/ \E k \in Keys : RequestFails(k)
  \/ \E p \in Providers : CloseAdapter(p)

Updating(t) ==
  \/ \E k \in Keys : Take(t, k) \/ TakeFailed(t, k)
  \/ NothingQueued(t)
  \/ Probe(t) \/ GiveUp(t) \/ Outgrown(t) \/ Enumerate(t) \/ EnumerateThrows(t)
  \/ \E p \in Providers : Query(t, p) \/ QuerySkips(t, p) \/ QueryThrows(t, p)
  \/ AskedAll(t) \/ Flush(t)

Change(t) == ProviderChange(t) \/ AddressChange(t)

Opening(t) ==
  \/ \E p \in Providers : Opens(t, p) \/ Refuses(t, p)
  \/ InvalidAddress(t)

LookUp(t) == Answer(t) \/ \E i \in Iids : OpenAdapter(t, i)

Next ==
  \/ System
  \/ \E t \in Threads :
       \/ Call(t) \/ Updating(t) \/ Change(t) \/ LookUp(t) \/ Opening(t)
       \/ FlushProvidersForUser(t)

(* Callers go on with what they do; one that waits for the lock gets it     *)
(* when it is released again and again.                                     *)
Fairness ==
  \A t \in Threads : /\ WF_vars(Updating(t)) /\ WF_vars(Opening(t))
                     /\ SF_vars(Change(t)) /\ SF_vars(LookUp(t))
Spec == Init /\ [][Next]_vars /\ Fairness

-----------------------------------------------------------------------------
(* A packet in a caller's hands is there once; one caller has the lock.     *)
HandInv ==
  /\ \A t, u \in Threads : pc[t] \in InLock /\ pc[u] \in InLock => t = u
  /\ \A t \in Threads, k \in Keys : pc[t] = k => note[k] = "taken"
  /\ \A t, u \in Threads, k \in Keys : pc[t] = k /\ pc[u] = k => t = u
  /\ \A t \in Threads, i \in Iids : pc[t] = i =>
       work \subseteq listed /\ listed \cap OfVersion(i) \subseteq work \cup refused
  /\ \A t \in Threads : pc[t] = "query" => work \subseteq active

(* Addresses are listed for active providers only. *)
ListedAreActive == listed \subseteq active /\ active \subseteq providers

(* The provider that an address refers to has not been deleted under it     *)
(* (FlushProviders, 888-906): ASSERT(pAddr->GetProvider() != nullptr), 435. *)
AddressesHaveProviders == listed \subseteq providers

(* What the packets say about the lists, while nothing was lost.            *)
CurrentInv ==
  lost = "nothing" =>
    /\ \A k \in Keys : note[k] \in {"armed", "queued", "taken"}
    /\ note["provider"] = "armed" =>
         IF \E t \in Threads : pc[t] \in {"probe", "enumerate"}
           THEN \A t \in Threads : pc[t] = "enumerate" => probed = Cardinality(catalog)
           ELSE active = catalog
    /\ note["address"] = "armed" =>
         IF \E t \in Threads : pc[t] = "query"
           THEN listed = (active \ work) \cap serving
           ELSE listed = active \cap serving

(* With both requests armed and the lock free, the registry is what the     *)
(* system is: no change gets by it however changes, probes and re-arming    *)
(* interleave (631-649, 683-684, 852-853), unless something failed.         *)
NothingIsMissed ==
  lost = "nothing" /\ Free /\ (\A k \in Keys : note[k] = "armed")
    => active = catalog /\ listed = catalog \cap serving

(* The code of a live adapter stays loaded and its provider is kept,        *)
(* although providers leave the catalog and are flushed (ndprov.cpp,        *)
(* 157-176).                                                                *)
CodeStaysLoaded == inUse \subseteq loaded /\ loaded \subseteq providers

Inv ==
  /\ TypeOK /\ HandInv /\ CurrentInv
  /\ "memory" \notin Faults => ListedAreActive /\ CodeStaysLoaded

(* OpenAdapter gives up on an address only when every provider listed for   *)
(* it refused: "In case another provider handles the same address" (444).   *)
AnotherProviderIsTried ==
  [][\A t \in Threads : InvalidAddress(t) => listed \cap OfVersion(pc[t]) \subseteq refused]_vars

(* ProcessUpdates comes to an end, or throws, once changes stop coming      *)
(* (615-665).                                                               *)
UpdatesEnd == \A t \in Threads : pc[t] = "sync" ~> pc[t] \in {"lookup", "idle"}

(* "Generate a provider change notification, so that the next call that     *)
(* looks at the provider catalog will update it first" (157-158): nobody    *)
(* looks an address up in lists that were never filled.                     *)
NextCallUpdatesFirst ==
  [][\A t \in Threads : LookUp(t) => populated = "yes"]_vars

(* ASSERT(status == 0), 646: the request for address changes that is issued *)
(* again is answered at once.                                               *)
RearmAnsweredAtOnce ==
  [][\A t \in Threads : AddressChange(t) => note'["address"] = "queued"]_vars
==============================================================================
