# PlugRDMA-Windows in TLA+

PlugRDMA-Windows is a C++ library (`RDMAPlugin`) over Microsoft's Network Direct
interface, and a small program that uses it. A server offers a buffer for remote
reading; a client connects, learns where the buffer is, and then reads from it.
Below both is a framework that finds the provider DLL of an address.

This directory holds a model of it in TLA+, the TLC runs that check the model on
small instances, and proofs, checked by TLAPS, of most of the safety properties for
every value of the constants.

## 1. The system

### Components

| component | source | state it keeps | operations |
|---|---|---|---|
| client data path | `RDMAClient.cpp` 322-377, 449-466 | `pResult`, `Sgl`, the queue pair `pQp` and its completion queue `pCq` | `Read(data)`, `Read(datas)`, `WaitForCompletion` |
| server setup | `RDMAServer.cpp` 10-434, 488-551 | pointers to the provider's objects, `hr`, one `OVERLAPPED`, `bReadMode` | fifteen steps, run in order by `Initialize` |
| client setup | `RDMAClient.cpp` 9-321, 467-504 | the same, and `remoteToken`, `remoteAddress` | ten steps, run in order by `Initialize` |
| server and client teardown | `RDMAServer.cpp` 436-486, `RDMAClient.cpp` 379-439 | the same members, `m_bConnected` | `DestroyConnection` |
| command-line program | `PlugRDMA-Windows.cpp` | its arguments and the buffer | parse, allocate, `Initialize`, report, exit |
| framework: lifetime | `ndfrmwrk.cpp` 31-190, 917-1091 | `gpFramework`, its reference count, `ghHeap`, the `gInitializing` spin lock | `NdStartup`, `NdCleanup`, the `Nd...` wrappers |
| framework: registry | `ndfrmwrk.cpp` 257-498, 609-812, 888-914; `ndprov.cpp` | lists of providers and of their addresses under `m_lock`, a completion port with two notifications | `ProcessUpdates`, `ResolveAddress`, `OpenAdapter`, `FlushProviders` |
| framework: address lists | `ndfrmwrk.cpp` 193-254, 500-605, 814-886; `ndaddr.cpp` | the caller's buffer, and one buffer that all providers answer into | `QueryAddressList`, `ProcessAddressChange` |
| provider objects | `ndprov.cpp` | module handle, class objects, active and marked flags | load, create, unload |
| pointer list | `list.h` | intrusive links | push, pop, insert, remove, erase, iterate |
| provider and wire (external) | used through `ndspi.h` | connection, queue pairs, completion queues, windows | bind, send, receive, read, complete, flush |

### How they interact

`Initialize` of each side first starts the framework, which finds the provider DLL
for an address and opens an adapter; all later calls go straight to the provider.
The two sides meet over the wire only: the server listens, the client asks for a
connection, the server accepts and posts a memory window *bind* and then a *send*
of the window's descriptor (token and address, `PeerInfo`) on one queue; the
client, which posted a *receive* before it connected, completes the connection,
waits for the receive and reads the descriptor from its buffer. After that the
client's `Read` calls use the queue pair alone.

Each side is one thread that polls. Concurrency comes from the provider, which
executes requests, writes the buffers and completes requests between any two
statements of either thread; from the other process; and, in the framework, from
several threads that call it and from the system, which reports changes.

### What is hard here, and what makes each component correct

* *Client data path.* Completions are counted, never matched with requests. A
  call that returns early leaves requests behind whose completions the next call
  takes for its own. It is correct when "OK" means that the data is there, when
  nothing is written past `pResult`, and when the call returns.
* *Setup.* No status of a completion is ever looked at, several results of calls
  are dropped, and every wait can run out while what it waits for still happens.
  It is correct when the client only learns of a window that is bound, reads a
  whole descriptor, and when both sides return.
* *Teardown.* Early returns between releases, members that no release clears and
  constructors that do not set all members. It is correct when each object is
  released once, after the objects that depend on it, and nothing else is left.
* *Framework, lifetime.* Start-up and clean-up race through a hand-made lock, and
  the wrappers use the framework without one. It is correct when a framework is
  there as long as somebody who started it has not cleaned up.
* *Framework, registry.* A packet is taken before the lock is; changes arrive while
  the last one is processed; providers are flushed while adapters are open. It is
  correct when no change gets by the lists, and no provider goes under its users.
* *Address lists.* Three computations of one layout have to agree, and one buffer
  serves providers whose lists change between two calls. It is correct when writes
  stay inside and an answer is whole.
* *Pointer list.* A walk removes the item it stands on.

Every hazard has a line in `PROJECT.json`, with the properties that cover it or
why none does.

## 2. Modules

| module | models | extends |
|---|---|---|
| `ClientRead`, `ClientReadProofs` | the data path of the client; its theorems | |
| `Fabric` | the provider and the wire during the setup (external) | |
| `RDMAServer`, `RDMAClient` | the two `Initialize` | `Fabric` |
| `SetupMembers` | what each `Initialize` makes, in order | |
| `Session` | both setups, interleaved, and the end of either process | `RDMAServer`, `RDMAClient`, `SetupMembers` |
| `Rendezvous` | what a setup promises, without saying how | |
| `SessionProofs` | the theorems about `Session` | `Session` |
| `Ownership` | members, objects and `Initialize` as an owner sees them | `SetupMembers` |
| `ServerTeardown`, `ClientTeardown` | the two `DestroyConnection` | `Ownership` |
| `ServerTeardownProofs`, `ClientTeardownProofs` | their theorems | |
| `NdLifetime`, `NdLifetimeProofs` | start-up, clean-up and the wrappers; theorems | |
| `NdService` | what they promise to callers that pair them | |
| `NdRegistry`, `MCNdRegistry`, `NdRegistryProofs` | the registry; its symmetric instance; theorems | |
| `AddressQuery` | `QueryAddressList` and its caller | |
| `AddressGather` | `ProcessAddressChange` and its buffer | |
| `AddressProofs` | the theorems about both | `AddressQuery`, `AddressGather` |
| `PointerList`, `PointerListProofs` | `list.h`; theorems | |

The composition is by interface. `Session` shows which objects a setup that stops
leaves (`SetupsLeavePrefixes`), and the teardowns start from exactly those.
`ServerTeardown` shows in `CleanupIsPaired` that the server is one of the callers
that `NdLifetime` promises something to. `NdRegistry` reads the address lists whose
making `AddressGather` follows byte by byte.

Operators whose comment begins with "Mutant" change one definition the way a bug
in that place would; no specification uses them. They show that a property can
fail: with the named definition replaced, TLC finds it violated.

### ClientRead

A request is its position in the order of the posts. The provider completes them
in that order; a failed one puts the queue pair in error and all later ones are
flushed, so *request r's data is in the buffer* is `r <= good`. `posted`,
`completed`, `good` and `reaped` (popped from `pCq`) say everything about the
queue. That a completion of a reliable connection's queue comes in the order of
the posts is Network Direct's rule for the initiator queue.

`pc` is where the thread is: posting a chunk, in the poll loop, or at the checks.
The recursion of line 375 is one bit, `frame`: the recursive call gets what is
left of the vector, and whatever it returns is dropped, so the depth of the
recursion does not matter. `pResult` holds the request each slot was filled for;
a slot never written may read as anything (`Garbage`), which is what happens to an
empty vector. `calls`, `asked`, `entry` and `found` are history, used by the
properties only.

| action | code |
|---|---|
| `Call` | a caller enters either overload (322, 344-352) |
| `Post`, `PostFails` | one turn of the loop of 354-365; the provider refuses |
| `BeginWait`, `Poll` | the wait and one turn of its loop (449-466) |
| `CheckSingle` | 333-341 |
| `CheckStatusFails`, `CheckContextFails`, `LastChunk`, `NextChunk` | 367-376 |
| `Land`, `Flush` | the provider completes a request |

### Fabric, RDMAServer, RDMAClient, Session

`spc` and `cpc` are the step that runs or the wait inside it. A method that only
creates objects is one action (`Make`, `Build`): it creates all or fails and
leaves some. A method that talks to the other side is split where the other side
can see or change something in between: post and wait, wait and read, the read of
the token and the read of the address. `sObj` and `cObj` are the members that are
set. `sSawBind`, `sSawSend` and `cSaw` record what each wait popped; the code
looks at none of it and neither do the actions.

`Faults` says what an instance lets go wrong: a call fails (`call`), the
connection breaks or a request fails on it (`link`), a wait runs out or a call
ends with `ND_TIMEOUT` (`timeout`), a request on a queue pair that is not
connected yet is refused (`early`), a registration ends with `ND_IO_TIMEOUT`
(`register`), the program ends after `Initialize` (`exit`). Timeouts have no
clock: one may happen whenever the answer is not there.

What the model takes from Network Direct: a request that fails breaks the
connection; requests of one queue run and complete in order; a bind runs before a
send posted after it; what is queued on a broken connection is flushed; a
connection is up on both sides only when the client's `CompleteConnect` succeeds.
`IND2Connector::Bind`, `Query`, the creation of objects and `GetLocalToken` answer
at once.

`Rendezvous` has three variables: what the server has offered, and the verdict of
each side. A window is bound before anybody is told; a client whose wait was
answered well (`informed`) has been told; a client may also return "OK" without
having been told (`guessing`); verdicts do not change. `Session` implements it
under the mapping `Offer`, `ServerVerdict`, `ClientVerdict`.

### Ownership, ServerTeardown, ClientTeardown

`ptr` is what a member holds (null, set, or the garbage of a constructor that left
it alone), `object` what became of the object it was last set to; no release
clears a member, which is how the two come apart. `held` counts `WSAStartup` and
`NdStartup`. The public methods are called in any order, `MaxCalls` times.
`Initialize` is one action that stops after any prefix of what it makes: that these
are the right states is proved of `Session`. On the client a member of the model,
`registration`, stands for the buffer that is registered in the region `pMr` points
to: a new region has none (`Anew`), and a registration in a region that `pMr` has lost
is `abandoned`. `past` records what has happened before: stopped and repeated setups,
one that stopped before `m_bConnected` was set (`half open`), one on an object that was
`still connected`, and refusals. Each call that `DestroyConnection`
makes is an action, in the order of `After`; a call through a member that does not
point to a live object is a `Misuse`, after which the program crashes or goes on.
`Refused` is an early return: what is left is left for another call.

| action | code |
|---|---|
| `DestroyConnection` | the test of `m_bConnected` (S 436-440, C 379-382) |
| `ReleaseOne` | each `if (m) m->Release()`, and `delete[]` |
| `Disconnect`, `Disconnected`, `Disconnecting` | S 441-460, C 383-408: the server waits inside the provider, the client polls with a limit |
| `Deregister`, `Deregistering` | S 467 starts it only; C 413-432 waits for it |
| `Cleanup`, `Last` | S 473-486 cleans up; C 434-439 only resets the flag |

### NdLifetime, NdService

One action per statement that another thread can see: the exchange that takes the
lock, the publication of the pointer, `Init`, the count, and the decrement of the
lock. A wrapper is two steps, the test of `gpFramework` and the call through it.
The history variable `paired` turns false for good when a caller cleans up, or
calls, what it has not started; the code asks callers not to but cannot stop them.
Properties that need it say so; `AssertsHold` and the lock's properties do not.
`NdService` is the same with an atomic start and stop, and promises nothing once
`paired` is false.

### NdRegistry

One address is followed. `listed` are the providers the two address lists name for
it; `catalog` and `serving` are what the system would answer. Each notification has
one `OVERLAPPED`, so its packet is in one place (`note`): armed with the system,
queued at the port, in a caller's hands, or gone. `lost` is history: it records
that a call, an allocation or a request failed for which nothing comes back. A
`GetQueuedCompletionStatus` that fails without a packet, for another reason than an
empty port (663-665), turns the loop of `ProcessUpdates` and changes nothing: it is a
stutter here, and `UpdatesEnd` assumes that it does not happen for ever.

| action | code |
|---|---|
| `Call`, `Take`, `TakeFailed`, `NothingQueued` | the loop of `ProcessUpdates` (609-630, 655-665) |
| `ProviderChange`, `AddressChange` | the lock, and the next request (631-652) |
| `Probe`, `Enumerate`, `Outgrown`, `GiveUp`, `EnumerateThrows` | `ProcessProviderChange` (668-812) |
| `Query`, `QueryThrows`, `QuerySkips`, `AskedAll` | `ProcessAddressChange` (814-886), one provider each; `BuildAddressList` may throw (564) |
| `Flush`, `FlushProvidersForUser` | `FlushProviders` (888-914), `TryUnload` |
| `Answer`, `OpenAdapter`, `Opens`, `Refuses`, `InvalidAddress` | the lookups (257-498) |
| `CatalogChanges`, `AddressesChange`, `RequestFails`, `CloseAdapter` | the system, and the owner of an adapter |

### AddressQuery, AddressGather

`AddressQuery` keeps the pointers and counters of the layout in bytes, for the
64-bit build; an address is its family, which decides its size. `INT_MAX` is the
constant `IntMax`. `AddressGather` keeps the allocated size, the length the next
provider is told, and whose list the buffer holds. What a provider answers is
external there: it trusts the length it is told. An allocation of an entry that
throws (`BuildThrows`) ends the gathering with the entries made before it.

### PointerList

`Flink` and `Blink` are the links, with a null link after a removal. `order`,
`visited` and `start` are history: the sequence that callers think of, changed by
each operation as its name says, the items a walk has seen, and the list as the walk
found it. `iter` is an iterator that a walk advances before it erases, as `FlushProviders`
does. Items are put in only while they are in no list, and nothing is inserted
during a walk, which is how the framework uses it.

## 3. Runs

| run | cfg | shows | states |
|---|---|---|---|
| `read` | `ClientRead.cfg` | the safety properties of the data path, and that a call that found nothing outstanding returns | 45,233 |
| `session` | `Session.cfg` | the setup with all faults: safety, refinement of `Rendezvous`, both sides return, a taken request makes both ready or ends in trouble | 44,288 |
| `lifetime` | `NdLifetime.cfg` | lock, heap, count, refinement of `NdService`, the lock is given back | 22,816 |
| `registry` | `NdRegistry.cfg` | nothing is missed, code in use stays loaded, every provider is tried | 310,800 |
| `registry_ends` | `NdRegistryLive.cfg` | `ProcessUpdates` comes to an end, exceptions included | 55,772 |
| `address_query` | `AddressQuery.cfg` | writes stay inside, answers are whole, a caller gets one | 20,224 |
| `address_gather` | `AddressGather.cfg` | lengths and contents of the one buffer, the lists are complete | 169,974 |
| `list` | `PointerList.cfg` | links follow the items, a walk that removes sees all | 7,328 |
| `server_teardown` | `ServerTeardown.cfg` | order of releases, which misuses and leaks there are, what is given back | 26,369 |
| `client_teardown` | `ClientTeardown.cfg` | the first two, that the buffer is free, and that it returns | 111,238 |
| `read_dropped`, `session_accept` | `ClientReadDropped.cfg`, `SessionAccept.cfg` | two findings | |

Bounds, and why they are enough:

* *read.* `Depth = 3` is the smallest depth at which the first, the middle and the
  last slot differ; `MaxBatch = 5` is more than one chunk and less than two, so
  that the recursive call waits for fewer requests than the first; three calls let
  a failed call leave requests, a second trip over them and a third start clean.
* *session.* No bound: the state space is finite.
* *lifetime.* Four threads: one that holds, one that gives up the last reference,
  one that starts, one that calls.
* *registry.* Two callers, so that one has the packet while the other has the lock;
  two providers, so that one can refuse and another serve; two changes, so that one
  can come while the other is processed. Callers and providers are symmetric there.
  `registry_ends` has one provider and no symmetry, which liveness does not admit.
* *address_query.* Lists of up to two addresses of either family with `IntMax = 3`:
  both lists together pass the limit. The buffers offered lie below, at and above
  every boundary of the layout; one change between calls makes the size go stale.
* *address_gather.* Three providers, of which the second is of the other version,
  lists of up to two, one change: a buffer of one provider serves a longer and a
  shorter list of another.
* *list.* Four items: a first, a last, and two neighbours in between.
* *teardown.* Four calls: a setup, a teardown that is refused, its retry, and
  either a third try or a second setup.

None of these bounds is one of the proofs: they hold for every `Depth`, `MaxBatch`,
`MaxCalls`, `Threads`, `Providers`, `Items`, `Faults`, for lists of every `MaxList`,
`MaxAddrs` and `IntMax`, and for buffers of every size.

Deadlock is not checked, except in `list`: callers stop calling, setups return, and
a thread whose `new` threw takes the lock with it.

Fairness. Threads and providers go on with what they can do (`WF`): threads of a
process are scheduled, and a provider completes every request it accepted, at the
latest with a flush. Beyond that:

* `BothReturn` needs `SF` on `Register`: after `ND_IO_TIMEOUT` the server registers
  its memory again without limit (`RDMAServer.cpp` 173-196), so a provider that
  answers so for ever keeps it there.
* In `NdLifetime` only the thread inside the lock is assumed to run; nothing is
  assumed of those that spin for it.
* In `NdRegistry` a thread that waits for `m_lock` gets it when it is free again
  and again (`SF` on `Change` and `LookUp`), which a critical section grants.
* `ClientTeardown` assumes nothing of the provider: its polls have a limit. No
  liveness is claimed of `ServerTeardown`, whose wait has none in effect.

Nothing is assumed of breaking links, exits, changes or callers.

## 4. What the runs show of the code

Holding, and worth knowing:

* The offset into `pResult` is safe although the count given to `GetResults` is
  not adjusted (`NoOverrun`): the depth of the queue pair bounds what can be
  outstanding, and completions are popped as they are counted.
* Checking three slots is enough for the first chunk (`OkMeansLanded`), because
  the last slot is the last request and failures are suffixes.
* A call can only count past its target, and turn for ever, when an earlier call
  left requests outstanding (`CleanReadReturns`).
* A client never learns of a window that was not bound (`DescriptorNamesBoundWindow`),
  although the server looks at no completion: the order of one queue carries it.
* A client whose receive completed well has read a whole descriptor
  (`DescriptorReadWhole`); one whose wait ran out may have half of one.
* The wrappers are safe without a lock as long as callers pair (`CallsMeetAFramework`):
  a caller's own reference keeps the framework while it calls.
* No change is missed (`NothingIsMissed`), although the catalog may outgrow its
  buffer: the next request is issued before the catalog is read.
* A second overflow in `QueryAddressList` needs a change in between (`CallerGetsAnswer`).
* Releases are in the right order on either side on a first setup, however it
  stopped (`Inv` of the teardowns). `MisusesAreKnown` and `OnlyKnownLeaks` say
  exactly which members may be used wrongly, after which histories, and what is
  left behind: the server leaves `pMr`, `hAdapterFile` and `Sgl`; the client also
  `SglBatchRead`, `pRq`, `v4_Local`, its event and its references to the framework and
  to Winsock.
* A server that is not connected has given all the rest back, after any sequence of
  setups and teardowns, stopped and refused ones included (`AllGivenBack`), with two
  exceptions: a setup that stopped after it got the adapter but before `m_bConnected`
  was set, which `DestroyConnection` does not look for, and one on a server that was
  still connected, which overwrites the members.
* The buffer of a client may be freed after a `DestroyConnection` that returned "OK"
  (`BufferIsFree`), with one exception: after an `Initialize` on a client that was still
  connected, the registration in the first region is lost and stays for good
  (`RDMAClient.cpp` 130-139, 415).

Not holding, each with a run and a finding in `PROJECT.json`:

* `Accept` never fails: the result of the call is dropped (`AcceptFailureReported`).
* A batch longer than the queue returns "OK" whatever becomes of its later chunks
  (`FailedChunkIsReported`). This is why `OkMeansLanded` promises the first chunk.

Not holding, stated in the modules without a run. Put in place of the properties of
a run with the constants given, TLC refutes each:

| definition | constants | what it says |
|---|---|---|
| `ClientRead!ContextErrorMeansWrongContext` | as `read_dropped` | the single `Read` answers every success with "RequestContext Not Read" |
| `Session!SendCompletionAwaited` | `Faults = {"link"}` | `SendMW_Descript` says it waits for the send's completion; it waits for any |
| `Session!ClientOptionDecides` | `Faults = {}` | `-r` is documented as the client's option; the server's decides |
| `Session!ReadyMeansInitialized` | `Faults = {"call", "exit"}` | "RDMA Ready!!" is printed after a failed `Initialize` |
| `ServerTeardown!DisconnectIsLimited` | `ThreadSpec` | the time limit around `GetOverlappedResult` never applies: the provider decides when `DestroyConnection` returns |
| `AddressGather!OvergrowthIsHarmless` | as `address_gather` | after an overflow of the second call `len` is more than the buffer holds: the next provider is told too much |
| `NdRegistry!NextCallUpdatesFirst` | as `registry_ends` | a lookup can run before the lists were ever filled |
| `NdRegistry!RearmAnsweredAtOnce` | as `registry_ends` | the assertion after the request for address changes is wrong when it is pending |
| `NdRegistry!AddressesHaveProviders` | two providers, `Faults = {"memory"}` | an exception while the catalog is read leaves addresses whose provider is then deleted |

The `new` of `NdStartup` is not the one that returns null: an exception there keeps
the lock for good, which is why `LockIsReturned` excepts it.

## 5. Proofs

Eight modules hold theorems; `PROJECT.json` lists them. All are for every value of
the constants that the `ASSUME` of the module admits. The assumptions say that
bounds are natural numbers and that sets are what their comments call them; those
of the teardowns, which `Initialize` and which constructor the members come from.
Every inductive invariant was checked by TLC on the instance of the run first.

*Data path* (`ClientReadProofs`). `NoOverrun` alone is not inductive: that the next
turn stays in bounds needs what can still be outstanding, and that an "OK" means
data needs to know which request is in which slot. `Inv` adds the order of the
queue's counters (`QueueInv`), how far the chunk is (`ChunkInv`), that popped plus
outstanding is the chunk when the call started clean (`WaitInv`), that the slots
are the last `resultCnt` requests in order (`SlotInv`), and what the last call left
(`LeftInv`). `AtCheck` then says what the checks can see, and `PassedChunk` that a
chunk that passes has landed: its last slot is its last request and `good` is a
prefix.

*Setup* (`SessionProofs`). `Inv` follows the descriptor backwards: nothing is learnt
before the send is done (`LearnInv`), a good completion means a done send
(`DeliveryInv`), a done send comes after a done bind (`RequestInv`), because a bind
that failed broke the link that the send would need. `ReceiveInv` is why a receive
is always there for the send. The refinement takes one step per action group: it
maps to `Bind`, `Tell`, a verdict, or a stutter.

*Setup, continued* (`SessionProofs`). Three invariants of their own. `QueueInv`
says that the server's queue holds exactly the answer to the request it waits for,
as long as nothing is disturbed; `SeenInv` makes "disturbed" stable, since each wait
runs once. `ServerObjInv` and `ClientObjInv` say that before each method a side has
exactly the first so many of the objects it makes; from them follow that no server
method goes through a member that is not set, and the prefixes the teardowns start
from.

*Lifetime* (`NdLifetimeProofs`). What the lock protects is not settled while a
thread is inside, so `StateInv` says what holds at each of its steps, and `LockInv`
that there is one such thread. The count is the number of holders as long as
`paired` (`HolderInv`); without it only the assertions remain, and they are proved
for any callers. `Implementation` shows that every step maps to one of `NdService`;
a step that breaks the rule maps to `Broken`.

*Registry* (`NdRegistryProofs`). `HandInv`: a packet is in one pair of hands, and the
lock excludes. `CurrentInv` says what each place of a packet means for the lists,
`NothingIsMissed` being its case with both packets armed; it needs the two steps of
the catalog, `probe` and `enumerate`, apart. `ListedAreActive` and `CodeStaysLoaded`
need that the catalog is read to the end, hence `"memory" \notin Faults`.

*Teardowns* (`ServerTeardownProofs`, `ClientTeardownProofs`). What the properties say
of the end of a call has to hold in its middle, after any number of calls before it.
`DestroyConnection` is a line of stops, `After`; `PassedInv` says that nothing is
live behind the stop that is reached, `AheadInv` that nothing ahead of it was
released, except what a refused call left behind when it is retried (`Retried`), and
anything when a second setup stopped half way (`Confused`). From the two follow which
members can be used again (`UsesAreKnown`) and what is left (`LeaksAreKnown`).
`HeldInv` counts references: on the server there is at least one for what it holds
now and one more when a second setup forgot an adapter, so that the last reference
to the framework outlives every adapter and no clean-up is one too many
(`CleanupIsPaired`); the client gives none back. As long as no setup stopped half open
or met a connected server, the count is exact: `BalanceInv` says that one reference of
each kind is held while the server is connected and none while it is not, and that
only what is never released is live or lost then (`GivesAllBack`). On the client
`BufferInv` says that a live registration keeps it connected, so that a `Deregister`
that was refused is tried again, and that a registration is lost only by a setup of a
client that was still connected: otherwise a `DestroyConnection` that returned "OK"
means that no region, of this setup or of one before, holds the buffer
(`BufferMayBeFreed`).

*Address lists* (`AddressProofs`). `CopyInv` says that what is copied is a start of the
addresses that were counted: `pBuf` lies behind the entries by exactly the bytes of
that start (`Taken`), and `pBuf` and `cbRemaining` add up to the size. One more
counted address adds its own length (`NextBytes`) and a start takes no more bytes
than the whole (`FewerBytes`), so the next address always fits (`NextFits`): nothing
is written outside, and the branch of `CopySockaddr` that leaves an address out is
never taken for want of room (`NothingIsLeftOut`). The size that comes with an
overflow stays enough while the lists stay as they are (`SizeIsEnough`), so a caller
is not sent back twice for one list (`NoSecondOverflow`): the part of
`CallerGetsAnswer` that is no liveness. For the gathering, `BufferInv`
carries the length of the buffer from one provider to the next, and `GatheredInv`
that the providers up to `at` have given what they have and the others nothing,
as long as no allocation threw.

*List* (`PointerListProofs`). `InOrder` ties the links to the sequence of items, in
both directions and around the head; each operation is a lemma about sequences and
a lemma about links. A walk has seen what was in front of its iterator and has the
rest before it, whatever it removed: the two together are the list it started with
(`SeenAndLeft`), so at the end it has seen all of that (`WalkIsComplete`).

Only model-checked: the liveness properties (`CleanReadReturns`, `BothReturn`,
`TakenRequestGetsReady`, `LockIsReturned`, `UpdatesEnd`, `CallerGetsAnswer`, `Returns`),
which this version of TLAPS cannot prove, having neither fairness nor `ENABLED`.
Every safety property and refinement that a passing run checks is a theorem.
Sizes and lists of addresses are stated by counting, which is what `CountAddresses`
does; a fold over a sequence would need induction over data, which the installed
provers cannot do.

## 6. Not modelled

* The Network Direct headers declare interfaces, layouts and status codes, and the
  shared definitions of the plugin format messages and log: no behaviour of their
  own beyond the constants the modules use. They are a good third of the lines.
* `main` parses its arguments into a buffer size and a mode. Sizes are abstract in
  the setups, so that a size of 0 MB (`RDMAServer.cpp` 411) is outside, and so is
  the arithmetic on queue depths (`RDMAClient.cpp` 118).
* One `OVERLAPPED` serves every wait of the server. What the provider answers for a
  second request on it while the first is pending is not in the repository.
* Use of the buffer after `Initialize`: it belongs to the embedding program.
* `Matches` ignores the family of an address (`ndaddr.cpp` 44): `NdRegistry` follows
  one address, so two that collide are outside it.
* What a provider's DLL does inside, and memory ordering: `Interlocked` operations
  are full barriers, and everything else is under a lock or read by its owner.

What is left of the plan: a composition of `Session` with `ClientRead` for a
descriptor that comes late into a buffer already in use.
