---------------------------- MODULE ClientTeardown ----------------------------
(***************************************************************************)
(* RDMAClient::DestroyConnection (RDMAClient.cpp, 379-439), one action per *)
(* call it makes, on a client whose Initialize went well or stopped, and   *)
(* that may be called again after an error, or set up again.  Its          *)
(* constructor (5-8) zeroes no member at all.                              *)
(***************************************************************************)
EXTENDS Ownership

(* AdapterRegisterMemory makes the region and registers the buffer in it. *)
ClientRegisters ==
  SubSeq(ClientMakes, 1, 10) \o <<"registration">> \o SubSeq(ClientMakes, 11, Len(ClientMakes))

ASSUME ClientAssumption == Makes = ClientRegisters /\ Zeroed = {}

Releases == {"pQp", "pConnector", "pCq", "pAdapter", "pResult"}

(* Mutants: the region goes before what uses it; pCq is forgotten. *)
RegionFirst ==
  [Disconnect |-> "Deregister", Deregister |-> "pQp", pQp |-> "pConnector",
   pConnector |-> "pCq", pCq |-> "pAdapter", pAdapter |-> "pResult", pResult |-> "Last"]
QueueForgotten ==
  [Disconnect |-> "pQp", pQp |-> "pConnector", pConnector |-> "Deregister",
   pCq |-> "Deregister", Deregister |-> "pAdapter", pAdapter |-> "pResult",
   pResult |-> "Last"]

(* What comes after each step. *)
After ==
  [Disconnect |-> "pQp", pQp |-> "pConnector", pConnector |-> "pCq",
   pCq |-> "Deregister", Deregister |-> "pAdapter", pAdapter |-> "pResult",
   pResult |-> "Last"]

TypeOK ==
  /\ OwnershipTypeOK
  /\ pc \in DOMAIN After \union {"idle", "Disconnecting", "Deregistering", "Last", "crashed"}

-----------------------------------------------------------------------------
DestroyConnection == Destroy("Disconnect")

ReleaseOne == \E m \in Releases : Release(m, After[m])

(* Mutant: the connector is released before the call that can be refused. *)
DisconnectReleases ==
  /\ pc = "Disconnect"
  /\ \/ /\ Right("pConnector")
        /\ object' = [object EXCEPT !["pConnector"] = "released"]
        /\ past' \in {past, past \union {"Disconnect"}}
        /\ IF past' = past THEN pc' = After[pc] /\ reply' = reply ELSE Finish("error")
        /\ UNCHANGED <<ptr, held, abandoned, misused>>
     \/ Skipped("pConnector") /\ GoesOn(After[pc])
     \/ Misuse("pConnector", After[pc])
  /\ UNCHANGED <<connected, calls>>

(* Disconnect comes before every release; ND_CONNECTION_INVALID is as good  *)
(* as done, ND_TIMEOUT and errors return.                                   *)
Disconnect ==
  /\ pc = "Disconnect"
  /\ \/ /\ Right("pConnector")
        /\ GoesOn(After[pc]) \/ GoesOn("Disconnecting") \/ Refused("Disconnect")
     \/ Skipped("pConnector") /\ GoesOn(After[pc])
     \/ Misuse("pConnector", After[pc])
  /\ UNCHANGED <<connected, calls>>

(* Mutant: the wait has no limit. *)
DisconnectingForEver == pc = "Disconnecting" /\ pc' = pc /\ UNCHANGED <<owned, history, reply, connected, calls>>

(* It is asked for every ten milliseconds until it is done, with whatever   *)
(* result, or the time limit returns an error.                              *)
Disconnecting ==
  /\ pc = "Disconnecting"
  /\ GoesOn(After["Disconnect"]) \/ Refused("Disconnect")
  /\ UNCHANGED <<connected, calls>>

(* What pMr points to gives its buffer back; a region with no buffer in it  *)
(* has nothing to give, and one that pMr has lost is not reached.           *)
Deregistered(next) ==
  /\ object' = [object EXCEPT !["registration"] = IF @ = "live" THEN "released" ELSE @]
  /\ pc' = next
  /\ UNCHANGED <<ptr, held, history, reply>>

(* Mutant: a Deregister that is not waited for. *)
DeregisterStarted ==
  /\ pc = "Deregister"
  /\ \/ Skipped("pMr") /\ GoesOn(After[pc])
     \/ Right("pMr") /\ GoesOn(After[pc])
     \/ Misuse("pMr", After[pc])
  /\ UNCHANGED <<connected, calls>>

(* Deregister: done at once, pending or refused. *)
Deregister ==
  /\ pc = "Deregister"
  /\ \/ Skipped("pMr") /\ GoesOn(After[pc])
     \/ /\ Right("pMr")
        /\ Deregistered(After[pc]) \/ GoesOn("Deregistering") \/ Refused("Deregister")
     \/ Misuse("pMr", After[pc])
  /\ UNCHANGED <<connected, calls>>

(* A pending one is polled with the same time limit, and its result tested. *)
Deregistering ==
  /\ pc = "Deregistering"
  /\ Deregistered(After["Deregister"]) \/ Refused("Deregister")
  /\ UNCHANGED <<connected, calls>>

(* m_bConnected is reset; neither NdCleanup nor WSACleanup is called. *)
Last ==
  /\ pc = "Last" /\ connected' = FALSE /\ Finish("OK")
  /\ UNCHANGED <<owned, history, calls>>

Work == ReleaseOne \/ Disconnect \/ Disconnecting \/ Deregister \/ Deregistering \/ Last
Next == Initialize \/ DestroyConnection \/ Work

Spec     == Init /\ [][Next]_vars
FairSpec == Spec /\ WF_vars(Work)

-----------------------------------------------------------------------------
(* DestroyConnection goes through a member that was never set only after a  *)
(* setup that stopped after OpenAdapter.  It goes through one it has        *)
(* released only after a second setup that stopped, or when it is called    *)
(* again because Deregister was refused, and then only through the three it *)
(* releases before that.  A refused Disconnect can be tried again.          *)
MisusesAreKnown ==
  \A use \in misused :
    IF use[1] = "unset" THEN "stopped" \in past /\ use[2] # "pAdapter"
    ELSE \/ "Deregister" \in past /\ use[2] \in {"pQp", "pConnector", "pCq"}
         \/ {"stopped", "reused"} \subseteq past

(* The adapter goes after every object that was made from it and that the   *)
(* client releases at all, on a client that was set up once.                *)
DependantsFirst ==
  object["pAdapter"] = "released" /\ "reused" \notin past =>
    \A m \in {"pQp", "pCq", "pConnector"} : object[m] # "live"

(* The buffer stays registered as long as a queue pair can use it.          *)
RegionLast ==
  object["registration"] = "released" /\ "reused" \notin past => object["pQp"] # "live"

Inv == TypeOK /\ DependantsFirst /\ RegionLast

(* A DestroyConnection that returns OK has taken the buffer back from the   *)
(* adapter, stopped setups, refusals and second tries before it included:   *)
(* its caller may free it.  Only on a client that was set up while it was   *)
(* still connected is that not so: the region that pMr has lost keeps the   *)
(* buffer for good.                                                         *)
BufferIsFree ==
  reply = "OK" /\ pc = "idle" /\ ~connected /\ "still connected" \notin past =>
    object["registration"] # "live" /\ "registration" \notin abandoned

(* A DestroyConnection that finds a complete setup and returns OK leaves    *)
(* the region, the receive queue, both lists of segments, the file handle,  *)
(* the event and its references to the framework and to Winsock.            *)
OnlyKnownLeaks ==
  /\ reply = "OK" /\ ~connected /\ pc = "idle" /\ object["pQp"] # "none"
  /\ {"stopped", "reused"} \intersect past = {}
  => /\ {m \in Members : object[m] = "live"} =
         {"pMr", "pRq", "Sgl", "SglBatchRead", "hAdapterFile", "ov", "v4_Local"}
     /\ held = [c \in Counted |-> 1]

(* Each call of DestroyConnection returns, even if the provider never       *)
(* answers, or has gone through a bad pointer.                              *)
Returns == pc # "idle" ~> pc \in {"idle", "crashed"}
=============================================================================
