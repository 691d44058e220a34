---------------------------- MODULE ServerTeardown ----------------------------
(***************************************************************************)
(* RDMAServer::DestroyConnection (RDMAServer.cpp, 436-486), one action per *)
(* call it makes, on a server whose Initialize went well or stopped, and   *)
(* that may be called again after an error, or set up again.  Its          *)
(* constructor (5-8) zeroes eight members and forgets pListen, Sgl and     *)
(* Results_Server.                                                         *)
(***************************************************************************)
EXTENDS Ownership

ServerZeroed == {"pAdapter", "pMr", "pCq", "pQp", "pConnector", "hAdapterFile", "pMw", "ov"}

ASSUME ServerAssumption == Makes = ServerMakes /\ Zeroed = ServerZeroed

Releases == {"pMw", "pQp", "pConnector", "pCq", "pListen", "pAdapter", "Results_Server"}

(* Mutants: the adapter goes first; the listener is forgotten. *)
AdapterFirst ==
  [pMw |-> "Disconnect", Disconnect |-> "pAdapter", pAdapter |-> "pQp", pQp |-> "pConnector",
   pConnector |-> "pCq", pCq |-> "pListen", pListen |-> "Deregister",
   Deregister |-> "Results_Server", Results_Server |-> "NdCleanup"]
ListenerForgotten ==
  [pMw |-> "Disconnect", Disconnect |-> "pQp", pQp |-> "pConnector", pConnector |-> "pCq",
   pCq |-> "Deregister", pListen |-> "Deregister", Deregister |-> "pAdapter",
   pAdapter |-> "Results_Server", Results_Server |-> "NdCleanup"]

(* What comes after each step. *)
After ==
  [pMw |-> "Disconnect", Disconnect |-> "pQp", pQp |-> "pConnector", pConnector |-> "pCq",
   pCq |-> "pListen", pListen |-> "Deregister", Deregister |-> "pAdapter",
   pAdapter |-> "Results_Server", Results_Server |-> "NdCleanup"]

TypeOK ==
  OwnershipTypeOK /\ pc \in DOMAIN After \union {"idle", "Disconnecting", "NdCleanup", "crashed"}

-----------------------------------------------------------------------------
(* Mutant: the early return is missing. *)
CallUnguarded ==
  /\ pc = "idle" /\ calls < MaxCalls /\ calls' = calls + 1
  /\ pc' = "pMw" /\ reply' = reply
  /\ UNCHANGED <<owned, connected, history>>

DestroyConnection == Destroy("pMw")

ReleaseOne == \E m \in Releases : Release(m, After[m])

(* Mutant: a DestroyConnection that is refused resets m_bConnected too. *)
DisconnectGivesUp ==
  /\ pc = "Disconnect"
  /\ \/ /\ Right("pConnector")
        /\ \/ GoesOn(After[pc]) /\ UNCHANGED connected
           \/ GoesOn("Disconnecting") /\ UNCHANGED connected
           \/ Refused("Disconnect") /\ connected' = FALSE
     \/ Skipped("pConnector") /\ GoesOn(After[pc]) /\ UNCHANGED connected
     \/ Misuse("pConnector", After[pc]) /\ UNCHANGED connected
  /\ UNCHANGED calls

(* Disconnect: ND_CONNECTION_INVALID is as good as done; ND_TIMEOUT and     *)
(* errors return, after pMw has been released.                              *)
Disconnect ==
  /\ pc = "Disconnect"
  /\ \/ /\ Right("pConnector")
        /\ GoesOn(After[pc]) \/ GoesOn("Disconnecting") \/ Refused("Disconnect")
     \/ Skipped("pConnector") /\ GoesOn(After[pc])
     \/ Misuse("pConnector", After[pc])
  /\ UNCHANGED <<connected, calls>>

(* A pending Disconnect is waited for inside GetOverlappedResult, and what  *)
(* it ended with is not looked at.                                          *)
Disconnected ==
  /\ pc = "Disconnecting" /\ GoesOn(After["Disconnect"])
  /\ UNCHANGED <<connected, calls>>

(* Deregister: started, neither waited for nor looked at. *)
Deregister ==
  /\ pc = "Deregister"
  /\ IF Right("pMr") \/ Skipped("pMr") THEN GoesOn(After[pc]) ELSE Misuse("pMr", After[pc])
  /\ UNCHANGED <<connected, calls>>

(* NdCleanup, which fails when the framework is not started; then the event *)
(* is closed, WSACleanup called and m_bConnected reset.                     *)
Cleanup ==
  /\ pc = "NdCleanup"
  /\ IF held["framework"] = 0 THEN Refused("NdCleanup") /\ UNCHANGED connected
     ELSE /\ held' = [c \in Counted |-> held[c] - 1]
          /\ object' = [object EXCEPT !["ov"] = "released"]
          /\ connected' = FALSE
          /\ Finish("OK") /\ UNCHANGED <<ptr, history>>
  /\ UNCHANGED calls

Work == ReleaseOne \/ Disconnect \/ Deregister \/ Cleanup
Next == Initialize \/ DestroyConnection \/ Work \/ Disconnected

Spec == Init /\ [][Next]_vars

(* The thread keeps running; whether the provider answers a Disconnect is   *)
(* not its business.                                                        *)
ThreadSpec == Spec /\ WF_vars(Work)

-----------------------------------------------------------------------------
(* DestroyConnection goes through a member that was never set only after a  *)
(* setup that stopped, and then only through the two the constructor        *)
(* forgets.  It goes through one it has released only when it is called     *)
(* again after a refused Disconnect, and then only through pMw, which it    *)
(* releases before Disconnect; or on a server whose second setup stopped.   *)
MisusesAreKnown ==
  \A use \in misused :
    IF use[1] = "unset"
    THEN "stopped" \in past /\ use[2] \in {"pListen", "Results_Server"}
    ELSE \/ "Disconnect" \in past /\ use[2] = "pMw"
         \/ {"stopped", "reused"} \subseteq past

(* The adapter goes after every object that was made from it, on a server   *)
(* that was set up once.                                                    *)
DependantsFirst ==
  object["pAdapter"] = "released" /\ "reused" \notin past =>
    \A m \in {"pQp", "pCq", "pConnector", "pListen", "pMw"} :
      object[m] # "live"

(* The server never gives up its last reference to the framework, which may *)
(* unload the provider, while it holds an adapter.                          *)
FrameworkOutlivesAdapter ==
  held["framework"] = 0 => object["pAdapter"] # "live" /\ "pAdapter" \notin abandoned

(* A DestroyConnection that finds a complete setup and returns OK leaves    *)
(* the region, the file handle and the list of segments, and no more.       *)
OnlyKnownLeaks ==
  /\ reply = "OK" /\ ~connected /\ pc = "idle" /\ object["pListen"] # "none"
  /\ {"stopped", "reused"} \intersect past = {}
  => {m \in Members : object[m] = "live"} = {"pMr", "hAdapterFile", "Sgl"}

(* However often it was set up and torn down before, with setups that       *)
(* stopped, refused calls and second tries: a server that is not connected  *)
(* has given back Winsock, the framework and every object of each of its    *)
(* setups, but for the three kinds it always leaves.  It cannot do so for a *)
(* setup that stopped half open, nor for one that met a server which was    *)
(* still connected.                                                         *)
AllGivenBack ==
  ~connected /\ {"half open", "still connected"} \intersect past = {} =>
    /\ held = [c \in Counted |-> 0]
    /\ {m \in Members : object[m] = "live"} \union abandoned \subseteq
         {"pMr", "hAdapterFile", "Sgl"}

(* Each NdCleanup of the server answers an NdStartup of its own: it is one  *)
(* of the paired callers NdLifetime asks for.                               *)
CleanupIsPaired == "NdCleanup" \notin past

Inv == TypeOK /\ DependantsFirst /\ FrameworkOutlivesAdapter /\ CleanupIsPaired

(* "if (temp > m_msTimeOut) return ... GetOverlappedResult TimeOut"         *)
(* (RDMAServer.cpp, 449): the wait for Disconnect has a limit, whatever the *)
(* provider does.                                                           *)
DisconnectIsLimited == pc = "Disconnecting" ~> pc # "Disconnecting"
=============================================================================
