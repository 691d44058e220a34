-------------------------------- MODULE Fabric --------------------------------
(***************************************************************************)
(* The Network Direct provider and the wire between one server and one     *)
(* client, as far as the setup of a session uses them: the connection, the *)
(* two receives, the initiator queue of the server's queue pair (a bind    *)
(* and a send, executed in that order) and the completions they leave.     *)
(* This code is not in the repository; it is modelled from the calls in    *)
(* RDMAServer.cpp and RDMAClient.cpp and the interfaces in ndspi.h.        *)
(***************************************************************************)
EXTENDS Integers, Sequences

CONSTANT Faults   \* what may go wrong in an instance

AllFaults == {"call",      \* a provider call fails
              "link",      \* the connection breaks, or a request fails on it
              "timeout",   \* a wait runs out, or a call ends with ND_TIMEOUT
              "early",     \* a request on a queue pair not connected yet is refused
              "register",  \* a registration ends with ND_IO_TIMEOUT
              "exit"}      \* a process ends once Initialize returned, as the
                           \* command-line program does

ASSUME FaultsAssumption == Faults \subseteq AllFaults

MayFail(f) == f \in Faults

VARIABLES
  link,      \* the connection
  listener,  \* pListen: it accepts connection requests or not
  sRecv,     \* the receive the server posted
  cRecv,     \* the receive the client posted
  bindWR,    \* the memory window bind on the server's queue pair
  sendWR,    \* the send of the descriptor on the server's queue pair
  sCq,       \* the server's pCq: completions not popped yet
  cRq,       \* the client's pRq: completions not popped yet
  window,    \* the access that the bound memory window allows
  cBuf       \* what the first x_MaxXfer bytes of the client's buffer hold

fabric == <<link, listener, sRecv, cRecv, bindWR, sendWR, sCq, cRq, window, cBuf>>

Access      == {"read", "write"}
Links       == {"idle", "requested", "taken", "accepted", "up", "down"}
Request     == {"unposted", "queued", "done", "failed"}
Completion  == [context : {"RECV", "BIND", "SEND"}, status : {"success", "error"}]
Comp(c, s)  == [context |-> c, status |-> s]

(* What a wait for a completion ends with: one that it popped, or           *)
(* ND_IO_TIMEOUT, which the wait makes up.                                  *)
NotWaited == [context |-> "none", status |-> "none"]
TimedOut  == [context |-> "none", status |-> "ND_IO_TIMEOUT"]
Seen      == Completion \union {NotWaited, TimedOut}

FabricTypeOK ==
  /\ link \in Links
  /\ listener \in {"closed", "listening"}
  /\ sRecv \in Request /\ cRecv \in Request
  /\ bindWR \in Request /\ sendWR \in Request
  /\ sCq \in Seq(Completion) /\ cRq \in Seq(Completion)
  /\ window \in Access \union {"none"}
  /\ cBuf \in {"garbage", "descriptor"}

FabricInit ==
  /\ link = "idle" /\ listener = "closed"
  /\ sRecv = "unposted" /\ cRecv = "unposted"
  /\ bindWR = "unposted" /\ sendWR = "unposted"
  /\ sCq = <<>> /\ cRq = <<>>
  /\ window = "none" /\ cBuf = "garbage"

-----------------------------------------------------------------------------
(* Whether a request posted on a queue pair may be refused now. *)
PostMayFail == \/ MayFail("call")
               \/ link = "down"
               \/ link # "up" /\ MayFail("early")

(* The bind runs: from here on the window can be used from the other side.  *)
ExecuteBind(access, registered) ==
  /\ link = "up" /\ bindWR = "queued" /\ registered
  /\ bindWR' = "done" /\ window' = access
  /\ sCq' = Append(sCq, Comp("BIND", "success"))
  /\ UNCHANGED <<link, listener, sRecv, cRecv, sendWR, cRq, cBuf>>

(* A bind that fails puts the queue pair in error.  The region is           *)
(* registered for local write and remote read only (172), so a provider     *)
(* that checks the rights of a window against it refuses a "write" window.  *)
BindFails(access, registered) ==
  /\ link = "up" /\ bindWR = "queued"
  /\ access = "write" \/ ~registered \/ MayFail("link")
  /\ bindWR' = "failed" /\ link' = "down"
  /\ sCq' = Append(sCq, Comp("BIND", "error"))
  /\ UNCHANGED <<listener, sRecv, cRecv, sendWR, cRq, window, cBuf>>

(* The send runs once the bind before it has: the descriptor is copied to   *)
(* the buffer of the receive that waits on the other side.  That one always *)
(* waits there is Session's ReceivePostedForSend.                           *)
ExecuteSend ==
  /\ link = "up" /\ sendWR = "queued" /\ bindWR # "queued"
  /\ cRecv = "queued"
  /\ sendWR' = "done" /\ cRecv' = "done" /\ cBuf' = "descriptor"
  /\ sCq' = Append(sCq, Comp("SEND", "success"))
  /\ cRq' = Append(cRq, Comp("RECV", "success"))
  /\ UNCHANGED <<link, listener, sRecv, bindWR, window>>

LinkBreaks ==
  /\ MayFail("link") /\ link \in {"requested", "taken", "accepted", "up"}
  /\ link' = "down"
  /\ UNCHANGED <<listener, sRecv, cRecv, bindWR, sendWR, sCq, cRq, window, cBuf>>

(* What is queued on a broken connection completes with an error, the       *)
(* requests of one queue in their order, the queues in any order.           *)
FlushServerReceive ==
  /\ link = "down" /\ sRecv = "queued"
  /\ sRecv' = "failed" /\ sCq' = Append(sCq, Comp("RECV", "error"))
  /\ UNCHANGED <<link, listener, cRecv, bindWR, sendWR, cRq, window, cBuf>>

FlushClientReceive ==
  /\ link = "down" /\ cRecv = "queued"
  /\ cRecv' = "failed" /\ cRq' = Append(cRq, Comp("RECV", "error"))
  /\ UNCHANGED <<link, listener, sRecv, bindWR, sendWR, sCq, window, cBuf>>

FlushBind ==
  /\ link = "down" /\ bindWR = "queued"
  /\ bindWR' = "failed" /\ sCq' = Append(sCq, Comp("BIND", "error"))
  /\ UNCHANGED <<link, listener, sRecv, cRecv, sendWR, cRq, window, cBuf>>

FlushSend ==
  /\ link = "down" /\ sendWR = "queued" /\ bindWR # "queued"
  /\ sendWR' = "failed" /\ sCq' = Append(sCq, Comp("SEND", "error"))
  /\ UNCHANGED <<link, listener, sRecv, cRecv, bindWR, cRq, window, cBuf>>

(* What the provider does without being asked and goes on doing. *)
FabricProgress(access, registered) ==
  \/ ExecuteBind(access, registered) \/ BindFails(access, registered) \/ ExecuteSend
  \/ FlushServerReceive \/ FlushClientReceive \/ FlushBind \/ FlushSend
=============================================================================
