------------------------------ MODULE RDMAClient ------------------------------
(***************************************************************************)
(* RDMAClient::Initialize (RDMAClient.cpp, 9-30): ten methods, run in the  *)
(* order of its `steps' vector until one does not return "OK".  cpc is the *)
(* method that runs, or the wait inside it.                                *)
(***************************************************************************)
EXTENDS Fabric

VARIABLES
  cpc,      \* where the client's thread is
  cMode,    \* bReadMode: the client asked for read credits when it connected
  cObj,     \* the objects its members point to
  cSaw,     \* the completion the wait of Receive_MWDescriptor popped
  cToken,   \* remoteToken: where it was read from
  cAddress, \* remoteAddress
  cReply    \* what Initialize returned

client == <<cpc, cMode, cObj, cSaw, cToken, cAddress, cReply>>

Contents == {"none", "garbage", "descriptor"}

ClientSteps ==
  {"Assign_IPAdress", "OpenAdapter", "SendAdapterInfoQuery", "AdapterRegisterMemory",
   "Registering", "CreateCQ", "CreateEndPoint", "SetupSGE", "Connect", "Connecting",
   "CompleteConnect", "ReceiveWait", "ReadToken", "ReadAddress",
   "returned", "crashed", "exited"}

ClientObjects ==
  {"wsa", "ov", "framework", "v4_Local", "pAdapter", "hAdapterFile", "Sgl", "SglBatchRead",
   "pResult", "pMr", "pCq", "pRq", "pConnector", "pQp"}

ClientTypeOK ==
  /\ cpc \in ClientSteps
  /\ cMode \in Access
  /\ cObj \subseteq ClientObjects
  /\ cSaw \in Seen
  /\ cToken \in Contents /\ cAddress \in Contents
  /\ cReply \in {"none", "OK", "error"}

ClientInit ==
  /\ cpc = "Assign_IPAdress" /\ cMode \in Access /\ cObj = {}
  /\ cSaw = NotWaited /\ cToken = "none" /\ cAddress = "none" /\ cReply = "none"

-----------------------------------------------------------------------------
GoOn(step) == cpc' = step /\ cReply' = cReply
GiveUp     == cpc' = "returned" /\ cReply' = "error"
learned    == <<cSaw, cToken, cAddress>>

(* A method that makes objects; `left' are the ways it can leave some of    *)
(* them behind when one of its calls fails.                                 *)
Build(step, made, left, next) ==
  /\ cpc = step
  /\ \/ cObj' = cObj \union made /\ GoOn(next)
     \/ /\ MayFail("call")
        /\ \E some \in left : cObj' = cObj \union some
        /\ GiveUp
  /\ UNCHANGED <<fabric, cMode, learned>>

CAssign_IPAdress ==
  Build("Assign_IPAdress", {"wsa", "ov", "framework", "v4_Local"},
        {{}, {"wsa"}, {"wsa", "ov"}, {"wsa", "ov", "framework"}}, "OpenAdapter")
COpenAdapter ==
  Build("OpenAdapter", {"pAdapter", "hAdapterFile"}, {{}, {"pAdapter"}},
        "SendAdapterInfoQuery")
CSendAdapterInfoQuery ==
  Build("SendAdapterInfoQuery", {"Sgl", "SglBatchRead", "pResult"}, {{}},
        "AdapterRegisterMemory")
CCreateCQ       == Build("CreateCQ", {"pCq", "pRq"}, {{}, {"pCq"}}, "CreateEndPoint")
CCreateEndPoint ==
  Build("CreateEndPoint", {"pConnector", "pQp"}, {{}, {"pConnector"}}, "SetupSGE")

(* AdapterRegisterMemory does not look at the result of CreateMemoryRegion  *)
(* (130): without a region, Register is called through a pointer that was   *)
(* never set.                                                               *)
CCreateRegion ==
  /\ cpc = "AdapterRegisterMemory" /\ GoOn("Registering")
  /\ \/ cObj' = cObj \union {"pMr"}
     \/ MayFail("call") /\ UNCHANGED cObj
  /\ UNCHANGED <<fabric, cMode, learned>>

CRegister ==
  /\ cpc = "Registering"
  /\ \/ "pMr" \in cObj /\ GoOn("CreateCQ")
     \/ /\ "pMr" \in cObj /\ GiveUp
        /\ MayFail("call") \/ MayFail("timeout") \/ MayFail("register")
     \/ "pMr" \notin cObj /\ GoOn("crashed")
  /\ UNCHANGED <<fabric, cMode, cObj, learned>>

(* Mutant: a receive whose refusal is not looked at. *)
SetupSGEUnchecked ==
  /\ cpc = "SetupSGE" /\ GoOn("Connect")
  /\ cRecv' = "queued" \/ (MayFail("call") /\ UNCHANGED cRecv)
  /\ UNCHANGED <<link, listener, sRecv, bindWR, sendWR, sCq, cRq, window, cBuf,
                 cMode, cObj, learned>>

(* SetupSGE posts the receive for the descriptor, before the connection is  *)
(* asked for.                                                               *)
CSetupSGE ==
  /\ cpc = "SetupSGE"
  /\ \/ cRecv' = "queued" /\ GoOn("Connect")
     \/ MayFail("call") /\ UNCHANGED cRecv /\ GiveUp
  /\ UNCHANGED <<link, listener, sRecv, bindWR, sendWR, sCq, cRq, window, cBuf,
                 cMode, cObj, learned>>

(* Connect: the request is refused when nobody listens.  Only FAILED(hr) is *)
(* tested, so ND_TIMEOUT passes for a connection (290).                     *)
Connect ==
  /\ cpc = "Connect"
  /\ \/ listener = "listening" /\ link = "idle" /\ link' = "requested" /\ GoOn("Connecting")
     \/ (listener = "closed" \/ MayFail("call")) /\ UNCHANGED link /\ GiveUp
  /\ UNCHANGED <<listener, sRecv, cRecv, bindWR, sendWR, sCq, cRq, window, cBuf,
                 cMode, cObj, learned>>

Connecting ==
  /\ cpc = "Connecting"
  /\ \/ (link = "accepted" \/ MayFail("timeout")) /\ GoOn("CompleteConnect")
     \/ (link = "down" \/ MayFail("timeout")) /\ GiveUp
  /\ UNCHANGED <<fabric, cMode, cObj, learned>>

(* CompleteConnect: the connection is up on both sides when it succeeds. *)
CompleteConnect ==
  /\ cpc = "CompleteConnect"
  /\ \/ link = "accepted" /\ link' = "up" /\ GoOn("ReceiveWait")
     \/ link = "accepted" /\ MayFail("timeout") /\ link' \in {link, "up"} /\ GiveUp
     \/ (link # "accepted" \/ MayFail("call")) /\ UNCHANGED link /\ GiveUp
  /\ UNCHANGED <<listener, sRecv, cRecv, bindWR, sendWR, sCq, cRq, window, cBuf,
                 cMode, cObj, learned>>

-----------------------------------------------------------------------------
(* Mutant: a wait that runs out and says that the receive completed. *)
ReceiveWaitTrusting ==
  /\ cpc = "ReceiveWait" /\ GoOn("ReadToken")
  /\ \/ cRq # <<>> /\ cSaw' = Head(cRq) /\ cRq' = Tail(cRq)
     \/ cRq = <<>> /\ MayFail("timeout") /\ cSaw' = Comp("RECV", "success") /\ UNCHANGED cRq
  /\ UNCHANGED <<link, listener, sRecv, cRecv, bindWR, sendWR, sCq, window, cBuf,
                 cMode, cObj, cToken, cAddress>>

(* Receive_MWDescriptor waits sixty seconds for a completion on pRq, drops  *)
(* what it gets, and reads the token and the address from the buffer.       *)
ReceiveWait ==
  /\ cpc = "ReceiveWait" /\ GoOn("ReadToken")
  /\ \/ cRq # <<>> /\ cSaw' = Head(cRq) /\ cRq' = Tail(cRq)
     \/ cRq = <<>> /\ MayFail("timeout") /\ cSaw' = TimedOut /\ UNCHANGED cRq
  /\ UNCHANGED <<link, listener, sRecv, cRecv, bindWR, sendWR, sCq, window, cBuf,
                 cMode, cObj, cToken, cAddress>>

ReadToken ==
  /\ cpc = "ReadToken" /\ GoOn("ReadAddress")
  /\ cToken' = cBuf
  /\ UNCHANGED <<fabric, cMode, cObj, cSaw, cAddress>>

ReadAddress ==
  /\ cpc = "ReadAddress" /\ cpc' = "returned" /\ cReply' = "OK"
  /\ cAddress' = cBuf
  /\ UNCHANGED <<fabric, cMode, cObj, cSaw, cToken>>

ClientNext ==
  \/ CAssign_IPAdress \/ COpenAdapter \/ CSendAdapterInfoQuery
  \/ CCreateRegion \/ CRegister \/ CCreateCQ \/ CCreateEndPoint \/ CSetupSGE
  \/ Connect \/ Connecting \/ CompleteConnect
  \/ ReceiveWait \/ ReadToken \/ ReadAddress
=============================================================================
