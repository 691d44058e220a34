------------------------------ MODULE RDMAServer ------------------------------
(***************************************************************************)
(* RDMAServer::Initialize (RDMAServer.cpp, 10-36): fifteen methods, run in *)
(* the order of its `steps' vector until one does not return "OK".  spc is *)
(* the method that runs, or the wait inside it.  A method that only makes  *)
(* objects is one action: either all its calls succeed, or it returns the  *)
(* error of the first that does not and leaves what it made before.        *)
(***************************************************************************)
EXTENDS Fabric

VARIABLES
  spc,       \* where the server's thread is
  sMode,     \* bReadMode: the access the server grants
  sObj,      \* the objects its members point to
  sSawBind,  \* the completion the wait of BindMemoryWindow popped
  sSawSend,  \* the completion the wait of SendMW_Descript popped
  sReply,    \* what Initialize returned
  sAccept    \* history: what became of pConnector->Accept

sSaw   == <<sSawBind, sSawSend>>
server == <<spc, sMode, sObj, sSawBind, sSawSend, sReply, sAccept>>

ServerSteps ==
  {"Assign_IPAdress", "OpenAdapter", "SendAdapterInfoQuery", "AdapterRegisterMemory",
   "Registering", "Reregister", "CreateMemoryWindow", "CreateCQ", "SetupSGE",
   "CreateConnector", "CreateEndPoint", "Listen", "GetConnectionRequest",
   "Reserve_ReceiveEnd", "Accept", "BindMemoryWindow", "BindWait", "SendMW_Descript",
   "SendWait", "returned", "exited"}

ServerObjects ==
  {"wsa", "framework", "pAdapter", "ov", "hAdapterFile", "pMr", "registration",
   "pMw", "pCq", "Sgl", "pConnector", "Results_Server", "pQp", "pListen"}

ServerTypeOK ==
  /\ spc \in ServerSteps
  /\ sMode \in Access
  /\ sObj \subseteq ServerObjects
  /\ sSawBind \in Seen /\ sSawSend \in Seen
  /\ sReply \in {"none", "OK", "error"}
  /\ sAccept \in {"not called", "started", "failed"}

ServerInit ==
  /\ spc = "Assign_IPAdress" /\ sMode \in Access /\ sObj = {}
  /\ sSawBind = NotWaited /\ sSawSend = NotWaited
  /\ sReply = "none" /\ sAccept = "not called"

-----------------------------------------------------------------------------
Proceed(step) == spc' = step /\ sReply' = sReply
Fail          == spc' = "returned" /\ sReply' = "error"

(* A method that makes objects; `left' are the ways it can leave some of    *)
(* them behind when one of its calls fails.                                 *)
Make(step, made, left, next) ==
  /\ spc = step
  /\ \/ sObj' = sObj \union made /\ Proceed(next)
     \/ /\ MayFail("call")
        /\ \E some \in left : sObj' = sObj \union some
        /\ Fail
  /\ UNCHANGED <<fabric, sMode, sSaw, sAccept>>

Assign_IPAdress ==
  Make("Assign_IPAdress", {"wsa", "framework"}, {{}, {"wsa"}}, "OpenAdapter")
OpenAdapter ==
  Make("OpenAdapter", {"pAdapter", "ov", "hAdapterFile"},
       {{}, {"pAdapter"}, {"pAdapter", "ov"}}, "SendAdapterInfoQuery")
SendAdapterInfoQuery ==
  Make("SendAdapterInfoQuery", {}, {{}}, "AdapterRegisterMemory")
CreateRegion ==
  Make("AdapterRegisterMemory", {"pMr"}, {{}, {"pMr"}}, "Registering")
(* Mutant: the completion queue is left out of `steps'. *)
CreateWindowOnly == Make("CreateMemoryWindow", {"pMw"}, {{}}, "SetupSGE")

CreateMemoryWindow == Make("CreateMemoryWindow", {"pMw"}, {{}}, "CreateCQ")
CreateCQ           == Make("CreateCQ", {"pCq"}, {{}}, "SetupSGE")
SetupSGE           == Make("SetupSGE", {"Sgl"}, {}, "CreateConnector")
CreateConnector ==
  Make("CreateConnector", {"pConnector", "Results_Server"}, {{}}, "CreateEndPoint")
CreateEndPoint == Make("CreateEndPoint", {"pQp"}, {{}}, "Listen")

(* AdapterRegisterMemory waits for the registration; ND_IO_TIMEOUT makes it *)
(* register again, without limit, and ND_TIMEOUT, which FAILED() lets       *)
(* through, makes it go on without a registration.                          *)
Register ==
  /\ spc = "Registering"
  /\ sObj' = sObj \union {"registration"} /\ Proceed("CreateMemoryWindow")
  /\ UNCHANGED <<fabric, sMode, sSaw, sAccept>>

RegisterEndsOtherwise ==
  /\ spc = "Registering"
  /\ \/ MayFail("register") /\ Proceed("Reregister")
     \/ MayFail("timeout") /\ Proceed("CreateMemoryWindow")
     \/ MayFail("call") /\ Fail
     \/ MayFail("timeout") /\ Fail
  /\ UNCHANGED <<fabric, sMode, sObj, sSaw, sAccept>>

RegisterAgain ==
  /\ spc = "Reregister" /\ Proceed("Registering")
  /\ UNCHANGED <<fabric, sMode, sObj, sSaw, sAccept>>

(* Listen: what pListen->Listen(0) returns is not looked at (236). *)
Listen ==
  /\ spc = "Listen"
  /\ \/ /\ sObj' = sObj \union {"pListen"} /\ Proceed("GetConnectionRequest")
        /\ listener' = "listening" \/ (MayFail("call") /\ UNCHANGED listener)
     \/ /\ MayFail("call") /\ Fail /\ UNCHANGED listener
        /\ sObj' \in {sObj, sObj \union {"pListen"}}
  /\ UNCHANGED <<link, sRecv, cRecv, bindWR, sendWR, sCq, cRq, window, cBuf,
                 sMode, sSaw, sAccept>>

(* GetConnectionRequest: the connector takes the request of the client, or  *)
(* the wait of fifty seconds runs out.                                      *)
GetConnectionRequest ==
  /\ spc = "GetConnectionRequest"
  /\ \/ link = "requested" /\ link' = "taken" /\ Proceed("Reserve_ReceiveEnd")
     \/ /\ listener = "closed" \/ MayFail("call") \/ MayFail("timeout")
        /\ Fail /\ UNCHANGED link
  /\ UNCHANGED <<listener, sRecv, cRecv, bindWR, sendWR, sCq, cRq, window, cBuf,
                 sMode, sObj, sSaw, sAccept>>

Reserve_ReceiveEnd ==
  /\ spc = "Reserve_ReceiveEnd"
  /\ \/ sRecv' = "queued" /\ Proceed("Accept")
     \/ (MayFail("call") \/ link = "down") /\ UNCHANGED sRecv /\ Fail
  /\ UNCHANGED <<link, listener, cRecv, bindWR, sendWR, sCq, cRq, window, cBuf,
                 sMode, sObj, sSaw, sAccept>>

(* Accept: the result of pConnector->Accept is dropped and the hr tested is *)
(* that of the receive before it, S_OK: the method neither waits nor fails. *)
Accept ==
  /\ spc = "Accept" /\ Proceed("BindMemoryWindow")
  /\ \/ link = "taken" /\ link' = "accepted" /\ sAccept' = "started"
     \/ /\ link = "down" \/ MayFail("call")
        /\ sAccept' = "failed" /\ UNCHANGED link
  /\ UNCHANGED <<listener, sRecv, cRecv, bindWR, sendWR, sCq, cRq, window, cBuf,
                 sMode, sObj, sSaw>>

-----------------------------------------------------------------------------
(* Mutants: a bind whose refusal is not looked at, and one not waited for. *)
PostBindUnchecked ==
  /\ spc = "BindMemoryWindow" /\ Proceed("SendMW_Descript")
  /\ bindWR' = "queued" \/ (PostMayFail /\ UNCHANGED bindWR)
  /\ UNCHANGED <<link, listener, sRecv, cRecv, sendWR, sCq, cRq, window, cBuf,
                 sMode, sObj, sSaw, sAccept>>

PostBindNoWait ==
  /\ spc = "BindMemoryWindow"
  /\ \/ bindWR' = "queued" /\ Proceed("SendMW_Descript")
     \/ PostMayFail /\ UNCHANGED bindWR /\ Fail
  /\ UNCHANGED <<link, listener, sRecv, cRecv, sendWR, sCq, cRq, window, cBuf,
                 sMode, sObj, sSaw, sAccept>>

PostBind ==
  /\ spc = "BindMemoryWindow"
  /\ \/ bindWR' = "queued" /\ Proceed("BindWait")
     \/ PostMayFail /\ UNCHANGED bindWR /\ Fail
  /\ UNCHANGED <<link, listener, sRecv, cRecv, sendWR, sCq, cRq, window, cBuf,
                 sMode, sObj, sSaw, sAccept>>

(* Mutant: a wait without a limit. *)
PopForever(seen) == sCq # <<>> /\ seen = Head(sCq) /\ sCq' = Tail(sCq)

(* WaitForCompletion: the oldest completion on pCq, whatever it is of, or   *)
(* a made-up one when sixty seconds have passed.  Neither caller looks at   *)
(* it: BindMemoryWindow tests hr again, and SendMW_Descript nothing.        *)
PopOrTimeOut(seen) ==
  \/ sCq # <<>> /\ seen = Head(sCq) /\ sCq' = Tail(sCq)
  \/ MayFail("timeout") /\ sCq = <<>> /\ seen = TimedOut /\ UNCHANGED sCq

BindWait ==
  /\ spc = "BindWait" /\ Proceed("SendMW_Descript")
  /\ \E seen \in Seen : PopOrTimeOut(seen) /\ sSawBind' = seen
  /\ UNCHANGED <<link, listener, sRecv, cRecv, bindWR, sendWR, cRq, window, cBuf,
                 sMode, sObj, sSawSend, sAccept>>

(* SendMW_Descript writes the descriptor of pMw to the end of its buffer    *)
(* and sends it.                                                            *)
PostSend ==
  /\ spc = "SendMW_Descript"
  /\ \/ sendWR' = "queued" /\ Proceed("SendWait")
     \/ PostMayFail /\ UNCHANGED sendWR /\ Fail
  /\ UNCHANGED <<link, listener, sRecv, cRecv, bindWR, sCq, cRq, window, cBuf,
                 sMode, sObj, sSaw, sAccept>>

SendWait ==
  /\ spc = "SendWait" /\ spc' = "returned" /\ sReply' = "OK"
  /\ \E seen \in Seen : PopOrTimeOut(seen) /\ sSawSend' = seen
  /\ UNCHANGED <<link, listener, sRecv, cRecv, bindWR, sendWR, cRq, window, cBuf,
                 sMode, sObj, sSawBind, sAccept>>

ServerNext ==
  \/ Assign_IPAdress \/ OpenAdapter \/ SendAdapterInfoQuery
  \/ CreateRegion \/ Register \/ RegisterEndsOtherwise \/ RegisterAgain
  \/ CreateMemoryWindow \/ CreateCQ \/ SetupSGE \/ CreateConnector \/ CreateEndPoint
  \/ Listen \/ GetConnectionRequest \/ Reserve_ReceiveEnd \/ Accept
  \/ PostBind \/ BindWait \/ PostSend \/ SendWait

Registered == "registration" \in sObj

(* Mutant: the two flags of the bind are swapped. *)
GrantedOther == IF sMode = "read" THEN "write" ELSE "read"

(* The access the bind asks for (389). *)
Granted == sMode

(* The members each method dereferences. *)
ServerUses ==
  [SendAdapterInfoQuery  |-> {"pAdapter"},
   AdapterRegisterMemory |-> {"pAdapter", "hAdapterFile"},
   Registering           |-> {"pMr", "ov"},
   CreateMemoryWindow    |-> {"pAdapter"},
   CreateCQ              |-> {"pAdapter", "hAdapterFile"},
   SetupSGE              |-> {"pMr"},
   CreateConnector       |-> {"pAdapter", "hAdapterFile"},
   CreateEndPoint        |-> {"pAdapter", "pCq"},
   Listen                |-> {"pAdapter", "hAdapterFile"},
   GetConnectionRequest  |-> {"pListen", "pConnector", "ov"},
   Reserve_ReceiveEnd    |-> {"pQp", "Sgl"},
   Accept                |-> {"pConnector", "pQp", "pListen", "ov"},
   BindMemoryWindow      |-> {"pQp", "Results_Server", "pMr", "pMw"},
   BindWait              |-> {"pCq"},
   SendMW_Descript       |-> {"pQp", "Sgl", "pMr", "pMw"},
   SendWait              |-> {"pCq"}]
=============================================================================
