------------------------------- MODULE Session --------------------------------
(***************************************************************************)
(* One server and one client that set up a session: the two Initialize     *)
(* calls interleaved with each other and with the provider.  When it ends  *)
(* well, the client holds the token and the address of the server's memory *)
(* window.                                                                 *)
(***************************************************************************)
EXTENDS RDMAServer, RDMAClient, SetupMembers

vars == <<fabric, server, client>>

TypeOK == FabricTypeOK /\ ServerTypeOK /\ ClientTypeOK
Init   == FabricInit /\ ServerInit /\ ClientInit

ServerStep == ServerNext /\ UNCHANGED client
ClientStep == ClientNext /\ UNCHANGED server
Provider   == FabricProgress(Granted, Registered) /\ UNCHANGED <<server, client>>
Break      == LinkBreaks /\ UNCHANGED <<server, client>>

(* main returns as soon as Initialize has returned: the process ends, its   *)
(* queue pair and its window go away with it, and the other side sees the   *)
(* connection break.                                                        *)
Hangup == link' = IF link = "idle" THEN link ELSE "down"

ServerExits ==
  /\ MayFail("exit") /\ spc = "returned" /\ spc' = "exited"
  /\ Hangup /\ listener' = "closed" /\ window' = "none"
  /\ UNCHANGED <<sRecv, cRecv, bindWR, sendWR, sCq, cRq, cBuf, client,
                 sMode, sObj, sSaw, sReply, sAccept>>

ClientExits ==
  /\ MayFail("exit") /\ cpc = "returned" /\ cpc' = "exited"
  /\ Hangup
  /\ UNCHANGED <<listener, sRecv, cRecv, bindWR, sendWR, sCq, cRq, window, cBuf,
                 server, cMode, cObj, learned, cReply>>

Next == ServerStep \/ ClientStep \/ Provider \/ Break \/ ServerExits \/ ClientExits

(* Both threads keep running and the provider goes on with what it was      *)
(* given.  The server registers its memory again after every ND_IO_TIMEOUT, *)
(* so that it ever gets past that needs a provider that does not answer so  *)
(* for ever.                                                                *)
Fairness ==
  /\ WF_vars(ServerStep) /\ WF_vars(ClientStep) /\ WF_vars(Provider)
  /\ SF_vars(Register /\ UNCHANGED client)

Spec     == Init /\ [][Next]_vars
FairSpec == Spec /\ Fairness

-----------------------------------------------------------------------------
ServerDone == spc \in {"returned", "exited"}
ClientDone == cpc \in {"returned", "exited"}
Got(seen)  == seen.status = "success"

(* A client that read a descriptor can rely on a window that was bound: the *)
(* server posts the bind before the send and looks at the completion of     *)
(* neither, so this rests on the order of one queue and on a failed request *)
(* taking the connection with it.                                           *)
DescriptorNamesBoundWindow ==
  "descriptor" \in {cToken, cAddress} => bindWR = "done"

(* The receive for the descriptor is posted whenever the send can run:      *)
(* SetupSGE comes before Connect in the client, and the send after          *)
(* GetConnectionRequest in the server.                                      *)
ReceivePostedForSend ==
  link = "up" /\ sendWR = "queued" => cRecv = "queued"

(* The token and the address are of one descriptor when the client's wait   *)
(* saw the receive complete.  Only a wait that ran out can read one of them *)
(* before the provider writes the buffer and the other one after.           *)
DescriptorReadWhole ==
  ClientDone /\ cReply = "OK" /\ Got(cSaw)
    => cToken = "descriptor" /\ cAddress = "descriptor"

(* The waits of the server pop what comes first on a queue they share with  *)
(* the receive.  As long as the connection stands and none of them ran out, *)
(* each popped its own request.                                             *)
WaitsPopTheirOwn ==
  ServerDone /\ sReply = "OK" /\ link = "up" /\ TimedOut \notin {sSawBind, sSawSend}
    => sSawBind = Comp("BIND", "success") /\ sSawSend = Comp("SEND", "success")

(* Both sides agree on the outcome when nobody looks at a status: if the    *)
(* server popped a good completion for its send, the client's buffer holds  *)
(* the descriptor.                                                          *)
SendSeenMeansDelivered ==
  sSawSend = Comp("SEND", "success") => cBuf = "descriptor" /\ bindWR = "done"

(* No method of the server goes through a member that is not set: the order *)
(* of `steps', and the early return on every creation that fails.           *)
ServerUsesWhatExists ==
  spc \in DOMAIN ServerUses => ServerUses[spc] \subseteq sObj

(* What an Initialize that has returned leaves behind is what comes before  *)
(* the step that failed, and all of it when it returned OK: the teardowns   *)
(* start from such objects.                                                 *)
SetupsLeavePrefixes ==
  /\ ServerDone => IsLeftBy(sObj \ {"registration"}, ServerMakes)
  /\ ClientDone => IsLeftBy(cObj, ClientMakes)
  /\ sReply = "OK" => Elements(ServerMakes) \subseteq sObj
  /\ cReply = "OK" => Elements(ClientMakes) \subseteq cObj

(* What the two sides promise together, as Rendezvous states it. *)
Offer ==
  IF sendWR = "done" THEN "told" ELSE IF bindWR = "done" THEN "bound" ELSE "none"
ServerVerdict == IF sReply = "none" THEN "running" ELSE sReply
ClientVerdict ==
  IF cpc = "crashed" \/ cReply = "error" THEN "error"
  ELSE IF cReply = "none" THEN "running"
  ELSE IF Got(cSaw) THEN "informed" ELSE "guessing"

Promise == INSTANCE Rendezvous
  WITH offer <- Offer, server <- ServerVerdict, client <- ClientVerdict

(* Session implements Rendezvous. *)
KeepsPromise == Promise!Spec

(* Both Initialize calls return, whatever the other side and the provider   *)
(* do, unless the client went through the region pointer it never set.      *)
BothReturn == <>ServerDone /\ <>(ClientDone \/ cpc = "crashed")

(* A request that the server took while the client waits for the answer     *)
(* ends with both sides ready to read, unless there was trouble: the        *)
(* connection broke or was not accepted, an Initialize returned an error,   *)
(* or a wait ran out.                                                       *)
Ready ==
  /\ ServerDone /\ sReply = "OK" /\ window = "read"
  /\ ClientDone /\ cReply = "OK" /\ cToken = "descriptor" /\ cAddress = "descriptor"
Trouble ==
  \/ link = "down" \/ sAccept = "failed"
  \/ "error" \in {sReply, cReply}
  \/ TimedOut \in {sSawBind, sSawSend, cSaw}
TakenRequestGetsReady ==
  (link = "taken" /\ cpc = "Connecting" /\ sMode = "read") ~> (Ready \/ Trouble)

-----------------------------------------------------------------------------
(* The inductive invariant behind the safety properties. *)

(* The server posts the bind, then the send; a failed bind breaks the link. *)
BeforeBind == ServerSteps \ {"BindWait", "SendMW_Descript", "SendWait", "returned", "exited"}
BeforeSend == BeforeBind \union {"BindWait", "SendMW_Descript"}
RequestInv ==
  /\ spc \in BeforeBind => bindWR = "unposted"
  /\ spc \in BeforeSend => sendWR = "unposted"
  /\ spc \in {"BindWait", "SendMW_Descript", "SendWait"} => bindWR # "unposted"
  /\ sendWR # "unposted" => bindWR # "unposted"
  /\ bindWR = "failed" => link = "down"
  /\ sendWR = "done" => bindWR = "done"

(* The client's receive is posted before there is a connection to use it. *)
ReceiveInv ==
  /\ link # "idle" \/ cpc = "Connect" => cRecv # "unposted"
  /\ cRecv = "failed" => link = "down"
  /\ cRecv = "done" => sendWR = "done"

(* A good completion of the send or of its receive means that the           *)
(* descriptor is in the client's buffer, where it stays.                    *)
DeliveryInv ==
  /\ cBuf = "descriptor" <=> sendWR = "done"
  /\ \A n \in 1 .. Len(sCq) : sCq[n] = Comp("SEND", "success") => sendWR = "done"
  /\ sSawSend = Comp("SEND", "success") => sendWR = "done"
  /\ \A n \in 1 .. Len(cRq) : Got(cRq[n]) => sendWR = "done"
  /\ Got(cSaw) => sendWR = "done"

BeforeReads == ClientSteps \ {"ReadToken", "ReadAddress", "returned", "exited"}
LearnInv ==
  /\ cToken = "descriptor" => sendWR = "done"
  /\ cAddress = "descriptor" => sendWR = "done"
  /\ cpc \in BeforeReads => cSaw = NotWaited
  /\ Got(cSaw) /\ cpc \in {"ReadAddress", "returned", "exited"} => cToken = "descriptor"
  /\ Got(cSaw) /\ cpc \in {"returned", "exited"} => cAddress = "descriptor"

VerdictInv ==
  /\ ~ServerDone => sReply = "none"
  /\ ~ClientDone => cReply = "none"

Inv == TypeOK /\ RequestInv /\ ReceiveInv /\ DeliveryInv /\ LearnInv /\ VerdictInv

-----------------------------------------------------------------------------
(* What the program says of itself and TLC refutes: the second one in the   *)
(* run of SessionAccept.cfg, the others when they are put in its place.     *)

(* "wait for send completion" (RDMAServer.cpp, 429): when the server is     *)
(* done, the completion of its send has been seen.                          *)
SendCompletionAwaited == sReply = "OK" => sSawSend.context = "SEND"

(* "INDListen::Accept failed with" (RDMAServer.cpp, 374) is what Initialize *)
(* returns when the connection could not be accepted.                       *)
AcceptFailureReported == ServerDone /\ sAccept = "failed" => sReply = "error"

(* "-r - Use RMA Read (client only)" (PlugRDMA-Windows.cpp, 48): the option *)
(* of the client decides whether it can read.                               *)
ClientOptionDecides ==
  ClientDone /\ cToken = "descriptor" /\ cMode = "read" => window = "read"

(* "RDMA Ready!!" (PlugRDMA-Windows.cpp, 147) is printed by a program whose *)
(* Initialize succeeded.                                                    *)
ReadyMeansInitialized ==
  /\ spc = "exited" => sReply = "OK"
  /\ cpc = "exited" => cReply = "OK"
=============================================================================
