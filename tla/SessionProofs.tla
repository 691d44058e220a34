---------------------------- MODULE SessionProofs ----------------------------
(***************************************************************************)
(* Proofs about Session for every set of faults: what its inductive Inv    *)
(* gives, that it implements Rendezvous, whose completions the waits of    *)
(* the server pop, which members its methods find set, and what the two    *)
(* setups leave behind.  The last three have an inductive invariant each.  *)
(***************************************************************************)
EXTENDS Session, TLAPS

LEMMA InitInv == Init => Inv
  <1> SUFFICES ASSUME Init PROVE Inv
    OBVIOUS
  <1>1. FabricTypeOK
    BY DEF Init, FabricInit, FabricTypeOK, Links, Request
  <1>2. ServerTypeOK
    BY DEF Init, ServerInit, ServerTypeOK, Seen, ServerSteps
  <1>3. ClientTypeOK
    BY DEF Init, ClientInit, ClientTypeOK, Seen, ClientSteps, Contents
  <1>4. RequestInv /\ ReceiveInv /\ VerdictInv
    BY DEF Init, FabricInit, ServerInit, ClientInit, RequestInv, ReceiveInv, VerdictInv,
           BeforeBind, BeforeSend
  <1>5. /\ cBuf = "garbage" /\ sendWR = "unposted" /\ Len(sCq) = 0 /\ Len(cRq) = 0
        /\ sSawSend.status = "none" /\ cSaw.status = "none"
        /\ cToken = "none" /\ cAddress = "none" /\ cSaw = NotWaited
    BY DEF Init, FabricInit, ServerInit, ClientInit, NotWaited
  <1>6. DeliveryInv
    <2>1. sSawSend # Comp("SEND", "success")
      BY <1>5 DEF Comp
    <2> QED BY <1>5, <2>1 DEF DeliveryInv, Got
  <1>7. LearnInv
    BY <1>5 DEF LearnInv, Got
  <1> QED BY <1>1, <1>2, <1>3, <1>4, <1>6, <1>7 DEF Inv, TypeOK

(* A method of the server that makes objects touches nothing that the       *)
(* client or the provider sees.                                             *)
LEMMA MakeStep ==
  ASSUME Inv, NEW step \in BeforeBind, NEW next \in BeforeBind,
         NEW made \in SUBSET ServerObjects, NEW left \in SUBSET (SUBSET ServerObjects),
         Make(step, made, left, next), UNCHANGED client
  PROVE  Inv'
  <1> USE DEF Inv, Make, Proceed, Fail, fabric, client, sSaw
  <1>1. FabricTypeOK'
    BY DEF TypeOK, FabricTypeOK
  <1>2. ServerTypeOK'
    BY DEF TypeOK, ServerTypeOK, BeforeBind, ServerSteps
  <1>3. ClientTypeOK'
    BY DEF TypeOK, ClientTypeOK
  <1>4. RequestInv'
    BY DEF RequestInv, BeforeBind, BeforeSend, ServerSteps
  <1>5. ReceiveInv' /\ VerdictInv'
    BY DEF ReceiveInv, VerdictInv, ServerDone, ClientDone, BeforeBind
  <1>6. DeliveryInv' /\ LearnInv'
    BY DEF DeliveryInv, LearnInv
  <1> QED BY <1>1, <1>2, <1>3, <1>4, <1>5, <1>6 DEF TypeOK

LEMMA MakersStep ==
  ASSUME Inv, UNCHANGED client,
         \/ Assign_IPAdress \/ OpenAdapter \/ SendAdapterInfoQuery \/ CreateRegion
         \/ CreateMemoryWindow \/ CreateCQ \/ SetupSGE \/ CreateConnector \/ CreateEndPoint
  PROVE  Inv'
  <1> USE DEF BeforeBind, ServerSteps, ServerObjects
  <1>1. CASE Assign_IPAdress BY <1>1, MakeStep DEF Assign_IPAdress
  <1>2. CASE OpenAdapter BY <1>2, MakeStep DEF OpenAdapter
  <1>3. CASE SendAdapterInfoQuery BY <1>3, MakeStep DEF SendAdapterInfoQuery
  <1>4. CASE CreateRegion BY <1>4, MakeStep DEF CreateRegion
  <1>5. CASE CreateMemoryWindow BY <1>5, MakeStep DEF CreateMemoryWindow
  <1>6. CASE CreateCQ BY <1>6, MakeStep DEF CreateCQ
  <1>7. CASE SetupSGE BY <1>7, MakeStep DEF SetupSGE
  <1>8. CASE CreateConnector BY <1>8, MakeStep DEF CreateConnector
  <1>9. CASE CreateEndPoint BY <1>9, MakeStep DEF CreateEndPoint
  <1> QED BY <1>1, <1>2, <1>3, <1>4, <1>5, <1>6, <1>7, <1>8, <1>9

(* The wait for the registration, with its retries. *)
LEMMA RegisterStep ==
  ASSUME Inv, Register \/ RegisterEndsOtherwise \/ RegisterAgain, UNCHANGED client
  PROVE  Inv'
  <1> USE DEF Inv, Register, RegisterEndsOtherwise, RegisterAgain, Proceed, Fail, fabric, server, client, sSaw, learned
  <1>1. FabricTypeOK'
    BY DEF TypeOK, FabricTypeOK, Links, Request
  <1>2. ServerTypeOK'
    BY DEF TypeOK, ServerTypeOK, ServerSteps, ServerObjects
  <1>3. ClientTypeOK'
    BY DEF TypeOK, ClientTypeOK, ClientSteps, ClientObjects
  <1>4. RequestInv'
    BY DEF RequestInv, BeforeBind, BeforeSend, ServerSteps
  <1>5. ReceiveInv' /\ VerdictInv'
    BY DEF ReceiveInv, VerdictInv, ServerDone, ClientDone
  <1>6. DeliveryInv' /\ LearnInv'
    BY DEF DeliveryInv, LearnInv, BeforeReads, ClientSteps
  <1> QED BY <1>1, <1>2, <1>3, <1>4, <1>5, <1>6 DEF TypeOK

(* Listen and GetConnectionRequest move the connection, but post nothing. *)
LEMMA ListenStep ==
  ASSUME Inv, Listen \/ GetConnectionRequest, UNCHANGED client
  PROVE  Inv'
  <1> USE DEF Inv, Listen, GetConnectionRequest, Proceed, Fail, fabric, server, client, sSaw, learned
  <1>1. FabricTypeOK'
    BY DEF TypeOK, FabricTypeOK, Links, Request
  <1>2. ServerTypeOK'
    BY DEF TypeOK, ServerTypeOK, ServerSteps, ServerObjects
  <1>3. ClientTypeOK'
    BY DEF TypeOK, ClientTypeOK, ClientSteps, ClientObjects
  <1>4. RequestInv'
    BY DEF RequestInv, BeforeBind, BeforeSend, ServerSteps
  <1>5. ReceiveInv' /\ VerdictInv'
    BY DEF ReceiveInv, VerdictInv, ServerDone, ClientDone
  <1>6. DeliveryInv' /\ LearnInv'
    BY DEF DeliveryInv, LearnInv, BeforeReads, ClientSteps
  <1> QED BY <1>1, <1>2, <1>3, <1>4, <1>5, <1>6 DEF TypeOK

(* The receive of the server and the answer to the client. *)
LEMMA AcceptStep ==
  ASSUME Inv, Reserve_ReceiveEnd \/ Accept, UNCHANGED client
  PROVE  Inv'
  <1> USE DEF Inv, Reserve_ReceiveEnd, Accept, Proceed, Fail, fabric, server, client, sSaw, learned
  <1>1. FabricTypeOK'
    BY DEF TypeOK, FabricTypeOK, Links, Request
  <1>2. ServerTypeOK'
    BY DEF TypeOK, ServerTypeOK, ServerSteps, ServerObjects
  <1>3. ClientTypeOK'
    BY DEF TypeOK, ClientTypeOK, ClientSteps, ClientObjects
  <1>4. RequestInv'
    BY DEF RequestInv, BeforeBind, BeforeSend, ServerSteps
  <1>5. ReceiveInv' /\ VerdictInv'
    BY DEF ReceiveInv, VerdictInv, ServerDone, ClientDone
  <1>6. DeliveryInv' /\ LearnInv'
    BY DEF DeliveryInv, LearnInv, BeforeReads, ClientSteps
  <1> QED BY <1>1, <1>2, <1>3, <1>4, <1>5, <1>6 DEF TypeOK

(* The bind is the first request of the server... *)
LEMMA PostBindStep ==
  ASSUME Inv, PostBind, UNCHANGED client
  PROVE  Inv'
  <1> USE DEF Inv, PostBind, Proceed, Fail, fabric, server, client, sSaw, learned
  <1>1. FabricTypeOK'
    BY DEF TypeOK, FabricTypeOK, Links, Request
  <1>2. ServerTypeOK'
    BY DEF TypeOK, ServerTypeOK, ServerSteps, ServerObjects
  <1>3. ClientTypeOK'
    BY DEF TypeOK, ClientTypeOK, ClientSteps, ClientObjects
  <1>4. RequestInv'
    BY DEF RequestInv, BeforeBind, BeforeSend, ServerSteps
  <1>5. ReceiveInv' /\ VerdictInv'
    BY DEF ReceiveInv, VerdictInv, ServerDone, ClientDone
  <1>6. DeliveryInv' /\ LearnInv'
    BY DEF DeliveryInv, LearnInv, BeforeReads, ClientSteps
  <1> QED BY <1>1, <1>2, <1>3, <1>4, <1>5, <1>6 DEF TypeOK

(* ... and the send the second one. *)
LEMMA PostSendStep ==
  ASSUME Inv, PostSend, UNCHANGED client
  PROVE  Inv'
  <1> USE DEF Inv, PostSend, Proceed, Fail, fabric, server, client, sSaw, learned
  <1>0. sendWR # "done" /\ sendWR' # "done"
    BY DEF RequestInv, BeforeSend
  <1>1. FabricTypeOK'
    BY DEF TypeOK, FabricTypeOK, Links, Request
  <1>2. ServerTypeOK'
    BY DEF TypeOK, ServerTypeOK, ServerSteps, ServerObjects
  <1>3. ClientTypeOK'
    BY DEF TypeOK, ClientTypeOK, ClientSteps, ClientObjects
  <1>4. RequestInv'
    BY DEF RequestInv, BeforeBind, BeforeSend, ServerSteps
  <1>5. ReceiveInv' /\ VerdictInv'
    BY <1>0 DEF ReceiveInv, VerdictInv, ServerDone, ClientDone
  <1>6. DeliveryInv' /\ LearnInv'
    BY <1>0 DEF DeliveryInv, LearnInv, BeforeReads, ClientSteps
  <1> QED BY <1>1, <1>2, <1>3, <1>4, <1>5, <1>6 DEF TypeOK

(* What is popped was on the queue, and what stays was there before. *)
LEMMA Pop ==
  ASSUME NEW S, NEW q \in Seq(S), q # <<>>
  PROVE  /\ Head(q) \in S /\ Tail(q) \in Seq(S)
         /\ 1 \in 1 .. Len(q) /\ Head(q) = q[1]
         /\ \A n \in 1 .. Len(Tail(q)) : n + 1 \in 1 .. Len(q) /\ Tail(q)[n] = q[n + 1]
  OBVIOUS

(* What is on a queue after a completion was added is that one or was there. *)
LEMMA Push ==
  ASSUME NEW S, NEW q \in Seq(S), NEW e \in S
  PROVE  /\ Append(q, e) \in Seq(S)
         /\ \A n \in 1 .. Len(Append(q, e)) :
              Append(q, e)[n] = e \/ (n \in 1 .. Len(q) /\ Append(q, e)[n] = q[n])
  OBVIOUS

LEMMA PopOrTimeOutStep ==
  ASSUME Inv, NEW seen \in Seen, PopOrTimeOut(seen)
  PROVE  /\ sCq' \in Seq(Completion)
         /\ \A n \in 1 .. Len(sCq') : \E m \in 1 .. Len(sCq) : sCq'[n] = sCq[m]
         /\ seen = TimedOut \/ \E m \in 1 .. Len(sCq) : seen = sCq[m]
  <1>0. sCq \in Seq(Completion)
    BY DEF Inv, TypeOK, FabricTypeOK
  <1>1. CASE sCq = <<>>
    BY <1>0, <1>1 DEF PopOrTimeOut
  <1>2. CASE sCq # <<>>
    BY <1>0, <1>2, Pop DEF PopOrTimeOut
  <1> QED BY <1>1, <1>2

(* The wait after the bind pops something, which nobody looks at. *)
LEMMA BindWaitStep ==
  ASSUME Inv, BindWait, UNCHANGED client
  PROVE  Inv'
  <1>0. PICK seen \in Seen : PopOrTimeOut(seen) /\ sSawBind' = seen
    BY DEF BindWait
  <1>a. UNCHANGED <<link, listener, sRecv, cRecv, bindWR, sendWR, cRq, window, cBuf,
                    sMode, sObj, sSawSend, sAccept, client>>
    BY DEF BindWait
  <1> USE DEF Inv, client
  <1>1. FabricTypeOK'
    BY <1>0, <1>a, PopOrTimeOutStep DEF TypeOK, FabricTypeOK
  <1>2. ServerTypeOK'
    BY <1>0, <1>a DEF TypeOK, ServerTypeOK, ServerSteps, BindWait, Proceed
  <1>3. ClientTypeOK'
    BY <1>a DEF TypeOK, ClientTypeOK
  <1>4. RequestInv'
    BY <1>a DEF RequestInv, BeforeBind, BeforeSend, ServerSteps, BindWait, Proceed
  <1>5. ReceiveInv' /\ VerdictInv'
    BY <1>a DEF ReceiveInv, VerdictInv, ServerDone, ClientDone, BindWait, Proceed
  <1>6. DeliveryInv'
    <2>1. TimedOut # Comp("SEND", "success")
      <3>1. TimedOut.context = "none" /\ Comp("SEND", "success").context = "SEND"
        BY DEF TimedOut, Comp
      <3> QED BY <3>1
    <2>2. sSawSend' = Comp("SEND", "success") => sendWR = "done"
      BY <1>0, <1>a, <2>1, PopOrTimeOutStep DEF DeliveryInv
    <2>3. \A n \in 1 .. Len(sCq') : sCq'[n] = Comp("SEND", "success") => sendWR = "done"
      BY <1>0, PopOrTimeOutStep DEF DeliveryInv
    <2> QED BY <1>a, <2>2, <2>3 DEF DeliveryInv, Got
  <1>7. LearnInv'
    BY <1>a DEF LearnInv
  <1> QED BY <1>1, <1>2, <1>3, <1>4, <1>5, <1>6, <1>7 DEF TypeOK

(* So does the wait after the send, and Initialize returns. *)
LEMMA SendWaitStep ==
  ASSUME Inv, SendWait, UNCHANGED client
  PROVE  Inv'
  <1>0. PICK seen \in Seen : PopOrTimeOut(seen) /\ sSawSend' = seen
    BY DEF SendWait
  <1>a. UNCHANGED <<link, listener, sRecv, cRecv, bindWR, sendWR, cRq, window, cBuf,
                    sMode, sObj, sSawBind, sAccept, client>>
    BY DEF SendWait
  <1> USE DEF Inv, client
  <1>1. FabricTypeOK'
    BY <1>0, <1>a, PopOrTimeOutStep DEF TypeOK, FabricTypeOK
  <1>2. ServerTypeOK'
    BY <1>0, <1>a DEF TypeOK, ServerTypeOK, ServerSteps, SendWait, Proceed
  <1>3. ClientTypeOK'
    BY <1>a DEF TypeOK, ClientTypeOK
  <1>4. RequestInv'
    BY <1>a DEF RequestInv, BeforeBind, BeforeSend, ServerSteps, SendWait, Proceed
  <1>5. ReceiveInv' /\ VerdictInv'
    BY <1>a DEF ReceiveInv, VerdictInv, ServerDone, ClientDone, SendWait, Proceed
  <1>6. DeliveryInv'
    <2>1. TimedOut # Comp("SEND", "success")
      <3>1. TimedOut.context = "none" /\ Comp("SEND", "success").context = "SEND"
        BY DEF TimedOut, Comp
      <3> QED BY <3>1
    <2>2. sSawSend' = Comp("SEND", "success") => sendWR = "done"
      BY <1>0, <1>a, <2>1, PopOrTimeOutStep DEF DeliveryInv
    <2>3. \A n \in 1 .. Len(sCq') : sCq'[n] = Comp("SEND", "success") => sendWR = "done"
      BY <1>0, PopOrTimeOutStep DEF DeliveryInv
    <2> QED BY <1>a, <2>2, <2>3 DEF DeliveryInv, Got
  <1>7. LearnInv'
    BY <1>a DEF LearnInv
  <1> QED BY <1>1, <1>2, <1>3, <1>4, <1>5, <1>6, <1>7 DEF TypeOK

-----------------------------------------------------------------------------
(* The client's methods that make objects. *)
LEMMA BuildStep ==
  ASSUME Inv, NEW step \in BeforeReads \ {"Connect"}, NEW next \in BeforeReads \ {"Connect"},
         NEW made \in SUBSET ClientObjects, NEW left \in SUBSET (SUBSET ClientObjects),
         Build(step, made, left, next), UNCHANGED server
  PROVE  Inv'
  <1> USE DEF Inv, Build, GoOn, GiveUp, fabric, server, learned
  <1>1. FabricTypeOK'
    BY DEF TypeOK, FabricTypeOK
  <1>2. ServerTypeOK'
    BY DEF TypeOK, ServerTypeOK
  <1>3. ClientTypeOK'
    BY DEF TypeOK, ClientTypeOK, BeforeReads, ClientSteps
  <1>4. RequestInv'
    BY DEF RequestInv
  <1>5. ReceiveInv' /\ VerdictInv'
    BY DEF ReceiveInv, VerdictInv, ServerDone, ClientDone, BeforeReads
  <1>6. DeliveryInv'
    BY DEF DeliveryInv
  <1>7. LearnInv'
    <2>1. Got(cSaw) => cSaw # NotWaited
      BY DEF Got, NotWaited
    <2> QED BY <2>1 DEF LearnInv, BeforeReads
  <1> QED BY <1>1, <1>2, <1>3, <1>4, <1>5, <1>6, <1>7 DEF TypeOK

LEMMA BuildersStep ==
  ASSUME Inv, UNCHANGED server,
         \/ CAssign_IPAdress \/ COpenAdapter \/ CSendAdapterInfoQuery
         \/ CCreateCQ \/ CCreateEndPoint
  PROVE  Inv'
  <1> USE DEF BeforeReads, ClientSteps, ClientObjects
  <1>1. CASE CAssign_IPAdress BY <1>1, BuildStep DEF CAssign_IPAdress
  <1>2. CASE COpenAdapter BY <1>2, BuildStep DEF COpenAdapter
  <1>3. CASE CSendAdapterInfoQuery BY <1>3, BuildStep DEF CSendAdapterInfoQuery
  <1>4. CASE CCreateCQ BY <1>4, BuildStep DEF CCreateCQ
  <1>5. CASE CCreateEndPoint BY <1>5, BuildStep DEF CCreateEndPoint
  <1> QED BY <1>1, <1>2, <1>3, <1>4, <1>5

(* The client's region and its registration. *)
LEMMA RegionStep ==
  ASSUME Inv, CCreateRegion \/ CRegister, UNCHANGED server
  PROVE  Inv'
  <1> USE DEF Inv, CCreateRegion, CRegister, GoOn, GiveUp, fabric, server, client, sSaw, learned
  <1>1. FabricTypeOK'
    BY DEF TypeOK, FabricTypeOK, Links, Request
  <1>2. ServerTypeOK'
    BY DEF TypeOK, ServerTypeOK, ServerSteps, ServerObjects
  <1>3. ClientTypeOK'
    BY DEF TypeOK, ClientTypeOK, ClientSteps, ClientObjects
  <1>4. RequestInv'
    BY DEF RequestInv, BeforeBind, BeforeSend, ServerSteps
  <1>5. ReceiveInv' /\ VerdictInv'
    BY DEF ReceiveInv, VerdictInv, ServerDone, ClientDone
  <1>6. DeliveryInv' /\ LearnInv'
    <2>1. Got(cSaw) => cSaw # NotWaited
      BY DEF Got, NotWaited
    <2> QED BY <2>1 DEF DeliveryInv, LearnInv, BeforeReads, ClientSteps
  <1> QED BY <1>1, <1>2, <1>3, <1>4, <1>5, <1>6 DEF TypeOK

(* The receive for the descriptor. *)
LEMMA SetupSGEStep ==
  ASSUME Inv, CSetupSGE, UNCHANGED server
  PROVE  Inv'
  <1> USE DEF Inv, CSetupSGE, GoOn, GiveUp, fabric, server, client, sSaw, learned
  <1>1. FabricTypeOK'
    BY DEF TypeOK, FabricTypeOK, Links, Request
  <1>2. ServerTypeOK'
    BY DEF TypeOK, ServerTypeOK, ServerSteps, ServerObjects
  <1>3. ClientTypeOK'
    BY DEF TypeOK, ClientTypeOK, ClientSteps, ClientObjects
  <1>4. RequestInv'
    BY DEF RequestInv, BeforeBind, BeforeSend, ServerSteps
  <1>5. ReceiveInv' /\ VerdictInv'
    BY DEF ReceiveInv, VerdictInv, ServerDone, ClientDone
  <1>6. DeliveryInv' /\ LearnInv'
    <2>1. Got(cSaw) => cSaw # NotWaited
      BY DEF Got, NotWaited
    <2> QED BY <2>1 DEF DeliveryInv, LearnInv, BeforeReads, ClientSteps
  <1> QED BY <1>1, <1>2, <1>3, <1>4, <1>5, <1>6 DEF TypeOK

(* Connect asks for the connection with its receive posted. *)
LEMMA ConnectStep ==
  ASSUME Inv, Connect \/ Connecting \/ CompleteConnect, UNCHANGED server
  PROVE  Inv'
  <1> USE DEF Inv, Connect, Connecting, CompleteConnect, GoOn, GiveUp, fabric, server, client, sSaw, learned
  <1>1. FabricTypeOK'
    BY DEF TypeOK, FabricTypeOK, Links, Request
  <1>2. ServerTypeOK'
    BY DEF TypeOK, ServerTypeOK, ServerSteps, ServerObjects
  <1>3. ClientTypeOK'
    BY DEF TypeOK, ClientTypeOK, ClientSteps, ClientObjects
  <1>4. RequestInv'
    BY DEF RequestInv, BeforeBind, BeforeSend, ServerSteps
  <1>5. ReceiveInv' /\ VerdictInv'
    BY DEF ReceiveInv, VerdictInv, ServerDone, ClientDone
  <1>6. DeliveryInv' /\ LearnInv'
    <2>1. Got(cSaw) => cSaw # NotWaited
      BY DEF Got, NotWaited
    <2> QED BY <2>1 DEF DeliveryInv, LearnInv, BeforeReads, ClientSteps
  <1> QED BY <1>1, <1>2, <1>3, <1>4, <1>5, <1>6 DEF TypeOK

(* A wait that popped a good completion saw the descriptor arrive. *)
LEMMA ReceiveWaitStep ==
  ASSUME Inv, ReceiveWait, UNCHANGED server
  PROVE  Inv'
  <1> USE DEF Inv, server
  <1>0. /\ cpc = "ReceiveWait" /\ cpc' = "ReadToken" /\ cReply' = cReply
        /\ UNCHANGED <<link, listener, sRecv, cRecv, bindWR, sendWR, sCq, window, cBuf,
                       cMode, cObj, cToken, cAddress>>
    BY DEF ReceiveWait, GoOn
  <1>1. cRq \in Seq(Completion)
    BY DEF TypeOK, FabricTypeOK
  <1>2. /\ cRq' \in Seq(Completion) /\ cSaw' \in Seen
        /\ \A n \in 1 .. Len(cRq') : \E m \in 1 .. Len(cRq) : cRq'[n] = cRq[m]
        /\ cSaw' = TimedOut \/ \E m \in 1 .. Len(cRq) : cSaw' = cRq[m]
    <2>1. CASE cRq = <<>>
      BY <1>1, <2>1 DEF ReceiveWait, Seen
    <2>2. CASE cRq # <<>>
      <3>1. cSaw' = Head(cRq) /\ cRq' = Tail(cRq)
        BY <2>2 DEF ReceiveWait
      <3> QED BY <1>1, <2>2, <3>1, Pop DEF Seen
    <2> QED BY <2>1, <2>2
  <1>3. FabricTypeOK'
    BY <1>0, <1>2 DEF TypeOK, FabricTypeOK
  <1>4. ServerTypeOK'
    BY DEF TypeOK, ServerTypeOK
  <1>5. ClientTypeOK'
    BY <1>0, <1>2 DEF TypeOK, ClientTypeOK, ClientSteps
  <1>6. RequestInv'
    BY <1>0 DEF RequestInv
  <1>7. ReceiveInv' /\ VerdictInv'
    BY <1>0 DEF ReceiveInv, VerdictInv, ServerDone, ClientDone
  <1>8. DeliveryInv'
    <2>1. ~Got(TimedOut)
      BY DEF Got, TimedOut
    <2>2. Got(cSaw') => sendWR = "done"
      BY <1>2, <2>1 DEF DeliveryInv, Got
    <2>3. \A n \in 1 .. Len(cRq') : Got(cRq'[n]) => sendWR = "done"
      BY <1>2 DEF DeliveryInv, Got
    <2> QED BY <1>0, <2>2, <2>3 DEF DeliveryInv, Got
  <1>9. LearnInv'
    BY <1>0 DEF LearnInv, BeforeReads
  <1> QED BY <1>3, <1>4, <1>5, <1>6, <1>7, <1>8, <1>9 DEF TypeOK

(* The token and the address are read one after the other. *)
LEMMA ReadsStep ==
  ASSUME Inv, ReadToken \/ ReadAddress, UNCHANGED server
  PROVE  Inv'
  <1> USE DEF Inv, ReadToken, ReadAddress, GoOn, GiveUp, fabric, server, client, sSaw, learned
  <1>1. FabricTypeOK'
    BY DEF TypeOK, FabricTypeOK, Links, Request
  <1>2. ServerTypeOK'
    BY DEF TypeOK, ServerTypeOK, ServerSteps, ServerObjects
  <1>3. ClientTypeOK'
    BY DEF TypeOK, ClientTypeOK, FabricTypeOK, ClientSteps, ClientObjects, Contents
  <1>4. RequestInv'
    BY DEF RequestInv, BeforeBind, BeforeSend, ServerSteps
  <1>5. ReceiveInv' /\ VerdictInv'
    BY DEF ReceiveInv, VerdictInv, ServerDone, ClientDone
  <1>6. DeliveryInv' /\ LearnInv'
    BY DEF DeliveryInv, LearnInv, BeforeReads, ClientSteps, TypeOK, FabricTypeOK
  <1> QED BY <1>1, <1>2, <1>3, <1>4, <1>5, <1>6 DEF TypeOK

-----------------------------------------------------------------------------
(* The bind runs or fails; no completion of it looks like that of the send. *)
LEMMA BindStep ==
  ASSUME Inv, ExecuteBind(sMode, Registered) \/ BindFails(sMode, Registered) \/ FlushBind,
         UNCHANGED <<server, client>>
  PROVE  Inv'
  <1> USE DEF Inv, ExecuteBind, BindFails, FlushBind, server, client
  <1>0. sCq \in Seq(Completion) /\ sMode \in Access
    BY DEF TypeOK, FabricTypeOK, ServerTypeOK
  <1>1. PICK s \in {"success", "error"} : sCq' = Append(sCq, Comp("BIND", s))
    OBVIOUS
  <1>2. Comp("BIND", s) \in Completion /\ Comp("BIND", s) # Comp("SEND", "success")
    BY DEF Comp, Completion
  <1>3. FabricTypeOK'
    BY <1>0, <1>1, <1>2, Push DEF TypeOK, FabricTypeOK, Links, Request
  <1>4. ServerTypeOK' /\ ClientTypeOK'
    BY DEF TypeOK, ServerTypeOK, ClientTypeOK
  <1>5. RequestInv'
    BY DEF RequestInv, BeforeBind, BeforeSend, ServerSteps
  <1>6. ReceiveInv' /\ VerdictInv' /\ LearnInv'
    BY DEF ReceiveInv, VerdictInv, LearnInv, ServerDone, ClientDone
  <1>7. \A n \in 1 .. Len(sCq') : sCq'[n] = Comp("SEND", "success") => sendWR = "done"
    BY <1>0, <1>1, <1>2, Push DEF DeliveryInv
  <1>8. DeliveryInv'
    BY <1>7 DEF DeliveryInv, Got
  <1> QED BY <1>3, <1>4, <1>5, <1>6, <1>8 DEF TypeOK

(* The send runs only after a bind that succeeded: a failed one would have  *)
(* broken the connection.                                                   *)
LEMMA ExecuteSendStep ==
  ASSUME Inv, ExecuteSend, UNCHANGED <<server, client>>
  PROVE  Inv'
  <1> USE DEF Inv, ExecuteSend, server, client
  <1>0. sCq \in Seq(Completion) /\ cRq \in Seq(Completion) /\ bindWR = "done"
    BY DEF TypeOK, FabricTypeOK, Request, RequestInv
  <1>1. Comp("SEND", "success") \in Completion /\ Comp("RECV", "success") \in Completion
    BY DEF Comp, Completion
  <1>2. FabricTypeOK'
    BY <1>0, <1>1, Push DEF TypeOK, FabricTypeOK, Request
  <1>3. ServerTypeOK' /\ ClientTypeOK'
    BY DEF TypeOK, ServerTypeOK, ClientTypeOK
  <1>4. RequestInv'
    BY <1>0 DEF RequestInv, BeforeBind, BeforeSend
  <1>5. ReceiveInv' /\ VerdictInv' /\ LearnInv'
    BY DEF ReceiveInv, VerdictInv, LearnInv, ServerDone, ClientDone
  <1>6. DeliveryInv'
    BY DEF DeliveryInv
  <1> QED BY <1>2, <1>3, <1>4, <1>5, <1>6 DEF TypeOK

(* What is flushed on the server's side completes with an error. *)
LEMMA FlushServerStep ==
  ASSUME Inv, FlushServerReceive \/ FlushSend, UNCHANGED <<server, client>>
  PROVE  Inv'
  <1> USE DEF Inv, FlushServerReceive, FlushSend, server, client
  <1>0. sCq \in Seq(Completion)
    BY DEF TypeOK, FabricTypeOK
  <1>1. PICK c \in {"RECV", "SEND"} : sCq' = Append(sCq, Comp(c, "error"))
    OBVIOUS
  <1>2. Comp(c, "error") \in Completion /\ Comp(c, "error") # Comp("SEND", "success")
    BY DEF Comp, Completion
  <1>3. FabricTypeOK'
    BY <1>0, <1>1, <1>2, Push DEF TypeOK, FabricTypeOK, Request
  <1>4. ServerTypeOK' /\ ClientTypeOK'
    BY DEF TypeOK, ServerTypeOK, ClientTypeOK
  <1>5. RequestInv'
    BY DEF RequestInv, BeforeBind, BeforeSend
  <1>6. ReceiveInv' /\ VerdictInv' /\ LearnInv'
    BY DEF ReceiveInv, VerdictInv, LearnInv, DeliveryInv, ServerDone, ClientDone
  <1>7. \A n \in 1 .. Len(sCq') : sCq'[n] = Comp("SEND", "success") => sendWR = "done"
    BY <1>0, <1>1, <1>2, Push DEF DeliveryInv
  <1>8. DeliveryInv'
    BY <1>7 DEF DeliveryInv, Got
  <1> QED BY <1>3, <1>4, <1>5, <1>6, <1>8 DEF TypeOK

LEMMA FlushClientStep ==
  ASSUME Inv, FlushClientReceive, UNCHANGED <<server, client>>
  PROVE  Inv'
  <1> USE DEF Inv, FlushClientReceive, server, client
  <1>0. cRq \in Seq(Completion)
    BY DEF TypeOK, FabricTypeOK
  <1>1. Comp("RECV", "error") \in Completion /\ ~Got(Comp("RECV", "error"))
    BY DEF Comp, Completion, Got
  <1>2. FabricTypeOK'
    BY <1>0, <1>1, Push DEF TypeOK, FabricTypeOK, Request
  <1>3. ServerTypeOK' /\ ClientTypeOK'
    BY DEF TypeOK, ServerTypeOK, ClientTypeOK
  <1>4. RequestInv' /\ ReceiveInv' /\ VerdictInv' /\ LearnInv'
    BY DEF RequestInv, ReceiveInv, VerdictInv, LearnInv, ServerDone, ClientDone
  <1>5. \A n \in 1 .. Len(cRq') : Got(cRq'[n]) => sendWR = "done"
    BY <1>0, <1>1, Push DEF DeliveryInv, Got
  <1>6. DeliveryInv'
    BY <1>5 DEF DeliveryInv, Got
  <1> QED BY <1>2, <1>3, <1>4, <1>6 DEF TypeOK

(* The connection breaks, by itself or because a process ends. *)
LEMMA BreakStep ==
  ASSUME Inv, Break \/ ServerExits \/ ClientExits
  PROVE  Inv'
  <1> USE DEF Inv, Break, LinkBreaks, ServerExits, ClientExits, Hangup, server, client,
              sSaw, learned
  <1>1. FabricTypeOK'
    BY DEF TypeOK, FabricTypeOK, Links
  <1>2. ServerTypeOK'
    BY DEF TypeOK, ServerTypeOK, ServerSteps
  <1>3. ClientTypeOK'
    BY DEF TypeOK, ClientTypeOK, ClientSteps
  <1>4. RequestInv'
    BY DEF RequestInv, BeforeBind, BeforeSend
  <1>5. ReceiveInv' /\ VerdictInv'
    BY DEF ReceiveInv, VerdictInv, ServerDone, ClientDone
  <1>6. DeliveryInv' /\ LearnInv'
    BY DEF DeliveryInv, LearnInv, BeforeReads
  <1> QED BY <1>1, <1>2, <1>3, <1>4, <1>5, <1>6 DEF TypeOK

-----------------------------------------------------------------------------
LEMMA NextInv == Inv /\ [Next]_vars => Inv'
  <1> SUFFICES ASSUME Inv, [Next]_vars PROVE Inv'
    OBVIOUS
  <1>1. CASE ServerStep
    BY <1>1, MakersStep, RegisterStep, ListenStep, AcceptStep, PostBindStep, PostSendStep,
       BindWaitStep, SendWaitStep DEF ServerStep, ServerNext
  <1>2. CASE ClientStep
    BY <1>2, BuildersStep, RegionStep, SetupSGEStep, ConnectStep, ReceiveWaitStep,
       ReadsStep DEF ClientStep, ClientNext
  <1>3. CASE Provider
    BY <1>3, BindStep, ExecuteSendStep, FlushServerStep, FlushClientStep
       DEF Provider, FabricProgress, Granted
  <1>4. CASE Break \/ ServerExits \/ ClientExits
    BY <1>4, BreakStep
  <1>5. CASE UNCHANGED vars
    <2> USE <1>5 DEF vars, fabric, server, client, Inv
    <2>1. TypeOK'
      BY DEF TypeOK, FabricTypeOK, ServerTypeOK, ClientTypeOK
    <2>2. RequestInv' /\ ReceiveInv' /\ VerdictInv'
      BY DEF RequestInv, ReceiveInv, VerdictInv, ServerDone, ClientDone
    <2>3. DeliveryInv' /\ LearnInv'
      BY DEF DeliveryInv, LearnInv
    <2> QED BY <2>1, <2>2, <2>3
  <1> QED BY <1>1, <1>2, <1>3, <1>4, <1>5 DEF Next


(* Inv holds in every reachable state, whatever may go wrong. *)
THEOREM Invariance == Spec => []Inv
  BY InitInv, NextInv, PTL DEF Spec

(* The types of the state. *)
THEOREM Typing == Spec => []TypeOK
  BY Invariance, PTL DEF Inv

(* A client that read a descriptor was told of a window that was bound. *)
THEOREM WindowBeforeDescriptor == Spec => []DescriptorNamesBoundWindow
  <1>1. Inv => DescriptorNamesBoundWindow
    BY DEF Inv, RequestInv, LearnInv, DescriptorNamesBoundWindow
  <1> QED BY Invariance, <1>1, PTL

(* The descriptor never finds the client without a receive. *)
THEOREM ReceiverIsReady == Spec => []ReceivePostedForSend
  <1>1. Inv => ReceivePostedForSend
    BY DEF Inv, TypeOK, FabricTypeOK, Request, ReceiveInv, ReceivePostedForSend
  <1> QED BY Invariance, <1>1, PTL

(* The two halves of the descriptor are of one descriptor if the client's   *)
(* wait saw it arrive.                                                      *)
THEOREM NoTornDescriptor == Spec => []DescriptorReadWhole
  <1>1. Inv => DescriptorReadWhole
    BY DEF Inv, LearnInv, DescriptorReadWhole, ClientDone
  <1> QED BY Invariance, <1>1, PTL

(* A send that the server saw succeed has reached the client. *)
THEOREM SendSeenIsDelivered == Spec => []SendSeenMeansDelivered
  <1>1. Inv => SendSeenMeansDelivered
    BY DEF Inv, RequestInv, DeliveryInv, SendSeenMeansDelivered
  <1> QED BY Invariance, <1>1, PTL

-----------------------------------------------------------------------------
(* Session implements Rendezvous: the steps of one side, of the other and   *)
(* of the provider each change one of the three mapped variables at most.   *)

(* What a step of the server does to what Rendezvous sees. *)
LEMMA ServerEffect ==
  ASSUME Inv, ServerNext
  PROVE  /\ UNCHANGED sReply \/ (sReply = "none" /\ sReply' \in {"OK", "error"})
         /\ UNCHANGED bindWR \/ (bindWR = "unposted" /\ bindWR' = "queued")
         /\ UNCHANGED sendWR \/ (sendWR = "unposted" /\ sendWR' = "queued")
  <1> USE DEF Inv, Make, Proceed, Fail, fabric, ServerDone, VerdictInv, RequestInv,
              BeforeBind, BeforeSend, ServerSteps
  <1>1. CASE \/ Assign_IPAdress \/ OpenAdapter \/ SendAdapterInfoQuery \/ CreateRegion
             \/ CreateMemoryWindow \/ CreateCQ \/ SetupSGE \/ CreateConnector
             \/ CreateEndPoint
    BY <1>1 DEF Assign_IPAdress, OpenAdapter, SendAdapterInfoQuery, CreateRegion,
       CreateMemoryWindow, CreateCQ, SetupSGE, CreateConnector, CreateEndPoint
  <1>2. CASE Register \/ RegisterEndsOtherwise \/ RegisterAgain
    BY <1>2 DEF Register, RegisterEndsOtherwise, RegisterAgain
  <1>3. CASE Listen \/ GetConnectionRequest \/ Reserve_ReceiveEnd \/ Accept
    BY <1>3 DEF Listen, GetConnectionRequest, Reserve_ReceiveEnd, Accept
  <1>4. CASE PostBind \/ PostSend
    BY <1>4 DEF PostBind, PostSend
  <1>5. CASE BindWait \/ SendWait
    BY <1>5 DEF BindWait, SendWait
  <1> QED BY <1>1, <1>2, <1>3, <1>4, <1>5 DEF ServerNext

LEMMA ServerImplements ==
  ASSUME Inv, ServerStep
  PROVE  [Promise!Next]_(Promise!vars)
  <1>1. Offer' = Offer
    BY ServerEffect DEF ServerStep, Offer
  <1>2. ClientVerdict' = ClientVerdict
    BY DEF ServerStep, client, ClientVerdict, Got
  <1>3. ServerVerdict' = ServerVerdict \/ Promise!ServerReturns
    BY <1>1, <1>2, ServerEffect DEF ServerStep, ServerVerdict, Promise!ServerReturns
  <1> QED BY <1>1, <1>2, <1>3 DEF Promise!Next, Promise!vars

(* What a step of the client does to what Rendezvous sees. *)
LEMMA ClientEffect ==
  ASSUME Inv, ClientNext
  PROVE  /\ UNCHANGED <<bindWR, sendWR>>
         /\ \/ cReply' = cReply /\ cpc' # "crashed" /\ cReply = "none"
            \/ cReply = "none" /\ cpc' # "crashed" /\ cReply' = "error"
            \/ cReply = "none" /\ cpc' = "crashed"
            \/ cReply = "none" /\ cpc' # "crashed" /\ cReply' = "OK" /\ cSaw' = cSaw
         /\ cpc # "crashed"
  <1> USE DEF Inv, Build, GoOn, GiveUp, fabric, learned, ClientDone, VerdictInv
  <1>1. CASE \/ CAssign_IPAdress \/ COpenAdapter \/ CSendAdapterInfoQuery
             \/ CCreateCQ \/ CCreateEndPoint
    BY <1>1 DEF CAssign_IPAdress, COpenAdapter, CSendAdapterInfoQuery, CCreateCQ,
       CCreateEndPoint
  <1>2. CASE CCreateRegion \/ CRegister \/ CSetupSGE
    BY <1>2 DEF CCreateRegion, CRegister, CSetupSGE
  <1>3. CASE Connect \/ Connecting \/ CompleteConnect
    BY <1>3 DEF Connect, Connecting, CompleteConnect
  <1>4. CASE ReceiveWait \/ ReadToken \/ ReadAddress
    BY <1>4 DEF ReceiveWait, ReadToken, ReadAddress
  <1> QED BY <1>1, <1>2, <1>3, <1>4 DEF ClientNext

LEMMA ClientImplements ==
  ASSUME Inv, ClientStep
  PROVE  [Promise!Next]_(Promise!vars)
  <1>1. Offer' = Offer
    BY ClientEffect DEF ClientStep, Offer
  <1>2. ServerVerdict' = ServerVerdict
    BY DEF ClientStep, server, ServerVerdict
  <1>3. ClientVerdict = "running"
    BY ClientEffect DEF ClientStep, ClientVerdict
  <1>4. \/ ClientVerdict' \in {"running", "error", "guessing"}
        \/ ClientVerdict' = "informed" /\ Offer = "told"
    BY ClientEffect DEF ClientStep, ClientVerdict, Inv, DeliveryInv, Offer, Got
  <1> QED BY <1>1, <1>2, <1>3, <1>4
          DEF Promise!Next, Promise!vars, Promise!ClientFails, Promise!ClientLearns

LEMMA ProviderImplements ==
  ASSUME Inv, Provider
  PROVE  [Promise!Next]_(Promise!vars)
  <1>1. ServerVerdict' = ServerVerdict /\ ClientVerdict' = ClientVerdict
    BY DEF Provider, server, client, ServerVerdict, ClientVerdict, Got
  <1>2. Offer' = Offer \/ Promise!Bind \/ Promise!Tell
    <2> USE <1>1 DEF Inv, RequestInv, Offer, Promise!Bind, Promise!Tell
    <2>1. CASE ExecuteBind(sMode, Registered)
      BY <2>1 DEF ExecuteBind
    <2>2. CASE BindFails(sMode, Registered) \/ FlushBind \/ FlushSend
      BY <2>2 DEF BindFails, FlushBind, FlushSend
    <2>3. CASE ExecuteSend
      BY <2>3 DEF ExecuteSend, TypeOK, FabricTypeOK, Request
    <2>4. CASE FlushServerReceive \/ FlushClientReceive
      BY <2>4 DEF FlushServerReceive, FlushClientReceive
    <2> QED BY <2>1, <2>2, <2>3, <2>4 DEF Provider, FabricProgress, Granted
  <1> QED BY <1>1, <1>2 DEF Promise!Next, Promise!vars

LEMMA BreakImplements ==
  ASSUME Inv, Break \/ ServerExits \/ ClientExits
  PROVE  UNCHANGED Promise!vars
  <1> USE DEF Break, LinkBreaks, ServerExits, ClientExits, Hangup, server, client,
              sSaw, learned
  <1>1. Offer' = Offer
    BY DEF Offer
  <1>2. ServerVerdict' = ServerVerdict
    BY DEF ServerVerdict
  <1>3. ClientVerdict' = ClientVerdict
    BY DEF ClientVerdict, Got
  <1> QED BY <1>1, <1>2, <1>3 DEF Promise!vars

(* The two Initialize calls keep what Rendezvous promises: no client is     *)
(* informed before the server's window was bound and told of.               *)
THEOREM Implementation == Spec => KeepsPromise
  <1>1. Init => Promise!Init
    <2> SUFFICES ASSUME Init PROVE Promise!Init
      OBVIOUS
    <2> QED BY DEF Init, FabricInit, ServerInit, ClientInit, Promise!Init, Offer,
               ServerVerdict, ClientVerdict
  <1>2. Inv /\ [Next]_vars => [Promise!Next]_(Promise!vars)
    <2> SUFFICES ASSUME Inv, [Next]_vars PROVE [Promise!Next]_(Promise!vars)
      OBVIOUS
    <2>1. CASE UNCHANGED vars
      BY <2>1 DEF vars, fabric, server, client, Promise!vars, Offer, ServerVerdict,
         ClientVerdict, Got
    <2>2. CASE Next
      BY <2>2, ServerImplements, ClientImplements, ProviderImplements, BreakImplements
         DEF Next
    <2> QED BY <2>1, <2>2
  <1> QED BY Invariance, <1>1, <1>2, PTL DEF Spec, KeepsPromise, Promise!Spec

-----------------------------------------------------------------------------
(* As long as the connection stands and no wait of the server ran out, its  *)
(* queue holds exactly the completion of the request it is waiting for.     *)
BindOk == Comp("BIND", "success")
SendOk == Comp("SEND", "success")
Answer(request, completion) == IF request = "done" THEN <<completion>> ELSE <<>>

Undisturbed == link # "down" /\ sSawBind # TimedOut /\ sSawSend # TimedOut
QueueInv ==
  Undisturbed =>
    /\ spc \in BeforeBind => sCq = <<>>
    /\ spc = "BindWait" => sCq = Answer(bindWR, BindOk)
    /\ spc = "SendMW_Descript" => sCq = <<>> /\ bindWR = "done" /\ sSawBind = BindOk
    /\ spc = "SendWait" =>
         sCq = Answer(sendWR, SendOk) /\ bindWR = "done" /\ sSawBind = BindOk
    /\ ServerDone /\ sReply = "OK" =>
         /\ sSawBind = BindOk /\ sSawSend = SendOk
         /\ bindWR = "done" /\ sendWR = "done"

(* A connection that went down stays down. *)
LEMMA DownStays ==
  ASSUME Next PROVE link = "down" => link' = "down"
  <1> USE DEF fabric
  <1>1. CASE ServerStep
    <2> USE DEF Make
    <2> QED BY <1>1 DEF ServerStep, ServerNext, Assign_IPAdress, OpenAdapter,
          SendAdapterInfoQuery, CreateRegion, CreateMemoryWindow, CreateCQ, SetupSGE,
          CreateConnector, CreateEndPoint, Register, RegisterEndsOtherwise, RegisterAgain,
          Listen, GetConnectionRequest, Reserve_ReceiveEnd, Accept, PostBind, BindWait,
          PostSend, SendWait
  <1>2. CASE ClientStep
    <2> USE DEF Build
    <2> QED BY <1>2 DEF ClientStep, ClientNext, CAssign_IPAdress, COpenAdapter,
          CSendAdapterInfoQuery, CCreateRegion, CRegister, CCreateCQ, CCreateEndPoint,
          CSetupSGE, Connect, Connecting, CompleteConnect, ReceiveWait, ReadToken,
          ReadAddress
  <1>3. CASE Provider
    BY <1>3 DEF Provider, FabricProgress, ExecuteBind, BindFails, ExecuteSend,
       FlushServerReceive, FlushClientReceive, FlushBind, FlushSend
  <1>4. CASE Break \/ ServerExits \/ ClientExits
    BY <1>4 DEF Break, LinkBreaks, ServerExits, ClientExits, Hangup
  <1> QED BY <1>1, <1>2, <1>3, <1>4 DEF Next

LEMMA InitQueue == Init => QueueInv
  BY DEF Init, FabricInit, ServerInit, QueueInv, BeforeBind, ServerSteps, ServerDone

(* Before the bind, the server neither posts on the queue nor waits for it. *)
LEMMA EarlyQueue ==
  ASSUME QueueInv, Undisturbed, spc \in BeforeBind, sCq' = sCq, UNCHANGED sSaw,
         spc' \in BeforeBind \/ (spc' = "returned" /\ sReply' = "error")
  PROVE  QueueInv'
  BY DEF QueueInv, BeforeBind, ServerSteps, ServerDone, Undisturbed, sSaw

LEMMA ServerQueue ==
  ASSUME Inv, QueueInv, ServerStep, Undisturbed
  PROVE  QueueInv'
  <1> USE DEF Proceed, Fail, fabric
  <1>1. CASE \/ Assign_IPAdress \/ OpenAdapter \/ SendAdapterInfoQuery \/ CreateRegion
             \/ CreateMemoryWindow \/ CreateCQ \/ SetupSGE \/ CreateConnector
             \/ CreateEndPoint
    <2>1. spc \in BeforeBind /\ sCq' = sCq /\ UNCHANGED sSaw
          /\ (spc' \in BeforeBind \/ (spc' = "returned" /\ sReply' = "error"))
      BY <1>1 DEF Make, BeforeBind, ServerSteps, Assign_IPAdress, OpenAdapter,
         SendAdapterInfoQuery, CreateRegion, CreateMemoryWindow, CreateCQ, SetupSGE,
         CreateConnector, CreateEndPoint
    <2> QED BY <2>1, EarlyQueue
  <1>2. CASE \/ Register \/ RegisterEndsOtherwise \/ RegisterAgain
             \/ Listen \/ GetConnectionRequest \/ Reserve_ReceiveEnd
    <2>1. spc \in BeforeBind /\ sCq' = sCq /\ UNCHANGED sSaw
          /\ (spc' \in BeforeBind \/ (spc' = "returned" /\ sReply' = "error"))
      BY <1>2 DEF BeforeBind, ServerSteps, Register, RegisterEndsOtherwise, RegisterAgain,
         Listen, GetConnectionRequest, Reserve_ReceiveEnd
    <2> QED BY <2>1, EarlyQueue
  <1>3. CASE Accept
    <2>1. spc \in BeforeBind /\ sCq' = sCq /\ UNCHANGED sSaw /\ spc' \in BeforeBind
      BY <1>3 DEF BeforeBind, ServerSteps, Accept
    <2> QED BY <2>1, EarlyQueue
  <1>4. CASE PostBind
    <2>1. sCq = <<>> /\ sCq' = <<>>
      BY <1>4 DEF QueueInv, PostBind, BeforeBind, ServerSteps
    <2> QED BY <1>4, <2>1 DEF PostBind, QueueInv, BeforeBind, ServerDone, Answer,
               Inv, VerdictInv
  <1>5. CASE BindWait
    <2>1. PICK seen \in Seen : PopOrTimeOut(seen) /\ sSawBind' = seen
      BY <1>5 DEF BindWait
    <2>2. CASE sCq = <<>>
      BY <1>5, <2>1, <2>2 DEF PopOrTimeOut, QueueInv, Undisturbed
    <2>3. CASE sCq # <<>>
      <3>1. sCq = <<BindOk>> /\ bindWR = "done"
        BY <1>5, <2>3 DEF QueueInv, BindWait, Answer
      <3>2. seen = BindOk /\ sCq' = <<>>
        BY <2>1, <3>1 DEF PopOrTimeOut
      <3> QED BY <1>5, <2>1, <3>1, <3>2
              DEF BindWait, QueueInv, BeforeBind, ServerDone, Inv, VerdictInv
    <2> QED BY <2>2, <2>3
  <1>6. CASE PostSend
    <2>1. sCq = <<>> /\ sCq' = <<>> /\ bindWR' = "done" /\ sSawBind' = BindOk
      BY <1>6 DEF QueueInv, PostSend, sSaw
    <2> QED BY <1>6, <2>1 DEF PostSend, QueueInv, BeforeBind, ServerDone, Answer,
               Inv, VerdictInv
  <1>7. CASE SendWait
    <2>1. PICK seen \in Seen : PopOrTimeOut(seen) /\ sSawSend' = seen
      BY <1>7 DEF SendWait
    <2>2. CASE sCq = <<>>
      BY <1>7, <2>1, <2>2 DEF PopOrTimeOut, QueueInv, Undisturbed
    <2>3. CASE sCq # <<>>
      <3>1. sCq = <<SendOk>> /\ sendWR = "done" /\ bindWR = "done" /\ sSawBind = BindOk
        BY <1>7, <2>3 DEF QueueInv, SendWait, Answer
      <3>2. seen = SendOk
        BY <2>1, <3>1 DEF PopOrTimeOut
      <3> QED BY <1>7, <2>1, <3>1, <3>2
              DEF SendWait, QueueInv, BeforeBind, ServerDone
    <2> QED BY <2>2, <2>3
  <1> QED BY <1>1, <1>2, <1>3, <1>4, <1>5, <1>6, <1>7 DEF ServerStep, ServerNext

(* Only what executes on a standing connection completes. *)
LEMMA ProviderQueue ==
  ASSUME Inv, QueueInv, Provider, Undisturbed, link' # "down"
  PROVE  QueueInv'
  <1>1. UNCHANGED <<server, client>>
    BY DEF Provider
  <1>2. CASE ExecuteBind(Granted, Registered)
    <2>1. bindWR = "queued" /\ bindWR' = "done" /\ sendWR' = sendWR
          /\ sCq' = Append(sCq, BindOk)
      BY <1>2 DEF ExecuteBind, BindOk
    <2>2. spc \notin BeforeBind /\ spc # "SendMW_Descript" /\ spc # "SendWait"
          /\ ~(ServerDone /\ sReply = "OK")
      BY <2>1 DEF Inv, RequestInv, QueueInv
    <2>3. CASE spc = "BindWait"
      <3>1. sCq' = <<BindOk>>
        BY <2>1, <2>3 DEF QueueInv, Answer
      <3> QED BY <1>1, <2>1, <2>3, <3>1 DEF QueueInv, server, BeforeBind, ServerDone, Answer
    <2> QED BY <1>1, <2>2, <2>3 DEF QueueInv, server, ServerDone
  <1>3. CASE ExecuteSend
    <2>1. sendWR = "queued" /\ sendWR' = "done" /\ bindWR' = bindWR
          /\ sCq' = Append(sCq, SendOk)
      BY <1>3 DEF ExecuteSend, SendOk
    <2>2. spc \notin BeforeBind /\ spc # "SendMW_Descript" /\ spc # "BindWait"
          /\ ~(ServerDone /\ sReply = "OK")
      BY <2>1 DEF Inv, RequestInv, QueueInv, BeforeSend
    <2>3. CASE spc = "SendWait"
      <3>1. sCq' = <<SendOk>>
        BY <2>1, <2>3 DEF QueueInv, Answer
      <3> QED BY <1>1, <2>1, <2>3, <3>1 DEF QueueInv, server, BeforeBind, ServerDone, Answer
    <2> QED BY <1>1, <2>2, <2>3 DEF QueueInv, server, ServerDone
  <1>4. CASE \/ BindFails(Granted, Registered) \/ FlushServerReceive
             \/ FlushClientReceive \/ FlushBind \/ FlushSend
    BY <1>4 DEF BindFails, FlushServerReceive, FlushClientReceive, FlushBind, FlushSend,
       Undisturbed
  <1> QED BY <1>2, <1>3, <1>4 DEF Provider, FabricProgress

(* Nobody else touches the queue. *)
LEMMA OthersQueue ==
  ASSUME QueueInv, Undisturbed, UNCHANGED <<server, sCq, bindWR, sendWR>>
  PROVE  QueueInv'
  BY DEF QueueInv, server, ServerDone

LEMMA ClientLeavesQueue ==
  ASSUME ClientNext PROVE UNCHANGED <<sCq, bindWR, sendWR>>
  BY DEF ClientNext, Build, fabric, CAssign_IPAdress, COpenAdapter, CSendAdapterInfoQuery,
     CCreateRegion, CRegister, CCreateCQ, CCreateEndPoint, CSetupSGE, Connect, Connecting,
     CompleteConnect, ReceiveWait, ReadToken, ReadAddress

(* Each wait of the server runs once. *)
SeenInv ==
  /\ spc \in BeforeBind \union {"BindWait"} => sSawBind = NotWaited
  /\ spc \in BeforeSend \union {"SendWait"} => sSawSend = NotWaited

LEMMA InitSeen == Init => SeenInv
  BY DEF Init, ServerInit, SeenInv

LEMMA ServerSeen ==
  ASSUME SeenInv, ServerNext
  PROVE  /\ SeenInv'
         /\ spc # "BindWait" => sSawBind' = sSawBind
         /\ spc # "SendWait" => sSawSend' = sSawSend
  <1> USE DEF SeenInv, Proceed, Fail, sSaw, BeforeSend, BeforeBind, ServerSteps
  <1>1. CASE \/ Assign_IPAdress \/ OpenAdapter \/ SendAdapterInfoQuery \/ CreateRegion
             \/ CreateMemoryWindow \/ CreateCQ \/ SetupSGE \/ CreateConnector
             \/ CreateEndPoint
    BY <1>1 DEF Make, Assign_IPAdress, OpenAdapter, SendAdapterInfoQuery, CreateRegion,
       CreateMemoryWindow, CreateCQ, SetupSGE, CreateConnector, CreateEndPoint
  <1>2. CASE Register \/ RegisterEndsOtherwise \/ RegisterAgain
    BY <1>2 DEF Register, RegisterEndsOtherwise, RegisterAgain
  <1>3. CASE Listen \/ GetConnectionRequest \/ Reserve_ReceiveEnd \/ Accept
    BY <1>3 DEF Listen, GetConnectionRequest, Reserve_ReceiveEnd, Accept
  <1>4. CASE PostBind \/ PostSend
    BY <1>4 DEF PostBind, PostSend
  <1>5. CASE BindWait \/ SendWait
    BY <1>5 DEF BindWait, SendWait
  <1> QED BY <1>1, <1>2, <1>3, <1>4, <1>5 DEF ServerNext

LEMMA NextSeen ==
  ASSUME SeenInv, [Next]_vars PROVE SeenInv'
  <1>1. CASE ServerStep
    BY <1>1, ServerSeen DEF ServerStep
  <1>2. CASE ServerExits
    BY <1>2 DEF ServerExits, SeenInv, BeforeSend, BeforeBind, sSaw
  <1>3. CASE ClientStep \/ Provider \/ Break \/ ClientExits \/ UNCHANGED vars
    BY <1>3 DEF ClientStep, Provider, Break, ClientExits, vars, server, SeenInv
  <1> QED BY <1>1, <1>2, <1>3 DEF Next

(* What ran out has run out, and what went down is down. *)
LEMMA DisturbedStays ==
  ASSUME SeenInv, [Next]_vars, ~Undisturbed PROVE ~Undisturbed'
  <1>0. TimedOut # NotWaited
    <2>1. TimedOut.status = "ND_IO_TIMEOUT" /\ NotWaited.status = "none"
      BY DEF TimedOut, NotWaited
    <2> QED BY <2>1
  <1>1. CASE link = "down"
    BY <1>1, DownStays DEF Undisturbed, vars, fabric
  <1>2. CASE sSawBind = TimedOut \/ sSawSend = TimedOut
    <2>1. CASE ServerStep
      <3>1. sSawBind = TimedOut => sSawBind' = TimedOut
        BY <2>1, <1>0, ServerSeen DEF ServerStep, SeenInv
      <3>2. sSawSend = TimedOut => sSawSend' = TimedOut
        BY <2>1, <1>0, ServerSeen DEF ServerStep, SeenInv
      <3> QED BY <1>2, <3>1, <3>2 DEF Undisturbed
    <2>2. CASE ~ServerStep
      BY <1>2, <2>2 DEF Next, ClientStep, Provider, Break, ServerExits, ClientExits, vars,
         server, sSaw, Undisturbed
    <2> QED BY <2>1, <2>2
  <1> QED BY <1>1, <1>2 DEF Undisturbed

LEMMA NextQueue ==
  ASSUME Inv, SeenInv, QueueInv, [Next]_vars PROVE QueueInv'
  <1>1. CASE ~Undisturbed
    BY <1>1, DisturbedStays DEF QueueInv
  <1>2. CASE Undisturbed
    <2>1. CASE ServerStep
      BY <1>2, <2>1, ServerQueue
    <2>2. CASE ClientStep
      BY <1>2, <2>2, ClientLeavesQueue, OthersQueue DEF ClientStep
    <2>3. CASE Provider
      <3>1. CASE link' # "down"
        BY <1>2, <2>3, <3>1, ProviderQueue
      <3>2. CASE link' = "down"
        BY <3>2 DEF QueueInv, Undisturbed
      <3> QED BY <3>1, <3>2
    <2>4. CASE Break \/ UNCHANGED vars
      BY <1>2, <2>4, OthersQueue DEF Break, LinkBreaks, vars, fabric
    <2>5. CASE ServerExits \/ ClientExits
      <3>1. CASE link' = "down"
        BY <3>1 DEF QueueInv, Undisturbed
      <3>2. CASE link = "idle"
        BY <1>2, <2>5, <3>2 DEF QueueInv, ServerExits, ClientExits, ServerDone, server,
           BeforeBind, sSaw
      <3> QED BY <2>5, <3>1, <3>2 DEF ServerExits, ClientExits, Hangup
    <2> QED BY <2>1, <2>2, <2>3, <2>4, <2>5 DEF Next
  <1> QED BY <1>1, <1>2

(* The server's waits pop their own completions, unless one runs out or the *)
(* connection breaks.                                                       *)
THEOREM WaitsAreAnswered == Spec => []WaitsPopTheirOwn
  <1>1. QueueInv => WaitsPopTheirOwn
    BY DEF QueueInv, WaitsPopTheirOwn, Undisturbed, BindOk, SendOk
  <1>2. Init => QueueInv /\ SeenInv
    BY InitQueue, InitSeen
  <1>3. Inv /\ (QueueInv /\ SeenInv) /\ [Next]_vars => (QueueInv /\ SeenInv)'
    BY NextQueue, NextSeen
  <1> QED BY Invariance, <1>1, <1>2, <1>3, PTL DEF Spec

-----------------------------------------------------------------------------
(* The objects.  Before each method a side has exactly the first `Has' of   *)
(* the objects it makes, in the order it makes them.                        *)
First(makes, n) == {makes[m] : m \in 1 .. n}

ServerHas ==
  [Assign_IPAdress |-> 0, OpenAdapter |-> 2, SendAdapterInfoQuery |-> 5,
   AdapterRegisterMemory |-> 5, Registering |-> 6, Reregister |-> 6,
   CreateMemoryWindow |-> 6, CreateCQ |-> 7, SetupSGE |-> 8, CreateConnector |-> 9,
   CreateEndPoint |-> 11, Listen |-> 12, GetConnectionRequest |-> 13,
   Reserve_ReceiveEnd |-> 13, Accept |-> 13, BindMemoryWindow |-> 13, BindWait |-> 13,
   SendMW_Descript |-> 13, SendWait |-> 13]

ServerMade == sObj \ {"registration"}
ServerObjInv ==
  /\ spc \in DOMAIN ServerHas => ServerMade = First(ServerMakes, ServerHas[spc])
  /\ ServerDone => \E n \in 0 .. 13 : ServerMade = First(ServerMakes, n)
  /\ sReply = "OK" => ServerMade = First(ServerMakes, 13)

LEMMA FirstIsPrefix ==
  ASSUME NEW S, NEW s \in Seq(S), NEW n \in 0 .. Len(s)
  PROVE  Elements(SubSeq(s, 1, n)) = First(s, n)
  <1>1. /\ SubSeq(s, 1, n) \in Seq(S) /\ Len(SubSeq(s, 1, n)) = n
        /\ \A m \in 1 .. n : SubSeq(s, 1, n)[m] = s[m]
    OBVIOUS
  <1>2. DOMAIN SubSeq(s, 1, n) = 1 .. n
    BY <1>1
  <1> QED BY <1>1, <1>2 DEF Elements, First

LEMMA FirstGrows ==
  ASSUME NEW s, NEW n \in Nat PROVE First(s, n + 1) = First(s, n) \union {s[n + 1]}
  <1>1. 1 .. (n + 1) = (1 .. n) \union {n + 1}
    OBVIOUS
  <1> QED BY <1>1 DEF First

(* The prefixes of what the server makes, one by one. *)
LEMMA ServerPrefixes ==
  /\ First(ServerMakes, 0) = {}
  /\ First(ServerMakes, 1) = {"wsa"}
  /\ First(ServerMakes, 2) = First(ServerMakes, 1) \union {"framework"}
  /\ First(ServerMakes, 3) = First(ServerMakes, 2) \union {"pAdapter"}
  /\ First(ServerMakes, 4) = First(ServerMakes, 3) \union {"ov"}
  /\ First(ServerMakes, 5) = First(ServerMakes, 4) \union {"hAdapterFile"}
  /\ First(ServerMakes, 6) = First(ServerMakes, 5) \union {"pMr"}
  /\ First(ServerMakes, 7) = First(ServerMakes, 6) \union {"pMw"}
  /\ First(ServerMakes, 8) = First(ServerMakes, 7) \union {"pCq"}
  /\ First(ServerMakes, 9) = First(ServerMakes, 8) \union {"Sgl"}
  /\ First(ServerMakes, 11) = First(ServerMakes, 9) \union {"pConnector", "Results_Server"}
  /\ First(ServerMakes, 12) = First(ServerMakes, 11) \union {"pQp"}
  /\ First(ServerMakes, 13) = First(ServerMakes, 12) \union {"pListen"}
  <1>0. First(ServerMakes, 0) = {}
    BY DEF First
  <1>1. /\ ServerMakes[1] = "wsa" /\ ServerMakes[2] = "framework"
        /\ ServerMakes[3] = "pAdapter" /\ ServerMakes[4] = "ov"
        /\ ServerMakes[5] = "hAdapterFile" /\ ServerMakes[6] = "pMr"
        /\ ServerMakes[7] = "pMw" /\ ServerMakes[8] = "pCq" /\ ServerMakes[9] = "Sgl"
        /\ ServerMakes[10] = "pConnector" /\ ServerMakes[11] = "Results_Server"
        /\ ServerMakes[12] = "pQp" /\ ServerMakes[13] = "pListen"
    BY DEF ServerMakes
  <1>2. \A n \in 0 .. 12 :
          First(ServerMakes, n + 1) = First(ServerMakes, n) \union {ServerMakes[n + 1]}
    <2> TAKE n \in 0 .. 12
    <2>1. n \in Nat
      OBVIOUS
    <2> QED BY <2>1, FirstGrows, Zenon
  <1>3. /\ First(ServerMakes, 1) = First(ServerMakes, 0) \union {ServerMakes[1]}
        /\ First(ServerMakes, 2) = First(ServerMakes, 1) \union {ServerMakes[2]}
        /\ First(ServerMakes, 3) = First(ServerMakes, 2) \union {ServerMakes[3]}
        /\ First(ServerMakes, 4) = First(ServerMakes, 3) \union {ServerMakes[4]}
        /\ First(ServerMakes, 5) = First(ServerMakes, 4) \union {ServerMakes[5]}
        /\ First(ServerMakes, 6) = First(ServerMakes, 5) \union {ServerMakes[6]}
        /\ First(ServerMakes, 7) = First(ServerMakes, 6) \union {ServerMakes[7]}
        /\ First(ServerMakes, 8) = First(ServerMakes, 7) \union {ServerMakes[8]}
        /\ First(ServerMakes, 9) = First(ServerMakes, 8) \union {ServerMakes[9]}
        /\ First(ServerMakes, 10) = First(ServerMakes, 9) \union {ServerMakes[10]}
        /\ First(ServerMakes, 11) = First(ServerMakes, 10) \union {ServerMakes[11]}
        /\ First(ServerMakes, 12) = First(ServerMakes, 11) \union {ServerMakes[12]}
        /\ First(ServerMakes, 13) = First(ServerMakes, 12) \union {ServerMakes[13]}
    BY <1>2
  <1> QED BY <1>0, <1>1, <1>3

(* Where a method finds the server, and where it may leave it. *)
Fits(step, made, left, next) ==
  LET has == First(ServerMakes, ServerHas[step])
  IN  /\ step \in DOMAIN ServerHas /\ next \in DOMAIN ServerHas
      /\ "registration" \notin made
      /\ First(ServerMakes, ServerHas[next]) = has \union made
      /\ \A some \in left :
           /\ "registration" \notin some
           /\ \E n \in 0 .. 13 : First(ServerMakes, n) = has \union some

(* A method that makes what comes next, or stops on the way. *)
LEMMA MakeObjects ==
  ASSUME ServerObjInv, sReply = "none", NEW step, NEW next, NEW made, NEW left,
         Make(step, made, left, next), Fits(step, made, left, next)
  PROVE  ServerObjInv'
  <1>1. ServerMade = First(ServerMakes, ServerHas[step])
    BY DEF ServerObjInv, Make, Fits
  <1>2. CASE sObj' = sObj \union made /\ Proceed(next)
    <2>1. ServerMade' = First(ServerMakes, ServerHas[next])
      BY <1>1, <1>2 DEF ServerMade, Fits
    <2>2. next # "returned" /\ next # "exited"
      BY DEF ServerHas, Fits
    <2> QED BY <1>2, <2>1, <2>2 DEF ServerObjInv, Proceed, ServerDone
  <1>3. CASE Fail /\ \E some \in left : sObj' = sObj \union some
    <2>1. PICK some \in left : sObj' = sObj \union some
      BY <1>3
    <2>2. ServerMade' = First(ServerMakes, ServerHas[step]) \union some
      BY <1>1, <2>1 DEF ServerMade, Fits
    <2>3. \E n \in 0 .. 13 : ServerMade' = First(ServerMakes, n)
      BY <2>1, <2>2 DEF Fits
    <2>4. "returned" \notin DOMAIN ServerHas
      BY DEF ServerHas
    <2> QED BY <1>3, <2>3, <2>4 DEF ServerObjInv, Fail
  <1> QED BY <1>2, <1>3 DEF Make

LEMMA MakersObjects ==
  ASSUME Inv, ServerObjInv,
         \/ Assign_IPAdress \/ OpenAdapter \/ SendAdapterInfoQuery \/ CreateRegion
         \/ CreateMemoryWindow \/ CreateCQ \/ SetupSGE \/ CreateConnector \/ CreateEndPoint
  PROVE  ServerObjInv'
  <1>0. sReply = "none"
    BY DEF Inv, VerdictInv, ServerDone, Make, Assign_IPAdress, OpenAdapter,
       SendAdapterInfoQuery, CreateRegion, CreateMemoryWindow, CreateCQ, SetupSGE,
       CreateConnector, CreateEndPoint
  <1>1. CASE Assign_IPAdress
    <2>1. Make("Assign_IPAdress", {"wsa", "framework"}, {{}, {"wsa"}}, "OpenAdapter")
      BY <1>1 DEF Assign_IPAdress
    <2>2. Fits("Assign_IPAdress", {"wsa", "framework"}, {{}, {"wsa"}}, "OpenAdapter")
      BY ServerPrefixes DEF ServerHas, Fits
    <2> QED BY <1>0, <2>1, <2>2, MakeObjects
  <1>2. CASE OpenAdapter
    <2>1. Make("OpenAdapter", {"pAdapter", "ov", "hAdapterFile"}, {{}, {"pAdapter"}, {"pAdapter", "ov"}}, "SendAdapterInfoQuery")
      BY <1>2 DEF OpenAdapter
    <2>2. Fits("OpenAdapter", {"pAdapter", "ov", "hAdapterFile"}, {{}, {"pAdapter"}, {"pAdapter", "ov"}}, "SendAdapterInfoQuery")
      <3>1. First(ServerMakes, 4) = First(ServerMakes, 2) \union {"pAdapter", "ov"}
        BY ServerPrefixes
      <3>2. First(ServerMakes, 5)
            = First(ServerMakes, 2) \union {"pAdapter", "ov", "hAdapterFile"}
        BY ServerPrefixes
      <3> QED BY <3>1, <3>2, ServerPrefixes DEF ServerHas, Fits
    <2> QED BY <1>0, <2>1, <2>2, MakeObjects
  <1>3. CASE SendAdapterInfoQuery
    <2>1. Make("SendAdapterInfoQuery", {}, {{}}, "AdapterRegisterMemory")
      BY <1>3 DEF SendAdapterInfoQuery
    <2>2. Fits("SendAdapterInfoQuery", {}, {{}}, "AdapterRegisterMemory")
      BY ServerPrefixes DEF ServerHas, Fits
    <2> QED BY <1>0, <2>1, <2>2, MakeObjects
  <1>4. CASE CreateRegion
    <2>1. Make("AdapterRegisterMemory", {"pMr"}, {{}, {"pMr"}}, "Registering")
      BY <1>4 DEF CreateRegion
    <2>2. Fits("AdapterRegisterMemory", {"pMr"}, {{}, {"pMr"}}, "Registering")
      BY ServerPrefixes DEF ServerHas, Fits
    <2> QED BY <1>0, <2>1, <2>2, MakeObjects
  <1>5. CASE CreateMemoryWindow
    <2>1. Make("CreateMemoryWindow", {"pMw"}, {{}}, "CreateCQ")
      BY <1>5 DEF CreateMemoryWindow
    <2>2. Fits("CreateMemoryWindow", {"pMw"}, {{}}, "CreateCQ")
      BY ServerPrefixes DEF ServerHas, Fits
    <2> QED BY <1>0, <2>1, <2>2, MakeObjects
  <1>6. CASE CreateCQ
    <2>1. Make("CreateCQ", {"pCq"}, {{}}, "SetupSGE")
      BY <1>6 DEF CreateCQ
    <2>2. Fits("CreateCQ", {"pCq"}, {{}}, "SetupSGE")
      BY ServerPrefixes DEF ServerHas, Fits
    <2> QED BY <1>0, <2>1, <2>2, MakeObjects
  <1>7. CASE SetupSGE
    <2>1. Make("SetupSGE", {"Sgl"}, {}, "CreateConnector")
      BY <1>7 DEF SetupSGE
    <2>2. Fits("SetupSGE", {"Sgl"}, {}, "CreateConnector")
      BY ServerPrefixes DEF ServerHas, Fits
    <2> QED BY <1>0, <2>1, <2>2, MakeObjects
  <1>8. CASE CreateConnector
    <2>1. Make("CreateConnector", {"pConnector", "Results_Server"}, {{}}, "CreateEndPoint")
      BY <1>8 DEF CreateConnector
    <2>2. Fits("CreateConnector", {"pConnector", "Results_Server"}, {{}}, "CreateEndPoint")
      BY ServerPrefixes DEF ServerHas, Fits
    <2> QED BY <1>0, <2>1, <2>2, MakeObjects
  <1>9. CASE CreateEndPoint
    <2>1. Make("CreateEndPoint", {"pQp"}, {{}}, "Listen")
      BY <1>9 DEF CreateEndPoint
    <2>2. Fits("CreateEndPoint", {"pQp"}, {{}}, "Listen")
      BY ServerPrefixes DEF ServerHas, Fits
    <2> QED BY <1>0, <2>1, <2>2, MakeObjects
  <1> QED BY <1>1, <1>2, <1>3, <1>4, <1>5, <1>6, <1>7, <1>8, <1>9

(* The registration is not a member; Listen makes the listener, and the     *)
(* methods after it make nothing.                                           *)
LEMMA OthersObjects ==
  ASSUME Inv, ServerObjInv,
         \/ Register \/ RegisterEndsOtherwise \/ RegisterAgain
         \/ GetConnectionRequest \/ Reserve_ReceiveEnd \/ Accept
         \/ PostBind \/ BindWait \/ PostSend \/ SendWait
  PROVE  ServerObjInv'
  <1>0. sReply = "none"
    BY DEF Inv, VerdictInv, ServerDone, Register, RegisterEndsOtherwise, RegisterAgain,
       GetConnectionRequest, Reserve_ReceiveEnd, Accept, PostBind, BindWait, PostSend,
       SendWait
  <1> USE DEF ServerObjInv, ServerHas, ServerDone, Proceed, Fail
  <1>1. CASE Register
    <2>1. ServerMade' = ServerMade
      BY <1>1 DEF Register, ServerMade
    <2> QED BY <1>0, <1>1, <2>1 DEF Register
  <1>2. CASE RegisterEndsOtherwise \/ RegisterAgain
    <2>1. ServerMade' = ServerMade /\ ServerMade = First(ServerMakes, 6)
      BY <1>2 DEF RegisterEndsOtherwise, RegisterAgain, ServerMade
    <2> QED BY <1>0, <1>2, <2>1 DEF RegisterEndsOtherwise, RegisterAgain
  <1>3. CASE \/ GetConnectionRequest \/ Reserve_ReceiveEnd \/ Accept
             \/ PostBind \/ BindWait \/ PostSend \/ SendWait
    <2>1. ServerMade' = ServerMade /\ ServerMade = First(ServerMakes, 13)
      BY <1>3 DEF GetConnectionRequest, Reserve_ReceiveEnd, Accept, PostBind, BindWait,
         PostSend, SendWait, ServerMade
    <2> QED BY <1>0, <1>3, <2>1 DEF GetConnectionRequest, Reserve_ReceiveEnd, Accept,
               PostBind, BindWait, PostSend, SendWait
  <1> QED BY <1>1, <1>2, <1>3

LEMMA ListenObjects ==
  ASSUME Inv, ServerObjInv, Listen PROVE ServerObjInv'
  <1>0. sReply = "none" /\ ServerMade = First(ServerMakes, 12)
    BY DEF Inv, VerdictInv, ServerDone, Listen, ServerObjInv, ServerHas
  <1> USE DEF ServerObjInv, ServerHas, ServerDone, Proceed, Fail
  <1>1. CASE sObj' = sObj \union {"pListen"}
    <2>1. ServerMade' = First(ServerMakes, 13)
      BY <1>0, <1>1, ServerPrefixes DEF ServerMade
    <2> QED BY <1>0, <2>1 DEF Listen
  <1>2. CASE sObj' = sObj /\ Fail
    <2>1. ServerMade' = First(ServerMakes, 12)
      BY <1>0, <1>2 DEF ServerMade
    <2> QED BY <1>0, <1>2, <2>1 DEF Listen
  <1> QED BY <1>1, <1>2 DEF Listen

LEMMA NextServerObjects ==
  ASSUME Inv, ServerObjInv, [Next]_vars PROVE ServerObjInv'
  <1>1. CASE ServerStep
    BY <1>1, MakersObjects, OthersObjects, ListenObjects DEF ServerStep, ServerNext
  <1>2. CASE ServerExits
    BY <1>2 DEF ServerExits, ServerObjInv, ServerHas, ServerDone, ServerMade, Inv, VerdictInv
  <1>3. CASE ClientStep \/ Provider \/ Break \/ ClientExits \/ UNCHANGED vars
    BY <1>3 DEF ClientStep, Provider, Break, ClientExits, vars, server, ServerObjInv,
       ServerMade, ServerDone
  <1> QED BY <1>1, <1>2, <1>3 DEF Next

LEMMA InitServerObjects == Init => ServerObjInv
  <1> SUFFICES ASSUME Init PROVE ServerObjInv
    OBVIOUS
  <1>1. ServerMade = First(ServerMakes, 0)
    BY ServerPrefixes DEF Init, ServerInit, ServerMade
  <1> QED BY <1>1 DEF Init, ServerInit, ServerObjInv, ServerHas, ServerDone

(* No method of the server goes through a member that no method before it   *)
(* has set.                                                                 *)
THEOREM UsesWhatExists == Spec => []ServerUsesWhatExists
  <1>1. ServerObjInv => ServerUsesWhatExists
    <2> SUFFICES ASSUME ServerObjInv, spc \in DOMAIN ServerUses
                 PROVE  ServerUses[spc] \subseteq ServerMade
      BY DEF ServerUsesWhatExists, ServerMade
    <2>1. ServerMade = First(ServerMakes, ServerHas[spc])
      BY DEF ServerObjInv, ServerUses, ServerHas
    <2>2. ServerUses[spc] \subseteq First(ServerMakes, ServerHas[spc])
      BY ServerPrefixes DEF ServerUses, ServerHas
    <2> QED BY <2>1, <2>2
  <1> QED BY Invariance, InitServerObjects, NextServerObjects, <1>1, PTL DEF Spec

-----------------------------------------------------------------------------
(* The client, whose region alone may be missing where it is registered.    *)
ClientHas ==
  [Assign_IPAdress |-> 0, OpenAdapter |-> 4, SendAdapterInfoQuery |-> 6,
   AdapterRegisterMemory |-> 9, CreateCQ |-> 10, CreateEndPoint |-> 12, SetupSGE |-> 14,
   Connect |-> 14, Connecting |-> 14, CompleteConnect |-> 14, ReceiveWait |-> 14,
   ReadToken |-> 14, ReadAddress |-> 14]

ClientObjInv ==
  /\ cpc \in DOMAIN ClientHas => cObj = First(ClientMakes, ClientHas[cpc])
  /\ cpc = "Registering" => \E n \in 9 .. 10 : cObj = First(ClientMakes, n)
  /\ ClientDone => \E n \in 0 .. 14 : cObj = First(ClientMakes, n)
  /\ cReply = "OK" => cObj = First(ClientMakes, 14)

(* The prefixes of what the client makes, one by one. *)
LEMMA ClientPrefixes ==
  /\ First(ClientMakes, 0) = {}
  /\ First(ClientMakes, 1) = First(ClientMakes, 0) \union {"wsa"}
  /\ First(ClientMakes, 2) = First(ClientMakes, 1) \union {"ov"}
  /\ First(ClientMakes, 3) = First(ClientMakes, 2) \union {"framework"}
  /\ First(ClientMakes, 4) = First(ClientMakes, 3) \union {"v4_Local"}
  /\ First(ClientMakes, 5) = First(ClientMakes, 4) \union {"pAdapter"}
  /\ First(ClientMakes, 6) = First(ClientMakes, 5) \union {"hAdapterFile"}
  /\ First(ClientMakes, 7) = First(ClientMakes, 6) \union {"Sgl"}
  /\ First(ClientMakes, 8) = First(ClientMakes, 7) \union {"SglBatchRead"}
  /\ First(ClientMakes, 9) = First(ClientMakes, 8) \union {"pResult"}
  /\ First(ClientMakes, 10) = First(ClientMakes, 9) \union {"pMr"}
  /\ First(ClientMakes, 11) = First(ClientMakes, 10) \union {"pCq"}
  /\ First(ClientMakes, 12) = First(ClientMakes, 11) \union {"pRq"}
  /\ First(ClientMakes, 13) = First(ClientMakes, 12) \union {"pConnector"}
  /\ First(ClientMakes, 14) = First(ClientMakes, 13) \union {"pQp"}
  <1>0. First(ClientMakes, 0) = {}
    BY DEF First
  <1>1. /\ ClientMakes[1] = "wsa" /\ ClientMakes[2] = "ov"
        /\ ClientMakes[3] = "framework" /\ ClientMakes[4] = "v4_Local"
        /\ ClientMakes[5] = "pAdapter" /\ ClientMakes[6] = "hAdapterFile"
        /\ ClientMakes[7] = "Sgl" /\ ClientMakes[8] = "SglBatchRead"
        /\ ClientMakes[9] = "pResult"
        /\ ClientMakes[10] = "pMr" /\ ClientMakes[11] = "pCq"
        /\ ClientMakes[12] = "pRq" /\ ClientMakes[13] = "pConnector"
        /\ ClientMakes[14] = "pQp"
    BY DEF ClientMakes
  <1>2. \A n \in 0 .. 13 :
          First(ClientMakes, n + 1) = First(ClientMakes, n) \union {ClientMakes[n + 1]}
    <2> TAKE n \in 0 .. 13
    <2>1. n \in Nat
      OBVIOUS
    <2> QED BY <2>1, FirstGrows, Zenon
  <1>3. /\ First(ClientMakes, 1) = First(ClientMakes, 0) \union {ClientMakes[1]}
        /\ First(ClientMakes, 2) = First(ClientMakes, 1) \union {ClientMakes[2]}
        /\ First(ClientMakes, 3) = First(ClientMakes, 2) \union {ClientMakes[3]}
        /\ First(ClientMakes, 4) = First(ClientMakes, 3) \union {ClientMakes[4]}
        /\ First(ClientMakes, 5) = First(ClientMakes, 4) \union {ClientMakes[5]}
        /\ First(ClientMakes, 6) = First(ClientMakes, 5) \union {ClientMakes[6]}
        /\ First(ClientMakes, 7) = First(ClientMakes, 6) \union {ClientMakes[7]}
        /\ First(ClientMakes, 8) = First(ClientMakes, 7) \union {ClientMakes[8]}
        /\ First(ClientMakes, 9) = First(ClientMakes, 8) \union {ClientMakes[9]}
        /\ First(ClientMakes, 10) = First(ClientMakes, 9) \union {ClientMakes[10]}
        /\ First(ClientMakes, 11) = First(ClientMakes, 10) \union {ClientMakes[11]}
        /\ First(ClientMakes, 12) = First(ClientMakes, 11) \union {ClientMakes[12]}
        /\ First(ClientMakes, 13) = First(ClientMakes, 12) \union {ClientMakes[13]}
        /\ First(ClientMakes, 14) = First(ClientMakes, 13) \union {ClientMakes[14]}
    BY <1>2
  <1> QED BY <1>0, <1>1, <1>3

ClientFits(step, made, left, next) ==
  LET has == First(ClientMakes, ClientHas[step])
  IN  /\ step \in DOMAIN ClientHas /\ next \in DOMAIN ClientHas
      /\ First(ClientMakes, ClientHas[next]) = has \union made
      /\ \A some \in left : \E n \in 0 .. 14 : First(ClientMakes, n) = has \union some

LEMMA BuildObjects ==
  ASSUME ClientObjInv, cReply = "none", NEW step, NEW next, NEW made, NEW left,
         Build(step, made, left, next), ClientFits(step, made, left, next)
  PROVE  ClientObjInv'
  <1>1. cObj = First(ClientMakes, ClientHas[step])
    BY DEF ClientObjInv, Build, ClientFits
  <1>2. CASE cObj' = cObj \union made /\ GoOn(next)
    <2>1. cObj' = First(ClientMakes, ClientHas[next])
      BY <1>1, <1>2 DEF ClientFits
    <2>2. next # "returned" /\ next # "exited" /\ next # "Registering"
      BY DEF ClientHas, ClientFits
    <2> QED BY <1>2, <2>1, <2>2 DEF ClientObjInv, GoOn, ClientDone
  <1>3. CASE GiveUp /\ \E some \in left : cObj' = cObj \union some
    <2>1. PICK some \in left : cObj' = cObj \union some
      BY <1>3
    <2>2. \E n \in 0 .. 14 : cObj' = First(ClientMakes, n)
      BY <1>1, <2>1 DEF ClientFits
    <2>3. "returned" \notin DOMAIN ClientHas
      BY DEF ClientHas
    <2> QED BY <1>3, <2>2, <2>3 DEF ClientObjInv, GiveUp
  <1> QED BY <1>2, <1>3 DEF Build

LEMMA BuildersObjects ==
  ASSUME Inv, ClientObjInv,
         \/ CAssign_IPAdress \/ COpenAdapter \/ CSendAdapterInfoQuery
         \/ CCreateCQ \/ CCreateEndPoint
  PROVE  ClientObjInv'
  <1>0. cReply = "none"
    BY DEF Inv, VerdictInv, ClientDone, Build, CAssign_IPAdress, COpenAdapter,
       CSendAdapterInfoQuery, CCreateCQ, CCreateEndPoint
  <1>1. CASE CAssign_IPAdress
    <2>1. Build("Assign_IPAdress", {"wsa", "ov", "framework", "v4_Local"}, {{}, {"wsa"}, {"wsa", "ov"}, {"wsa", "ov", "framework"}}, "OpenAdapter")
      BY <1>1 DEF CAssign_IPAdress
    <2>2. ClientFits("Assign_IPAdress", {"wsa", "ov", "framework", "v4_Local"}, {{}, {"wsa"}, {"wsa", "ov"}, {"wsa", "ov", "framework"}}, "OpenAdapter")
      <3>1. /\ First(ClientMakes, 2) = First(ClientMakes, 0) \union {"wsa", "ov"}
            /\ First(ClientMakes, 3) = First(ClientMakes, 0) \union {"wsa", "ov", "framework"}
            /\ First(ClientMakes, 4)
               = First(ClientMakes, 0) \union {"wsa", "ov", "framework", "v4_Local"}
        BY ClientPrefixes
      <3> QED BY <3>1, ClientPrefixes DEF ClientHas, ClientFits
    <2> QED BY <1>0, <2>1, <2>2, BuildObjects
  <1>2. CASE COpenAdapter
    <2>1. Build("OpenAdapter", {"pAdapter", "hAdapterFile"}, {{}, {"pAdapter"}}, "SendAdapterInfoQuery")
      BY <1>2 DEF COpenAdapter
    <2>2. ClientFits("OpenAdapter", {"pAdapter", "hAdapterFile"}, {{}, {"pAdapter"}}, "SendAdapterInfoQuery")
      <3>1. First(ClientMakes, 6) = First(ClientMakes, 4) \union {"pAdapter", "hAdapterFile"}
        BY ClientPrefixes
      <3> QED BY <3>1, ClientPrefixes DEF ClientHas, ClientFits
    <2> QED BY <1>0, <2>1, <2>2, BuildObjects
  <1>3. CASE CSendAdapterInfoQuery
    <2>1. Build("SendAdapterInfoQuery", {"Sgl", "SglBatchRead", "pResult"}, {{}},
              "AdapterRegisterMemory")
      BY <1>3 DEF CSendAdapterInfoQuery
    <2>2. ClientFits("SendAdapterInfoQuery", {"Sgl", "SglBatchRead", "pResult"}, {{}},
                   "AdapterRegisterMemory")
      <3>1. First(ClientMakes, 9) = First(ClientMakes, 6) \union {"Sgl", "SglBatchRead", "pResult"}
        BY ClientPrefixes
      <3> QED BY <3>1, ClientPrefixes DEF ClientHas, ClientFits
    <2> QED BY <1>0, <2>1, <2>2, BuildObjects
  <1>4. CASE CCreateCQ
    <2>1. Build("CreateCQ", {"pCq", "pRq"}, {{}, {"pCq"}}, "CreateEndPoint")
      BY <1>4 DEF CCreateCQ
    <2>2. ClientFits("CreateCQ", {"pCq", "pRq"}, {{}, {"pCq"}}, "CreateEndPoint")
      <3>1. First(ClientMakes, 12) = First(ClientMakes, 10) \union {"pCq", "pRq"}
        BY ClientPrefixes
      <3> QED BY <3>1, ClientPrefixes DEF ClientHas, ClientFits
    <2> QED BY <1>0, <2>1, <2>2, BuildObjects
  <1>5. CASE CCreateEndPoint
    <2>1. Build("CreateEndPoint", {"pConnector", "pQp"}, {{}, {"pConnector"}}, "SetupSGE")
      BY <1>5 DEF CCreateEndPoint
    <2>2. ClientFits("CreateEndPoint", {"pConnector", "pQp"}, {{}, {"pConnector"}}, "SetupSGE")
      <3>1. First(ClientMakes, 14) = First(ClientMakes, 12) \union {"pConnector", "pQp"}
        BY ClientPrefixes
      <3> QED BY <3>1, ClientPrefixes DEF ClientHas, ClientFits
    <2> QED BY <1>0, <2>1, <2>2, BuildObjects
  <1> QED BY <1>1, <1>2, <1>3, <1>4, <1>5

LEMMA RegionObjects ==
  ASSUME Inv, ClientObjInv, CCreateRegion \/ CRegister PROVE ClientObjInv'
  <1>0. cReply = "none"
    BY DEF Inv, VerdictInv, ClientDone, CCreateRegion, CRegister
  <1> USE DEF ClientObjInv, ClientHas, ClientDone, GoOn, GiveUp
  <1>1. CASE CCreateRegion
    <2>1. cObj' \in {First(ClientMakes, 9), First(ClientMakes, 10)}
      BY <1>1, ClientPrefixes DEF CCreateRegion
    <2> QED BY <1>0, <1>1, <2>1 DEF CCreateRegion
  <1>2. CASE CRegister
    <2>1. cObj' = cObj /\ cObj \in {First(ClientMakes, 9), First(ClientMakes, 10)}
      BY <1>2 DEF CRegister
    <2>2. "pMr" \in cObj => cObj = First(ClientMakes, 10)
      BY <2>1, ClientPrefixes
    <2> QED BY <1>0, <1>2, <2>1, <2>2 DEF CRegister
  <1> QED BY <1>1, <1>2

LEMMA LaterObjects ==
  ASSUME Inv, ClientObjInv,
         \/ CSetupSGE \/ Connect \/ Connecting \/ CompleteConnect
         \/ ReceiveWait \/ ReadToken \/ ReadAddress
  PROVE  ClientObjInv'
  <1> USE DEF ClientObjInv, ClientHas, ClientDone, GoOn, GiveUp, CSetupSGE, Connect,
              Connecting, CompleteConnect, ReceiveWait, ReadToken, ReadAddress
  <1>0. cReply = "none"
    BY DEF Inv, VerdictInv
  <1>1. cObj' = cObj /\ cObj = First(ClientMakes, 14)
    OBVIOUS
  <1> QED BY <1>0, <1>1

LEMMA NextClientObjects ==
  ASSUME Inv, ClientObjInv, [Next]_vars PROVE ClientObjInv'
  <1>1. CASE ClientStep
    BY <1>1, BuildersObjects, RegionObjects, LaterObjects DEF ClientStep, ClientNext
  <1>2. CASE ClientExits
    BY <1>2 DEF ClientExits, ClientObjInv, ClientHas, ClientDone, Inv, VerdictInv
  <1>3. CASE ServerStep \/ Provider \/ Break \/ ServerExits \/ UNCHANGED vars
    BY <1>3 DEF ServerStep, Provider, Break, ServerExits, vars, client, ClientObjInv,
       ClientDone
  <1> QED BY <1>1, <1>2, <1>3 DEF Next

LEMMA InitClientObjects == Init => ClientObjInv
  BY ClientPrefixes DEF Init, ClientInit, ClientObjInv, ClientHas, ClientDone

(* What the objects of a setup that stopped are, for either side. *)
LEMMA PrefixIsLeft ==
  ASSUME NEW objects, NEW makes, makes \in Seq(First(makes, Len(makes))),
         \E n \in 0 .. Len(makes) : objects = First(makes, n)
  PROVE  IsLeftBy(objects, makes)
  <1>1. PICK n \in 0 .. Len(makes) : objects = First(makes, n)
    OBVIOUS
  <1>2. Elements(SubSeq(makes, 1, n)) = First(makes, n)
    BY FirstIsPrefix
  <1> QED BY <1>1, <1>2 DEF IsLeftBy

(* An Initialize that has returned leaves what comes before the step that   *)
(* failed, and all of it when it returned OK.                               *)
THEOREM LeavesPrefixes == Spec => []SetupsLeavePrefixes
  <1>1. ServerObjInv /\ ClientObjInv => SetupsLeavePrefixes
    <2> SUFFICES ASSUME ServerObjInv, ClientObjInv PROVE SetupsLeavePrefixes
      OBVIOUS
    <2>a. Len(ServerMakes) = 13 /\ Len(ClientMakes) = 14
      BY DEF ServerMakes, ClientMakes
    <2>b. ServerMakes \in Seq(First(ServerMakes, 13))
      BY DEF ServerMakes, First
    <2>c. ClientMakes \in Seq(First(ClientMakes, 14))
      BY DEF ClientMakes, First
    <2>2. ServerDone => IsLeftBy(sObj \ {"registration"}, ServerMakes)
      BY <2>a, <2>b, PrefixIsLeft DEF ServerObjInv, ServerMade
    <2>3. ClientDone => IsLeftBy(cObj, ClientMakes)
      BY <2>a, <2>c, PrefixIsLeft DEF ClientObjInv
    <2>4. /\ Elements(ServerMakes) = First(ServerMakes, 13)
          /\ Elements(ClientMakes) = First(ClientMakes, 14)
      <3>1. DOMAIN ServerMakes = 1 .. 13 /\ DOMAIN ClientMakes = 1 .. 14
        BY <2>a, <2>b, <2>c
      <3> QED BY <3>1 DEF Elements, First
    <2>5. sReply = "OK" => Elements(ServerMakes) \subseteq sObj
      BY <2>4 DEF ServerObjInv, ServerMade
    <2>6. cReply = "OK" => Elements(ClientMakes) \subseteq cObj
      BY <2>4 DEF ClientObjInv
    <2> QED BY <2>2, <2>3, <2>5, <2>6 DEF SetupsLeavePrefixes
  <1> QED BY Invariance, InitServerObjects, NextServerObjects, InitClientObjects,
             NextClientObjects, <1>1, PTL DEF Spec
=============================================================================
