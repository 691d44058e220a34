------------------------------ MODULE ClientRead ------------------------------
(***************************************************************************)
(* The data path of RDMAClient: Read(data), Read(datas) and the wait for   *)
(* completions they share (RDMAClient.cpp, 322-377 and 449-466).           *)
(*                                                                         *)
(* A request is its position in the order of the posts on pQp, which is    *)
(* also the order in which the provider completes them.  `good' requests   *)
(* landed in the local buffer; the first one that fails puts the queue     *)
(* pair in error and all later ones are flushed, so request r landed iff   *)
(* r <= good.  A completion carries its status and READ_CTXT: pCq is the   *)
(* initiator queue of pQp and the client posts nothing but reads on it.    *)
(***************************************************************************)
EXTENDS Integers

CONSTANTS
  Depth,      \* CompleteQueueDepth: entries of pCq, of pQp and of pResult
  MaxBatch,   \* bound: the longest vector a caller passes
  MaxCalls    \* bound: the number of calls

ASSUME ReadAssumption ==
  /\ Depth \in Nat \ {0}
  /\ MaxBatch \in Nat \ {0}
  /\ MaxCalls \in Nat

VARIABLES
  pc,         \* where the calling thread is
  kind,       \* the overload that was called
  frame,      \* "inner" while the thread is inside the recursive call of line 375
  remain,     \* datas.size()
  sendcnt,    \* requests of this chunk
  i,          \* requests of this chunk posted so far
  resultCnt,  \* completions this wait has popped
  pResult,    \* the request whose completion each slot holds
  reply,      \* what the call returned
  posted, completed, good, reaped,  \* the queue pair and pCq
  calls, asked, entry, found        \* history of the call, read by no action

client == <<pc, kind, frame, remain, sendcnt, i, resultCnt, pResult, reply>>
queue  == <<posted, completed, good, reaped>>
call   == <<calls, asked, entry, found>>
vars   == <<client, queue, call>>

Slots     == 0 .. Depth - 1
Unwritten == 0      \* pResult comes from new[] and is not cleared
TimedOut  == -1     \* ND_IO_TIMEOUT, stored by the wait when it gives up
NULL      == 0
READ_CTXT == 12288  \* 0x3000
Nested == frame = "inner"
Clean  == found = "nothing"   \* the call found nothing outstanding
Least(a, b) == IF a < b THEN a ELSE b

Replies == {"none", "OK", "PostFailed", "StatusNotOK", "ContextNotRead"}

TypeOK ==
  /\ pc \in {"idle", "post", "poll", "check"}
  /\ kind \in {"single", "batch"}
  /\ frame \in {"outer", "inner"}
  /\ remain \in Nat
  /\ sendcnt \in 0 .. Depth
  /\ i \in 0 .. Depth
  /\ resultCnt \in Nat
  /\ pResult \in [Slots -> Int]
  /\ reply \in Replies
  /\ posted \in Nat /\ completed \in Nat /\ good \in Nat /\ reaped \in Nat
  /\ calls \in 0 .. MaxCalls
  /\ asked \in 0 .. MaxBatch
  /\ entry \in Nat
  /\ found \in {"nothing", "leftovers"}

Init ==
  /\ pc = "idle" /\ kind = "single" /\ frame = "outer" /\ remain = 0
  /\ sendcnt = 0 /\ i = 0 /\ resultCnt = 0 /\ reply = "none"
  /\ pResult = [j \in Slots |-> Unwritten]
  /\ posted = 0 /\ completed = 0 /\ good = 0 /\ reaped = 0
  /\ calls = 0 /\ asked = 0 /\ entry = 0 /\ found = "nothing"

-----------------------------------------------------------------------------
(* The provider completes the oldest outstanding request: its data is in    *)
(* the buffer, or it failed or was flushed.                                 *)
Land ==
  /\ completed < posted /\ good = completed
  /\ completed' = completed + 1 /\ good' = good + 1
  /\ UNCHANGED <<client, posted, reaped, call>>

Flush ==
  /\ completed < posted
  /\ completed' = completed + 1
  /\ UNCHANGED <<client, posted, good, reaped, call>>

Provider == Land \/ Flush

-----------------------------------------------------------------------------
(* Mutant: a chunk that is not cut to the depth of the queues (351-352). *)
ChunkUncut(n) ==
  /\ pc' = "post" /\ i' = 0
  /\ sendcnt' = n

(* The first chunk of a call, or of the recursive call, is about to be posted. *)
Chunk(n) ==
  /\ pc' = "post" /\ i' = 0
  /\ sendcnt' = Least(n, Depth)

CallWith(k, n) ==
  /\ pc = "idle" /\ calls < MaxCalls
  /\ kind' = k /\ frame' = "outer" /\ remain' = n
  /\ Chunk(n)
  /\ reply' = "none"
  /\ calls' = calls + 1 /\ asked' = n /\ entry' = posted
  /\ found' = IF posted = reaped THEN "nothing" ELSE "leftovers"
  /\ UNCHANGED <<resultCnt, pResult, queue>>

Call == CallWith("single", 1) \/ \E n \in 0 .. MaxBatch : CallWith("batch", n)

(* Every return of a nested call comes back at line 375, which drops what   *)
(* it returned: the outer call then returns "OK".                           *)
Return(r) ==
  /\ pc' = "idle"
  /\ reply' = IF Nested THEN "OK" ELSE r
  /\ UNCHANGED <<kind, frame, remain, sendcnt, i, resultCnt>>

(* pQp->Read: a slot of the queue pair is free again once its completion    *)
(* has been popped.                                                         *)
CanPost == posted - reaped < Depth

Post ==
  /\ pc = "post" /\ i < sendcnt /\ CanPost
  /\ posted' = posted + 1 /\ i' = i + 1 /\ remain' = remain - 1
  /\ UNCHANGED <<pc, kind, frame, sendcnt, resultCnt, pResult, reply,
                 completed, good, reaped, call>>

(* A failed post returns at once; what the loop posted before stays outstanding. *)
PostFails ==
  /\ pc = "post" /\ i < sendcnt
  /\ Return("PostFailed")
  /\ UNCHANGED <<pResult, queue, call>>

(* Mutant: a wait that goes on counting where the last one stopped. *)
FreshCountKept == resultCnt

FreshCount == 0

BeginWait ==
  /\ pc = "post" /\ i = sendcnt
  /\ pc' = "poll" /\ resultCnt' = FreshCount
  /\ UNCHANGED <<kind, frame, remain, sendcnt, i, pResult, reply, queue, call>>

(* Mutant: a wait that ends with the first completions. *)
HasAny == resultCnt + Least(sendcnt, completed - reaped) > 0

(* One turn of WaitForCompletion.  GetResults pops up to expectedNum        *)
(* completions, however many the wait has popped already, and stores them   *)
(* from slot resultCnt on.                                                  *)
Popped  == Least(sendcnt, completed - reaped)
Stored  == [j \in Slots |-> IF resultCnt <= j /\ j < resultCnt + Popped
                            THEN reaped + (j - resultCnt) + 1
                            ELSE pResult[j]]
GaveUp  == resultCnt + Popped = 0 /\ sendcnt # 0
HasAll  == resultCnt + Popped = sendcnt

Poll ==
  /\ pc = "poll"
  /\ reaped' = reaped + Popped
  /\ resultCnt' = resultCnt + Popped
  /\ \/ /\ HasAll
        /\ pc' = "check" /\ pResult' = Stored
     \/ /\ GaveUp
        /\ pc' = "check" /\ pResult' = [pResult EXCEPT ![0] = TimedOut]
     \/ /\ ~HasAll /\ ~GaveUp
        /\ pc' = pc /\ pResult' = Stored
  /\ UNCHANGED <<kind, frame, remain, sendcnt, i, reply,
                 posted, completed, good, call>>

-----------------------------------------------------------------------------
(* What the slots say.  A slot outside pResult or never written reads as    *)
(* anything: an empty vector makes the checks read pResult[0] and           *)
(* pResult[-1] although no completion was waited for.                       *)
Garbage(j)   == j \in Slots => pResult[j] = Unwritten
Success(j)   == j \in Slots /\ 1 <= pResult[j] /\ pResult[j] <= good
MayBeOk(j)   == Garbage(j) \/ Success(j)
MayBeBad(j)  == Garbage(j) \/ ~Success(j)
Context(j)   == IF pResult[j] > 0 THEN READ_CTXT ELSE NULL

(* Mutant: the samples without the last slot. *)
SampledNotLast == {0, sendcnt \div 2}

(* Read(datas) looks at the first, the middle and the last slot only. *)
Sampled == {0, sendcnt \div 2, sendcnt - 1}

SingleVerdict ==
  IF ~Success(0) THEN "StatusNotOK"
  ELSE IF Context(0) # NULL THEN "ContextNotRead"
  ELSE "OK"

CheckSingle ==
  /\ pc = "check" /\ kind = "single"
  /\ Return(SingleVerdict)
  /\ UNCHANGED <<pResult, queue, call>>

ChunkPasses == pc = "check" /\ kind = "batch" /\ \A j \in Sampled : MayBeOk(j)

CheckStatusFails ==
  /\ pc = "check" /\ kind = "batch"
  /\ \E j \in Sampled : MayBeBad(j)
  /\ Return("StatusNotOK")
  /\ UNCHANGED <<pResult, queue, call>>

CheckContextFails ==
  /\ ChunkPasses
  /\ \E j \in Sampled : Garbage(j)
  /\ Return("ContextNotRead")
  /\ UNCHANGED <<pResult, queue, call>>

LastChunk ==
  /\ ChunkPasses /\ remain = 0
  /\ Return("OK")
  /\ UNCHANGED <<pResult, queue, call>>

NextChunk ==
  /\ ChunkPasses /\ remain > 0
  /\ frame' = "inner"
  /\ Chunk(remain)
  /\ UNCHANGED <<kind, remain, resultCnt, pResult, reply, queue, call>>

Thread == \/ Post \/ PostFails \/ BeginWait \/ Poll
          \/ CheckSingle \/ CheckStatusFails \/ CheckContextFails
          \/ LastChunk \/ NextChunk

Next == Call \/ Thread \/ Provider

(* The calling thread keeps running, and the provider completes what is posted. *)
Fairness == WF_vars(Thread) /\ WF_vars(Provider)

Spec     == Init /\ [][Next]_vars
FairSpec == Spec /\ Fairness

-----------------------------------------------------------------------------
Waiting == pc = "poll"

(* The completions a wait has popped and those that may still arrive fit in *)
(* pResult.  GetResults is told expectedNum at every turn, not what is left *)
(* of the array (455), so only the depth of the queue pair keeps the writes *)
(* inside it, also when requests of an earlier, failed call are still out.  *)
NoOverrun == Waiting => resultCnt + (posted - reaped) <= Depth

(* A batch that returns "OK" and found no request of an earlier call        *)
(* outstanding has its first chunk in the local buffer: sampling three      *)
(* slots (367) is enough because the last slot is the last request and      *)
(* requests fail in order.                                                  *)
FirstChunk == entry + Least(asked, Depth)
OkMeansLanded ==
  pc = "idle" /\ reply = "OK" /\ Clean /\ asked > 0 => FirstChunk <= good

(* Without leftovers, the status check only fails a batch whose data is     *)
(* not all there, or whose wait gave up at its first poll (460-463).        *)
FailureIsReal ==
  (pc = "idle" /\ reply = "StatusNotOK" /\ Clean /\ asked > 0)
    => (good < posted \/ pResult[0] = TimedOut)

(* The wait ends by counting up to exactly expectedNum (456).  Only a call  *)
(* that started with requests of an earlier call outstanding can pop more   *)
(* than that, and then turn forever.                                        *)
OvershootOnlyWithLeftovers == Waiting /\ resultCnt > sendcnt => ~Clean

(* A batch that returns "OK" leaves nothing outstanding that could be       *)
(* written to the caller's buffer later, when it fits in one chunk.         *)
OkLeavesNothingInFlight ==
  pc = "idle" /\ reply = "OK" /\ Clean /\ asked \in 1 .. Depth => posted = reaped

(* A call that found no leftovers returns, whatever the provider does with  *)
(* its requests: the poll loop of WaitForCompletion has no time limit.      *)
CleanReadReturns == (pc # "idle" /\ Clean) ~> (pc = "idle")

-----------------------------------------------------------------------------
(* The inductive invariant behind the safety properties. *)
QueueInv ==
  /\ good <= completed /\ completed <= posted
  /\ reaped <= completed /\ posted - reaped <= Depth

ChunkInv ==
  /\ pc = "post" => i <= sendcnt /\ sendcnt - i <= remain
  /\ pc \in {"poll", "check"} => i = sendcnt
  /\ pc # "idle" /\ ~Nested =>
       /\ sendcnt = Least(asked, Depth) /\ posted = entry + i /\ remain = asked - i
  /\ pc # "idle" /\ Nested => asked > Depth /\ (Clean => FirstChunk <= good)
  /\ Nested => kind = "batch"

WaitInv ==
  /\ Clean /\ pc = "post" => posted - reaped = i
  /\ pc = "poll" => resultCnt + (posted - reaped) <= Depth
  /\ Clean /\ pc = "poll" => resultCnt + (posted - reaped) = sendcnt
  /\ Clean /\ pc = "check" /\ resultCnt = sendcnt => posted = reaped
  /\ pc = "check" => \/ resultCnt = sendcnt
                     \/ resultCnt = 0 /\ pResult[0] = TimedOut

(* What a wait popped is in its slots in order, the last one in the last slot. *)
SlotInv ==
  pc \in {"poll", "check"} =>
    \A j \in Slots : j < resultCnt => pResult[j] = reaped - resultCnt + 1 + j

(* What the last call left behind. *)
LeftInv ==
  pc = "idle" /\ Clean /\ asked > 0 =>
    /\ reply = "OK" => FirstChunk <= good /\ (asked <= Depth => posted = reaped)
    /\ reply = "StatusNotOK" => \/ good < posted /\ posted = completed
                               \/ pResult[0] = TimedOut

Inv == TypeOK /\ QueueInv /\ ChunkInv /\ WaitInv /\ SlotInv /\ LeftInv

-----------------------------------------------------------------------------
(* What the program says of itself and TLC refutes: the second one in the   *)
(* run of ClientReadDropped.cfg, and there the first one in its place.      *)

(* "ND2_Result RequestContext Not Read" (339) is returned when the          *)
(* completion does not carry READ_CTXT.                                     *)
ContextErrorMeansWrongContext ==
  pc = "idle" /\ kind = "single" /\ reply = "ContextNotRead"
    => Context(0) # READ_CTXT

(* "RDMA Read WaitForCompletion Fail" (369) is what a batch whose requests  *)
(* did not complete well returns.                                           *)
FailedChunkIsReported ==
  pc = "idle" /\ kind = "batch" /\ Clean /\ asked > 0 /\ reply = "OK"
    => entry + asked <= good
=============================================================================
