--------------------------- MODULE ClientReadProofs ---------------------------
(* Proofs about ClientRead for every depth, batch length and number of calls. *)
EXTENDS ClientRead, TLAPS

(* What the length of a chunk is: within the vector and within the depth. *)
LEMMA LeastBounds ==
  ASSUME NEW a \in Nat, NEW b \in Nat
  PROVE  /\ Least(a, b) \in Nat /\ Least(a, b) <= a /\ Least(a, b) <= b
         /\ Least(a, b) = a \/ Least(a, b) = b
  BY DEF Least

(* The slots that Read(datas) samples are slots its wait has filled, and    *)
(* the last one is among them.                                              *)
LEMMA SampledSlots ==
  ASSUME sendcnt \in Nat \ {0}
  PROVE  /\ 0 \in Sampled /\ sendcnt - 1 \in Sampled
         /\ \A j \in Sampled : j \in 0 .. sendcnt - 1
  <1>1. sendcnt \div 2 \in 0 .. sendcnt - 1
    OBVIOUS
  <1> QED BY <1>1 DEF Sampled

LEMMA InitInv == Init => Inv
  <1> SUFFICES ASSUME Init PROVE Inv
    OBVIOUS
  <1> USE ReadAssumption DEF Init, Nested, Clean
  <1>1. TypeOK
    BY DEF TypeOK, Slots, Unwritten, Replies
  <1>2. QueueInv /\ ChunkInv /\ WaitInv /\ SlotInv /\ LeftInv
    BY DEF QueueInv, ChunkInv, WaitInv, SlotInv, LeftInv
  <1> QED BY <1>1, <1>2 DEF Inv

(* The provider: a request that completes changes neither what was popped   *)
(* nor the slots.                                                           *)
LEMMA ProviderStep == Inv /\ Provider => Inv'
  <1> SUFFICES ASSUME Inv, Provider PROVE Inv'
    OBVIOUS
  <1> USE ReadAssumption DEF Nested, Clean
  <1>0. /\ posted \in Nat /\ completed \in Nat /\ good \in Nat /\ reaped \in Nat
        /\ entry \in Nat /\ asked \in Nat /\ sendcnt \in Nat /\ Depth \in Nat
    BY DEF Inv, TypeOK
  <1>1. /\ completed < posted
        /\ completed' = completed + 1
        /\ good' \in {good, good + 1} /\ (good' = good + 1 => good = completed)
        /\ UNCHANGED <<client, posted, reaped, call>>
    BY <1>0 DEF Provider, Land, Flush
  <1>2. TypeOK'
    BY <1>0, <1>1 DEF Inv, TypeOK, client, call
  <1>3. QueueInv'
    BY <1>0, <1>1 DEF Inv, QueueInv
  <1>a. FirstChunk \in Nat /\ FirstChunk' = FirstChunk /\ good <= good'
    BY <1>0, <1>1, LeastBounds DEF FirstChunk, client, call, Least
  <1>4. ChunkInv'
    BY <1>0, <1>1, <1>a DEF Inv, ChunkInv, client, call, Least
  <1>5. WaitInv' /\ SlotInv'
    BY <1>0, <1>1 DEF Inv, WaitInv, SlotInv, client, call, Slots
  <1>6. LeftInv'
    BY <1>0, <1>1, <1>a DEF Inv, LeftInv, client, call, QueueInv
  <1> QED BY <1>2, <1>3, <1>4, <1>5, <1>6 DEF Inv

LEMMA CallStep == Inv /\ Call => Inv'
  <1> SUFFICES ASSUME Inv, NEW k \in {"single", "batch"}, NEW n \in 0 .. MaxBatch,
                      k = "single" => n = 1, CallWith(k, n)
               PROVE  Inv'
    BY ReadAssumption DEF Call
  <1> USE ReadAssumption DEF Inv, Nested, Clean
  <1>1. Least(n, Depth) \in Nat /\ Least(n, Depth) <= n /\ Least(n, Depth) <= Depth
    BY LeastBounds
  <1>2. TypeOK'
    BY <1>1 DEF TypeOK, CallWith, Chunk, queue, Replies
  <1>3. QueueInv' /\ ChunkInv' /\ WaitInv' /\ SlotInv' /\ LeftInv'
    BY <1>1 DEF TypeOK, CallWith, Chunk, queue, QueueInv, ChunkInv, WaitInv, SlotInv,
                LeftInv, Least, FirstChunk
  <1> QED BY <1>2, <1>3

LEMMA PostStep == Inv /\ Post => Inv'
  <1> SUFFICES ASSUME Inv, Post PROVE Inv'
    OBVIOUS
  <1> USE ReadAssumption DEF Inv, Post, Nested, Clean
  <1>1. TypeOK'
    BY DEF TypeOK, CanPost, call, ChunkInv
  <1>2. QueueInv' /\ ChunkInv' /\ WaitInv' /\ SlotInv' /\ LeftInv'
    BY DEF TypeOK, CanPost, call, QueueInv, ChunkInv, WaitInv, SlotInv, LeftInv,
           Least, FirstChunk
  <1> QED BY <1>1, <1>2

(* What Return needs to keep the invariant: that the reply is justified. *)
LEMMA ReturnStep ==
  ASSUME Inv, NEW r \in Replies, pc # "idle", Return(r), UNCHANGED <<pResult, queue, call>>,
         ~Nested /\ Clean /\ asked > 0 =>
           /\ r = "OK" => FirstChunk <= good /\ (asked <= Depth => posted = reaped)
           /\ r = "StatusNotOK" => \/ good < posted /\ posted = completed
                                  \/ pResult[0] = TimedOut
  PROVE  Inv'
  <1> USE ReadAssumption DEF Inv, Return, queue, call, Nested, Clean
  <1>1. TypeOK'
    BY DEF TypeOK, Replies
  <1>2. QueueInv' /\ WaitInv' /\ SlotInv'
    BY DEF QueueInv, WaitInv, SlotInv
  <1>3. ChunkInv'
    BY DEF ChunkInv
  <1>4. LeftInv'
    BY DEF TypeOK, LeftInv, ChunkInv, FirstChunk, Least
  <1> QED BY <1>1, <1>2, <1>3, <1>4

LEMMA PostFailsStep == Inv /\ PostFails => Inv'
  BY ReturnStep DEF PostFails, Replies

LEMMA BeginWaitStep == Inv /\ BeginWait => Inv'
  <1> SUFFICES ASSUME Inv, BeginWait PROVE Inv'
    OBVIOUS
  <1> USE ReadAssumption DEF Inv, BeginWait, FreshCount, Nested, Clean
  <1>1. TypeOK'
    BY DEF TypeOK, call, queue
  <1>2. QueueInv' /\ LeftInv'
    BY DEF call, queue, QueueInv, LeftInv
  <1>3. ChunkInv'
    BY DEF call, queue, ChunkInv, FirstChunk, TypeOK
  <1>4. WaitInv'
    BY DEF TypeOK, call, queue, QueueInv, WaitInv
  <1>5. SlotInv'
    BY DEF SlotInv, Slots
  <1> QED BY <1>1, <1>2, <1>3, <1>4, <1>5

(* A turn of the wait.  The cases are its three outcomes. *)
LEMMA PollStep == Inv /\ Poll => Inv'
  <1> SUFFICES ASSUME Inv, Poll PROVE Inv'
    OBVIOUS
  <1> USE ReadAssumption DEF Inv, Nested, Clean
  <1> DEFINE cnt == resultCnt + Popped
  <1>0. /\ posted \in Nat /\ completed \in Nat /\ good \in Nat /\ reaped \in Nat
        /\ entry \in Nat /\ asked \in Nat /\ sendcnt \in Nat /\ Depth \in Nat
        /\ resultCnt \in Nat /\ i \in Nat /\ remain \in Nat
        /\ pResult \in [Slots -> Int] /\ 0 \in Slots
    BY DEF TypeOK, Slots
  <1>1. /\ Popped \in Nat /\ Popped <= sendcnt /\ Popped <= completed - reaped
    BY <1>0, LeastBounds DEF Popped, QueueInv
  <1>2. /\ pc = "poll" /\ reaped' = reaped + Popped /\ resultCnt' = cnt
        /\ UNCHANGED <<kind, frame, remain, sendcnt, i, reply,
                       posted, completed, good, calls, asked, entry, found>>
        /\ pc' \in {"poll", "check"}
    BY DEF Poll, call
  <1>3. \/ HasAll /\ pc' = "check" /\ pResult' = Stored
        \/ GaveUp /\ pc' = "check" /\ pResult' = [pResult EXCEPT ![0] = TimedOut]
        \/ ~HasAll /\ ~GaveUp /\ pc' = "poll" /\ pResult' = Stored
    BY DEF Poll
  <1>4. /\ Stored \in [Slots -> Int]
        /\ \A j \in Slots : Stored[j] = IF resultCnt <= j /\ j < resultCnt + Popped
                                       THEN reaped + (j - resultCnt) + 1 ELSE pResult[j]
    BY <1>0, <1>1 DEF Stored, Slots
  <1>5. TypeOK'
    BY <1>0, <1>1, <1>2, <1>3, <1>4 DEF TypeOK, TimedOut
  <1>6. QueueInv'
    BY <1>0, <1>1, <1>2 DEF QueueInv
  <1>7. ChunkInv'
    BY <1>2 DEF ChunkInv, FirstChunk
  <1>8. WaitInv'
    BY <1>0, <1>1, <1>2, <1>3 DEF WaitInv, HasAll, GaveUp
  <1>9. SlotInv'
    <2> SUFFICES ASSUME NEW j \in Slots, j < resultCnt'
                 PROVE  pResult'[j] = reaped' - resultCnt' + 1 + j
      BY DEF SlotInv
    <2>1. ~GaveUp /\ pResult' = Stored
      BY <1>0, <1>1, <1>2, <1>3 DEF GaveUp, Slots
    <2>2. j \in Nat
      BY DEF Slots
    <2>3. CASE j < resultCnt
      BY <1>0, <1>1, <1>2, <1>4, <2>1, <2>2, <2>3 DEF SlotInv
    <2>4. CASE resultCnt <= j
      BY <1>0, <1>1, <1>2, <1>4, <2>1, <2>2, <2>4
    <2> QED BY <1>0, <2>2, <2>3, <2>4
  <1>10. LeftInv'
    BY <1>2 DEF LeftInv
  <1> QED BY <1>5, <1>6, <1>7, <1>8, <1>9, <1>10

(* What the slots hold when the checks begin: the completions of the chunk, *)
(* in order, or the mark of a wait that gave up.                            *)
LEMMA AtCheck ==
  ASSUME Inv, pc = "check", ~Nested, Clean, asked > 0
  PROVE  /\ sendcnt \in Nat \ {0}
         /\ \/ /\ posted = completed /\ posted = reaped
               /\ \A j \in 0 .. sendcnt - 1 :
                    /\ j \in Slots
                    /\ pResult[j] = posted - sendcnt + 1 + j
                    /\ pResult[j] > 0
            \/ pResult[0] = TimedOut
  <1> USE ReadAssumption DEF Inv
  <1>0. /\ posted \in Nat /\ completed \in Nat /\ reaped \in Nat /\ entry \in Nat
        /\ asked \in Nat /\ sendcnt \in Nat /\ sendcnt <= Depth /\ Depth \in Nat \ {0}
    BY DEF TypeOK
  <1>1. sendcnt \in Nat \ {0} /\ posted = entry + sendcnt
    BY <1>0 DEF ChunkInv, Least
  <1>2. CASE resultCnt = sendcnt
    <2>1. posted = reaped /\ posted = completed
      BY <1>0, <1>2 DEF WaitInv, QueueInv
    <2>2. ASSUME NEW j \in 0 .. sendcnt - 1
          PROVE  j \in Slots /\ pResult[j] = posted - sendcnt + 1 + j /\ pResult[j] > 0
      <3>1. j \in Slots /\ j < resultCnt
        BY <1>0, <1>2 DEF Slots
      <3> QED BY <1>0, <1>1, <1>2, <2>1, <3>1 DEF SlotInv
    <2> QED BY <1>1, <2>1, <2>2
  <1> QED BY <1>1, <1>2 DEF WaitInv

(* What a chunk that passes the checks guarantees. *)
LEMMA PassedChunk ==
  ASSUME Inv, ChunkPasses, Clean
  PROVE  posted = reaped /\ (~Nested /\ asked > 0 => FirstChunk <= good)
  <1> USE ReadAssumption DEF Inv
  <1>0. 0 \in Sampled /\ sendcnt - 1 \in Sampled
    BY DEF Sampled
  <1>1. 0 \in Slots /\ pResult[0] # TimedOut
    BY <1>0 DEF ChunkPasses, MayBeOk, Garbage, Success, TimedOut, Unwritten, Slots
  <1>2. posted = reaped
    BY <1>1 DEF ChunkPasses, WaitInv
  <1>3. ASSUME ~Nested, asked > 0
        PROVE  FirstChunk <= good
    <2>1. /\ sendcnt \in Nat \ {0}
          /\ sendcnt - 1 \in Slots
          /\ pResult[sendcnt - 1] = posted - sendcnt + 1 + (sendcnt - 1)
          /\ pResult[sendcnt - 1] > 0
      BY <1>1, <1>3, AtCheck DEF ChunkPasses
    <2>2. pResult[sendcnt - 1] <= good
      BY <1>0, <2>1 DEF ChunkPasses, MayBeOk, Garbage, Success, Unwritten
    <2>3. posted \in Nat /\ sendcnt \in Nat /\ posted = FirstChunk
      BY <1>3 DEF TypeOK, ChunkInv, ChunkPasses, FirstChunk
    <2> QED BY <2>1, <2>2, <2>3
  <1> QED BY <1>2, <1>3

LEMMA CheckSingleStep == Inv /\ CheckSingle => Inv'
  <1> SUFFICES ASSUME Inv, CheckSingle PROVE Inv'
    OBVIOUS
  <1>0. \A j \in Slots : pResult[j] \in Int
    BY DEF Inv, TypeOK
  <1>1. SingleVerdict \in Replies /\ SingleVerdict # "OK"
    BY <1>0 DEF SingleVerdict, Replies, Success, Context, READ_CTXT, NULL
  <1>2. ASSUME ~Nested, Clean, asked > 0, SingleVerdict = "StatusNotOK"
        PROVE  (good < posted /\ posted = completed) \/ pResult[0] = TimedOut
    <2>1. ~Success(0)
      BY <1>2 DEF SingleVerdict
    <2>2. posted \in Nat /\ good \in Nat /\ sendcnt \in Nat
      BY ReadAssumption DEF Inv, TypeOK
    <2> QED BY <1>2, <2>1, <2>2, AtCheck DEF Success, CheckSingle
  <1> QED BY <1>1, <1>2, ReturnStep DEF CheckSingle

LEMMA CheckStatusFailsStep == Inv /\ CheckStatusFails => Inv'
  <1> SUFFICES ASSUME Inv, CheckStatusFails PROVE Inv'
    OBVIOUS
  <1>1. ASSUME ~Nested, Clean, asked > 0
        PROVE  (good < posted /\ posted = completed) \/ pResult[0] = TimedOut
    <2>1. PICK j \in Sampled : MayBeBad(j)
      BY DEF CheckStatusFails
    <2>2. posted \in Nat /\ good \in Nat
      BY DEF Inv, TypeOK
    <2>3. sendcnt \in Nat \ {0} /\ j \in 0 .. sendcnt - 1
      BY <1>1, AtCheck, SampledSlots DEF CheckStatusFails
    <2> QED BY <1>1, <2>1, <2>2, <2>3, AtCheck
            DEF CheckStatusFails, MayBeBad, Garbage, Success, Unwritten
  <1>2. "StatusNotOK" \in Replies
    BY DEF Replies
  <1> QED BY <1>1, <1>2, ReturnStep DEF CheckStatusFails

LEMMA CheckContextFailsStep == Inv /\ CheckContextFails => Inv'
  BY ReturnStep DEF CheckContextFails, ChunkPasses, Replies

LEMMA LastChunkStep == Inv /\ LastChunk => Inv'
  BY ReturnStep, PassedChunk DEF LastChunk, ChunkPasses, Replies

LEMMA NextChunkStep == Inv /\ NextChunk => Inv'
  <1> SUFFICES ASSUME Inv, NextChunk PROVE Inv'
    OBVIOUS
  <1> USE ReadAssumption DEF Inv, Nested, Clean
  <1>0. /\ remain \in Nat /\ asked \in Nat /\ entry \in Nat /\ Depth \in Nat \ {0}
        /\ sendcnt \in Nat /\ i \in Nat /\ good \in Nat /\ reaped \in Nat
        /\ posted \in Nat
    BY DEF TypeOK
  <1>1. /\ pc = "check" /\ kind = "batch" /\ remain > 0
        /\ frame' = "inner" /\ pc' = "post" /\ i' = 0 /\ sendcnt' = Least(remain, Depth)
        /\ UNCHANGED <<kind, remain, resultCnt, pResult, reply, posted, completed, good,
                       reaped, calls, asked, entry, found>>
    BY DEF NextChunk, ChunkPasses, Chunk, queue, call
  <1>2. sendcnt' \in Nat /\ sendcnt' <= remain /\ sendcnt' <= Depth
    BY <1>0, <1>1, LeastBounds
  <1>3. Clean => posted = reaped /\ (frame # "inner" /\ asked > 0 => FirstChunk <= good)
    BY PassedChunk DEF NextChunk
  <1>4. TypeOK'
    BY <1>0, <1>1, <1>2 DEF TypeOK
  <1>5. QueueInv' /\ SlotInv' /\ LeftInv'
    BY <1>1 DEF QueueInv, SlotInv, LeftInv
  <1>6. WaitInv'
    BY <1>0, <1>1, <1>3 DEF WaitInv
  <1>7. asked > Depth
    BY <1>0, <1>1 DEF ChunkInv, Least
  <1>8. FirstChunk' = FirstChunk
    BY <1>1 DEF FirstChunk
  <1>9. ChunkInv'
    BY <1>0, <1>1, <1>2, <1>3, <1>7, <1>8 DEF ChunkInv
  <1> QED BY <1>4, <1>5, <1>6, <1>9

-----------------------------------------------------------------------------
(* Inv holds in every reachable state, for every depth of the queues.       *)
THEOREM Invariance == Spec => []Inv
  <1>1. Inv /\ [Next]_vars => Inv'
    <2> SUFFICES ASSUME Inv, [Next]_vars PROVE Inv'
      OBVIOUS
    <2>1. CASE UNCHANGED vars
      BY <2>1 DEF vars, client, queue, call, Inv, TypeOK, QueueInv, ChunkInv, WaitInv,
                  SlotInv, LeftInv, FirstChunk, Nested, Clean
    <2>2. CASE Next
      BY <2>2, CallStep, PostStep, PostFailsStep, BeginWaitStep, PollStep,
         CheckSingleStep, CheckStatusFailsStep, CheckContextFailsStep, LastChunkStep,
         NextChunkStep, ProviderStep DEF Next, Thread
    <2> QED BY <2>1, <2>2
  <1> QED BY InitInv, <1>1, PTL DEF Spec

(* The types of the state. *)
THEOREM Typing == Spec => []TypeOK
  BY Invariance, PTL DEF Inv

(* GetResults never writes outside pResult, with or without leftovers of    *)
(* earlier calls (RDMAClient.cpp, 455).                                     *)
THEOREM WritesInBounds == Spec => []NoOverrun
  <1>1. Inv => NoOverrun
    BY DEF Inv, WaitInv, NoOverrun, Waiting
  <1> QED BY Invariance, <1>1, PTL

(* A batch Read that returns "OK" and found nothing outstanding has its     *)
(* first chunk in the buffer, although only three slots were looked at.     *)
THEOREM SamplingSuffices == Spec => []OkMeansLanded
  <1>1. Inv => OkMeansLanded
    BY DEF Inv, LeftInv, OkMeansLanded
  <1> QED BY Invariance, <1>1, PTL

(* The status check of a call that found nothing outstanding only fails it  *)
(* for a request that failed, or for a wait that gave up.                   *)
THEOREM FailuresAreReal == Spec => []FailureIsReal
  <1>1. Inv => FailureIsReal
    BY DEF Inv, LeftInv, FailureIsReal
  <1> QED BY Invariance, <1>1, PTL

(* A wait pops more than it asked for only in a call that found leftovers.  *)
THEOREM OvershootNeedsLeftovers == Spec => []OvershootOnlyWithLeftovers
  <1>1. Inv => OvershootOnlyWithLeftovers
    BY DEF Inv, TypeOK, QueueInv, WaitInv, OvershootOnlyWithLeftovers, Waiting
  <1> QED BY Invariance, <1>1, PTL

(* A batch of one chunk that returns "OK" leaves no request in flight. *)
THEOREM OkIsQuiet == Spec => []OkLeavesNothingInFlight
  <1>1. Inv => OkLeavesNothingInFlight
    BY ReadAssumption DEF Inv, TypeOK, LeftInv, OkLeavesNothingInFlight
  <1> QED BY Invariance, <1>1, PTL
=============================================================================
