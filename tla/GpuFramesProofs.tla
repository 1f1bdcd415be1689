--------------------------- MODULE GpuFramesProofs ---------------------------
(***************************************************************************)
(* Proofs about GpuFrames, for every number of guest threads, ring size,   *)
(* op size and number of frames.                                           *)
(***************************************************************************)
EXTENDS GpuFrames, TLAPS

LEMMA FramesInit == Init => FramesInv
<1> SUFFICES ASSUME Init PROVE FramesInv
  OBVIOUS
<1>1. flushed \in Seq(0..MaxBytes) /\ Len(flushed) = 0 /\ ends \subseteq 0..MaxBytes
  BY FramesAssumption DEF Init
<1>2. TypeOK
  <2>1. closed \in BOOLEAN /\ stop_ \in BOOLEAN
    BY DEF Init
  <2>2. /\ tpc \in [Threads -> {"idle", "emitwait", "retry", "swapwait"}]
        /\ size \in [Threads -> OpSizes \cup {0}]
        /\ want \in [Threads -> 0..MaxFlushes]
    BY FramesAssumption DEF Init
  <2>3. /\ head \in 0..MaxBytes /\ tail \in 0..head /\ decoded \in 0..tail
        /\ req_seq \in 0..MaxFlushes /\ reply_seq \in 0..req_seq
        /\ scratch \in 0..MaxBytes /\ req \in 0..req_seq /\ replied_seq \in 0..req
        /\ Len(flushed) = req_seq
    BY <1>1, FramesAssumption DEF Init
  <2>4. lock \in Threads \cup {NoThread} /\ xpc = "poll" /\ drain = "first"
    BY DEF Init
  <2> QED
    BY <1>1, <2>1, <2>2, <2>3, <2>4 DEF TypeOK
<1> QED
  BY <1>1, <1>2, FramesAssumption
  DEF Init, FramesInv, EmitterHoldsLock, DecodesWholeOps, AnsweredFramesComplete

LEMMA SizeIsNat == ASSUME NEW sz \in OpSizes \cup {0} PROVE sz \in Nat
<1>1. CASE sz = 0
  BY <1>1
<1>2. CASE sz \in OpSizes
  BY <1>2, FramesAssumption
<1> QED
  BY <1>1, <1>2

\* A flush records a position that is not past head.
LEMMA FlushFacts ==
  ASSUME FramesInv, NEW t \in Threads, Flush(t)
  PROVE  /\ req_seq' = req_seq + 1 /\ req_seq' \in 0..MaxFlushes
         /\ want' \in [Threads -> 0..MaxFlushes]
         /\ flushed' \in Seq(0..MaxBytes) /\ Len(flushed') = req_seq'
         /\ \A k \in 1..req_seq : flushed'[k] = flushed[k]
         /\ flushed'[req_seq'] = head
<1>1. /\ flushed \in Seq(0..MaxBytes) /\ Len(flushed) = req_seq /\ head \in 0..MaxBytes
      /\ req_seq \in 0..MaxFlushes /\ want \in [Threads -> 0..MaxFlushes]
  BY DEF FramesInv, TypeOK
<1>2. /\ req_seq < MaxFlushes /\ req_seq' = req_seq + 1
      /\ want' = [want EXCEPT ![t] = req_seq + 1] /\ flushed' = Append(flushed, head)
  BY DEF Flush
<1>3. req_seq' \in 0..MaxFlushes
  BY <1>1, <1>2, FramesAssumption
<1>4. want' \in [Threads -> 0..MaxFlushes]
  BY <1>1, <1>2, <1>3
<1>5. flushed' \in Seq(0..MaxBytes) /\ Len(flushed') = req_seq'
  BY <1>1, <1>2
<1>6. flushed'[req_seq'] = head /\ \A k \in 1..req_seq : flushed'[k] = flushed[k]
  BY <1>1, <1>2, FramesAssumption
<1> QED
  BY <1>2, <1>3, <1>4, <1>5, <1>6

\* The guest never touches what the executor owns, so its steps keep FramesInv
\* as soon as they keep the types and record flushes and ends of ops as they do.
LEMMA GuestKeeps ==
  ASSUME FramesInv, UNCHANGED <<tail, executor>>, TypeOK', EmitterHoldsLock',
         req_seq <= req_seq', head <= head', head' \in ends', ends \subseteq ends',
         \A k \in 1..req_seq : flushed'[k] = flushed[k],
         \A k \in 1..req_seq' : flushed'[k] <= head'
  PROVE  FramesInv'
<1>1. req \in 0..req_seq /\ replied_seq \in 0..req /\ req_seq \in Nat
  BY FramesAssumption DEF FramesInv, TypeOK
<1>2. DecodesWholeOps'
  BY DEF FramesInv, DecodesWholeOps, executor
<1>3. AnsweredFramesComplete'
  BY <1>1 DEF FramesInv, AnsweredFramesComplete, executor
<1>4. xpc' = "decode" => tail' \in ends' /\ \A k \in 1..req' : flushed'[k] <= tail'
  BY <1>1 DEF FramesInv, executor
<1> QED
  BY <1>2, <1>3, <1>4 DEF FramesInv

LEMMA FramesNext == FramesInv /\ [Next]_vars => FramesInv'
<1> SUFFICES ASSUME FramesInv, [Next]_vars PROVE FramesInv'
  OBVIOUS
<1> USE FramesAssumption
<1>0. /\ head \in Nat /\ tail \in Nat /\ req_seq \in Nat /\ head \in 0..MaxBytes
      /\ \A k \in 1..req_seq : flushed[k] \in Nat /\ flushed[k] <= head
  BY DEF FramesInv, TypeOK
<1>1. ASSUME NEW t \in Threads, NEW sz \in OpSizes, Emit(t, sz) PROVE FramesInv'
  <2>1. CASE Fits(sz) /\ Appended(sz) /\ UNCHANGED <<req_seq, tpc, size, want, flushed>>
    <3>1. sz \in Nat /\ head' = head + sz /\ head' \in 0..MaxBytes /\ ends' = ends \cup {head'}
      BY <1>0, <1>1, <2>1 DEF Emit, Appended
    <3>2. TypeOK'
      BY <1>0, <1>1, <2>1, <3>1 DEF Emit, Appended, FramesInv, TypeOK, executor
    <3>3. EmitterHoldsLock'
      BY <1>1, <2>1 DEF Emit, Appended, FramesInv, EmitterHoldsLock
    <3> QED
      BY <1>0, <1>1, <2>1, <3>1, <3>2, <3>3, GuestKeeps DEF Emit
  <2>2. CASE /\ Flush(t) /\ lock' = t /\ size' = [size EXCEPT ![t] = sz]
             /\ tpc' = [tpc EXCEPT ![t] = "emitwait"] /\ UNCHANGED <<head, ends>>
    <3>1. TypeOK'
      BY <1>0, <1>1, <2>2, FlushFacts DEF Emit, FramesInv, TypeOK, executor
    <3>2. \A k \in 1..req_seq' : flushed'[k] <= head'
      BY <1>0, <2>2, FlushFacts
    <3>3. EmitterHoldsLock'
      BY <1>1, <2>2 DEF Emit, FramesInv, TypeOK, EmitterHoldsLock
    <3> QED
      BY <1>0, <1>1, <2>2, <3>1, <3>2, <3>3, FlushFacts, GuestKeeps DEF Emit, FramesInv
  <2> QED
    BY <1>1, <2>1, <2>2 DEF Emit
<1>2. ASSUME NEW t \in Threads, Retry(t) PROVE FramesInv'
  <2>1. size' \in [Threads -> OpSizes \cup {0}] /\ tpc' \in
           [Threads -> {"idle", "emitwait", "retry", "swapwait"}]
    BY <1>2 DEF Retry, FramesInv, TypeOK
  <2>2. lock = t /\ head + size[t] <= MaxBytes /\ size[t] \in Nat
    <3>1. size[t] \in OpSizes \cup {0}
      BY DEF FramesInv, TypeOK
    <3>2. size[t] \in Nat
      BY <3>1, SizeIsNat
    <3> QED
      BY <1>2, <3>2 DEF Retry, FramesInv, EmitterHoldsLock
  <2>3. EmitterHoldsLock'
    BY <1>2, <2>2 DEF Retry, FramesInv, TypeOK, EmitterHoldsLock
  <2>4. CASE Appended(size[t])
    <3>1. head' \in 0..MaxBytes /\ head <= head' /\ ends' = ends \cup {head'}
      BY <1>0, <2>2, <2>4 DEF Appended
    <3>2. TypeOK'
      <4>1. ends' \subseteq 0..MaxBytes
        BY <3>1 DEF FramesInv, TypeOK
      <4>2. tail' \in 0..head' /\ lock' = NoThread
        BY <1>0, <1>2, <2>4, <3>1 DEF Retry, Appended, FramesInv, TypeOK
      <4> QED
        BY <1>2, <2>1, <3>1, <4>1, <4>2 DEF Retry, FramesInv, TypeOK, executor
    <3> QED
      BY <1>0, <1>2, <2>3, <2>4, <3>1, <3>2, GuestKeeps DEF Retry
  <2>5. CASE lock' = NoThread /\ UNCHANGED <<head, ends>>
    <3>1. TypeOK'
      BY <1>0, <1>2, <2>1, <2>5 DEF Retry, FramesInv, TypeOK, executor
    <3> QED
      BY <1>0, <1>2, <2>3, <2>5, <3>1, GuestKeeps DEF Retry, FramesInv
  <2> QED
    BY <1>2, <2>4, <2>5 DEF Retry
<1>3. ASSUME NEW t \in Threads, Swap(t) PROVE FramesInv'
  <2>1. TypeOK'
    BY <1>0, <1>3, FlushFacts DEF Swap, FramesInv, TypeOK, executor
  <2>2. \A k \in 1..req_seq' : flushed'[k] <= head'
    BY <1>0, <1>3, FlushFacts DEF Swap
  <2>3. EmitterHoldsLock'
    BY <1>3 DEF Swap, FramesInv, TypeOK, EmitterHoldsLock
  <2> QED
    BY <1>0, <1>3, <2>1, <2>2, <2>3, FlushFacts, GuestKeeps DEF Swap, FramesInv
<1>4. ASSUME NEW t \in Threads, Released(t) \/ SpinExpires(t) PROVE FramesInv'
  <2>1. AfterWait(t) \in {"retry", "idle"}
    BY DEF AfterWait
  <2>2. TypeOK'
    <3>1. tpc' \in [Threads -> {"idle", "emitwait", "retry", "swapwait"}]
      BY <1>4, <2>1 DEF Released, SpinExpires, FramesInv, TypeOK
    <3>2. want' \in [Threads -> 0..MaxFlushes]
      BY <1>4 DEF Released, SpinExpires, FramesInv, TypeOK
    <3>3. UNCHANGED <<header, size, lock, ends, flushed, executor, stop_>>
      BY <1>4 DEF Released, SpinExpires
    <3> QED
      BY <3>1, <3>2, <3>3 DEF FramesInv, TypeOK, header, executor
  <2>3. EmitterHoldsLock'
    BY <1>4 DEF Released, SpinExpires, AfterWait, FramesInv, TypeOK, EmitterHoldsLock, header
  <2> QED
    BY <1>0, <1>4, <2>2, <2>3, GuestKeeps DEF Released, SpinExpires, FramesInv, header
<1>5. CASE Poll
  <2>1. TypeOK'
    BY <1>5 DEF Poll, FramesInv, TypeOK, header, guest
  <2>2. EmitterHoldsLock'
    BY <1>5 DEF Poll, FramesInv, EmitterHoldsLock, header, guest
  <2> QED
    BY <1>0, <1>5, <2>1, <2>2
    DEF Poll, FramesInv, TypeOK, DecodesWholeOps, AnsweredFramesComplete, header, guest
<1>6. CASE Take
  <2>1. TypeOK'
    BY <1>6 DEF Take, FramesInv, TypeOK, guest
  <2>2. EmitterHoldsLock'
    BY <1>6 DEF Take, FramesInv, EmitterHoldsLock, guest
  <2> QED
    BY <1>0, <1>6, <2>1, <2>2
    DEF Take, FramesInv, DecodesWholeOps, AnsweredFramesComplete, guest
<1>7. CASE LoadReq
  <2>1. TypeOK'
    BY <1>7 DEF LoadReq, FramesInv, TypeOK, header, guest
  <2>2. EmitterHoldsLock'
    BY <1>7 DEF LoadReq, FramesInv, EmitterHoldsLock, header, guest
  <2> QED
    BY <1>0, <1>7, <2>1, <2>2
    DEF LoadReq, FramesInv, DecodesWholeOps, AnsweredFramesComplete, header, guest
<1>8. CASE Decode
  <2>1. TypeOK'
    <3>1. ends' \subseteq 0..MaxBytes
      BY <1>8 DEF Decode, FramesInv, TypeOK
    <3>2. decoded' \in 0..tail' /\ xpc' = "reply"
      BY <1>0, <1>8 DEF Decode, header
    <3>3. UNCHANGED <<header, tpc, size, want, lock, flushed, drain, scratch, req, replied_seq, stop_>>
      BY <1>8 DEF Decode
    <3> QED
      BY <3>1, <3>3, <3>2 DEF FramesInv, TypeOK, header
  <2>2. EmitterHoldsLock'
    BY <1>8 DEF Decode, FramesInv, EmitterHoldsLock, header
  <2> QED
    BY <1>0, <1>8, <2>1, <2>2
    DEF Decode, FramesInv, TypeOK, DecodesWholeOps, AnsweredFramesComplete, header
<1>9. CASE Reply
  <2>1. TypeOK'
    BY <1>9 DEF Reply, FramesInv, TypeOK, guest
  <2>2. EmitterHoldsLock'
    BY <1>9 DEF Reply, FramesInv, EmitterHoldsLock, guest
  <2> QED
    BY <1>0, <1>9, <2>1, <2>2
    DEF Reply, FramesInv, DecodesWholeOps, AnsweredFramesComplete, guest
<1>10. CASE FinalCheck
  <2>1. TypeOK'
    BY <1>10 DEF FinalCheck, FramesInv, TypeOK, header, guest
  <2>2. EmitterHoldsLock'
    BY <1>10 DEF FinalCheck, FramesInv, EmitterHoldsLock, header, guest
  <2> QED
    BY <1>0, <1>10, <2>1, <2>2
    DEF FinalCheck, FramesInv, DecodesWholeOps, AnsweredFramesComplete, header, guest
<1>11. CASE Stop
  <2>1. TypeOK'
    BY <1>11 DEF Stop, FramesInv, TypeOK, guest, executor
  <2>2. EmitterHoldsLock'
    BY <1>11 DEF Stop, FramesInv, EmitterHoldsLock, guest
  <2> QED
    BY <1>0, <1>11, <2>1, <2>2, GuestKeeps DEF Stop, FramesInv, guest
<1>12. CASE UNCHANGED vars
  <2>1. TypeOK'
    BY <1>12 DEF vars, FramesInv, TypeOK, header, guest, executor
  <2>2. EmitterHoldsLock'
    BY <1>12 DEF vars, FramesInv, EmitterHoldsLock, header, guest
  <2> QED
    BY <1>0, <1>12, <2>1, <2>2, GuestKeeps DEF vars, FramesInv, header, guest
<1> QED
  BY <1>1, <1>2, <1>3, <1>4, <1>5, <1>6, <1>7, <1>8, <1>9, <1>10, <1>11, <1>12
  DEF Next, GuestStep, ExecutorStep

\* However snapshots cut the stream and however many threads emit and swap,
\* decode_batch sees whole ops only (run_consume_loop).
THEOREM WholeOpsDecoded == Spec => [](TypeOK /\ DecodesWholeOps)
<1>1. FramesInv => TypeOK /\ DecodesWholeOps
  BY DEF FramesInv
<1> QED
  BY <1>1, FramesInit, FramesNext, PTL DEF Spec

\* Every request the executor has answered for is a frame with all the bytes
\* published before the flush (the second drain of run_consume_loop).
THEOREM AnsweredComplete == Spec => []AnsweredFramesComplete
<1>1. FramesInv => AnsweredFramesComplete
  BY DEF FramesInv
<1> QED
  BY <1>1, FramesInit, FramesNext, PTL DEF Spec
==============================================================================
