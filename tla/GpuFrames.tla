------------------------------ MODULE GpuFrames ------------------------------
(***************************************************************************)
(* The frame handshake over the GPU command ring: the guest shim           *)
(* (guest_shim/alr_shim_runtime.c, alr_egl_shim.c) on one side, the host   *)
(* executor (alr_gpu_host_service.hpp, run_consume_loop) on the other.     *)
(*                                                                         *)
(* Module GpuRing shows that append and snapshot move bytes faithfully,    *)
(* so here the ring is its two cursors: a position in the stream stands    *)
(* for the bytes before it.  Guest threads emit ops of several sizes and   *)
(* swap; eglSwapBuffers takes no lock, alr_shim_emit holds g_lock across   *)
(* its back-pressure wait.                                                 *)
(***************************************************************************)
EXTENDS Naturals, Sequences, FiniteSets

CONSTANTS
  Threads,       \* guest threads that issue GL calls
  NoThread,      \* g_lock is free
  RingBytes,     \* h->ring_bytes
  OpSizes,       \* sizes of the ops the guest emits (that its scratch can encode)
  MaxBytes,      \* bound on the stream
  MaxFlushes     \* bound on req_seq

ASSUME FramesAssumption ==
  /\ NoThread \notin Threads
  /\ RingBytes \in Nat \ {0}
  /\ OpSizes \subseteq Nat \ {0}
  /\ MaxBytes \in Nat /\ MaxFlushes \in Nat

VARIABLES
  head, tail, req_seq, reply_seq, closed,   \* the ring header
  tpc,          \* guest thread: idle, emitwait, retry, swapwait
  size,         \* size of the op a thread is emitting, else 0
  want,         \* the reply a thread waits for, else 0
  lock,         \* holder of g_lock
  ends,         \* history: stream positions, decoded and later, where an op ends
  flushed,      \* history: stream position at each bump of req_seq
  xpc,          \* executor: poll, take, req, decode, reply, final, exited
  drain,        \* which of the two drain loops it is in
  scratch,      \* scratch.size()
  req, replied_seq, stop_,
  decoded       \* everything before this position is decoded and presented

header == <<head, tail, req_seq, reply_seq, closed>>
guest == <<tpc, size, want, lock, ends, flushed>>
executor == <<xpc, drain, scratch, req, replied_seq, decoded>>
vars == <<header, guest, executor, stop_>>

TypeOK ==
  /\ head \in 0..MaxBytes /\ tail \in 0..head /\ decoded \in 0..tail
  /\ req_seq \in 0..MaxFlushes /\ reply_seq \in 0..req_seq
  /\ closed \in BOOLEAN /\ stop_ \in BOOLEAN
  /\ tpc \in [Threads -> {"idle", "emitwait", "retry", "swapwait"}]
  /\ size \in [Threads -> OpSizes \cup {0}]
  /\ want \in [Threads -> 0..MaxFlushes]
  /\ lock \in Threads \cup {NoThread}
  /\ ends \subseteq 0..MaxBytes
  /\ flushed \in Seq(0..MaxBytes) /\ Len(flushed) = req_seq
  /\ xpc \in {"poll", "take", "req", "decode", "reply", "final", "exited"}
  /\ drain \in {"first", "second"}
  /\ scratch \in 0..MaxBytes
  /\ req \in 0..req_seq /\ replied_seq \in 0..req

Init ==
  /\ head = 0 /\ tail = 0 /\ req_seq = 0 /\ reply_seq = 0 /\ closed = FALSE
  /\ tpc = [t \in Threads |-> "idle"]
  /\ size = [t \in Threads |-> 0] /\ want = [t \in Threads |-> 0]
  /\ lock = NoThread
  /\ ends = {0} /\ flushed = <<>>
  /\ xpc = "poll" /\ drain = "first" /\ scratch = 0
  /\ req = 0 /\ replied_seq = 0 /\ decoded = 0 /\ stop_ = FALSE

-----------------------------------------------------------------------------
(***************************************************************************)
(* Guest                                                                   *)
(***************************************************************************)
Fits(sz) == sz <= (RingBytes - 1) - (head - tail)

\* req_seq.fetch_add(1) + 1
Flush(t) ==
  /\ req_seq < MaxFlushes
  /\ req_seq' = req_seq + 1
  /\ want' = [want EXCEPT ![t] = req_seq + 1]
  /\ flushed' = Append(flushed, head)

\* append succeeds and the lock is released.
Appended(sz) ==
  /\ head' = head + sz
  /\ ends' = ends \cup {head + sz}
  /\ lock' = NoThread

\* alr_shim_emit up to its wait: lock, encode, append; a full ring is flushed and
\* waited for with g_lock held.
Emit(t, sz) ==
  /\ tpc[t] = "idle" /\ lock = NoThread
  /\ head + sz <= MaxBytes
  /\ \/ /\ Fits(sz)
        /\ Appended(sz)
        /\ UNCHANGED <<req_seq, tpc, size, want, flushed>>
     \/ /\ ~ Fits(sz)
        /\ Flush(t)
        /\ lock' = t
        /\ size' = [size EXCEPT ![t] = sz]
        /\ tpc' = [tpc EXCEPT ![t] = "emitwait"]
        /\ UNCHANGED <<head, ends>>
  /\ UNCHANGED <<tail, reply_seq, closed, executor, stop_>>

\* The second attempt; an op that still does not fit is dropped (GL_OUT_OF_MEMORY).
Retry(t) ==
  /\ tpc[t] = "retry"
  /\ \/ /\ Fits(size[t])
        /\ Appended(size[t])
     \/ /\ ~ Fits(size[t])
        /\ lock' = NoThread
        /\ UNCHANGED <<head, ends>>
  /\ size' = [size EXCEPT ![t] = 0]
  /\ tpc' = [tpc EXCEPT ![t] = "idle"]
  /\ UNCHANGED <<tail, req_seq, reply_seq, closed, want, flushed, executor, stop_>>

\* eglSwapBuffers and glFinish.
Swap(t) ==
  /\ tpc[t] = "idle"
  /\ Flush(t)
  /\ tpc' = [tpc EXCEPT ![t] = "swapwait"]
  /\ UNCHANGED <<head, tail, reply_seq, closed, size, lock, ends,
                 executor, stop_>>

AfterWait(t) == IF tpc[t] = "emitwait" THEN "retry" ELSE "idle"

\* flush_and_wait sees the reply, or the ring closed.
Released(t) ==
  /\ tpc[t] \in {"emitwait", "swapwait"}
  /\ reply_seq >= want[t] \/ closed
  /\ tpc' = [tpc EXCEPT ![t] = AfterWait(t)]
  /\ want' = [want EXCEPT ![t] = 0]
  /\ UNCHANGED <<header, size, lock, ends, flushed, executor, stop_>>

\* The spin budget of flush_and_wait runs out first.
SpinExpires(t) ==
  /\ tpc[t] \in {"emitwait", "swapwait"}
  /\ reply_seq < want[t] /\ ~ closed
  /\ tpc' = [tpc EXCEPT ![t] = AfterWait(t)]
  /\ want' = [want EXCEPT ![t] = 0]
  /\ UNCHANGED <<header, size, lock, ends, flushed, executor, stop_>>

-----------------------------------------------------------------------------
(***************************************************************************)
(* Executor thread: run_consume_loop                                       *)
(***************************************************************************)

\* available(): a drain loop ends on an empty ring.
Poll ==
  /\ xpc = "poll"
  /\ IF head > tail
     THEN /\ scratch' = IF scratch < head - tail THEN head - tail ELSE scratch
          /\ xpc' = "take"
     ELSE /\ xpc' = IF drain = "first" THEN "req" ELSE "decode"
          /\ UNCHANGED scratch
  /\ UNCHANGED <<header, guest, drain, req, replied_seq, decoded, stop_>>

\* Mutant: a drain takes one snapshot only.
TakeOnce ==
  /\ xpc = "take"
  /\ tail' = tail + (IF head - tail < scratch THEN head - tail ELSE scratch)
  /\ xpc' = IF drain = "first" THEN "req" ELSE "decode"
  /\ UNCHANGED <<head, req_seq, reply_seq, closed, guest, drain, scratch, req, replied_seq,
                 decoded, stop_>>

\* snapshot and advance: at most scratch.size() bytes, which may end inside an op.
Take ==
  /\ xpc = "take"
  /\ tail' = tail + (IF head - tail < scratch THEN head - tail ELSE scratch)
  /\ xpc' = "poll"
  /\ UNCHANGED <<head, req_seq, reply_seq, closed, guest, drain, scratch, req, replied_seq,
                 decoded, stop_>>

\* Mutant: no second drain once a request is seen.
LoadReqNoRedrain ==
  /\ xpc = "req"
  /\ req' = req_seq
  /\ xpc' = IF req_seq # replied_seq THEN "decode" ELSE IF stop_ THEN "final" ELSE "poll"
  /\ UNCHANGED <<header, guest, drain, scratch, replied_seq, decoded, stop_>>

\* The request is loaded after the first drain; a new one is drained for again.
LoadReq ==
  /\ xpc = "req"
  /\ req' = req_seq
  /\ \/ /\ req_seq # replied_seq
        /\ drain' = "second" /\ xpc' = "poll"
     \/ /\ req_seq = replied_seq
        /\ xpc' = IF stop_ THEN "final" ELSE "poll"   \* idle_wait
        /\ UNCHANGED drain
  /\ UNCHANGED <<header, guest, scratch, replied_seq, decoded, stop_>>

\* decode_batch of the accumulated bytes, glFinish, present.
Decode ==
  /\ xpc = "decode"
  /\ decoded' = tail
  /\ ends' = {e \in ends : e >= tail}
  /\ xpc' = "reply"
  /\ UNCHANGED <<header, tpc, size, want, lock, flushed, drain, scratch, req, replied_seq, stop_>>

\* Mutant: replied_seq follows what was posted, not what was decoded.
ReplyAll ==
  /\ xpc = "reply"
  /\ replied_seq' = req_seq /\ req' = req_seq
  /\ reply_seq' = req_seq
  /\ drain' = "first" /\ xpc' = "poll"
  /\ UNCHANGED <<head, tail, req_seq, closed, guest, scratch, decoded, stop_>>

\* post_reply loads req_seq again.
Reply ==
  /\ xpc = "reply"
  /\ replied_seq' = req
  /\ reply_seq' = req_seq
  /\ drain' = "first" /\ xpc' = "poll"
  /\ UNCHANGED <<head, tail, req_seq, closed, guest, scratch, req, decoded, stop_>>

\* A request or bytes that came while stop() was called are still served.
FinalCheck ==
  /\ xpc = "final"
  /\ xpc' = IF req_seq = replied_seq /\ head = tail THEN "exited" ELSE "poll"
  /\ UNCHANGED <<header, guest, drain, scratch, req, replied_seq, decoded, stop_>>

\* Mutant: stop() does not mark the ring closed.
StopNotClosing ==
  /\ ~ stop_
  /\ stop_' = TRUE
  /\ UNCHANGED <<header, guest, executor>>

\* GpuExecutorService::stop() up to its join.
Stop ==
  /\ ~ stop_
  /\ stop_' = TRUE /\ closed' = TRUE
  /\ UNCHANGED <<head, tail, req_seq, reply_seq, guest, executor>>

-----------------------------------------------------------------------------
GuestStep ==
  \E t \in Threads :
    \/ \E sz \in OpSizes : Emit(t, sz)
    \/ Retry(t)
    \/ Swap(t)
    \/ Released(t)
    \/ SpinExpires(t)

ExecutorStep == Poll \/ Take \/ LoadReq \/ Decode \/ Reply \/ FinalCheck

Next == GuestStep \/ ExecutorStep \/ Stop

\* The executor thread runs, and a guest thread inside an emit or a wait goes on.
\* The spin budget need never run out.
Fairness ==
  /\ WF_vars(ExecutorStep)
  /\ \A t \in Threads : WF_vars(Retry(t) \/ Released(t))

Spec == Init /\ [][Next]_vars /\ Fairness

-----------------------------------------------------------------------------
(***************************************************************************)
(* Properties                                                              *)
(***************************************************************************)

\* decode_batch is only ever handed whole ops, although a snapshot may cut one.
DecodesWholeOps == decoded \in ends

\* A frame the executor has answered holds every byte the guest had published
\* when it flushed that frame (the second drain of run_consume_loop).
AnsweredFramesComplete ==
  \A k \in 1..(IF xpc = "reply" THEN req ELSE replied_seq) : flushed[k] <= decoded

\* A thread between the two attempts of an emit holds g_lock, and nobody has
\* appended in between.
EmitterHoldsLock ==
  \A t \in Threads :
    tpc[t] \in {"emitwait", "retry"} => lock = t /\ head + size[t] <= MaxBytes

\* Inductive: flushes lie behind head, and a drain that ends has reached an op's
\* end and everything flushed by the request it serves.
FramesInv ==
  /\ TypeOK
  /\ EmitterHoldsLock
  /\ head \in ends
  /\ \A k \in 1..req_seq : flushed[k] <= head
  /\ xpc = "decode" => tail \in ends /\ \A k \in 1..req : flushed[k] <= tail
  /\ DecodesWholeOps
  /\ AnsweredFramesComplete

\* What was flushed is eventually decoded and presented, unless the service stops.
FlushedIsPresented ==
  \A k \in 1..MaxFlushes :
    req_seq >= k ~> ((k <= req_seq /\ flushed[k] <= decoded) \/ xpc = "exited")

\* No guest thread waits for ever, spin budget or not: it is answered, or let go
\* when the service stops; and stop() joins the executor thread once the guest
\* falls silent.
WaiterIsReleased ==
  \A t \in Threads : tpc[t] \in {"emitwait", "swapwait"} ~> tpc[t] \notin {"emitwait", "swapwait"}

StopEnds == stop_ ~> xpc = "exited"

WaitsEnd == WaiterIsReleased /\ StopEnds
==============================================================================
