----------------------------- MODULE VkRoundtrip -----------------------------
(***************************************************************************)
(* The Vulkan ICD's request/reply protocol: alr_icd_roundtrip in           *)
(* guest_icd/alr_icd_runtime.h and VkRingServicer in                       *)
(* alr_gpu_vk_host_service.hpp, over two rings (module GpuRing) and the    *)
(* sequence numbers of the request ring.                                   *)
(*                                                                         *)
(* Requests are numbered in the order they are appended; the request ring  *)
(* holds requests taken+1 .. sent and the servicer's batch the requests    *)
(* serviced+1 .. taken.  g_icd_lock is held for a whole round trip, so one *)
(* call is under way at a time, whichever thread makes it.                 *)
(***************************************************************************)
EXTENDS Naturals, Sequences

CONSTANTS
  ReqCap,      \* requests the request ring holds
  RepCap,      \* replies the reply ring holds
  Oversized,   \* may a request be larger than the whole ring?
  MaxCalls     \* bound on round trips

ASSUME VkAssumption ==
  /\ ReqCap \in Nat \ {0} /\ RepCap \in Nat \ {0}
  /\ Oversized \in BOOLEAN
  /\ MaxCalls \in Nat

\* ALR_VK_REPLY_END, the whole reply to an empty batch.
End == 0

VARIABLES
  pc,          \* guest: idle, flushwait, retry, bump, wait, drain
  big,         \* the request under way is larger than the ring
  calls,       \* round trips begun
  sent,        \* requests appended
  want,        \* reply_seq waited for
  got,         \* reply_out of the latest round trip
  abandoned,   \* history: a round trip has returned without draining its reply
  req_seq, reply_seq, closed,   \* header of the request ring
  rep,         \* contents of the reply ring
  hpc,         \* servicer: drain, req, redrain, push, ack, final, exited
  taken,       \* requests drained from the request ring
  serviced,    \* requests replayed on the driver
  outbox,      \* the encoded reply to the batch
  req, replied_seq, stop_

call == <<pc, big, calls, sent, want, got, abandoned>>
seqs == <<req_seq, reply_seq, closed>>
servicer == <<hpc, taken, serviced, outbox, req, replied_seq>>
vars == <<call, seqs, rep, servicer, stop_>>

TypeOK ==
  /\ pc \in {"idle", "flushwait", "retry", "bump", "wait", "drain"}
  /\ big \in BOOLEAN /\ abandoned \in BOOLEAN /\ closed \in BOOLEAN /\ stop_ \in BOOLEAN
  /\ calls \in 0..MaxCalls
  /\ sent \in 0..calls /\ taken \in 0..sent /\ serviced \in 0..taken
  /\ req_seq \in Nat /\ want \in 0..req_seq /\ reply_seq \in 0..req_seq
  /\ got \in Seq(0..sent) /\ rep \in Seq(0..sent) /\ outbox \in Seq(0..sent)
  /\ Len(rep) <= RepCap
  /\ hpc \in {"drain", "req", "redrain", "push", "ack", "final", "exited"}
  /\ req \in 0..req_seq /\ replied_seq \in 0..req

Init ==
  /\ pc = "idle" /\ big = FALSE /\ calls = 0 /\ sent = 0 /\ want = 0
  /\ got = <<>> /\ abandoned = FALSE
  /\ req_seq = 0 /\ reply_seq = 0 /\ closed = FALSE
  /\ rep = <<>>
  /\ hpc = "drain" /\ taken = 0 /\ serviced = 0 /\ outbox = <<>>
  /\ req = 0 /\ replied_seq = 0 /\ stop_ = FALSE

-----------------------------------------------------------------------------
(***************************************************************************)
(* Guest: alr_icd_roundtrip                                                *)
(***************************************************************************)

\* alr_ring_append of the request succeeds.
Fits(b) == ~ b /\ sent - taken < ReqCap

\* 1) Push the request; if it does not fit, flush and wait.
Call(b) ==
  /\ pc = "idle" /\ calls < MaxCalls
  /\ calls' = calls + 1
  /\ big' = b /\ got' = <<>>
  /\ \/ /\ Fits(b)
        /\ sent' = sent + 1 /\ pc' = "bump"
        /\ UNCHANGED <<req_seq, want>>
     \/ /\ ~ Fits(b)
        /\ req_seq' = req_seq + 1 /\ want' = req_seq + 1 /\ pc' = "flushwait"
        /\ UNCHANGED sent
  /\ UNCHANGED <<abandoned, reply_seq, closed, rep, servicer, stop_>>

\* alr_ring_flush_and_wait: answered, or the ring is closed ...
FlushReleased ==
  /\ pc = "flushwait" /\ (reply_seq >= want \/ closed)
  /\ pc' = "retry"
  /\ UNCHANGED <<big, calls, sent, want, got, abandoned, seqs, rep, servicer, stop_>>

\* ... or its spin budget runs out.
FlushExpires ==
  /\ pc = "flushwait" /\ reply_seq < want /\ ~ closed
  /\ pc' = "retry"
  /\ UNCHANGED <<big, calls, sent, want, got, abandoned, seqs, rep, servicer, stop_>>

Retry ==
  /\ pc = "retry"
  /\ \/ /\ Fits(big)
        /\ sent' = sent + 1 /\ pc' = "bump"
        /\ UNCHANGED abandoned
     \/ /\ ~ Fits(big)
        /\ pc' = "idle" /\ abandoned' = TRUE
        /\ UNCHANGED sent
  /\ UNCHANGED <<big, calls, want, got, seqs, rep, servicer, stop_>>

\* 2) req_seq.fetch_add(1) + 1
Bump ==
  /\ pc = "bump"
  /\ req_seq' = req_seq + 1 /\ want' = req_seq + 1
  /\ pc' = "wait"
  /\ UNCHANGED <<big, calls, sent, got, abandoned, reply_seq, closed, rep, servicer, stop_>>

\* 3) Wait for the ack.
Acked ==
  /\ pc = "wait" /\ reply_seq >= want
  /\ pc' = "drain"
  /\ UNCHANGED <<big, calls, sent, want, got, abandoned, seqs, rep, servicer, stop_>>

Unanswered ==
  /\ pc = "wait" /\ reply_seq < want
  /\ pc' = "idle" /\ abandoned' = TRUE
  /\ UNCHANGED <<big, calls, sent, want, got, seqs, rep, servicer, stop_>>

Closed == closed /\ Unanswered

\* The 8 s backstop.
GiveUp == ~ closed /\ Unanswered

\* Mutant: the reply is read and the tail of its ring not advanced.
DrainReplyNoAdvance ==
  /\ pc = "drain"
  /\ got' = rep
  /\ pc' = "idle"
  /\ UNCHANGED <<big, calls, sent, want, abandoned, seqs, rep, servicer, stop_>>

\* 4) Drain the reply ring.
DrainReply ==
  /\ pc = "drain"
  /\ got' = rep /\ rep' = <<>>
  /\ pc' = "idle"
  /\ UNCHANGED <<big, calls, sent, want, abandoned, seqs, servicer, stop_>>

-----------------------------------------------------------------------------
(***************************************************************************)
(* Servicer thread                                                         *)
(***************************************************************************)

\* drain_into leaves the request ring empty.
Drain ==
  /\ hpc = "drain"
  /\ taken' = sent
  /\ hpc' = "req"
  /\ UNCHANGED <<call, seqs, rep, serviced, outbox, req, replied_seq, stop_>>

LoadReq ==
  /\ hpc = "req"
  /\ req' = req_seq
  /\ hpc' = IF req_seq # replied_seq THEN "redrain"
            ELSE IF stop_ THEN "final" ELSE "drain"   \* idle_wait
  /\ UNCHANGED <<call, seqs, rep, taken, serviced, outbox, replied_seq, stop_>>

\* Mutant: no second drain.
DecodeNoRedrain ==
  /\ hpc = "redrain"
  /\ serviced' = taken
  /\ outbox' = IF serviced = taken THEN <<End>>
               ELSE [i \in 1..(taken - serviced) |-> serviced + i]
  /\ hpc' = "push"
  /\ UNCHANGED <<call, seqs, rep, taken, req, replied_seq, stop_>>

\* The second drain, then decode_vk_batch on the whole batch.
Redrain ==
  /\ hpc = "redrain"
  /\ taken' = sent
  /\ serviced' = sent
  /\ outbox' = IF serviced = sent THEN <<End>>
               ELSE [i \in 1..(sent - serviced) |-> serviced + i]
  /\ hpc' = "push"
  /\ UNCHANGED <<call, seqs, rep, req, replied_seq, stop_>>

\* push_reply: one append of the whole reply, or none when its retries run out.
PushReply ==
  /\ hpc = "push"
  /\ \/ /\ Len(rep) + Len(outbox) <= RepCap
        /\ rep' = rep \o outbox
     \/ /\ Len(rep) + Len(outbox) > RepCap
        /\ UNCHANGED rep
  /\ outbox' = <<>> /\ hpc' = "ack"
  /\ UNCHANGED <<call, seqs, taken, serviced, req, replied_seq, stop_>>

\* reply_seq becomes the request that was serviced.
Ack ==
  /\ hpc = "ack"
  /\ replied_seq' = req /\ reply_seq' = req
  /\ hpc' = "drain"
  /\ UNCHANGED <<call, req_seq, closed, rep, taken, serviced, outbox, req, stop_>>

\* Mutant: stop waits for the guest to fetch every reply.
FinalCheckRepliesFetched ==
  /\ hpc = "final"
  /\ hpc' = IF req_seq = replied_seq /\ taken = sent /\ rep = <<>> THEN "exited" ELSE "drain"
  /\ UNCHANGED <<call, seqs, rep, taken, serviced, outbox, req, replied_seq, stop_>>

\* A request that came while stop() was called is still served.
FinalCheck ==
  /\ hpc = "final"
  /\ hpc' = IF req_seq = replied_seq /\ taken = sent THEN "exited" ELSE "drain"
  /\ UNCHANGED <<call, seqs, rep, taken, serviced, outbox, req, replied_seq, stop_>>

\* VkRingServicer::stop() up to its join.
Stop ==
  /\ ~ stop_
  /\ stop_' = TRUE /\ closed' = TRUE
  /\ UNCHANGED <<call, req_seq, reply_seq, rep, servicer>>

-----------------------------------------------------------------------------
RequestKinds == IF Oversized THEN BOOLEAN ELSE {FALSE}

Prompt == FlushReleased \/ Retry \/ Bump \/ Acked \/ Closed \/ DrainReply

GuestStep == (\E b \in RequestKinds : Call(b)) \/ Prompt \/ FlushExpires \/ GiveUp

ServicerStep == Drain \/ LoadReq \/ Redrain \/ PushReply \/ Ack \/ FinalCheck

Next == GuestStep \/ ServicerStep \/ Stop

\* Both threads are scheduled; neither timeout need ever strike.
Spec == Init /\ [][Next]_vars /\ WF_vars(ServicerStep) /\ WF_vars(Prompt)

-----------------------------------------------------------------------------
(***************************************************************************)
(* Properties                                                              *)
(***************************************************************************)

\* As long as no round trip was abandoned, each returns exactly the reply to its
\* own request: the serialised calls and the ack order keep the rings in step.
CleanReplyIsOurs ==
  pc = "idle" /\ sent > 0 /\ ~ abandoned => got = <<sent>>

Serving == hpc \in {"redrain", "push", "ack"}

\* Inductive part of CleanReplyIsOurs: between two undisturbed calls both rings
\* are empty, and during one they hold that call's request or its reply.
CleanInv ==
  ~ abandoned =>
    /\ pc \in {"idle", "bump"} =>
         /\ rep = <<>> /\ ~ Serving /\ replied_seq = req_seq
         /\ serviced = IF pc = "idle" THEN sent ELSE sent - 1
    /\ pc \in {"flushwait", "retry"} => big
    /\ pc = "drain" => replied_seq = req_seq
    /\ pc \in {"wait", "drain"} /\ replied_seq = req_seq =>
         rep = <<sent>> /\ serviced = sent /\ ~ Serving
    /\ pc = "wait" /\ replied_seq # req_seq =>
         /\ serviced = IF hpc \in {"push", "ack"} THEN sent ELSE sent - 1
         /\ hpc = "push" => outbox = <<sent>>
         /\ rep = IF hpc = "ack" THEN <<sent>> ELSE <<>>
         /\ Serving => req = req_seq
    /\ CleanReplyIsOurs

\* An ack never overtakes the work: when the guest sees its request acked, the
\* driver has executed it, abandoned calls or not.
AckMeansServiced ==
  pc \in {"wait", "drain"} /\ reply_seq >= want => serviced = sent

\* Inductive part of AckMeansServiced: a request is loaded after the bump that
\* announces it, so the drain that follows finds it.
AckInv ==
  /\ reply_seq = replied_seq
  /\ pc \in {"wait", "drain"} =>
       /\ want = req_seq
       /\ replied_seq = req_seq => serviced = sent
       /\ hpc \in {"push", "ack"} /\ req = req_seq => serviced = sent

\* Every round trip returns, even if neither timeout ever strikes, and stop()
\* joins the servicer thread.
CallReturns == pc # "idle" ~> pc = "idle"

StopEnds == stop_ ~> hpc = "exited"

WaitsEnd == CallReturns /\ StopEnds
==============================================================================
