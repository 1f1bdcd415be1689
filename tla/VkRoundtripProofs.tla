-------------------------- MODULE VkRoundtripProofs --------------------------
(***************************************************************************)
(* Proofs about VkRoundtrip, for every ring capacity and number of calls.  *)
(***************************************************************************)
EXTENDS VkRoundtrip, TLAPS

Counters ==
  /\ sent \in Nat /\ taken \in 0..sent /\ serviced \in 0..taken
  /\ req_seq \in Nat /\ want \in 0..req_seq /\ reply_seq \in 0..req_seq
  /\ req \in 0..req_seq /\ replied_seq \in 0..req

VkInv == Counters /\ AckInv /\ CleanInv

LEMMA VkInit == Init => VkInv
<1> SUFFICES ASSUME Init PROVE VkInv
  OBVIOUS
<1>1. Counters /\ AckInv
  BY DEF Init, Counters, AckInv
<1>2. CleanInv
  BY DEF Init, CleanInv, CleanReplyIsOurs, Serving
<1> QED
  BY <1>1, <1>2 DEF VkInv

\* No step loses count of the requests or of the sequence numbers.
LEMMA CountersKept ==
  ASSUME Counters, [Next]_vars PROVE Counters'
<1> USE DEF Counters
<1>1. ASSUME NEW b, Call(b) PROVE Counters'
  BY <1>1 DEF Call, servicer
<1>2. CASE FlushReleased \/ FlushExpires \/ Unanswered \/ Acked \/ DrainReply
  BY <1>2 DEF FlushReleased, FlushExpires, Unanswered, Acked, DrainReply, servicer, seqs
<1>3. CASE Retry
  BY <1>3 DEF Retry, servicer, seqs
<1>4. CASE Bump
  BY <1>4 DEF Bump, servicer
<1>5. CASE Drain
  BY <1>5 DEF Drain, call, seqs
<1>6. CASE LoadReq
  BY <1>6 DEF LoadReq, call, seqs
<1>7. CASE Redrain
  BY <1>7 DEF Redrain, call, seqs
<1>8. CASE PushReply \/ FinalCheck
  BY <1>8 DEF PushReply, FinalCheck, call, seqs
<1>9. CASE Ack
  BY <1>9 DEF Ack, call
<1>10. CASE Stop
  BY <1>10 DEF Stop, call, servicer
<1>11. CASE UNCHANGED vars
  BY <1>11 DEF vars, call, seqs, servicer
<1> QED
  BY <1>1, <1>2, <1>3, <1>4, <1>5, <1>6, <1>7, <1>8, <1>9, <1>10, <1>11
  DEF Next, GuestStep, Prompt, Closed, GiveUp, ServicerStep

\* The servicer acks only what it has drained after the announcement.
LEMMA AckKept ==
  ASSUME Counters, AckInv, [Next]_vars PROVE AckInv'
<1> USE DEF Counters, AckInv
<1>1. ASSUME NEW b, Call(b) PROVE AckInv'
  BY <1>1 DEF Call, servicer
<1>2. CASE FlushReleased \/ FlushExpires \/ Unanswered \/ Acked \/ DrainReply
  BY <1>2 DEF FlushReleased, FlushExpires, Unanswered, Acked, DrainReply, servicer, seqs
<1>3. CASE Retry
  BY <1>3 DEF Retry, servicer, seqs
<1>4. CASE Bump
  BY <1>4 DEF Bump, servicer
<1>5. CASE Drain
  BY <1>5 DEF Drain, call, seqs
<1>6. CASE LoadReq
  BY <1>6 DEF LoadReq, call, seqs
<1>7. CASE Redrain
  BY <1>7 DEF Redrain, call, seqs
<1>8. CASE PushReply \/ FinalCheck
  BY <1>8 DEF PushReply, FinalCheck, call, seqs
<1>9. CASE Ack
  BY <1>9 DEF Ack, call
<1>10. CASE Stop
  BY <1>10 DEF Stop, call, servicer
<1>11. CASE UNCHANGED vars
  BY <1>11 DEF vars, call, seqs, servicer
<1> QED
  BY <1>1, <1>2, <1>3, <1>4, <1>5, <1>6, <1>7, <1>8, <1>9, <1>10, <1>11
  DEF Next, GuestStep, Prompt, Closed, GiveUp, ServicerStep

\* What a reply ring with one reply holds.
LEMMA OneReply ==
  ASSUME NEW x PROVE Len(<<>>) + Len(<<x>>) = 1 /\ <<>> \o <<x>> = <<x>>
  OBVIOUS

\* While no call was abandoned, the rings hold at most the call under way.
LEMMA CleanKept ==
  ASSUME Counters, AckInv, CleanInv, [Next]_vars PROVE CleanInv'
<1> USE DEF Counters, CleanInv, CleanReplyIsOurs, Serving
<1>1. ASSUME NEW b \in BOOLEAN, Call(b) PROVE CleanInv'
  <2>1. CASE Fits(b)
    BY <1>1, <2>1 DEF Call, servicer
  <2>2. CASE ~ Fits(b) /\ ~ abandoned
    <3>1. b
      BY <1>1, <2>2, VkAssumption DEF Call, Fits
    <3> QED
      BY <1>1, <2>2, <3>1 DEF Call
  <2>3. CASE abandoned
    BY <1>1, <2>3 DEF Call
  <2> QED
    BY <2>1, <2>2, <2>3
<1>2. CASE FlushReleased \/ FlushExpires
  BY <1>2 DEF FlushReleased, FlushExpires, servicer, seqs
<1>3. CASE Unanswered
  BY <1>3 DEF Unanswered
<1>4. CASE Acked
  BY <1>4 DEF Acked, AckInv, servicer, seqs
<1>5. CASE DrainReply
  BY <1>5 DEF DrainReply, servicer, seqs
<1>6. CASE Retry
  BY <1>6 DEF Retry, Fits, servicer, seqs
<1>7. CASE Bump
  BY <1>7 DEF Bump, servicer
<1>8. CASE Drain
  BY <1>8 DEF Drain, call, seqs
<1>9. CASE LoadReq
  BY <1>9 DEF LoadReq, call, seqs
<1>10. CASE Redrain
  <2>1. CASE ~ abandoned /\ pc = "wait" /\ replied_seq # req_seq
    <3>1. serviced = sent - 1 /\ sent - serviced = 1 /\ serviced # sent
      BY <1>10, <2>1 DEF Redrain
    <3>2. outbox' = [i \in 1..1 |-> serviced + i]
      BY <1>10, <3>1 DEF Redrain
    <3>3. outbox' = <<sent>>
      BY <3>1, <3>2
    <3> QED
      BY <1>10, <2>1, <3>1, <3>3 DEF Redrain, call, seqs
  <2>2. CASE ~ (~ abandoned /\ pc = "wait" /\ replied_seq # req_seq)
    BY <1>10, <2>2 DEF Redrain, call, seqs
  <2> QED
    BY <2>1, <2>2
<1>11. CASE PushReply
  <2>1. CASE ~ abandoned /\ pc = "wait" /\ replied_seq # req_seq
    <3>1. rep = <<>> /\ outbox = <<sent>>
      BY <1>11, <2>1 DEF PushReply
    <3>2. Len(rep) + Len(outbox) = 1 /\ rep \o outbox = <<sent>>
      BY <3>1, OneReply
    <3>3. rep' = <<sent>>
      BY <1>11, <3>2, VkAssumption DEF PushReply
    <3> QED
      BY <1>11, <2>1, <3>3 DEF PushReply, call, seqs
  <2>2. CASE ~ (~ abandoned /\ pc = "wait" /\ replied_seq # req_seq)
    BY <1>11, <2>2 DEF PushReply, call, seqs
  <2> QED
    BY <2>1, <2>2
<1>12. CASE FinalCheck
  BY <1>12 DEF FinalCheck, call, seqs
<1>13. CASE Ack
  BY <1>13 DEF Ack, call
<1>14. CASE Stop
  BY <1>14 DEF Stop, call, servicer
<1>15. CASE UNCHANGED vars
  BY <1>15 DEF vars, call, seqs, servicer
<1> QED
  BY <1>1, <1>2, <1>3, <1>4, <1>5, <1>6, <1>7, <1>8, <1>9, <1>10, <1>11, <1>12,
     <1>13, <1>14, <1>15
  DEF Next, GuestStep, Prompt, Closed, GiveUp, ServicerStep, RequestKinds

LEMMA VkNext == VkInv /\ [Next]_vars => VkInv'
BY CountersKept, AckKept, CleanKept DEF VkInv

\* When alr_icd_roundtrip sees its request acked, the driver has executed it,
\* whatever calls were abandoned before.
THEOREM AckedIsServiced == Spec => []AckMeansServiced
<1>1. VkInv => AckMeansServiced
  BY DEF VkInv, Counters, AckInv, AckMeansServiced
<1> QED
  BY <1>1, VkInit, VkNext, PTL DEF Spec

\* As long as no call was abandoned, alr_icd_roundtrip returns the reply to its own request.
THEOREM UndisturbedReplyIsOurs == Spec => []CleanReplyIsOurs
<1>1. VkInv => CleanReplyIsOurs
  BY DEF VkInv, CleanInv, CleanReplyIsOurs
<1> QED
  BY <1>1, VkInit, VkNext, PTL DEF Spec

-----------------------------------------------------------------------------
\* A call whose request is not in the ring yet leaves room below calls.
TypeInv == TypeOK /\ (pc \in {"flushwait", "retry"} => sent < calls)

\* Reply numbers stay in range when another request is sent.
LEMMA SeqGrows ==
  ASSUME NEW n \in Nat, NEW s \in Seq(0..n) PROVE s \in Seq(0..(n + 1))
  OBVIOUS

\* What an empty ring, the END reply and an append are.
LEMMA SeqFacts ==
  ASSUME NEW S, NEW s \in Seq(S), NEW t \in Seq(S), NEW x \in S
  PROVE  /\ <<>> \in Seq(S) /\ Len(<<>>) = 0
         /\ <<x>> \in Seq(S)
         /\ s \o t \in Seq(S) /\ Len(s \o t) = Len(s) + Len(t)
  OBVIOUS

\* The encoded reply to a batch.
LEMMA OutboxType ==
  ASSUME NEW a \in Nat, NEW b \in Nat, a <= b
  PROVE  [i \in 1..(b - a) |-> a + i] \in Seq(0..b)
  OBVIOUS

LEMMA TypeKept == ASSUME TypeInv, [Next]_vars PROVE TypeInv'
<1> USE VkAssumption DEF TypeInv, TypeOK
<1>0. sent' = sent + 1 => got \in Seq(0..sent') /\ rep \in Seq(0..sent') /\ outbox \in Seq(0..sent')
  BY SeqGrows
<1>1. ASSUME NEW b \in BOOLEAN, Call(b) PROVE TypeInv'
  BY <1>0, <1>1 DEF Call, servicer
<1>2. CASE FlushReleased \/ FlushExpires \/ Unanswered \/ Acked
  BY <1>2 DEF FlushReleased, FlushExpires, Unanswered, Acked, servicer, seqs
<1>3. CASE Retry
  <2>1. CASE Fits(big)
    BY <1>0, <1>3, <2>1 DEF Retry, servicer, seqs
  <2>2. CASE ~ Fits(big)
    BY <1>3, <2>2 DEF Retry, servicer, seqs
  <2> QED
    BY <2>1, <2>2
<1>4. CASE Bump
  BY <1>4 DEF Bump, servicer
<1>5. CASE DrainReply
  BY <1>5 DEF DrainReply, servicer, seqs
<1>6. CASE Drain \/ LoadReq \/ FinalCheck
  <2>1. CASE Drain
    BY <2>1 DEF Drain, call, seqs
  <2>2. CASE LoadReq
    BY <2>2 DEF LoadReq, call, seqs
  <2>3. CASE FinalCheck
    BY <2>3 DEF FinalCheck, call, seqs
  <2> QED
    BY <1>6, <2>1, <2>2, <2>3
<1>7. CASE Redrain
  <2>1. outbox' \in Seq(0..sent)
    <3>1. serviced \in Nat /\ sent \in Nat /\ serviced <= sent /\ 0 \in 0..sent
      OBVIOUS
    <3>2. [i \in 1..(sent - serviced) |-> serviced + i] \in Seq(0..sent)
      BY <3>1, OutboxType
    <3>3. <<End>> \in Seq(0..sent)
      BY <3>1, SeqFacts DEF End
    <3> QED
      BY <1>7, <3>2, <3>3 DEF Redrain
  <2> QED
    BY <1>7, <2>1 DEF Redrain, call, seqs
<1>8. CASE PushReply
  <2>1. rep' \in Seq(0..sent) /\ Len(rep') <= RepCap
    <3>1. rep \o outbox \in Seq(0..sent) /\ Len(rep \o outbox) = Len(rep) + Len(outbox)
      OBVIOUS
    <3> QED
      BY <1>8, <3>1 DEF PushReply
  <2>2. outbox' \in Seq(0..sent)
    BY <1>8, 0 \in 0..sent, SeqFacts DEF PushReply
  <2> QED
    BY <1>8, <2>1, <2>2 DEF PushReply, call, seqs
<1>9. CASE Ack
  BY <1>9 DEF Ack, call
<1>10. CASE Stop
  BY <1>10 DEF Stop, call, servicer
<1>11. CASE UNCHANGED vars
  BY <1>11 DEF vars, call, seqs, servicer
<1> QED
  BY <1>1, <1>2, <1>3, <1>4, <1>5, <1>6, <1>7, <1>8, <1>9, <1>10, <1>11
  DEF Next, GuestStep, Prompt, Closed, GiveUp, ServicerStep, RequestKinds

\* The reply ring never overflows and never holds a reply to a request that was
\* not sent, for every capacity (push_reply's room check).
THEOREM RepliesFit == Spec => []TypeOK
<1>1. Init => TypeInv
  <2> SUFFICES ASSUME Init PROVE TypeInv
    OBVIOUS
  <2> USE VkAssumption DEF Init
  <2>1. <<>> \in Seq(0..0) /\ Len(<<>>) = 0
    OBVIOUS
  <2>2. /\ got \in Seq(0..sent) /\ rep \in Seq(0..sent) /\ outbox \in Seq(0..sent)
        /\ Len(rep) <= RepCap
    BY <2>1
  <2>3. /\ calls \in 0..MaxCalls
        /\ sent \in 0..calls /\ taken \in 0..sent /\ serviced \in 0..taken
        /\ req_seq \in Nat /\ want \in 0..req_seq /\ reply_seq \in 0..req_seq
        /\ req \in 0..req_seq /\ replied_seq \in 0..req
    OBVIOUS
  <2> QED
    BY <2>2, <2>3 DEF TypeInv, TypeOK
<1>2. TypeInv => TypeOK
  BY DEF TypeInv
<1> QED
  BY <1>1, <1>2, TypeKept, PTL DEF Spec
==============================================================================
