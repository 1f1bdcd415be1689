----------------------------- MODULE RingProofs -----------------------------
(***************************************************************************)
(* Proofs about the two rings and what feeds them: GpuRing, for every ring *)
(* size and every stream length, and PulseServer, for any clients, ring    *)
(* and socket sizes.                                                       *)
(***************************************************************************)
EXTENDS GpuRing, PulseServer, Integers, SequenceTheorems, TLAPS

(***************************************************************************)
(* Arithmetic of the ring index.                                           *)
(***************************************************************************)

\* The ring index is an index of the ring (head & mask_).
LEMMA IndexRange ==
  ASSUME NEW h \in Nat PROVE h % RingBytes \in 0..(RingBytes - 1)
  BY RingAssumption, SMT

\* Euclidean division by the ring size.
LEMMA Division ==
  ASSUME NEW h \in Nat
  PROVE  h \div RingBytes \in Nat /\ h = RingBytes * (h \div RingBytes) + (h % RingBytes)
  BY RingAssumption, SMT

\* The remainder is unique.
LEMMA Remainder ==
  ASSUME NEW q \in Nat, NEW r \in 0..(RingBytes - 1)
  PROVE  (RingBytes * q + r) % RingBytes = r
  BY RingAssumption, SMTT(30)

\* An offset that does not reach the end of the ring moves the index along.
LEMMA IndexNoWrap ==
  ASSUME NEW h \in Nat, NEW k \in Nat, (h % RingBytes) + k < RingBytes
  PROVE  (h + k) % RingBytes = (h % RingBytes) + k
<1> DEFINE q == h \div RingBytes
           r == h % RingBytes
<1>1. q \in Nat /\ h = RingBytes * q + r
  BY Division
<1>2. r \in 0..(RingBytes - 1)
  BY IndexRange
<1>3. r + k \in 0..(RingBytes - 1)
  BY <1>2, RingAssumption
<1> HIDE DEF q, r
<1>4. (RingBytes * q + (r + k)) % RingBytes = r + k
  BY Remainder, <1>1, <1>3
<1>5. h + k = RingBytes * q + (r + k)
  BY <1>1, <1>2, RingAssumption
<1>6. (h + k) % RingBytes = r + k
  BY <1>4, <1>5
<1> QED
  BY <1>6 DEF r

\* One that reaches the end continues at the start of the ring.
LEMMA IndexWrap ==
  ASSUME NEW h \in Nat, NEW k \in 0..RingBytes, (h % RingBytes) + k >= RingBytes
  PROVE  (h + k) % RingBytes = (h % RingBytes) + k - RingBytes
<1> DEFINE q == h \div RingBytes
           r == h % RingBytes
<1>1. q \in Nat /\ h = RingBytes * q + r
  BY Division
<1>2. r \in 0..(RingBytes - 1)
  BY IndexRange
<1>3. r + k - RingBytes \in 0..(RingBytes - 1)
  BY <1>2, RingAssumption
<1> HIDE DEF q, r
<1>4. (RingBytes * (q + 1) + (r + k - RingBytes)) % RingBytes = r + k - RingBytes
  BY Remainder, <1>1, <1>3
<1>5. h + k = RingBytes * (q + 1) + (r + k - RingBytes)
  BY <1>1, <1>2, RingAssumption
<1>6. (h + k) % RingBytes = r + k - RingBytes
  BY <1>4, <1>5
<1> QED
  BY <1>6 DEF r

\* Two positions less than a ring apart have different slots.
LEMMA IndexDistinct ==
  ASSUME NEW i \in Nat, NEW j \in Nat, i < j, j < i + RingBytes
  PROVE  i % RingBytes # j % RingBytes
<1> DEFINE k == j - i
<1>1. k \in 1..(RingBytes - 1) /\ j = i + k
  BY RingAssumption
<1>2. i % RingBytes \in 0..(RingBytes - 1)
  BY IndexRange
<1> HIDE DEF k
<1>3. CASE (i % RingBytes) + k < RingBytes
  <2>1. (i + k) % RingBytes = (i % RingBytes) + k
    <3>1. k \in Nat
      BY <1>1
    <3> QED
      BY <3>1, <1>3, IndexNoWrap
  <2>2. j % RingBytes = (i % RingBytes) + k
    BY <2>1, <1>1, Zenon
  <2> QED
    BY <2>2, <1>1, <1>2, RingAssumption
<1>4. CASE (i % RingBytes) + k >= RingBytes
  <2>1. k \in 0..RingBytes
    BY <1>1, RingAssumption
  <2>2. (i + k) % RingBytes = (i % RingBytes) + k - RingBytes
    BY <2>1, <1>4, IndexWrap
  <2>3. j % RingBytes = (i % RingBytes) + k - RingBytes
    BY <2>2, <1>1, Zenon
  <2> QED
    BY <2>3, <1>1, <1>2, RingAssumption
<1> QED
  BY <1>1, <1>2, <1>3, <1>4, RingAssumption

\* The split copy puts byte k of a copy at the slot of its stream position.
LEMMA SlotIsIndex ==
  ASSUME NEW c \in Nat, NEW l \in 0..RingBytes, NEW k \in Nat, k < l
  PROVE  Slot(c, l, k) = (c + k) % RingBytes
<1>1. c % RingBytes \in 0..(RingBytes - 1)
  BY IndexRange
<1>2. CASE (c % RingBytes) + k < RingBytes
  <2>1. (c + k) % RingBytes = (c % RingBytes) + k
    BY <1>2, IndexNoWrap
  <2> QED
    BY <2>1, <1>1, <1>2, RingAssumption DEF Slot
<1>3. CASE (c % RingBytes) + k >= RingBytes
  <2>1. k \in 0..RingBytes
    BY RingAssumption
  <2>2. (c + k) % RingBytes = (c % RingBytes) + k - RingBytes
    BY <2>1, <1>3, IndexWrap
  <2> QED
    BY <2>2, <1>1, <1>3, RingAssumption DEF Slot
<1> QED
  BY <1>1, <1>2, <1>3, RingAssumption

-----------------------------------------------------------------------------
(***************************************************************************)
(* RingInv is inductive.                                                   *)
(***************************************************************************)

LEMMA RingInit == Init => RingInv
  BY RingAssumption, SMT
  DEF Init, RingInv, TypeOK, Bounded, InFlightIntact, SnapshotExact, NoByte

\* The byte a copy writes is not one that anybody still has to read.
LEMMA CopyInKeepsInFlight ==
  ASSUME RingInv, CopyIn PROVE InFlightIntact'
<1> DEFINE p == head + wrote
           s == p % RingBytes
<1>1. /\ head \in Nat /\ tail \in Nat /\ wrote \in Nat /\ len \in Nat /\ wrote < len
      /\ ppc = "copy" /\ ppc' = ppc /\ head' = head /\ tail' = tail /\ wrote' = wrote + 1
      /\ tail <= head /\ head + len <= tail + RingBytes - 1 /\ head + len <= MaxBytes
  BY RingAssumption DEF RingInv, TypeOK, Bounded, CopyIn
<1>2. len \in 0..RingBytes
  BY <1>1, RingAssumption
<1>3. Slot(head, len, wrote) = s
  BY <1>1, <1>2, SlotIsIndex
<1>4. data' = [data EXCEPT ![s] = p]
  BY <1>3 DEF CopyIn
<1>5. data \in [0..(RingBytes - 1) -> 0..NoByte]
  BY DEF RingInv, TypeOK
<1>6. p \in Nat
  BY <1>1
<1>7. s \in 0..(RingBytes - 1)
  BY <1>6, IndexRange
<1> SUFFICES ASSUME NEW i \in 0..MaxBytes, tail <= i, i < p + 1
             PROVE  data'[i % RingBytes] = i
  BY <1>1, RingAssumption DEF InFlightIntact
<1>8. i \in Nat
  BY RingAssumption
<1>9. i % RingBytes \in 0..(RingBytes - 1)
  BY <1>8, IndexRange
<1>10. CASE i = p
  BY <1>10, <1>4, <1>5, <1>7, Zenon
<1>11. CASE i # p
  <2>1. i < p /\ p < i + RingBytes
    BY <1>11, <1>1, <1>8, RingAssumption
  <2>2. i % RingBytes # s
    BY <2>1, <1>8, <1>6, IndexDistinct
  <2>3. data[i % RingBytes] = i
    BY <2>1, <1>1 DEF RingInv, InFlightIntact
  <2> HIDE DEF s, p
  <2>4. data'[i % RingBytes] = data[i % RingBytes]
    BY <2>2, <1>4, <1>5, <1>7, <1>9, Zenon
  <2> QED
    BY <2>3, <2>4
<1> QED
  BY <1>10, <1>11

\* Reading a slot of the snapshot gives the byte of that stream position.
LEMMA CopyOutReads ==
  ASSUME RingInv, CopyOut PROVE data[Slot(tail, n, Len(buf))] = tail + Len(buf)
<1> DEFINE k == Len(buf)
<1>1. /\ head \in Nat /\ tail \in Nat /\ n \in Nat /\ wrote \in Nat /\ len \in Nat
      /\ head <= MaxBytes /\ k \in Nat /\ k < n /\ n <= head - tail
      /\ head <= tail + RingBytes - 1
  <2>1. k \in Nat
    BY DEF RingInv, TypeOK
  <2> QED
    BY <2>1, RingAssumption DEF RingInv, TypeOK, Bounded, SnapshotExact, CopyOut
<1> HIDE DEF k
<1>2. n \in 0..RingBytes
  BY <1>1, RingAssumption
<1>3. Slot(tail, n, k) = (tail + k) % RingBytes
  BY <1>1, <1>2, SlotIsIndex
<1>4. tail + k \in 0..MaxBytes /\ tail <= tail + k /\ tail + k < head
  BY <1>1, RingAssumption
<1>5. data[(tail + k) % RingBytes] = tail + k
  BY <1>1, <1>4 DEF RingInv, InFlightIntact
<1> QED
  BY <1>3, <1>5 DEF k

LEMMA RingNext == RingInv /\ [Next]_vars => RingInv'
<1> SUFFICES ASSUME RingInv, [Next]_vars PROVE RingInv'
  OBVIOUS
<1> USE RingAssumption
<1>1. ASSUME NEW l \in 1..MaxBytes, Append_(l) PROVE RingInv'
  <2>1. TypeOK' /\ Bounded' /\ SnapshotExact'
    BY <1>1 DEF Append_, free_bytes, RingInv, TypeOK, Bounded, SnapshotExact, NoByte, ring, consumer
  <2>2. InFlightIntact'
    BY <1>1 DEF Append_, RingInv, TypeOK, InFlightIntact, ring
  <2> QED
    BY <2>1, <2>2 DEF RingInv
<1>2. CASE CopyIn
  <2>1. TypeOK'
    <3>1. head \in 0..MaxBytes /\ wrote \in 0..len /\ len \in 0..MaxBytes
          /\ wrote < len /\ head + len <= MaxBytes
      BY <1>2 DEF CopyIn, RingInv, TypeOK, Bounded
    <3>2. head + wrote \in 0..NoByte /\ wrote' \in 0..len'
      BY <1>2, <3>1 DEF CopyIn, NoByte
    <3>3. data' \in [0..(RingBytes - 1) -> 0..NoByte]
      BY <1>2, <3>2 DEF CopyIn, RingInv, TypeOK
    <3> QED
      BY <1>2, <3>2, <3>3 DEF CopyIn, RingInv, TypeOK, consumer
  <2>2. Bounded' /\ SnapshotExact'
    BY <1>2 DEF CopyIn, RingInv, TypeOK, Bounded, SnapshotExact, consumer
  <2>3. InFlightIntact'
    BY <1>2, CopyInKeepsInFlight
  <2> QED
    BY <2>1, <2>2, <2>3 DEF RingInv
<1>3. CASE Publish
  <2>1. TypeOK' /\ Bounded' /\ SnapshotExact'
    BY <1>3 DEF Publish, RingInv, TypeOK, Bounded, SnapshotExact, NoByte, consumer
  <2>2. InFlightIntact'
    <3>1. /\ data' = data /\ tail' = tail /\ head' = head + wrote /\ ppc = "copy" /\ ppc' = "idle"
          /\ head \in Nat /\ wrote \in Nat
      BY <1>3 DEF Publish, RingInv, TypeOK
    <3> SUFFICES ASSUME NEW i \in 0..MaxBytes, tail <= i, i < head + wrote
                 PROVE  data[i % RingBytes] = i
      BY <3>1 DEF InFlightIntact
    <3> QED
      BY <3>1 DEF RingInv, InFlightIntact
  <2> QED
    BY <2>1, <2>2 DEF RingInv
<1>4. CASE Poll
  <2>1. TypeOK' /\ Bounded' /\ SnapshotExact'
    BY <1>4 DEF Poll, available, RingInv, TypeOK, Bounded, SnapshotExact, NoByte, ring, producer
  <2>2. InFlightIntact'
    BY <1>4 DEF Poll, RingInv, InFlightIntact, ring, producer
  <2> QED
    BY <2>1, <2>2 DEF RingInv
<1>5. CASE Snapshot
  <2>1. TypeOK' /\ Bounded' /\ SnapshotExact'
    BY <1>5 DEF Snapshot, available, RingInv, TypeOK, Bounded, SnapshotExact, NoByte, ring, producer
  <2>2. InFlightIntact'
    BY <1>5 DEF Snapshot, RingInv, InFlightIntact, ring, producer
  <2> QED
    BY <2>1, <2>2 DEF RingInv
<1>6. CASE CopyOut
  <2>1. buf' = Append(buf, tail + Len(buf)) /\ Len(buf) < n /\ cpc = "copy" /\ n <= head - tail
    BY <1>6, CopyOutReads DEF CopyOut, RingInv, SnapshotExact
  <2>2. Len(buf) \in Nat /\ tail + Len(buf) \in 0..NoByte
    BY <2>1 DEF RingInv, TypeOK, Bounded, NoByte
  <2>3. buf' \in Seq(0..NoByte)
    BY <2>1, <2>2 DEF RingInv, TypeOK
  <2>4. TypeOK' /\ Bounded'
    BY <1>6, <2>3 DEF CopyOut, RingInv, TypeOK, Bounded, ring, producer
  <2>5. SnapshotExact'
    <3>1. Len(buf') = Len(buf) + 1
      BY <2>1, <2>2 DEF RingInv, TypeOK
    <3>2. \A k \in 1..Len(buf') : buf'[k] = tail + k - 1
      BY <2>1, <2>2, <3>1 DEF RingInv, TypeOK, SnapshotExact
    <3> QED
      BY <1>6, <2>1, <2>2, <3>1, <3>2
      DEF CopyOut, RingInv, TypeOK, SnapshotExact, ring, producer
  <2>6. InFlightIntact'
    BY <1>6 DEF CopyOut, RingInv, InFlightIntact, ring, producer
  <2> QED
    BY <2>4, <2>5, <2>6 DEF RingInv
<1>7. CASE advance
  <2>1. frame_bytes' \in Seq(0..NoByte) /\ Len(frame_bytes') = tail + n
    <3>1. frame_bytes \in Seq(0..NoByte) /\ buf \in Seq(0..NoByte)
      BY DEF RingInv, TypeOK
    <3>2. Len(frame_bytes) = tail /\ Len(buf) = n /\ frame_bytes' = frame_bytes \o buf
      BY <1>7 DEF advance, RingInv, SnapshotExact
    <3>3. frame_bytes \o buf \in Seq(0..NoByte) /\ Len(frame_bytes \o buf) = Len(frame_bytes) + Len(buf)
      BY <3>1, ConcatProperties
    <3> QED
      BY <3>2, <3>3, Zenon
  <2>2. TypeOK' /\ Bounded' /\ SnapshotExact'
    BY <1>7, <2>1 DEF advance, RingInv, TypeOK, Bounded, SnapshotExact, NoByte, producer
  <2>3. InFlightIntact'
    <3>1. /\ data' = data /\ tail' = tail + n /\ head' = head /\ ppc' = ppc /\ wrote' = wrote
          /\ tail \in Nat /\ n \in Nat
      BY <1>7 DEF advance, RingInv, TypeOK, producer
    <3> SUFFICES ASSUME NEW i \in 0..MaxBytes, tail + n <= i,
                        i < head + (IF ppc = "copy" THEN wrote ELSE 0)
                 PROVE  data[i % RingBytes] = i
      BY <3>1 DEF InFlightIntact
    <3> QED
      BY <3>1 DEF RingInv, InFlightIntact
  <2> QED
    BY <2>2, <2>3 DEF RingInv
<1>8. CASE UNCHANGED vars
  BY <1>8 DEF vars, ring, producer, consumer, RingInv, TypeOK, Bounded, InFlightIntact, SnapshotExact
<1> QED
  BY <1>1, <1>2, <1>3, <1>4, <1>5, <1>6, <1>7, <1>8 DEF Next, Produce, Consume

-----------------------------------------------------------------------------
(***************************************************************************)
(* Theorems                                                                *)
(***************************************************************************)

\* For every ring size, no append overwrites a byte the executor has still to
\* read, whatever the interleaving of the copies (append, snapshot).
THEOREM NeverOverwritten == Spec => [](TypeOK /\ InFlightIntact)
<1>1. RingInv => TypeOK /\ InFlightIntact
  BY DEF RingInv
<1> QED
  BY <1>1, RingInit, RingNext, PTL DEF Spec

\* The ring implements the abstract pipe: what the executor accumulates is the
\* stream the guest appended, in order, without loss, repetition or tearing.
THEOREM RingIsPipe == Spec => IsPipe
<1>1. Init => Pipe!PipeInit
  BY DEF Init, Pipe!PipeInit
<1>2. RingInv /\ [Next]_vars => [Pipe!PipeNext]_<<head, frame_bytes>>
  <2> SUFFICES ASSUME RingInv, [Next]_vars
               PROVE  Pipe!PipeNext \/ UNCHANGED <<head, frame_bytes>>
    OBVIOUS
  <2>1. CASE Publish
    <3>1. CASE len = 0
      BY <2>1, <3>1 DEF Publish, consumer, RingInv, TypeOK
    <3>2. CASE len # 0
      <4>1. len \in 1..MaxBytes
        BY <3>2, RingAssumption DEF RingInv, TypeOK
      <4>2. Pipe!PipeWrite(len)
        BY <2>1, RingAssumption
        DEF Publish, Pipe!PipeWrite, RingInv, TypeOK, Bounded, SnapshotExact, consumer
      <4> QED
        BY <4>1, <4>2 DEF Pipe!PipeNext
    <3> QED
      BY <3>1, <3>2
  <2>2. CASE advance
    <3>1. CASE n = 0
      <4>1. buf = <<>>
        BY <2>2, <3>1 DEF advance, RingInv, TypeOK
      <4>2. frame_bytes' = frame_bytes
        BY <2>2, <4>1 DEF advance, RingInv, TypeOK
      <4> QED
        BY <2>2, <4>2 DEF advance
    <3>2. CASE n # 0
      <4>1. n \in 1..MaxBytes
        BY <3>2, RingAssumption DEF RingInv, TypeOK
      <4>2. buf = [i \in 1..n |-> Len(frame_bytes) + i - 1]
        BY <2>2 DEF advance, RingInv, TypeOK, SnapshotExact
      <4>3. Len(frame_bytes) + n <= head
        BY <2>2, RingAssumption DEF advance, RingInv, TypeOK, SnapshotExact
      <4>4. Pipe!PipeRead(n)
        BY <2>2, <4>2, <4>3 DEF advance, Pipe!PipeRead
      <4> QED
        BY <4>1, <4>4 DEF Pipe!PipeNext
    <3> QED
      BY <3>1, <3>2
  <2>3. CASE (\E l \in 1..MaxBytes : Append_(l)) \/ CopyIn \/ Poll \/ Snapshot \/ CopyOut
    BY <2>3 DEF Append_, CopyIn, Poll, Snapshot, CopyOut, ring, consumer
  <2>4. CASE UNCHANGED vars
    BY <2>4 DEF vars, ring, consumer
  <2> QED
    BY <2>1, <2>2, <2>3, <2>4 DEF Next, Produce, Consume
<1> QED
  BY <1>1, <1>2, RingInit, RingNext, PTL DEF Spec, IsPipe, Pipe!PipeSpec

-----------------------------------------------------------------------------
(* The audio server                                                        *)

\* Where the threads are: the thread that has ended, and alr_audio_sink_stop past
\* its join, leave nobody in the loop.
PlaceOK ==
    /\ thread # "run" => pc = "test"
    /\ ctl = "close" => thread = "none"
    /\ pc = "frames" => cur \in known

PeerState == [state : {"new", "pending", "open", "shut", "gone"}, tags : Nat, acked : Nat,
              blocks : Nat, credit : Int, created : BOOLEAN]
ClientsOK ==
    /\ known \subseteq Clients /\ peer \in [Clients -> PeerState]
    /\ \A c \in Clients : c \in known <=> peer[c].state \in {"open", "shut"}
    /\ rbuf \in [Clients -> Seq(Frames)] /\ c2s \in [Clients -> Seq(Frames)]

\* A socket never takes more than it holds.
AnswersOK ==
    /\ wbuf \in [Clients -> Seq(Messages)] /\ s2c \in [Clients -> Seq(Messages)]
    /\ \A c \in Clients : Len(s2c[c]) <= SockCap

\* A stream with its PCM ring.
Stream == [live : BOOLEAN, corked : BOOLEAN, started : BOOLEAN,
           ring : [0 .. RingFrames - 1 -> Nat], head : 0 .. RingFrames - 1,
           tail : 0 .. RingFrames - 1, fill : 0 .. RingFrames]
InOrder(st) ==
    /\ st.tail = (st.head + st.fill) % RingFrames
    /\ \A i \in 1 .. st.fill - 1 :
         st.ring[(st.head + i) % RingFrames] = st.ring[(st.head + i - 1) % RingFrames] + 1
Newest(st) == st.ring[(st.head + st.fill - 1) % RingFrames]

StreamsOK ==
    /\ stream \in [Clients -> Stream]
    /\ \A c \in Clients : InOrder(stream[c]) /\ (~stream[c].live => stream[c].fill = 0)
    /\ MixerFollowsClients

-----------------------------------------------------------------------------
LEMMA Wraps ==
    ASSUME NEW N \in Nat \ {0}, NEW h \in 0 .. N - 1, NEW k \in 0 .. N
    PROVE  (h + k) % N = IF h + k < N THEN h + k ELSE h + k - N
<1>1. CASE h + k < N  BY <1>1
<1>2. CASE h + k >= N
  <2>1. h + k = N * 1 + (h + k - N) /\ h + k - N \in 0 .. N - 1  BY <1>2
  <2>2. (h + k) % N = h + k - N  BY <2>1
  <2> QED  BY <1>2, <2>2
<1> QED  BY <1>1, <1>2

\* Without remainders: where the i-th block after the read cursor h is.
Place(h, i) == IF h + i < RingFrames THEN h + i ELSE h + i - RingFrames

LEMMA InPlaces ==
    ASSUME NEW st \in Stream
    PROVE  /\ InOrder(st) <=>
                /\ st.tail = Place(st.head, st.fill)
                /\ \A i \in 1 .. st.fill - 1 :
                     st.ring[Place(st.head, i)] = st.ring[Place(st.head, i - 1)] + 1
           /\ st.fill > 0 => Newest(st) = st.ring[Place(st.head, st.fill - 1)]
<1> DEFINE h == st.head
           fl == st.fill
<1>1. RingFrames \in Nat \ {0} /\ h \in 0 .. RingFrames - 1 /\ fl \in 0 .. RingFrames
  BY PulseAssumption DEF Stream
<1>2. \A i \in 0 .. RingFrames : (h + i) % RingFrames = Place(h, i)  BY <1>1, Wraps DEF Place
<1> HIDE DEF h, fl
<1>3. (h + fl) % RingFrames = Place(h, fl)  BY <1>1, <1>2
<1>4. ASSUME NEW i \in 1 .. fl
      PROVE  (h + i) % RingFrames = Place(h, i) /\ (h + i - 1) % RingFrames = Place(h, i - 1)
  <2>1. i \in 0 .. RingFrames /\ i - 1 \in 0 .. RingFrames /\ h + i - 1 = h + (i - 1)
    BY <1>1
  <2> QED  BY <1>2, <2>1
<1>5. \A i \in 1 .. fl - 1 : i \in 1 .. fl  BY <1>1
<1>6. fl > 0 => (h + fl - 1) % RingFrames = Place(h, fl - 1)  BY <1>1, <1>4
<1>7. fl > 0 => Newest(st) = st.ring[Place(h, fl - 1)]  BY <1>6 DEF Newest, h, fl
<1>8. \A i \in 1 .. fl - 1 :
        (st.ring[(h + i) % RingFrames] = st.ring[(h + i - 1) % RingFrames] + 1)
          <=> (st.ring[Place(h, i)] = st.ring[Place(h, i - 1)] + 1)
  BY <1>4, <1>5
<1> QED  BY <1>3, <1>7, <1>8 DEF InOrder, h, fl

\* The places of a ring with a full one's oldest block dropped.
LEMMA Shifted ==
    ASSUME NEW h \in 0 .. RingFrames - 1
    PROVE  LET g == Place(h, 1) IN
           /\ g \in 0 .. RingFrames - 1
           /\ \A i \in 0 .. RingFrames - 1 : Place(g, i) = Place(h, i + 1)
           /\ Place(g, RingFrames) = g /\ Place(h, RingFrames) = h
  BY PulseAssumption DEF Place

LEMMA PlaceIs ==
    ASSUME NEW h \in 0 .. RingFrames - 1, NEW i \in 0 .. RingFrames
    PROVE  /\ Place(h, i) \in 0 .. RingFrames - 1 /\ Place(h, i) = (h + i) % RingFrames
           /\ Place(h, 0) = h
           /\ i < RingFrames => Place(Place(h, i), 1) = Place(h, i + 1)
<1>1. RingFrames \in Nat \ {0}  BY PulseAssumption
<1>2. Place(h, i) = (h + i) % RingFrames  BY <1>1, Wraps DEF Place
<1>3. Place(h, i) \in 0 .. RingFrames - 1 /\ Place(h, 0) = h  BY <1>1 DEF Place
<1>4. i < RingFrames => Place(Place(h, i), 1) = Place(h, i + 1)  BY <1>1 DEF Place
<1> QED  BY <1>2, <1>3, <1>4

LEMMA PlacesDiffer ==
    ASSUME NEW h \in 0 .. RingFrames - 1,
           NEW i \in 0 .. RingFrames - 1, NEW j \in 0 .. RingFrames - 1, i # j
    PROVE  Place(h, i) # Place(h, j)
  BY PulseAssumption DEF Place

\* push_pcm_to_ring keeps the ring in order when it is given the next block.
LEMMA WriteDoes ==
    ASSUME NEW st \in Stream, InOrder(st), NEW k \in Nat,
           st.fill > 0 => Newest(st) = k - 1
    PROVE  LET w == WriteFrame(st, k) IN
           w \in Stream /\ InOrder(w) /\ w.fill > 0 /\ Newest(w) = k /\ w.live = st.live
<1> DEFINE w == WriteFrame(st, k)
           h == st.head
           t == st.tail
           fl == st.fill
           rg == st.ring
           rg2 == [rg EXCEPT ![t] = k]
<1>1. /\ RingFrames \in Nat \ {0} /\ h \in 0 .. RingFrames - 1 /\ fl \in 0 .. RingFrames
      /\ t \in 0 .. RingFrames - 1 /\ rg \in [0 .. RingFrames - 1 -> Nat]
  BY PulseAssumption DEF Stream
<1>2. /\ (h + 1) % RingFrames = Place(h, 1) /\ (t + 1) % RingFrames = Place(t, 1)
      /\ Place(t, 1) \in 0 .. RingFrames - 1
  <2>1. 1 \in 0 .. RingFrames  BY <1>1
  <2> HIDE DEF h, t
  <2> QED  BY <1>1, <2>1, PlaceIs
<1>3. /\ t = Place(h, fl)
      /\ \A i \in 1 .. fl - 1 : rg[Place(h, i)] = rg[Place(h, i - 1)] + 1
      /\ fl > 0 => rg[Place(h, fl - 1)] = k - 1
  BY InPlaces
<1>4. /\ rg2 \in [0 .. RingFrames - 1 -> Nat] /\ rg2[t] = k
      /\ \A j \in 0 .. RingFrames - 1 : j # t => rg2[j] = rg[j]
  BY <1>1
<1>6. CASE fl < RingFrames
  <2>1. w = [st EXCEPT !.ring = rg2, !.tail = Place(t, 1), !.fill = fl + 1]
    <3>1. ~(st.fill >= RingFrames)  BY <1>1, <1>6
    <3> QED  BY <1>2, <3>1 DEF WriteFrame, Stream
  <2> HIDE DEF w, h, t, fl, rg, rg2
  <2> DEFINE more == fl + 1
  <2>2. more \in 0 .. RingFrames /\ more - 1 = fl /\ more > 0  BY <1>1, <1>6
  <2>3. /\ w \in Stream /\ w.head = h /\ w.ring = rg2 /\ w.tail = Place(t, 1)
        /\ w.fill = more /\ w.live = st.live
    BY <1>2, <1>4, <2>1, <2>2 DEF Stream, h
  <2>4. Newest(w) = k
    <3> HIDE DEF more
    <3>1. Newest(w) = rg2[Place(h, more - 1)]  BY <2>2, <2>3, InPlaces
    <3> QED  BY <1>3, <1>4, <2>2, <3>1
  <2>5. Place(t, 1) = Place(h, more)
    <3>1. fl \in 0 .. RingFrames /\ fl < RingFrames  BY <1>1, <1>6
    <3> QED  BY <1>1, <1>3, <3>1, PlaceIs
  <2>6. ASSUME NEW i \in 1 .. fl
        PROVE  rg2[Place(h, i)] = rg2[Place(h, i - 1)] + 1
    <3>1. i \in 0 .. RingFrames - 1 /\ i - 1 \in 0 .. RingFrames - 1 /\ i - 1 # fl
          /\ fl \in 0 .. RingFrames - 1
      BY <1>1, <1>6
    <3>2. Place(h, i - 1) # t /\ (i # fl => Place(h, i) # t)
      <4>1. Place(h, i - 1) # Place(h, fl)  BY <1>1, <3>1, PlacesDiffer
      <4>2. i # fl => Place(h, i) # Place(h, fl)  BY <1>1, <3>1, PlacesDiffer
      <4> QED  BY <1>3, <4>1, <4>2
    <3>3. Place(h, i) \in 0 .. RingFrames - 1 /\ Place(h, i - 1) \in 0 .. RingFrames - 1
      <4>1. i \in 0 .. RingFrames /\ i - 1 \in 0 .. RingFrames  BY <1>1
      <4> QED  BY <1>1, <4>1, PlaceIs
    <3>4. rg2[Place(h, i - 1)] = rg[Place(h, i - 1)]  BY <1>4, <3>2, <3>3
    <3>5. CASE i = fl
      <4>1. rg2[Place(h, i)] = k /\ rg[Place(h, i - 1)] = k - 1  BY <1>1, <1>3, <1>4, <3>5
      <4> QED  BY <3>4, <4>1
    <3>6. CASE i # fl
      <4>1. i \in 1 .. fl - 1  BY <1>1, <3>6
      <4>2. rg[Place(h, i)] = rg[Place(h, i - 1)] + 1  BY <1>3, <4>1
      <4>3. rg2[Place(h, i)] = rg[Place(h, i)]  BY <1>4, <3>2, <3>3, <3>6
      <4> QED  BY <3>4, <4>2, <4>3
    <3> QED  BY <3>5, <3>6
  <2>7. InOrder(w)
    <3> HIDE DEF more
    <3>1. \A i \in 1 .. more - 1 : rg2[Place(h, i)] = rg2[Place(h, i - 1)] + 1
      BY <2>2, <2>6
    <3> QED  BY <2>3, <2>5, <3>1, InPlaces
  <2> QED  BY <2>2, <2>3, <2>4, <2>7 DEF w
<1>7. CASE fl = RingFrames
  <2> DEFINE g == Place(h, 1)
  <2>1. t = h  BY <1>1, <1>3, <1>7, Shifted
  <2>2. w = [st EXCEPT !.head = g, !.ring = rg2, !.tail = g]
    <3>1. st.fill >= RingFrames  BY <1>1, <1>7
    <3> QED  BY <1>2, <2>1, <3>1 DEF WriteFrame, Stream
  <2> HIDE DEF w, h, t, fl, rg, rg2
  <2>3. /\ g \in 0 .. RingFrames - 1 /\ Place(g, RingFrames) = g
        /\ \A i \in 0 .. RingFrames - 1 : Place(g, i) = Place(h, i + 1)
        /\ Place(h, RingFrames) = h
    BY <1>1, Shifted
  <2> HIDE DEF g
  <2>4. /\ w \in Stream /\ w.head = g /\ w.ring = rg2 /\ w.tail = g
        /\ w.fill = RingFrames /\ w.live = st.live
    BY <1>4, <1>7, <2>2, <2>3 DEF Stream, fl
  <2>5. Place(g, RingFrames - 1) = t
    <3>1. RingFrames - 1 \in 0 .. RingFrames - 1 /\ RingFrames - 1 + 1 = RingFrames  BY <1>1
    <3> QED  BY <2>1, <2>3, <3>1
  <2>6. RingFrames > 0  BY <1>1
  <2>7. Newest(w) = k  BY <1>4, <2>4, <2>5, <2>6, InPlaces
  <2>8. ASSUME NEW i \in 1 .. RingFrames - 1
        PROVE  rg2[Place(g, i)] = rg2[Place(g, i - 1)] + 1
    <3>1. /\ i \in 0 .. RingFrames - 1 /\ i - 1 \in 0 .. RingFrames - 1 /\ i - 1 + 1 = i
          /\ 0 \in 0 .. RingFrames - 1
      BY <1>1
    <3>2. Place(g, i) = Place(h, i + 1) /\ Place(g, i - 1) = Place(h, i)  BY <2>3, <3>1
    <3>3. Place(h, i) # t /\ Place(h, i) \in 0 .. RingFrames - 1
      <4>1. i \in 0 .. RingFrames /\ i # 0  BY <1>1
      <4>2. Place(h, 0) = t /\ Place(h, i) \in 0 .. RingFrames - 1
        BY <1>1, <2>1, <4>1, PlaceIs
      <4>3. Place(h, i) # Place(h, 0)  BY <1>1, <3>1, <4>1, PlacesDiffer
      <4> QED  BY <4>2, <4>3
    <3>4. rg2[Place(h, i)] = rg[Place(h, i)]  BY <1>4, <3>3
    <3>5. CASE i = RingFrames - 1
      <4>1. i + 1 = RingFrames /\ i = fl - 1 /\ fl > 0  BY <1>1, <1>7, <3>5
      <4>2. rg2[Place(h, i + 1)] = k  BY <1>4, <2>1, <2>3, <4>1
      <4>3. rg[Place(h, i)] = k - 1  BY <1>3, <4>1
      <4> QED  BY <3>2, <3>4, <4>2, <4>3
    <3>6. CASE i # RingFrames - 1
      <4>1. i + 1 \in 1 .. fl - 1 /\ i + 1 \in 0 .. RingFrames - 1 /\ i + 1 - 1 = i
            /\ i + 1 # 0
        BY <1>1, <1>7, <3>6
      <4>2. rg[Place(h, i + 1)] = rg[Place(h, i)] + 1  BY <1>3, <4>1
      <4>3. Place(h, i + 1) # t /\ Place(h, i + 1) \in 0 .. RingFrames - 1
        <5>1. i + 1 \in 0 .. RingFrames  BY <1>1
        <5>2. Place(h, 0) = t /\ Place(h, i + 1) \in 0 .. RingFrames - 1
          BY <1>1, <2>1, <5>1, PlaceIs
        <5>3. Place(h, i + 1) # Place(h, 0)  BY <1>1, <3>1, <4>1, PlacesDiffer
        <5> QED  BY <5>2, <5>3
      <4>4. rg2[Place(h, i + 1)] = rg[Place(h, i + 1)]  BY <1>4, <4>3
      <4> QED  BY <3>2, <3>4, <4>2, <4>4
    <3> QED  BY <3>5, <3>6
  <2>9. InOrder(w)  BY <2>3, <2>4, <2>8, InPlaces
  <2> QED  BY <2>4, <2>6, <2>7, <2>9 DEF w
<1> QED  BY <1>1, <1>6, <1>7

\* aaudio_cb takes the oldest block.
LEMMA TakeDoes ==
    ASSUME NEW st \in Stream, InOrder(st)
    PROVE  LET w == TakeFrame(st) IN
           /\ w \in Stream /\ InOrder(w) /\ w.live = st.live
           /\ w.fill > 0 => st.fill > 0 /\ Newest(w) = Newest(st)
           /\ st.fill = 0 => w.fill = 0
<1>1. CASE st.corked \/ st.fill = 0
  <2>1. TakeFrame(st) = st  BY <1>1 DEF TakeFrame
  <2> QED  BY <2>1
<1>2. CASE ~(st.corked \/ st.fill = 0)
  <2> DEFINE w == TakeFrame(st)
             h == st.head
             fl == st.fill
             rg == st.ring
             h2 == Place(h, 1)
  <2>1. /\ RingFrames \in Nat \ {0} /\ h \in 0 .. RingFrames - 1 /\ fl \in 1 .. RingFrames
        /\ st.tail \in 0 .. RingFrames - 1 /\ rg \in [0 .. RingFrames - 1 -> Nat]
    BY <1>2, PulseAssumption DEF Stream
  <2>2. (h + 1) % RingFrames = h2
    <3>1. 1 \in 0 .. RingFrames  BY <2>1
    <3> HIDE DEF h
    <3> QED  BY <2>1, <3>1, PlaceIs
  <2>3. w = [st EXCEPT !.head = h2, !.fill = fl - 1]
    BY <1>2, <2>2 DEF TakeFrame, Stream
  <2>4. /\ st.tail = Place(h, fl)
        /\ \A i \in 1 .. fl - 1 : rg[Place(h, i)] = rg[Place(h, i - 1)] + 1
        /\ Newest(st) = rg[Place(h, fl - 1)]
    BY <2>1, InPlaces
  <2> HIDE DEF h, fl, rg
  <2>5. h2 \in 0 .. RingFrames - 1 /\ fl - 1 \in 0 .. RingFrames  BY <2>1 DEF Place
  <2>6. \A i \in 0 .. fl - 1 : Place(h2, i) = Place(h, i + 1)  BY <2>1 DEF Place
  <2> HIDE DEF h2, w
  <2>7. /\ w \in Stream /\ w.head = h2 /\ w.ring = rg /\ w.tail = st.tail /\ w.fill = fl - 1
        /\ w.live = st.live
    BY <2>3, <2>5 DEF Stream, rg
  <2>8. Place(h2, fl - 1) = Place(h, fl)
    <3>1. fl - 1 \in 0 .. fl - 1 /\ fl - 1 + 1 = fl  BY <2>1
    <3> QED  BY <2>6, <3>1
  <2>9. ASSUME NEW i \in 1 .. fl - 2
        PROVE  rg[Place(h2, i)] = rg[Place(h2, i - 1)] + 1
    <3>1. /\ i \in 0 .. fl - 1 /\ i - 1 \in 0 .. fl - 1 /\ i + 1 \in 1 .. fl - 1
          /\ i + 1 - 1 = i /\ i - 1 + 1 = i
      BY <2>1
    <3>2. Place(h2, i) = Place(h, i + 1) /\ Place(h2, i - 1) = Place(h, i)  BY <2>6, <3>1
    <3>3. rg[Place(h, i + 1)] = rg[Place(h, i)] + 1  BY <2>4, <3>1
    <3> QED  BY <3>2, <3>3
  <2>10. fl - 1 > 0 => Newest(w) = Newest(st)
    <3> SUFFICES ASSUME fl - 1 > 0 PROVE Newest(w) = Newest(st)  OBVIOUS
    <3>1. fl - 2 \in 0 .. fl - 1 /\ fl - 2 + 1 = fl - 1 /\ fl - 1 - 1 = fl - 2  BY <2>1
    <3>2. Place(h2, fl - 2) = Place(h, fl - 1)  BY <2>6, <3>1
    <3>3. Newest(w) = rg[Place(h2, fl - 2)]  BY <2>7, <3>1, InPlaces
    <3> QED  BY <2>4, <3>2, <3>3
  <2>11. InOrder(w)
    <3>1. fl - 1 - 1 = fl - 2  BY <2>1
    <3> QED  BY <2>4, <2>7, <2>8, <2>9, <3>1, InPlaces
  <2>12. fl > 0 /\ fl # 0  BY <2>1
  <2> QED  BY <2>7, <2>10, <2>11, <2>12 DEF w, fl
<1> QED  BY <1>1, <1>2

-----------------------------------------------------------------------------
(* Numbered messages: those of kinds k in q are a + 1 .. b, in order.       *)

LEMMA TurnMeans ==
    ASSUME NEW q, NEW k, NEW a \in Nat, NEW b \in Nat
    PROVE  InTurn(q, k, a, b) <=>
             /\ a <= b
             /\ \A i \in DOMAIN q : q[i].kind \in k => q[i].n \in a + 1 .. b
             /\ \A v \in a + 1 .. b : \E i \in DOMAIN q : q[i].kind \in k /\ q[i].n = v
             /\ \A i, j \in DOMAIN q :
                  q[i].kind \in k /\ q[j].kind \in k /\ i < j => q[i].n < q[j].n
<1> DEFINE at == {i \in DOMAIN q : q[i].kind \in k}
           R == a + 1 .. b
<1>1. ({q[i].n : i \in at} = R) <=>
        /\ \A i \in DOMAIN q : q[i].kind \in k => q[i].n \in R
        /\ \A v \in R : \E i \in DOMAIN q : q[i].kind \in k /\ q[i].n = v
  <2> HIDE DEF R
  <2> QED  OBVIOUS
<1>2. InTurn(q, k, a, b) <=>
        /\ a <= b /\ {q[i].n : i \in at} = R
        /\ \A i, j \in at : i < j => q[i].n < q[j].n
  BY DEF InTurn
<1>3. (\A i, j \in at : i < j => q[i].n < q[j].n) <=>
        \A i, j \in DOMAIN q : q[i].kind \in k /\ q[j].kind \in k /\ i < j => q[i].n < q[j].n
  OBVIOUS
<1> QED  BY <1>1, <1>2, <1>3

LEMMA TurnEmpty == ASSUME NEW k, NEW b \in Nat PROVE InTurn(<<>>, k, b, b)
<1>1. DOMAIN <<>> = {} /\ b + 1 .. b = {} /\ b <= b  OBVIOUS
<1> QED  BY <1>1, TurnMeans

LEMMA TurnAppend ==
    ASSUME NEW S, NEW q \in Seq(S), NEW x \in S, NEW k, NEW a \in Nat, NEW b \in Nat,
           InTurn(q, k, a, b), x.kind \in k => x.n = b + 1
    PROVE  InTurn(Append(q, x), k, a, b + (IF x.kind \in k THEN 1 ELSE 0))
<1> DEFINE r == Append(q, x)
           m == Len(q)
           c == b + (IF x.kind \in k THEN 1 ELSE 0)
<1>1. /\ m \in Nat /\ DOMAIN q = 1 .. m /\ DOMAIN r = 1 .. m + 1 /\ r[m + 1] = x
      /\ \A i \in 1 .. m : r[i] = q[i]
  <2>1. r \in Seq(S) /\ Len(r) = m + 1 /\ m \in Nat  OBVIOUS
  <2>2. DOMAIN r = 1 .. Len(r) /\ DOMAIN q = 1 .. m  BY <2>1
  <2>3. r[m + 1] = x /\ \A i \in 1 .. m : r[i] = q[i]  OBVIOUS
  <2> HIDE DEF r, m
  <2> QED  BY <2>1, <2>2, <2>3
<1>2. /\ a <= b
      /\ \A i \in 1 .. m : q[i].kind \in k => q[i].n \in a + 1 .. b
      /\ \A v \in a + 1 .. b : \E i \in 1 .. m : q[i].kind \in k /\ q[i].n = v
      /\ \A i, j \in 1 .. m : q[i].kind \in k /\ q[j].kind \in k /\ i < j => q[i].n < q[j].n
  <2>1. /\ a <= b
        /\ \A i \in DOMAIN q : q[i].kind \in k => q[i].n \in a + 1 .. b
        /\ \A v \in a + 1 .. b : \E i \in DOMAIN q : q[i].kind \in k /\ q[i].n = v
        /\ \A i, j \in DOMAIN q :
             q[i].kind \in k /\ q[j].kind \in k /\ i < j => q[i].n < q[j].n
    BY TurnMeans
  <2>2. DOMAIN q = 1 .. m  BY <1>1
  <2> HIDE DEF m
  <2> QED  BY <2>1, <2>2
<1>3. c \in Nat /\ b <= c /\ (x.kind \in k => x.n = c /\ c = b + 1) /\ (x.kind \notin k => c = b)
  OBVIOUS
<1> HIDE DEF r, m, c
<1>4. \A i \in 1 .. m + 1 : i \in 1 .. m \/ i = m + 1  BY <1>1
<1>5. \A i \in 1 .. m + 1 : r[i].kind \in k => r[i].n \in a + 1 .. c
  <2> SUFFICES ASSUME NEW i \in 1 .. m + 1, r[i].kind \in k PROVE r[i].n \in a + 1 .. c  OBVIOUS
  <2>1. CASE i \in 1 .. m
    <3>1. r[i].n \in a + 1 .. b  BY <1>1, <1>2, <2>1
    <3> QED  BY <1>3, <3>1
  <2>2. CASE i = m + 1
    <3>1. r[i].n = c /\ c = b + 1  BY <1>1, <1>3, <2>2
    <3> QED  BY <1>2, <1>3, <3>1
  <2> QED  BY <1>4, <2>1, <2>2
<1>6. ASSUME NEW v \in a + 1 .. c PROVE \E i \in 1 .. m + 1 : r[i].kind \in k /\ r[i].n = v
  <2>1. CASE v \in a + 1 .. b
    <3>1. PICK i \in 1 .. m : q[i].kind \in k /\ q[i].n = v  BY <1>2, <2>1
    <3>2. i \in 1 .. m + 1 /\ r[i] = q[i]  BY <1>1
    <3> QED  BY <3>1, <3>2
  <2>2. CASE v \notin a + 1 .. b
    <3>1. c # b  BY <2>2
    <3>2. x.kind \in k /\ x.n = c /\ c = b + 1  BY <1>3, <3>1
    <3>3. v = c  BY <1>3, <2>2, <3>2
    <3>4. m + 1 \in 1 .. m + 1  BY <1>1
    <3> QED  BY <1>1, <3>2, <3>3, <3>4
  <2> QED  BY <2>1, <2>2
<1>7. ASSUME NEW i \in 1 .. m + 1, NEW j \in 1 .. m + 1, r[i].kind \in k, r[j].kind \in k, i < j
      PROVE  r[i].n < r[j].n
  <2>1. i \in 1 .. m  BY <1>1, <1>7
  <2>2. CASE j \in 1 .. m  BY <1>1, <1>2, <1>7, <2>1, <2>2
  <2>3. CASE j = m + 1
    <3>1. r[j].n = b + 1  BY <1>1, <1>3, <1>7, <2>3
    <3>2. r[i].n \in a + 1 .. b  BY <1>1, <1>2, <1>7, <2>1
    <3> QED  BY <3>1, <3>2
  <2> QED  BY <1>4, <2>2, <2>3
<1>8. a <= c  BY <1>2, <1>3
<1>9. InTurn(r, k, a, c)  BY <1>1, <1>3, <1>5, <1>6, <1>7, <1>8, TurnMeans
<1> QED  BY <1>9 DEF r, c

LEMMA TurnTail ==
    ASSUME NEW S, NEW q \in Seq(S), q # <<>>, NEW k, NEW a \in Nat, NEW b \in Nat,
           InTurn(q, k, a, b)
    PROVE  /\ Head(q).kind \in k => Head(q).n = a + 1 /\ InTurn(Tail(q), k, a + 1, b)
           /\ Head(q).kind \notin k => InTurn(Tail(q), k, a, b)
<1> DEFINE r == Tail(q)
           m == Len(q)
           x == Head(q)
<1>1. /\ m \in Nat \ {0} /\ DOMAIN q = 1 .. m /\ DOMAIN r = 1 .. m - 1 /\ x = q[1]
      /\ \A i \in 1 .. m - 1 : r[i] = q[i + 1]
  <2>1. r \in Seq(S) /\ Len(r) = m - 1 /\ m \in Nat \ {0}  OBVIOUS
  <2>2. DOMAIN r = 1 .. Len(r) /\ DOMAIN q = 1 .. m  BY <2>1
  <2>3. x = q[1] /\ \A i \in 1 .. m - 1 : r[i] = q[i + 1]  OBVIOUS
  <2> HIDE DEF r, m, x
  <2> QED  BY <2>1, <2>2, <2>3
<1>2. /\ a <= b
      /\ \A i \in 1 .. m : q[i].kind \in k => q[i].n \in a + 1 .. b
      /\ \A v \in a + 1 .. b : \E i \in 1 .. m : q[i].kind \in k /\ q[i].n = v
      /\ \A i, j \in 1 .. m : q[i].kind \in k /\ q[j].kind \in k /\ i < j => q[i].n < q[j].n
  <2>1. /\ a <= b
        /\ \A i \in DOMAIN q : q[i].kind \in k => q[i].n \in a + 1 .. b
        /\ \A v \in a + 1 .. b : \E i \in DOMAIN q : q[i].kind \in k /\ q[i].n = v
        /\ \A i, j \in DOMAIN q :
             q[i].kind \in k /\ q[j].kind \in k /\ i < j => q[i].n < q[j].n
    BY TurnMeans
  <2>2. DOMAIN q = 1 .. m  BY <1>1
  <2> HIDE DEF m
  <2> QED  BY <2>1, <2>2
<1> HIDE DEF r, m, x
<1>3. 1 \in 1 .. m /\ \A i \in 1 .. m : i # 1 => i - 1 \in 1 .. m - 1 /\ (i - 1) + 1 = i /\ 1 < i
  BY <1>1
<1>4. \A i \in 1 .. m - 1 : i + 1 \in 1 .. m /\ 1 < i + 1  BY <1>1
<1>5. \A i, j \in 1 .. m - 1 : r[i].kind \in k /\ r[j].kind \in k /\ i < j => r[i].n < r[j].n
  <2> SUFFICES ASSUME NEW i \in 1 .. m - 1, NEW j \in 1 .. m - 1,
                      r[i].kind \in k, r[j].kind \in k, i < j
               PROVE  r[i].n < r[j].n
    OBVIOUS
  <2>1. i + 1 < j + 1  BY <1>1
  <2> QED  BY <1>1, <1>2, <1>4, <2>1
<1>6. ASSUME NEW v \in a + 1 .. b, ~(x.kind \in k /\ x.n = v)
      PROVE  \E i \in 1 .. m - 1 : r[i].kind \in k /\ r[i].n = v
  <2>1. PICK i \in 1 .. m : q[i].kind \in k /\ q[i].n = v  BY <1>2
  <2>2. i # 1  BY <1>1, <1>6, <2>1
  <2>3. i - 1 \in 1 .. m - 1 /\ (i - 1) + 1 = i  BY <1>3, <2>2
  <2>4. r[i - 1] = q[i]  BY <1>1, <2>3
  <2> QED  BY <2>1, <2>3, <2>4
<1>7. CASE x.kind \in k
  <2>1. x.n \in a + 1 .. b  BY <1>1, <1>2, <1>3, <1>7
  <2>2. x.n = a + 1
    <3>1. a + 1 \in a + 1 .. b  BY <2>1
    <3>2. PICK i \in 1 .. m : q[i].kind \in k /\ q[i].n = a + 1  BY <1>2, <3>1
    <3>3. i # 1 => x.n < a + 1  BY <1>1, <1>2, <1>3, <1>7, <3>2
    <3> QED  BY <1>1, <2>1, <3>2, <3>3
  <2> DEFINE d == a + 1
  <2>3. d \in Nat /\ d <= b  BY <2>1
  <2>4. \A i \in 1 .. m - 1 : r[i].kind \in k => r[i].n \in d + 1 .. b
    <3> SUFFICES ASSUME NEW i \in 1 .. m - 1, r[i].kind \in k PROVE r[i].n \in d + 1 .. b
      OBVIOUS
    <3>1. r[i] = q[i + 1] /\ i + 1 \in 1 .. m /\ 1 < i + 1  BY <1>1, <1>4
    <3>2. r[i].n \in a + 1 .. b /\ x.n < r[i].n  BY <1>1, <1>2, <1>3, <1>7, <3>1
    <3> QED  BY <2>2, <3>2
  <2>5. ASSUME NEW v \in d + 1 .. b PROVE \E i \in 1 .. m - 1 : r[i].kind \in k /\ r[i].n = v
    <3>1. v \in a + 1 .. b /\ x.n # v  BY <2>2
    <3> QED  BY <1>6, <3>1
  <2>6. InTurn(r, k, d, b)
    <3> HIDE DEF d
    <3> QED  BY <1>1, <1>5, <2>3, <2>4, <2>5, TurnMeans
  <2> QED  BY <1>7, <2>2, <2>6 DEF r, x
<1>8. CASE x.kind \notin k
  <2>1. \A i \in 1 .. m - 1 : r[i].kind \in k => r[i].n \in a + 1 .. b
    BY <1>1, <1>2, <1>4
  <2>2. \A v \in a + 1 .. b : \E i \in 1 .. m - 1 : r[i].kind \in k /\ r[i].n = v
    BY <1>6, <1>8
  <2>3. InTurn(r, k, a, b)  BY <1>1, <1>2, <1>5, <2>1, <2>2, TurnMeans
  <2> QED  BY <1>8, <2>3 DEF r, x
<1> QED  BY <1>7, <1>8

-----------------------------------------------------------------------------
(* The server's invariant                                                  *)

\* The newest block in the ring is the one before those on their way.
Data == {"data"}
Continues(st, q, b) == \E a \in Nat : InTurn(q, Data, a, b) /\ (st.fill > 0 => Newest(st) = a)
Unread(c) == rbuf[c] \o c2s[c]
BlocksOK == \A c \in Clients : Continues(stream[c], Unread(c), peer[c].blocks)

AudioInv == PlaceOK /\ ClientsOK /\ AnswersOK /\ StreamsOK /\ BlocksOK

LEMMA InOrderIsRing ==
    StreamsOK => RingHoldsNewest
  BY DEF StreamsOK, InOrder, RingHoldsNewest

LEMMA NoStreamIs ==
    LET z == NoStream IN
           z \in Stream /\ InOrder(z) /\ z.fill = 0 /\ ~z.live
<1> DEFINE z == NoStream
<1>1. RingFrames \in Nat \ {0}  BY PulseAssumption
<1>2. z \in Stream /\ z.fill = 0 /\ z.head = 0 /\ z.tail = 0 /\ z.live = FALSE
  BY <1>1 DEF NoStream, Stream
<1>3. Place(0, 0) = 0 /\ 1 .. 0 - 1 = {}  BY <1>1 DEF Place
<1> HIDE DEF z
<1>4. InOrder(z)  BY <1>2, <1>3, InPlaces
<1> QED  BY <1>2, <1>4 DEF z

LEMMA UnreadTyped ==
    ASSUME ClientsOK, NEW c \in Clients
    PROVE  /\ Unread(c) \in Seq(Frames) /\ peer[c].blocks \in Nat
           /\ rbuf[c] \in Seq(Frames) /\ c2s[c] \in Seq(Frames)
<1>1. rbuf[c] \in Seq(Frames) /\ c2s[c] \in Seq(Frames)  BY DEF ClientsOK
<1>2. peer[c].blocks \in Nat  BY DEF ClientsOK, PeerState
<1>3. rbuf[c] \o c2s[c] \in Seq(Frames)  BY <1>1
<1> QED  BY <1>1, <1>2, <1>3 DEF Unread

\* A client or a stream that starts again is in order.
LEMMA ContinuesEmpty ==
    ASSUME NEW st, NEW b \in Nat, st.fill = 0
    PROVE  Continues(st, <<>>, b)
<1>1. ~(st.fill > 0)  OBVIOUS
<1> QED  BY <1>1, TurnEmpty DEF Continues

\* A frame a client sends.
LEMMA ContinuesSent ==
    ASSUME NEW st, NEW S, NEW q \in Seq(S), NEW x \in S, NEW b \in Nat, Continues(st, q, b),
           x.kind \in Data => x.n = b + 1
    PROVE  Continues(st, Append(q, x), b + (IF x.kind \in Data THEN 1 ELSE 0))
<1>1. PICK a \in Nat : InTurn(q, Data, a, b) /\ (st.fill > 0 => Newest(st) = a)  BY DEF Continues
<1>2. InTurn(Append(q, x), Data, a, b + (IF x.kind \in Data THEN 1 ELSE 0))  BY <1>1, TurnAppend
<1> QED  BY <1>1, <1>2 DEF Continues

\* A stream that has no newer block than before, or none at all.
LEMMA ContinuesPlayed ==
    ASSUME NEW st, NEW w, NEW q, NEW b, Continues(st, q, b),
           w.fill > 0 => st.fill > 0 /\ Newest(w) = Newest(st)
    PROVE  Continues(w, q, b)
  BY DEF Continues

\* A frame that drain_frames takes: anything but data, data for no stream, data.
LEMMA ContinuesTaken ==
    ASSUME NEW st, NEW w, NEW S, NEW q \in Seq(S), q # <<>>, NEW b \in Nat,
           Continues(st, q, b), Head(q).kind \notin Data \/ w.fill = 0,
           w.fill > 0 => st.fill > 0 /\ Newest(w) = Newest(st)
    PROVE  Continues(w, Tail(q), b)
<1>1. PICK a \in Nat : InTurn(q, Data, a, b) /\ (st.fill > 0 => Newest(st) = a)  BY DEF Continues
<1>2. /\ Head(q).kind \in Data => Head(q).n = a + 1 /\ InTurn(Tail(q), Data, a + 1, b)
      /\ Head(q).kind \notin Data => InTurn(Tail(q), Data, a, b)
  BY <1>1, TurnTail
<1>3. CASE Head(q).kind \in Data
  <2>1. ~(w.fill > 0) /\ a + 1 \in Nat  BY <1>3
  <2> QED  BY <1>2, <1>3, <2>1 DEF Continues
<1>4. CASE Head(q).kind \notin Data  BY <1>1, <1>2, <1>4 DEF Continues
<1> QED  BY <1>3, <1>4

LEMMA ContinuesWritten ==
    ASSUME NEW st \in Stream, InOrder(st), NEW S, NEW q \in Seq(S),
           q # <<>>, NEW b \in Nat, Continues(st, q, b), Head(q).kind \in Data
    PROVE  LET w == [WriteFrame(st, Head(q).n) EXCEPT !.started = TRUE] IN
           w \in Stream /\ InOrder(w) /\ w.live = st.live /\ Continues(w, Tail(q), b)
<1> DEFINE k == Head(q).n
           v == WriteFrame(st, k)
           w == [v EXCEPT !.started = TRUE]
<1>1. PICK a \in Nat : InTurn(q, Data, a, b) /\ (st.fill > 0 => Newest(st) = a)  BY DEF Continues
<1>2. k = a + 1 /\ InTurn(Tail(q), Data, a + 1, b)  BY <1>1, TurnTail
<1> HIDE DEF k
<1>3. k \in Nat /\ k - 1 = a  BY <1>2
<1>4. v \in Stream /\ InOrder(v) /\ v.fill > 0 /\ Newest(v) = k /\ v.live = st.live
  BY <1>1, <1>3, WriteDoes
<1> HIDE DEF v
<1>5. /\ w \in Stream /\ w.head = v.head /\ w.tail = v.tail /\ w.fill = v.fill
      /\ w.ring = v.ring /\ w.live = v.live
  BY <1>4 DEF Stream
<1> HIDE DEF w
<1>6. InOrder(w) /\ Newest(w) = k  BY <1>4, <1>5 DEF InOrder, Newest
<1>7. Continues(w, Tail(q), b)  BY <1>2, <1>3, <1>6 DEF Continues
<1> QED  BY <1>4, <1>5, <1>6, <1>7 DEF w, v, k

\* The mixer, client by client.
LEMMA Mixing ==
    ASSUME StreamsOK
    PROVE  /\ \A d \in mixed : d \in Clients /\ d \in known /\ stream[d].live
           /\ \A d \in Clients : stream[d].live => d \in known /\ d \in mixed \cup robbed
  BY DEF StreamsOK, MixerFollowsClients

\* What a step may do to the mixer when it gives client c the stream w: a stream that
\* leaves it is c's own, or its client is robbed.
MixerStep(c, w) ==
    /\ mixed' \subseteq mixed \cup {c}
    /\ \A d \in mixed \cup robbed : d # c => d \in mixed' \cup robbed'
    /\ c \in mixed' => w.live
    /\ w.live => c \in mixed' \cup robbed'

\* A step that touches neither clients nor streams.
LEMMA IdleStep ==
    ASSUME AudioInv, UNCHANGED <<known, mixed, stream, robbed, peer, rbuf, wbuf, c2s, s2c>>
    PROVE  ClientsOK' /\ AnswersOK' /\ StreamsOK' /\ BlocksOK'
<1>1. ClientsOK'  BY DEF AudioInv, ClientsOK
<1>2. AnswersOK'  BY DEF AudioInv, AnswersOK
<1>3. StreamsOK'  BY DEF AudioInv, StreamsOK, MixerFollowsClients
<1>4. BlocksOK'  BY DEF AudioInv, BlocksOK, Unread
<1> QED  BY <1>1, <1>2, <1>3, <1>4

\* alr_audio_sink_start and _stop up to the join, and the loop's own steps.
LEMMA ControlKeeps ==
    ASSUME AudioInv,
           \/ SinkStart \/ SinkStop \/ StopWakes \/ StopJoins
           \/ EpollTest \/ EpollWait \/ OthersReady \/ OnWakeup \/ CallbackWaits
    PROVE  AudioInv'
<1>1. UNCHANGED <<known, mixed, stream, robbed, peer, rbuf, wbuf, c2s, s2c>>
  BY DEF SinkStart, SinkStop, StopWakes, StopJoins, EpollTest,
         EpollWait, OthersReady, OnWakeup, CallbackWaits, pcm
<1>2. PlaceOK'
  <2>1. PlaceOK  BY DEF AudioInv
  <2> QED
    BY <1>1, <2>1
    DEF PlaceOK, SinkStart, SinkStop, StopWakes, StopJoins,
        EpollTest, EpollWait, OthersReady, OnWakeup, CallbackWaits, TakeEvent, loop,
        control
<1> QED  BY <1>1, <1>2, IdleStep DEF AudioInv

\* What a client does to its own end: the new peer record and the frames it sent.
LEMMA PeerStep ==
    ASSUME AudioInv, NEW c \in Clients, NEW p \in PeerState, NEW q \in Seq(Frames),
           UNCHANGED <<ctl, thread, pc, cur, known, mixed, stream, robbed, rbuf>>,
           peer' = [peer EXCEPT ![c] = p], c2s' = [c2s EXCEPT ![c] = q], AnswersOK',
           (p.state \in {"open", "shut"}) <=> (peer[c].state \in {"open", "shut"}),
           Continues(stream[c], rbuf[c] \o q, p.blocks)
    PROVE  AudioInv'
<1>1. ClientsOK /\ PlaceOK /\ StreamsOK /\ BlocksOK  BY DEF AudioInv
<1>2. peer \in [Clients -> PeerState] /\ c2s \in [Clients -> Seq(Frames)]
  BY <1>1 DEF ClientsOK
<1>3. /\ peer' \in [Clients -> PeerState] /\ c2s' \in [Clients -> Seq(Frames)]
      /\ peer'[c] = p /\ c2s'[c] = q
      /\ \A d \in Clients : d # c => peer'[d] = peer[d] /\ c2s'[d] = c2s[d]
  BY <1>2
<1>4. \A d \in Clients : d \in known <=> peer'[d].state \in {"open", "shut"}
  BY <1>1, <1>3 DEF ClientsOK
<1>5. ClientsOK'  BY <1>1, <1>3, <1>4 DEF ClientsOK
<1>6. PlaceOK'  BY <1>1 DEF PlaceOK
<1>7. StreamsOK'  BY <1>1 DEF StreamsOK, MixerFollowsClients
<1>8. ASSUME NEW d \in Clients
      PROVE  Continues(stream[d], rbuf[d] \o c2s'[d], peer'[d].blocks)
  <2>1. CASE d = c  BY <1>3, <2>1
  <2>2. CASE d # c  BY <1>1, <1>3, <2>2 DEF BlocksOK, Unread
  <2> QED  BY <2>1, <2>2
<1>9. BlocksOK'  BY <1>8 DEF BlocksOK, Unread
<1> QED  BY <1>5, <1>6, <1>7, <1>9 DEF AudioInv

LEMMA PeerNumbers ==
    ASSUME NEW r \in PeerState
    PROVE  r.tags + 1 \in Nat /\ r.blocks + 1 \in Nat /\ r.acked \in Nat /\ r.credit \in Int
  BY DEF PeerState

LEMMA PeerAcks ==
    ASSUME NEW r \in PeerState, NEW k \in Nat, NEW z \in Int
    PROVE  LET p == [r EXCEPT !.acked = k, !.credit = z] IN
           p \in PeerState /\ p.state = r.state /\ p.blocks = r.blocks
  BY DEF PeerState

LEMMA PeerSends ==
    ASSUME NEW r \in PeerState, NEW k \in Nat, NEW z \in Int
    PROVE  LET p == [r EXCEPT !.blocks = k, !.credit = z] IN
           p \in PeerState /\ p.state = r.state /\ p.blocks = k
  BY DEF PeerState

LEMMA PeerAsks ==
    ASSUME NEW r \in PeerState, NEW k \in Nat, NEW b \in BOOLEAN
    PROVE  LET p == [r EXCEPT !.tags = k, !.created = b] IN
           p \in PeerState /\ p.state = r.state /\ p.blocks = r.blocks
  BY DEF PeerState

\* A frame sent after those on their way.
LEMMA AppendLast ==
    ASSUME NEW p \in Seq(Frames), NEW q \in Seq(Frames), NEW x \in Frames
    PROVE  p \o Append(q, x) = Append(p \o q, x)
<1>1. p \o Append(q, x) \in Seq(Frames) /\ Append(p \o q, x) \in Seq(Frames)
  OBVIOUS
<1>2. Len(p \o Append(q, x)) = Len(Append(p \o q, x))  OBVIOUS
<1>3. \A i \in 1 .. Len(p) + Len(q) + 1 : (p \o Append(q, x))[i] = Append(p \o q, x)[i]
  OBVIOUS
<1> QED  BY <1>1, <1>2, <1>3

LEMMA ClientKeeps ==
    ASSUME AudioInv, NEW c \in Clients,
           \/ Connect(c) \/ SendData(c) \/ SendOversized(c)
           \/ Receive(c) \/ Shut(c)
           \/ \E kind \in Requests : SendRequest(c, kind)
    PROVE  AudioInv'
<1> DEFINE r == peer[c]
           q == c2s[c]
<1>1. /\ ClientsOK /\ AnswersOK /\ peer \in [Clients -> PeerState] /\ r \in PeerState
      /\ c2s \in [Clients -> Seq(Frames)]
  BY DEF AudioInv, ClientsOK
<1>2. /\ Unread(c) \in Seq(Frames) /\ r.blocks \in Nat
      /\ rbuf[c] \in Seq(Frames) /\ q \in Seq(Frames)
  BY <1>1, UnreadTyped
<1>3. Continues(stream[c], Unread(c), r.blocks)  BY DEF AudioInv, BlocksOK
<1>4. Unread(c) = rbuf[c] \o q  BY DEF Unread
<1>5. q = c2s[c] /\ c2s = [c2s EXCEPT ![c] = q]  BY <1>1
<1>6. CASE Connect(c) \/ Shut(c)
  <2>1. PICK z \in {"pending", "shut"} :
          /\ peer' = [peer EXCEPT ![c].state = z] /\ (z = "pending" <=> r.state = "new")
          /\ r.state \in {"new", "open"}
    BY <1>6 DEF Connect, Shut
  <2> DEFINE p == [r EXCEPT !.state = z]
  <2>2. p \in PeerState /\ p.state = z /\ p.blocks = r.blocks  BY <1>1 DEF PeerState
  <2>3. peer' = [peer EXCEPT ![c] = p]  BY <1>1, <2>1
  <2>4. UNCHANGED <<ctl, thread, pc, cur, known, mixed, stream, robbed, rbuf, c2s, wbuf, s2c>>
    BY <1>6 DEF Connect, Shut, control, loop, pcm
  <2>5. AnswersOK'  BY <1>1, <2>4 DEF AnswersOK
  <2>6. (p.state \in {"open", "shut"}) <=> (r.state \in {"open", "shut"})  BY <2>1, <2>2
  <2> HIDE DEF p, q
  <2> QED  BY <1>2, <1>3, <1>4, <1>5, <2>2, <2>3, <2>4, <2>5, <2>6, PeerStep
<1>7. CASE Receive(c)
  <2> DEFINE m == Head(s2c[c])
             answers == m.kind \in {"reply", "created"}
             grant == IF m.kind = "request" THEN m.n ELSE IF m.kind = "created" THEN TLength ELSE 0
             p == [r EXCEPT !.acked = IF answers THEN m.n ELSE @, !.credit = @ + grant]
  <2>1. /\ s2c[c] # <<>> /\ s2c' = [s2c EXCEPT ![c] = Tail(@)]
        /\ UNCHANGED <<ctl, thread, pc, cur, known, mixed, stream, robbed, rbuf, c2s, wbuf>>
    BY <1>7 DEF Receive, control, loop, pcm
  <2>2. peer' = [peer EXCEPT ![c] = p]
    <3>1. peer' = [peer EXCEPT ![c].acked = IF answers THEN m.n ELSE @, ![c].credit = @ + grant]
      BY <1>7 DEF Receive
    <3> HIDE DEF answers, m, grant
    <3> QED  BY <1>1, <3>1
  <2>3. s2c[c] \in Seq(Messages)  BY <1>1 DEF AnswersOK
  <2>4. m \in Messages /\ Tail(s2c[c]) \in Seq(Messages)
        /\ Len(Tail(s2c[c])) = Len(s2c[c]) - 1 /\ Len(s2c[c]) \in Nat
    BY <2>1, <2>3
  <2>5. m.n \in Nat /\ grant \in Nat  BY <2>4, PulseAssumption DEF Messages
  <2>6. p \in PeerState /\ p.state = r.state /\ p.blocks = r.blocks
    <3> DEFINE k == IF answers THEN m.n ELSE r.acked
               z == r.credit + grant
    <3> HIDE DEF grant, m, answers, r
    <3>1. r.acked \in Nat /\ r.credit \in Int  BY <1>1, PeerNumbers
    <3>2. k \in Nat /\ z \in Int  BY <2>5, <3>1
    <3>3. p = [r EXCEPT !.acked = k, !.credit = z]  OBVIOUS
    <3> HIDE DEF k, z, p
    <3> QED  BY <1>1, <3>2, <3>3, PeerAcks
  <2>7. AnswersOK'
    <3>1. s2c' \in [Clients -> Seq(Messages)]  BY <1>1, <2>1, <2>4 DEF AnswersOK
    <3>2. \A d \in Clients : Len(s2c'[d]) <= SockCap
      BY <1>1, <2>1, <2>4, PulseAssumption DEF AnswersOK
    <3> QED  BY <1>1, <2>1, <3>1, <3>2 DEF AnswersOK
  <2> HIDE DEF p, q
  <2> QED  BY <1>2, <1>3, <1>4, <1>5, <2>1, <2>2, <2>6, <2>7, PeerStep
<1>8. CASE \/ SendData(c) \/ SendOversized(c)
           \/ \E kind \in Requests : SendRequest(c, kind)
  <2>1. UNCHANGED <<ctl, thread, pc, cur, known, mixed, stream, robbed, rbuf, wbuf, s2c>>
    BY <1>8 DEF SendData, SendOversized, SendRequest, control,
                loop, pcm
  <2>2. AnswersOK'  BY <1>1, <2>1 DEF AnswersOK
  <2>3. PICK x \in Frames, p \in PeerState :
          /\ peer' = [peer EXCEPT ![c] = p] /\ c2s' = [c2s EXCEPT ![c] = Append(q, x)]
          /\ p.state = r.state /\ p.blocks = r.blocks + (IF x.kind \in Data THEN 1 ELSE 0)
          /\ x.kind \in Data => x.n = r.blocks + 1
    <3>1. CASE SendData(c)
      <4> DEFINE x == [kind |-> "data", n |-> r.blocks + 1]
                 p == [r EXCEPT !.blocks = @ + 1, !.credit = @ - 1]
      <4>1. x \in Frames /\ x.kind \in Data /\ x.n = r.blocks + 1
        BY <1>2 DEF Frames, Data
      <4>2. p \in PeerState /\ p.state = r.state /\ p.blocks = r.blocks + 1
        <5> DEFINE k == r.blocks + 1
                   z == r.credit - 1
        <5> HIDE DEF r
        <5>1. k \in Nat /\ z \in Int /\ p = [r EXCEPT !.blocks = k, !.credit = z]
          BY <1>1, PeerNumbers
        <5> HIDE DEF k, z, p, x, q
        <5>3. r \in PeerState  BY <1>1
        <5>2. p \in PeerState  BY <5>1, <5>3, PeerSends
        <5>4. p.state = r.state  BY <5>1, <5>3, PeerSends
        <5>5. p.blocks = k  BY <5>1, <5>3, PeerSends
        <5> QED  BY <5>2, <5>4, <5>5 DEF k
      <4>3. peer' = [peer EXCEPT ![c] = p] /\ c2s' = [c2s EXCEPT ![c] = Append(q, x)]
        <5>1. peer' = [peer EXCEPT ![c].blocks = @ + 1, ![c].credit = @ - 1]
          BY <3>1 DEF SendData
        <5>2. c2s' = [c2s EXCEPT ![c] = Append(q, x)]  BY <1>1, <3>1 DEF SendData
        <5> QED  BY <1>1, <5>1, <5>2
      <4> HIDE DEF x, p
      <4> QED  BY <4>1, <4>2, <4>3
    <3>2. CASE SendOversized(c)
      <4> DEFINE x == [kind |-> "bad", n |-> 0]
      <4>1. x \in Frames /\ x.kind \notin Data  BY DEF Frames, Data
      <4>2. q = <<>> /\ c2s' = [c2s EXCEPT ![c] = <<x>>] /\ peer' = peer
        BY <3>2 DEF SendOversized
      <4> HIDE DEF x
      <4>3. Append(<<>>, x) = <<x>>  OBVIOUS
      <4>4. peer' = [peer EXCEPT ![c] = r]  BY <1>1, <4>2
      <4>5. r.blocks = r.blocks + 0  BY <1>2
      <4> HIDE DEF q, r
      <4> QED  BY <1>1, <4>1, <4>2, <4>3, <4>4, <4>5
    <3>3. CASE \E kind \in Requests : SendRequest(c, kind)
      <4>1. PICK kind \in Requests : SendRequest(c, kind)  BY <3>3
      <4> DEFINE x == [kind |-> kind, n |-> r.tags + 1]
                 made == r.created \/ kind = "create"
                 p == [r EXCEPT !.tags = @ + 1, !.created = made]
      <4>2. x \in Frames /\ x.kind \notin Data
        BY <1>1 DEF Frames, Data, Requests, PeerState
      <4>3. made \in BOOLEAN  OBVIOUS
      <4>4. peer' = [peer EXCEPT ![c] = p] /\ c2s' = [c2s EXCEPT ![c] = Append(q, x)]
        <5>1. peer' = [peer EXCEPT ![c].tags = @ + 1, ![c].created = @ \/ kind = "create"]
          BY <4>1 DEF SendRequest
        <5>2. c2s' = [c2s EXCEPT ![c] = Append(q, x)]  BY <1>1, <4>1 DEF SendRequest
        <5> QED  BY <1>1, <5>1, <5>2
      <4> HIDE DEF made, x
      <4>5. p \in PeerState /\ p.state = r.state /\ p.blocks = r.blocks
        <5> DEFINE k == r.tags + 1
        <5> HIDE DEF r
        <5>1. k \in Nat /\ p = [r EXCEPT !.tags = k, !.created = made]  BY <1>1, PeerNumbers
        <5> HIDE DEF k, p
        <5> QED  BY <1>1, <4>3, <5>1, PeerAsks
      <4>6. r.blocks = r.blocks + 0  BY <1>2
      <4> HIDE DEF p
      <4> QED  BY <4>2, <4>4, <4>5, <4>6
    <3> QED  BY <1>8, <3>1, <3>2, <3>3
  <2>4. Append(q, x) \in Seq(Frames) /\ rbuf[c] \o Append(q, x) = Append(rbuf[c] \o q, x)
    <3> HIDE DEF q
    <3>1. Append(q, x) \in Seq(Frames)  BY <1>2
    <3>2. rbuf[c] \in Seq(Frames) /\ q \in Seq(Frames)  BY <1>2
    <3>3. rbuf[c] \o Append(q, x) = Append(rbuf[c] \o q, x)  BY <3>2, AppendLast
    <3> QED  BY <3>1, <3>3
  <2>5. Continues(stream[c], Append(Unread(c), x), p.blocks)
    BY <1>2, <1>3, <2>3, ContinuesSent
  <2> HIDE DEF q, r
  <2>6. (p.state \in {"open", "shut"}) <=> (peer[c].state \in {"open", "shut"})
    BY <2>3 DEF r
  <2> QED  BY <1>4, <2>1, <2>2, <2>3, <2>4, <2>5, <2>6, PeerStep
<1> QED  BY <1>6, <1>7, <1>8

-----------------------------------------------------------------------------
(* The epoll thread and the callback                                       *)

\* What the thread does for one client: its stream and the frames read from it.
LEMMA ServedStep ==
    ASSUME AudioInv, NEW c \in known, NEW w \in Stream, InOrder(w), ~w.live => w.fill = 0,
           NEW p \in Seq(Frames), NEW q \in Seq(Frames),
           UNCHANGED <<known, peer>>, MixerStep(c, w),
           stream' = [stream EXCEPT ![c] = w], rbuf' = [rbuf EXCEPT ![c] = p],
           c2s' = [c2s EXCEPT ![c] = q], PlaceOK', AnswersOK',
           Continues(w, p \o q, peer[c].blocks)
    PROVE  AudioInv'
<1>1. ClientsOK /\ StreamsOK /\ BlocksOK  BY DEF AudioInv
<1>2. /\ c \in Clients /\ rbuf \in [Clients -> Seq(Frames)]
      /\ c2s \in [Clients -> Seq(Frames)] /\ stream \in [Clients -> Stream]
  BY <1>1 DEF ClientsOK, StreamsOK
<1>3. /\ rbuf' \in [Clients -> Seq(Frames)] /\ c2s' \in [Clients -> Seq(Frames)]
      /\ stream' \in [Clients -> Stream] /\ stream'[c] = w /\ rbuf'[c] = p /\ c2s'[c] = q
      /\ \A d \in Clients : d # c =>
           stream'[d] = stream[d] /\ rbuf'[d] = rbuf[d] /\ c2s'[d] = c2s[d]
  BY <1>2
<1>4. ClientsOK'  BY <1>1, <1>3 DEF ClientsOK
<1>5. \A d \in Clients : InOrder(stream'[d]) /\ (~stream'[d].live => stream'[d].fill = 0)
  BY <1>1, <1>3 DEF StreamsOK
<1>6. /\ \A d \in mixed : d \in Clients /\ d \in known /\ stream[d].live
      /\ \A d \in Clients : stream[d].live => d \in known /\ d \in mixed \cup robbed
  BY <1>1, Mixing
<1>7. ASSUME NEW d \in mixed' PROVE d \in Clients /\ stream'[d].live
  <2>1. CASE d = c  BY <1>2, <1>3, <2>1 DEF MixerStep
  <2>2. CASE d # c  BY <1>3, <1>6, <2>2 DEF MixerStep
  <2> QED  BY <2>1, <2>2
<1>8. ASSUME NEW d \in Clients, stream'[d].live PROVE d \in known /\ d \in mixed' \cup robbed'
  <2>1. CASE d = c  BY <1>3, <1>8, <2>1 DEF MixerStep
  <2>2. CASE d # c  BY <1>3, <1>6, <1>8, <2>2 DEF MixerStep
  <2> QED  BY <2>1, <2>2
<1>9. StreamsOK'
  <2>1. MixerFollowsClients'  BY <1>7, <1>8 DEF MixerFollowsClients
  <2> QED  BY <1>3, <1>5, <2>1 DEF StreamsOK
<1>10. ASSUME NEW d \in Clients
       PROVE  Continues(stream'[d], rbuf'[d] \o c2s'[d], peer[d].blocks)
  <2>1. CASE d = c  BY <1>3, <2>1
  <2>2. CASE d # c  BY <1>1, <1>3, <2>2 DEF BlocksOK, Unread
  <2> QED  BY <2>1, <2>2
<1>11. BlocksOK'  BY <1>10 DEF BlocksOK, Unread
<1> QED  BY <1>4, <1>9, <1>11 DEF AudioInv

\* close_client: the client takes its stream and its frames with it.
LEMMA CloseStep ==
    ASSUME AudioInv, NEW c \in Clients, CloseClient(c), PlaceOK'
    PROVE  AudioInv'
<1> DEFINE z == NoStream
           r == peer[c]
           p == [r EXCEPT !.state = "gone"]
<1>1. ClientsOK /\ StreamsOK /\ BlocksOK /\ AnswersOK  BY DEF AudioInv
<1>2. z \in Stream /\ InOrder(z) /\ z.fill = 0 /\ z.live = FALSE  BY NoStreamIs DEF NoStream
<1>3. /\ peer \in [Clients -> PeerState] /\ stream \in [Clients -> Stream]
      /\ rbuf \in [Clients -> Seq(Frames)] /\ c2s \in [Clients -> Seq(Frames)]
      /\ wbuf \in [Clients -> Seq(Messages)] /\ s2c \in [Clients -> Seq(Messages)]
  BY <1>1 DEF ClientsOK, StreamsOK, AnswersOK
<1>4. r \in PeerState  BY <1>3
<1>5. p \in PeerState /\ p.state = "gone" /\ p.blocks = r.blocks /\ r.blocks \in Nat
  <2> HIDE DEF r
  <2> QED  BY <1>4 DEF PeerState
<1>6. /\ known' = known \ {c} /\ mixed' = mixed \ {c} /\ robbed' = robbed \ {c}
      /\ stream' = [stream EXCEPT ![c] = z] /\ peer' = [peer EXCEPT ![c] = p]
      /\ rbuf' = [rbuf EXCEPT ![c] = <<>>] /\ wbuf' = [wbuf EXCEPT ![c] = <<>>]
      /\ c2s' = [c2s EXCEPT ![c] = <<>>] /\ s2c' = [s2c EXCEPT ![c] = <<>>]
  BY DEF CloseClient, Unmix
<1> HIDE DEF z, p
<1>7. /\ stream' \in [Clients -> Stream] /\ stream'[c] = z
      /\ peer' \in [Clients -> PeerState] /\ peer'[c] = p
      /\ \A d \in Clients : d # c => stream'[d] = stream[d] /\ peer'[d] = peer[d]
  BY <1>2, <1>3, <1>5, <1>6
<1>8. /\ rbuf' \in [Clients -> Seq(Frames)] /\ c2s' \in [Clients -> Seq(Frames)]
      /\ rbuf'[c] = <<>> /\ c2s'[c] = <<>>
      /\ \A d \in Clients : d # c => rbuf'[d] = rbuf[d] /\ c2s'[d] = c2s[d]
  BY <1>3, <1>6
<1>9. /\ wbuf' \in [Clients -> Seq(Messages)] /\ s2c' \in [Clients -> Seq(Messages)]
      /\ s2c'[c] = <<>> /\ \A d \in Clients : d # c => s2c'[d] = s2c[d]
  BY <1>3, <1>6
<1>10. AnswersOK'
  <2>1. Len(<<>>) <= SockCap  BY PulseAssumption
  <2>2. \A d \in Clients : Len(s2c'[d]) <= SockCap  BY <1>1, <1>9, <2>1 DEF AnswersOK
  <2> QED  BY <1>9, <2>2 DEF AnswersOK
<1>11. ClientsOK'
  <2>1. \A d \in Clients : d \in known' <=> peer'[d].state \in {"open", "shut"}
    <3> SUFFICES ASSUME NEW d \in Clients
                 PROVE  d \in known' <=> peer'[d].state \in {"open", "shut"}
      OBVIOUS
    <3>1. CASE d = c  BY <1>5, <1>6, <1>7, <3>1
    <3>2. CASE d # c  BY <1>1, <1>6, <1>7, <3>2 DEF ClientsOK
    <3> QED  BY <3>1, <3>2
  <2>2. known' \subseteq Clients  BY <1>1, <1>6 DEF ClientsOK
  <2> QED  BY <1>7, <1>8, <2>1, <2>2 DEF ClientsOK
<1>12. StreamsOK'
  <2>1. \A d \in Clients : InOrder(stream'[d]) /\ (~stream'[d].live => stream'[d].fill = 0)
    BY <1>1, <1>2, <1>7 DEF StreamsOK
  <2>2. /\ \A d \in mixed : d \in Clients /\ d \in known /\ stream[d].live
        /\ \A d \in Clients : stream[d].live => d \in known /\ d \in mixed \cup robbed
    BY <1>1, Mixing
  <2>3. ASSUME NEW d \in mixed' PROVE d \in Clients /\ stream'[d].live
    BY <1>6, <1>7, <2>2
  <2>4. ASSUME NEW d \in Clients, stream'[d].live PROVE d \in known' /\ d \in mixed' \cup robbed'
    <3>1. d # c  BY <1>2, <1>7, <2>4
    <3> QED  BY <1>6, <1>7, <2>2, <2>4, <3>1
  <2>5. MixerFollowsClients'  BY <2>3, <2>4 DEF MixerFollowsClients
  <2> QED  BY <1>7, <2>1, <2>5 DEF StreamsOK
<1>13. ASSUME NEW d \in Clients
       PROVE  Continues(stream'[d], rbuf'[d] \o c2s'[d], peer'[d].blocks)
  <2>1. CASE d = c
    <3>1. <<>> \o <<>> = <<>>  OBVIOUS
    <3>2. p.blocks \in Nat  BY <1>5
    <3>3. Continues(z, <<>>, p.blocks)  BY <1>2, <3>2, ContinuesEmpty
    <3>4. rbuf'[d] \o c2s'[d] = <<>>  BY <1>8, <2>1, <3>1
    <3>5. stream'[d] = z /\ peer'[d] = p  BY <1>7, <2>1
    <3> QED  BY <3>3, <3>4, <3>5
  <2>2. CASE d # c  BY <1>1, <1>7, <1>8, <2>2 DEF BlocksOK, Unread
  <2> QED  BY <2>1, <2>2
<1>14. BlocksOK'  BY <1>13 DEF BlocksOK, Unread
<1> QED  BY <1>10, <1>11, <1>12, <1>14 DEF AudioInv

\* A step that only moves answers.
LEMMA AnswerStep ==
    ASSUME AudioInv, UNCHANGED <<known, mixed, stream, robbed, peer, rbuf, c2s>>, PlaceOK', AnswersOK'
    PROVE  AudioInv'
<1>1. ClientsOK'  BY DEF AudioInv, ClientsOK
<1>2. StreamsOK'  BY DEF AudioInv, StreamsOK, MixerFollowsClients
<1>3. BlocksOK'  BY DEF AudioInv, BlocksOK, Unread
<1> QED  BY <1>1, <1>2, <1>3 DEF AudioInv

\* flush_wbuf sends no more than the socket takes.
LEMMA SendTyped ==
    ASSUME AnswersOK, NEW c \in Clients, NEW w \in Seq(Messages)
    PROVE  /\ Unsent(c, w) \in Seq(Messages)
           /\ Sent(c, w) \in Seq(Messages) /\ Len(Sent(c, w)) <= SockCap
<1> DEFINE s == s2c[c]
           k == Sendable(c, w)
<1>1. s \in Seq(Messages) /\ Len(s) <= SockCap /\ SockCap \in Nat
  BY PulseAssumption DEF AnswersOK
<1>2. Len(s) \in Nat /\ Len(w) \in Nat  BY <1>1
<1>3. k \in 0 .. Len(w) /\ Len(s) + k <= SockCap  
  <2> DEFINE lw == Len(w)
             ls == Len(s)
  <2>1. k = IF lw < SockCap - ls THEN lw ELSE SockCap - ls  BY DEF Sendable
  <2>2. lw \in Nat /\ ls \in Nat /\ ls <= SockCap /\ SockCap \in Nat  BY <1>1, <1>2
  <2> HIDE DEF lw, ls, k
  <2>3. k \in 0 .. lw /\ ls + k <= SockCap  BY <2>1, <2>2
  <2> QED  BY <2>3 DEF lw, ls
<1> HIDE DEF s, k
<1>4. SubSeq(w, k + 1, Len(w)) \in Seq(Messages)
  <2>1. \A j \in k + 1 .. Len(w) : w[j] \in Messages  BY <1>2, <1>3
  <2> QED  BY <1>2, <1>3, <2>1
<1>5. SubSeq(w, 1, k) \in Seq(Messages) /\ Len(SubSeq(w, 1, k)) = k
  <2>1. \A j \in 1 .. k : w[j] \in Messages  BY <1>2, <1>3
  <2> QED  BY <1>2, <1>3, <2>1
<1>6. /\ s \o SubSeq(w, 1, k) \in Seq(Messages)
      /\ Len(s \o SubSeq(w, 1, k)) = Len(s) + k
  <2> DEFINE v == SubSeq(w, 1, k)
  <2> HIDE DEF v
  <2>1. v \in Seq(Messages) /\ Len(v) = k  BY <1>5 DEF v
  <2>2. s \o v \in Seq(Messages) /\ Len(s \o v) = Len(s) + k  BY <1>1, <2>1
  <2> QED  BY <2>2 DEF v
<1>7. <<>> \in Seq(Messages)  OBVIOUS
<1>8. Unsent(c, w) = IF peer[c].state = "open" THEN SubSeq(w, k + 1, Len(w)) ELSE <<>>
  BY DEF Unsent, k
<1>9. Sent(c, w) = IF peer[c].state = "open" THEN s \o SubSeq(w, 1, k) ELSE s
  BY DEF Sent, k, s
<1> QED  BY <1>1, <1>3, <1>4, <1>6, <1>7, <1>8, <1>9

\* The epoll thread is in its loop.
LEMMA InLoop ==
    ASSUME AudioInv, pc # "test"
    PROVE  thread = "run" /\ ctl # "close"
  BY DEF AudioInv, PlaceOK

\* The frame in hand, and what is left when it is taken.
LEMMA FrameIs ==
    ASSUME AudioInv, NEW f, Frame(f)
    PROVE  /\ cur \in known /\ cur \in Clients /\ f \in Frames /\ f.n \in Nat
           /\ Tail(rbuf[cur]) \in Seq(Frames) /\ c2s[cur] \in Seq(Frames)
           /\ Unread(cur) \in Seq(Frames) /\ Unread(cur) # <<>> /\ f = Head(Unread(cur))
           /\ Tail(rbuf[cur]) \o c2s[cur] = Tail(Unread(cur))
           /\ peer[cur].blocks \in Nat /\ stream[cur] \in Stream /\ InOrder(stream[cur])
           /\ Continues(stream[cur], Unread(cur), peer[cur].blocks)
<1> DEFINE p == rbuf[cur]
           q == c2s[cur]
<1>1. ClientsOK /\ StreamsOK /\ BlocksOK /\ PlaceOK  BY DEF AudioInv
<1>2. pc = "frames" /\ p # <<>> /\ f = Head(p)  BY DEF Frame
<1>3. cur \in known /\ cur \in Clients  BY <1>1, <1>2 DEF PlaceOK, ClientsOK
<1>4. /\ Unread(cur) \in Seq(Frames) /\ peer[cur].blocks \in Nat
      /\ p \in Seq(Frames) /\ q \in Seq(Frames)
  BY <1>1, <1>3, UnreadTyped
<1>5. /\ stream[cur] \in Stream /\ InOrder(stream[cur])
      /\ Continues(stream[cur], Unread(cur), peer[cur].blocks)
  BY <1>1, <1>3 DEF StreamsOK, BlocksOK
<1>6. Unread(cur) = p \o q  BY DEF Unread
<1> HIDE DEF p, q
<1>7. /\ Head(p) \in Frames /\ Tail(p) \in Seq(Frames)
      /\ p \o q # <<>> /\ Head(p \o q) = Head(p)
  BY <1>2, <1>4
<1>8. Tail(p) \o q = Tail(p \o q)
  <2>1. /\ Tail(p) \o q \in Seq(Frames) /\ Tail(p \o q) \in Seq(Frames)
        /\ Len(Tail(p) \o q) = Len(p) + Len(q) - 1
        /\ Len(Tail(p \o q)) = Len(p) + Len(q) - 1
    BY <1>2, <1>4, <1>7
  <2>2. \A i \in 1 .. Len(p) + Len(q) - 1 : (Tail(p) \o q)[i] = Tail(p \o q)[i]
    BY <1>2, <1>4, <1>7
  <2> QED  BY <2>1, <2>2
<1>9. f.n \in Nat  BY <1>2, <1>7 DEF Frames
<1> QED  BY <1>2, <1>3, <1>4, <1>5, <1>6, <1>7, <1>8, <1>9 DEF p, q

LEMMA Queued ==
    ASSUME AnswersOK, NEW c \in Clients, NEW m \in Seq(Messages),
           wbuf' = [wbuf EXCEPT ![c] = @ \o m], s2c' = s2c
    PROVE  AnswersOK'
<1>1. wbuf \in [Clients -> Seq(Messages)]  BY DEF AnswersOK
<1>2. wbuf[c] \o m \in Seq(Messages)  BY <1>1
<1>3. wbuf' \in [Clients -> Seq(Messages)]  BY <1>1, <1>2
<1> QED  BY <1>3 DEF AnswersOK

\* A step inside the loop that keeps its place.
LEMMA SamePlace ==
    ASSUME AudioInv, UNCHANGED <<ctl, thread, pc, cur, known>>
    PROVE  PlaceOK'
  BY DEF AudioInv, PlaceOK

LEMMA CallbackKeeps ==
    ASSUME AudioInv, CallbackMixes
    PROVE  AudioInv'
<1>1. ClientsOK /\ StreamsOK /\ BlocksOK /\ AnswersOK  BY DEF AudioInv
<1>2. /\ stream' = [c \in Clients |-> IF c \in mixed THEN TakeFrame(stream[c]) ELSE stream[c]]
      /\ UNCHANGED <<ctl, thread, pc, cur, known, mixed, robbed, rbuf, wbuf, peer, c2s, s2c>>
  BY DEF CallbackMixes, control, loop
<1>3. ASSUME NEW c \in Clients
      PROVE  /\ stream'[c] \in Stream /\ InOrder(stream'[c]) /\ stream'[c].live = stream[c].live
             /\ stream'[c].fill > 0 => stream[c].fill > 0 /\ Newest(stream'[c]) = Newest(stream[c])
             /\ stream[c].fill = 0 => stream'[c].fill = 0
  <2> DEFINE st == stream[c]
             w == stream'[c]
  <2>1. st \in Stream /\ InOrder(st)  BY <1>1 DEF StreamsOK
  <2>2. w = TakeFrame(st) \/ w = st  BY <1>2
  <2> HIDE DEF st, w
  <2>3. /\ w \in Stream /\ InOrder(w) /\ w.live = st.live
        /\ w.fill > 0 => st.fill > 0 /\ Newest(w) = Newest(st)
        /\ st.fill = 0 => w.fill = 0
    BY <2>1, <2>2, TakeDoes
  <2> QED  BY <2>3 DEF st, w
<1>4. stream' \in [Clients -> Stream]  BY <1>2, <1>3
<1>5. StreamsOK'
  <2>1. /\ \A c \in mixed : c \in Clients /\ c \in known /\ stream[c].live
        /\ \A c \in Clients : stream[c].live => c \in known /\ c \in mixed \cup robbed
    BY <1>1, Mixing
  <2>2. MixerFollowsClients'  BY <1>2, <1>3, <2>1 DEF MixerFollowsClients
  <2>3. \A c \in Clients : InOrder(stream'[c]) /\ (~stream'[c].live => stream'[c].fill = 0)
    BY <1>1, <1>3 DEF StreamsOK
  <2> QED  BY <1>4, <2>2, <2>3 DEF StreamsOK
<1>6. ASSUME NEW c \in Clients
      PROVE  Continues(stream'[c], rbuf[c] \o c2s[c], peer[c].blocks)
  <2>1. Continues(stream[c], rbuf[c] \o c2s[c], peer[c].blocks)  BY <1>1 DEF BlocksOK, Unread
  <2> QED  BY <1>3, <2>1, ContinuesPlayed
<1>7. BlocksOK'  BY <1>2, <1>6 DEF BlocksOK, Unread
<1>8. ClientsOK' /\ AnswersOK'  BY <1>1, <1>2 DEF ClientsOK, AnswersOK
<1> QED  BY <1>2, <1>5, <1>7, <1>8, SamePlace DEF AudioInv

LEMMA AcceptKeeps ==
    ASSUME AudioInv, AcceptClients
    PROVE  AudioInv'
<1> DEFINE new == {c \in Clients : peer[c].state = "pending"}
<1>1. ClientsOK /\ StreamsOK /\ BlocksOK /\ AnswersOK /\ PlaceOK  BY DEF AudioInv
<1>2. /\ pc = "event" /\ known' = known \cup new
      /\ peer' = [c \in Clients |-> IF c \in new THEN [peer[c] EXCEPT !.state = "open"] ELSE peer[c]]
      /\ UNCHANGED <<ctl, thread, pc, cur, mixed, stream, robbed, rbuf, wbuf, c2s, s2c>>
  BY DEF AcceptClients, TakeEvent, control, pcm
<1>3. ASSUME NEW c \in Clients
      PROVE  /\ peer'[c] \in PeerState /\ peer'[c].blocks = peer[c].blocks
             /\ c \in known' <=> peer'[c].state \in {"open", "shut"}
  <2> DEFINE r == peer[c]
             p == peer'[c]
  <2>1. r \in PeerState /\ (c \in known <=> r.state \in {"open", "shut"})  BY <1>1 DEF ClientsOK
  <2>2. CASE c \in new
    <3>1. p = [r EXCEPT !.state = "open"] /\ c \in known'  BY <1>2, <2>2
    <3> HIDE DEF r, p
    <3>2. p \in PeerState /\ p.state = "open" /\ p.blocks = r.blocks  BY <2>1, <3>1 DEF PeerState
    <3> QED  BY <3>1, <3>2 DEF r, p
  <2>3. CASE c \notin new
    <3>1. p = r /\ (c \in known' <=> c \in known)  BY <1>2, <2>3
    <3> QED  BY <2>1, <3>1
  <2> QED  BY <2>2, <2>3
<1>4. ClientsOK'
  <2>1. peer' \in [Clients -> PeerState]  BY <1>2, <1>3
  <2>2. known' \subseteq Clients  BY <1>1, <1>2 DEF ClientsOK
  <2> QED  BY <1>1, <1>2, <1>3, <2>1, <2>2 DEF ClientsOK
<1>5. StreamsOK'  BY <1>1, <1>2 DEF StreamsOK, MixerFollowsClients
<1>6. BlocksOK'
  <2>1. \A c \in Clients : Continues(stream[c], rbuf[c] \o c2s[c], peer'[c].blocks)
    BY <1>1, <1>3 DEF BlocksOK, Unread
  <2> QED  BY <1>2, <2>1 DEF BlocksOK, Unread
<1>7. AnswersOK'  BY <1>1, <1>2 DEF AnswersOK
<1>8. PlaceOK'  BY <1>1, <1>2 DEF PlaceOK
<1> QED  BY <1>4, <1>5, <1>6, <1>7, <1>8 DEF AudioInv

LEMMA HangupKeeps ==
    ASSUME AudioInv, NEW c \in Clients, OnHangup(c)
    PROVE  AudioInv'
<1>1. pc = "event" /\ CloseClient(c) /\ UNCHANGED <<ctl, thread, pc, cur>>
  BY DEF OnHangup, TakeEvent, control
<1>2. PlaceOK'  BY <1>1, InLoop DEF PlaceOK
<1> QED  BY <1>1, <1>2, CloseStep

LEMMA ReadableKeeps ==
    ASSUME AudioInv, NEW c \in Clients, HandleReadable(c)
    PROVE  AudioInv'
<1>1. /\ pc = "event" /\ UNCHANGED <<ctl, thread>>
      /\ \/ CloseClient(c) /\ UNCHANGED <<pc, cur>>
         \/ /\ peer[c].state = "open" /\ rbuf' = [rbuf EXCEPT ![c] = @ \o c2s[c]]
            /\ c2s' = [c2s EXCEPT ![c] = <<>>] /\ pc' = "frames" /\ cur' = c
            /\ UNCHANGED <<known, mixed, stream, robbed, wbuf, peer, s2c>>
  BY DEF HandleReadable, TakeEvent, control, pcm
<1>2. thread = "run" /\ ctl # "close"  BY <1>1, InLoop
<1>3. CASE CloseClient(c) /\ UNCHANGED <<pc, cur>>
  <2>1. PlaceOK'  BY <1>1, <1>2, <1>3 DEF PlaceOK
  <2> QED  BY <1>3, <2>1, CloseStep
<1>4. CASE /\ peer[c].state = "open" /\ rbuf' = [rbuf EXCEPT ![c] = @ \o c2s[c]]
           /\ c2s' = [c2s EXCEPT ![c] = <<>>] /\ pc' = "frames" /\ cur' = c
           /\ UNCHANGED <<known, mixed, stream, robbed, wbuf, peer, s2c>>
  <2>1. ClientsOK /\ StreamsOK /\ BlocksOK /\ AnswersOK  BY DEF AudioInv
  <2>2. c \in known  BY <1>4, <2>1 DEF ClientsOK
  <2>3. PlaceOK'  BY <1>1, <1>2, <1>4, <2>2 DEF PlaceOK
  <2>4. AnswersOK'  BY <1>4, <2>1 DEF AnswersOK
  <2> DEFINE st == stream[c]
             p == Unread(c)
  <2>5. /\ st \in Stream /\ InOrder(st) /\ (~st.live => st.fill = 0)
        /\ stream \in [Clients -> Stream]
    BY <2>1 DEF StreamsOK
  <2>10. MixerStep(c, st)  BY <1>4, <2>1, Mixing DEF MixerStep
  <2>6. p \in Seq(Frames)  BY <2>1, UnreadTyped
  <2>7. Continues(st, p, peer[c].blocks)  BY <2>1 DEF BlocksOK
  <2>8. rbuf' = [rbuf EXCEPT ![c] = p] /\ stream' = [stream EXCEPT ![c] = st]
    <3>1. rbuf' = [rbuf EXCEPT ![c] = rbuf[c] \o c2s[c]]  BY <1>4
    <3>2. stream = [stream EXCEPT ![c] = st]  BY <2>5
    <3> QED  BY <1>4, <3>1, <3>2 DEF Unread
  <2> HIDE DEF p, st
  <2>9. p \o <<>> = p /\ <<>> \in Seq(Frames)  BY <2>6
  <2> QED  BY <1>4, <2>2, <2>3, <2>4, <2>5, <2>6, <2>7, <2>8, <2>9, <2>10, ServedStep
<1> QED  BY <1>1, <1>3, <1>4

\* drain_frames takes a frame: what it makes of the client's stream.
LEMMA FrameStep ==
    ASSUME AudioInv, NEW f, Frame(f), ConsumeFrame, NEW w \in Stream, InOrder(w),
           ~w.live => w.fill = 0, stream' = [stream EXCEPT ![cur] = w],
           UNCHANGED <<ctl, thread, pc, cur, known, peer, c2s>>, AnswersOK',
           MixerStep(cur, w),
           Continues(w, Tail(Unread(cur)), peer[cur].blocks)
    PROVE  AudioInv'
<1> DEFINE c == cur
           p == Tail(rbuf[c])
           q == c2s[c]
<1>1. /\ c \in known /\ c \in Clients /\ p \in Seq(Frames) /\ q \in Seq(Frames)
      /\ p \o q = Tail(Unread(c))
  BY FrameIs
<1>2. Continues(w, p \o q, peer[c].blocks)  BY <1>1
<1>3. c2s \in [Clients -> Seq(Frames)]  BY DEF AudioInv, ClientsOK
<1>4. rbuf' = [rbuf EXCEPT ![c] = p] /\ c2s' = [c2s EXCEPT ![c] = q]
  BY <1>1, <1>3 DEF ConsumeFrame
<1>5. PlaceOK'  BY SamePlace
<1>6. stream' = [stream EXCEPT ![c] = w]  OBVIOUS
<1>7. MixerStep(c, w)  OBVIOUS
<1> HIDE DEF c, p, q
<1> QED  BY <1>1, <1>2, <1>4, <1>5, <1>6, <1>7, ServedStep

\* A stream that no longer has the blocks it had, or is a new one.
LEMMA NewStream ==
    ASSUME NEW b \in BOOLEAN
    PROVE  LET w == [NoStream EXCEPT !.live = TRUE, !.corked = b] IN
           w \in Stream /\ InOrder(w) /\ w.fill = 0 /\ w.live = TRUE
<1> DEFINE z == NoStream
           w == [z EXCEPT !.live = TRUE, !.corked = b]
<1>1. z \in Stream /\ InOrder(z) /\ z.fill = 0  BY NoStreamIs
<1> HIDE DEF z
<1>2. /\ w \in Stream /\ w.fill = z.fill /\ w.head = z.head /\ w.tail = z.tail /\ w.ring = z.ring
      /\ w.live = TRUE
  BY <1>1 DEF Stream
<1> HIDE DEF w
<1>3. InOrder(w)  BY <1>1, <1>2 DEF InOrder
<1> QED  BY <1>1, <1>2, <1>3 DEF w, z

LEMMA CorkedStream ==
    ASSUME NEW st \in Stream, InOrder(st), NEW b \in BOOLEAN
    PROVE  LET w == [st EXCEPT !.corked = b] IN
           /\ w \in Stream /\ InOrder(w) /\ w.live = st.live /\ w.fill = st.fill
           /\ Newest(w) = Newest(st)
<1> DEFINE w == [st EXCEPT !.corked = b]
<1>1. /\ w \in Stream /\ w.fill = st.fill /\ w.head = st.head /\ w.tail = st.tail
      /\ w.ring = st.ring /\ w.live = st.live
  BY DEF Stream
<1> HIDE DEF w
<1>2. InOrder(w) /\ Newest(w) = Newest(st)  BY <1>1 DEF InOrder, Newest
<1> QED  BY <1>1, <1>2 DEF w

LEMMA FlushedStream ==
    ASSUME NEW st \in Stream
    PROVE  LET w == [st EXCEPT !.head = 0, !.tail = 0, !.fill = 0] IN
           w \in Stream /\ InOrder(w) /\ w.live = st.live /\ w.fill = 0
<1> DEFINE w == [st EXCEPT !.head = 0, !.tail = 0, !.fill = 0]
<1>1. RingFrames \in Nat \ {0}  BY PulseAssumption
<1>2. 0 \in 0 .. RingFrames - 1 /\ 0 \in 0 .. RingFrames  BY <1>1
<1>3. /\ w \in Stream /\ w.fill = 0 /\ w.head = 0 /\ w.tail = 0 /\ w.live = st.live
  BY <1>2 DEF Stream
<1> HIDE DEF w
<1>4. Place(0, 0) = 0 /\ 1 .. 0 - 1 = {}  BY <1>1 DEF Place
<1>5. InOrder(w)  BY <1>3, <1>4, InPlaces
<1> QED  BY <1>3, <1>5 DEF w

LEMMA CreateKeeps ==
    ASSUME AudioInv, NEW f, HandleCreate(f)
    PROVE  AudioInv'
<1>1. /\ Frame(f) /\ f.kind = "create" /\ ConsumeFrame
      /\ UNCHANGED <<ctl, thread, pc, cur, known, robbed, peer, c2s>>
  BY DEF HandleCreate, control, loop
<1> DEFINE st == stream[cur]
           q == Unread(cur)
           b == peer[cur].blocks
<1>2. /\ cur \in known /\ cur \in Clients /\ f.n \in Nat /\ q \in Seq(Frames) /\ q # <<>>
      /\ f = Head(q) /\ b \in Nat /\ st \in Stream /\ InOrder(st) /\ Continues(st, q, b)
  BY <1>1, FrameIs
<1>3. Head(q).kind \notin Data  BY <1>1, <1>2 DEF Data
<1>4. AnswersOK /\ StreamsOK  BY DEF AudioInv
<1>5. CASE \E corked \in BOOLEAN :
             /\ stream' = [stream EXCEPT ![cur] =
                             [NoStream EXCEPT !.live = TRUE, !.corked = corked]]
             /\ mixed' = mixed \cup {cur}
             /\ Queue(<<[kind |-> "created", n |-> f.n], [kind |-> "request", n |-> TLength]>>)
  <2>1. PICK corked \in BOOLEAN :
             /\ stream' = [stream EXCEPT ![cur] =
                             [NoStream EXCEPT !.live = TRUE, !.corked = corked]]
             /\ mixed' = mixed \cup {cur}
             /\ Queue(<<[kind |-> "created", n |-> f.n], [kind |-> "request", n |-> TLength]>>)
    BY <1>5
  <2> DEFINE w == [NoStream EXCEPT !.live = TRUE, !.corked = corked]
             x == [kind |-> "created", n |-> f.n]
             y == [kind |-> "request", n |-> TLength]
  <2>2. x \in Messages /\ y \in Messages
    BY <1>2, PulseAssumption DEF Messages
  <2>3. wbuf' = [wbuf EXCEPT ![cur] = @ \o <<x, y>>] /\ s2c' = s2c  BY <2>1 DEF Queue
  <2>4. w \in Stream /\ InOrder(w) /\ w.fill = 0 /\ w.live = TRUE  BY NewStream
  <2>5. stream' = [stream EXCEPT ![cur] = w]  BY <2>1
  <2> HIDE DEF w, x, y, st, q, b
  <2>6. <<x, y>> \in Seq(Messages)  BY <2>2
  <2>7. AnswersOK'  BY <1>2, <1>4, <2>3, <2>6, Queued
  <2>8. ~(w.fill > 0)  BY <2>4
  <2>9. Continues(w, Tail(q), b)  BY <1>2, <1>3, <2>8, ContinuesTaken
  <2>10. MixerStep(cur, w)  BY <1>1, <2>1, <2>4 DEF MixerStep
  <2> QED  BY <1>1, <2>4, <2>5, <2>7, <2>9, <2>10, FrameStep DEF q, b
<1>6. CASE Queue(<<Reply(f)>>) /\ UNCHANGED <<mixed, stream>>
  <2> DEFINE x == Reply(f)
  <2>1. x \in Messages  BY <1>2 DEF Messages, Reply
  <2>2. wbuf' = [wbuf EXCEPT ![cur] = @ \o <<x>>] /\ s2c' = s2c  BY <1>6 DEF Queue
  <2>3. stream \in [Clients -> Stream] /\ (~st.live => st.fill = 0)
    BY <1>2, <1>4 DEF StreamsOK
  <2>4. stream' = [stream EXCEPT ![cur] = st]  BY <1>6, <2>3
  <2>8. MixerStep(cur, st)  BY <1>1, <1>2, <1>4, <1>6, Mixing DEF MixerStep
  <2> HIDE DEF x, st, q, b
  <2>5. <<x>> \in Seq(Messages)  BY <2>1
  <2>6. AnswersOK'  BY <1>2, <1>4, <2>2, <2>5, Queued
  <2>7. Continues(st, Tail(q), b)  BY <1>2, <1>3, ContinuesTaken
  <2> QED  BY <1>1, <1>2, <2>3, <2>4, <2>6, <2>7, <2>8, FrameStep DEF q, b
<1> QED  BY <1>5, <1>6 DEF HandleCreate

\* A reply is queued.
LEMMA ReplyQueued ==
    ASSUME AudioInv, NEW f, Frame(f), Queue(<<Reply(f)>>)
    PROVE  AnswersOK'
<1> DEFINE x == Reply(f)
<1>1. cur \in Clients /\ f.n \in Nat  BY FrameIs
<1>2. x \in Messages  BY <1>1 DEF Messages, Reply
<1>3. wbuf' = [wbuf EXCEPT ![cur] = @ \o <<x>>] /\ s2c' = s2c  BY DEF Queue
<1>4. AnswersOK  BY DEF AudioInv
<1> HIDE DEF x
<1>5. <<x>> \in Seq(Messages)  BY <1>2
<1> QED  BY <1>1, <1>3, <1>4, <1>5, Queued

\* erase_stream, of the client's own stream and of another's.
LEMMA DeleteKeeps ==
    ASSUME AudioInv, NEW f, HandleDelete(f)
    PROVE  AudioInv'
<1> DEFINE st == stream[cur]
           q == Unread(cur)
           b == peer[cur].blocks
           z == NoStream
<1>1. /\ Frame(f) /\ f.kind = "delete" /\ ConsumeFrame
      /\ Queue(<<Reply(f)>>) /\ UNCHANGED <<ctl, thread, pc, cur, known, peer, c2s>>
  BY DEF HandleDelete, control, loop
<1>2. PICK i \in Clients :
         /\ stream' = IF i = cur THEN [stream EXCEPT ![i] = NoStream] ELSE stream
         /\ mixed' = mixed \ {i}
         /\ robbed' = IF i = cur THEN robbed \ {i} ELSE robbed \cup (mixed \cap {i})
  BY DEF HandleDelete, Unmix
<1>3. /\ cur \in known /\ cur \in Clients /\ q \in Seq(Frames) /\ q # <<>>
      /\ f = Head(q) /\ b \in Nat /\ st \in Stream /\ InOrder(st) /\ Continues(st, q, b)
  BY <1>1, FrameIs
<1>4. Head(q).kind \notin Data  BY <1>1, <1>3 DEF Data
<1>5. AnswersOK'  BY <1>1, ReplyQueued
<1>6. z \in Stream /\ InOrder(z) /\ z.fill = 0 /\ z.live = FALSE
  BY NoStreamIs DEF NoStream
<1>7. StreamsOK /\ stream \in [Clients -> Stream] /\ (~st.live => st.fill = 0)
  BY <1>3 DEF AudioInv, StreamsOK
<1>8. /\ st.live => cur \in mixed \cup robbed
      /\ cur \in mixed => st.live
  BY <1>3, <1>7, Mixing
<1>9. CASE i = cur
  <2>1. stream' = [stream EXCEPT ![cur] = z]  BY <1>2, <1>9
  <2> HIDE DEF st, q, b, z
  <2>2. ~(z.fill > 0)  BY <1>6
  <2>3. Continues(z, Tail(q), b)  BY <1>3, <1>4, <2>2, ContinuesTaken
  <2>4. MixerStep(cur, z)  BY <1>2, <1>6, <1>9 DEF MixerStep
  <2> QED  BY <1>1, <1>5, <1>6, <2>1, <2>3, <2>4, FrameStep DEF q, b
<1>10. CASE i # cur
  <2>1. stream' = [stream EXCEPT ![cur] = st]  BY <1>2, <1>7, <1>10
  <2> HIDE DEF st, q, b, z
  <2>2. Continues(st, Tail(q), b)  BY <1>3, <1>4, ContinuesTaken
  <2>3. MixerStep(cur, st)  BY <1>2, <1>8, <1>10 DEF MixerStep
  <2> QED  BY <1>1, <1>3, <1>5, <1>7, <2>1, <2>2, <2>3, FrameStep DEF q, b
<1> QED  BY <1>9, <1>10

LEMMA OthersKeep ==
    ASSUME AudioInv, NEW i \in Clients, OthersDelete(i)
    PROVE  AudioInv'
<1>1. /\ mixed' = mixed \ {i} /\ robbed' = robbed \cup {i}
      /\ UNCHANGED <<ctl, thread, pc, cur, known, stream, rbuf, wbuf, peer, c2s, s2c>>
  BY DEF OthersDelete, Unmix, control, loop
<1>2. ClientsOK /\ StreamsOK /\ BlocksOK /\ AnswersOK  BY DEF AudioInv
<1>3. StreamsOK'
  <2>1. MixerFollowsClients'  BY <1>1, <1>2, Mixing DEF MixerFollowsClients
  <2> QED  BY <1>1, <1>2, <2>1 DEF StreamsOK
<1>4. ClientsOK' /\ AnswersOK'  BY <1>1, <1>2 DEF ClientsOK, AnswersOK
<1>5. BlocksOK'  BY <1>1, <1>2 DEF BlocksOK, Unread
<1> QED  BY <1>1, <1>3, <1>4, <1>5, SamePlace DEF AudioInv

LEMMA ControlFrameKeeps ==
    ASSUME AudioInv, NEW f, HandleControl(f)
    PROVE  AudioInv'
<1> DEFINE st == stream[cur]
           q == Unread(cur)
           b == peer[cur].blocks
           w(k) == CASE f.kind = "cork" /\ st.live -> [st EXCEPT !.corked = k]
                     [] f.kind = "flush" /\ st.live -> [st EXCEPT !.head = 0, !.tail = 0, !.fill = 0]
                     [] OTHER -> st
<1>1. /\ Frame(f) /\ f.kind \in {"cork", "flush", "query"} /\ ConsumeFrame
      /\ Queue(<<Reply(f)>>) /\ UNCHANGED <<ctl, thread, pc, cur, known, mixed, robbed, peer, c2s>>
  BY DEF HandleControl, control, loop
<1>2. /\ cur \in known /\ cur \in Clients /\ q \in Seq(Frames) /\ q # <<>>
      /\ f = Head(q) /\ b \in Nat /\ st \in Stream /\ InOrder(st) /\ Continues(st, q, b)
  BY <1>1, FrameIs
<1>3. Head(q).kind \notin Data  BY <1>1, <1>2 DEF Data
<1>4. AnswersOK'  BY <1>1, ReplyQueued
<1>5. StreamsOK /\ stream \in [Clients -> Stream] /\ (~st.live => st.fill = 0)
  BY <1>2 DEF AudioInv, StreamsOK
<1>6. /\ st.live => cur \in mixed \cup robbed
      /\ cur \in mixed => st.live
  BY <1>2, <1>5, Mixing
<1>7. PICK k \in BOOLEAN : stream' = [stream EXCEPT ![cur] = w(k)]
  BY <1>2, <1>5 DEF HandleControl
<1> DEFINE v == w(k)
<1>8. stream' = [stream EXCEPT ![cur] = v]  BY <1>7
<1> HIDE DEF st, q, b
<1>9. /\ v \in Stream /\ InOrder(v) /\ (~v.live => v.fill = 0) /\ v.live = st.live
      /\ v.fill > 0 => st.fill > 0 /\ Newest(v) = Newest(st)
  <2>1. CASE f.kind = "cork" /\ st.live
    <3>1. v = [st EXCEPT !.corked = k]  BY <2>1
    <3> HIDE DEF v
    <3>2. /\ v \in Stream /\ InOrder(v) /\ v.live = st.live /\ v.fill = st.fill
          /\ Newest(v) = Newest(st)
      BY <1>2, <3>1, CorkedStream
    <3> QED  BY <1>5, <3>2
  <2>2. CASE f.kind # "cork" /\ f.kind = "flush" /\ st.live
    <3>1. v = [st EXCEPT !.head = 0, !.tail = 0, !.fill = 0]  BY <2>2
    <3> HIDE DEF v
    <3>2. v \in Stream /\ InOrder(v) /\ v.live = st.live /\ v.fill = 0
      BY <1>2, <3>1, FlushedStream
    <3>3. ~(v.fill > 0)  BY <3>2
    <3> QED  BY <3>2, <3>3
  <2>3. CASE ~(f.kind = "cork" /\ st.live) /\ ~(f.kind = "flush" /\ st.live)
    <3>1. v = st  BY <2>3
    <3> HIDE DEF v
    <3> QED  BY <1>2, <1>5, <3>1
  <2> QED  BY <2>1, <2>2, <2>3
<1> HIDE DEF v
<1>10. Continues(v, Tail(q), b)  BY <1>2, <1>3, <1>9, ContinuesTaken
<1>11. MixerStep(cur, v)  BY <1>1, <1>6, <1>9 DEF MixerStep
<1> QED  BY <1>1, <1>4, <1>8, <1>9, <1>10, <1>11, FrameStep DEF q, b

\* What a flush of one client's answers leaves.
LEMMA FlushOne ==
    ASSUME AnswersOK, NEW c \in Clients, NEW w \in Seq(Messages),
           wbuf' = [wbuf EXCEPT ![c] = Unsent(c, w)],
           s2c' = [s2c EXCEPT ![c] = Sent(c, w)]
    PROVE  AnswersOK'
<1> DEFINE u == Unsent(c, w)
           v == Sent(c, w)
<1>1. u \in Seq(Messages) /\ v \in Seq(Messages) /\ Len(v) <= SockCap
  BY SendTyped
<1> HIDE DEF u, v
<1>2. wbuf' = [wbuf EXCEPT ![c] = u] /\ s2c' = [s2c EXCEPT ![c] = v]  BY DEF u, v
<1>3. /\ wbuf \in [Clients -> Seq(Messages)] /\ s2c \in [Clients -> Seq(Messages)]
      /\ \A d \in Clients : Len(s2c[d]) <= SockCap
  BY DEF AnswersOK
<1>4. /\ wbuf' \in [Clients -> Seq(Messages)] /\ s2c' \in [Clients -> Seq(Messages)]
      /\ s2c'[c] = v /\ \A d \in Clients : d # c => s2c'[d] = s2c[d]
  BY <1>1, <1>2, <1>3
<1>5. \A d \in Clients : Len(s2c'[d]) <= SockCap  BY <1>1, <1>3, <1>4
<1> QED  BY <1>4, <1>5 DEF AnswersOK

LEMMA DataKeeps ==
    ASSUME AudioInv, NEW f, OnDataFrame(f)
    PROVE  AudioInv'
<1> DEFINE st == stream[cur]
           q == Unread(cur)
           b == peer[cur].blocks
<1>1. /\ Frame(f) /\ f.kind = "data" /\ ConsumeFrame
      /\ UNCHANGED <<ctl, thread, pc, cur, known, mixed, robbed, peer, c2s>>
  BY DEF OnDataFrame, control, loop
<1>2. /\ cur \in known /\ cur \in Clients /\ f.n \in Nat /\ q \in Seq(Frames) /\ q # <<>>
      /\ f = Head(q) /\ b \in Nat /\ st \in Stream /\ InOrder(st) /\ Continues(st, q, b)
  BY <1>1, FrameIs
<1>3. Head(q).kind \in Data  BY <1>1, <1>2 DEF Data
<1>4. AnswersOK /\ StreamsOK  BY DEF AudioInv
<1>5. stream \in [Clients -> Stream] /\ (~st.live => st.fill = 0)
  BY <1>2, <1>4 DEF StreamsOK
<1>6. MixerStep(cur, st)  BY <1>1, <1>2, <1>4, Mixing DEF MixerStep
<1>7. CASE st.live
  <2> DEFINE y == [kind |-> "request", n |-> MinReq]
             x == [kind |-> "started", n |-> 0]
             o == wbuf[cur] \o (IF st.started THEN <<>> ELSE <<x>>) \o <<y>>
             w == [WriteFrame(st, f.n) EXCEPT !.started = TRUE]
  <2>1. /\ stream' = [stream EXCEPT ![cur] = w] /\ wbuf' = [wbuf EXCEPT ![cur] = Unsent(cur, o)]
        /\ s2c' = [s2c EXCEPT ![cur] = Sent(cur, o)]
    BY <1>7 DEF OnDataFrame
  <2>2. x \in Messages /\ y \in Messages  BY PulseAssumption DEF Messages
  <2>3. wbuf[cur] \in Seq(Messages)  BY <1>2, <1>4 DEF AnswersOK
  <2>4. o \in Seq(Messages)
    <3> DEFINE v == IF st.started THEN <<>> ELSE <<x>>
    <3> HIDE DEF x, y
    <3>1. v \in Seq(Messages) /\ <<y>> \in Seq(Messages)  BY <2>2
    <3> HIDE DEF v
    <3>2. wbuf[cur] \o v \in Seq(Messages)  BY <2>3, <3>1
    <3>3. (wbuf[cur] \o v) \o <<y>> \in Seq(Messages)  BY <3>1, <3>2
    <3> QED  BY <3>3 DEF v
  <2> HIDE DEF o
  <2>5. AnswersOK'  BY <1>2, <1>4, <2>1, <2>4, FlushOne
  <2>6. w = [WriteFrame(st, Head(q).n) EXCEPT !.started = TRUE]  BY <1>2
  <2> HIDE DEF w, st, q, b
  <2>7. w \in Stream /\ InOrder(w) /\ w.live = st.live /\ Continues(w, Tail(q), b)
    BY <1>2, <1>3, <2>6, ContinuesWritten
  <2>8. ~w.live => w.fill = 0  BY <1>7, <2>7
  <2>9. MixerStep(cur, w)  BY <1>6, <2>7 DEF MixerStep
  <2> QED  BY <1>1, <2>1, <2>5, <2>7, <2>8, <2>9, FrameStep DEF q, b
<1>8. CASE ~st.live
  <2>1. UNCHANGED <<stream, wbuf, s2c>>  BY <1>8 DEF OnDataFrame
  <2>2. AnswersOK'  BY <1>4, <2>1 DEF AnswersOK
  <2>3. stream' = [stream EXCEPT ![cur] = st]  BY <1>5, <2>1
  <2>4. st.fill = 0  BY <1>5, <1>8
  <2> HIDE DEF st, q, b
  <2>5. Continues(st, Tail(q), b)  BY <1>2, <2>4, ContinuesTaken
  <2> QED  BY <1>1, <1>2, <1>5, <1>6, <2>2, <2>3, <2>5, FrameStep DEF q, b
<1> QED  BY <1>7, <1>8

LEMMA OversizedKeeps ==
    ASSUME AudioInv, NEW f, OnOversizedFrame(f)
    PROVE  AudioInv'
<1>1. /\ Frame(f) /\ pc = "frames" /\ CloseClient(cur) /\ pc' = "event"
      /\ UNCHANGED <<ctl, thread, cur>>
  BY DEF OnOversizedFrame, Frame, control
<1>2. cur \in Clients  BY <1>1, FrameIs
<1>3. PlaceOK'  BY <1>1, InLoop DEF PlaceOK
<1> QED  BY <1>1, <1>2, <1>3, CloseStep

LEMMA FlushKeeps ==
    ASSUME AudioInv, FramesDone \/ FlushClients
    PROVE  AudioInv'
<1>1. /\ pc # "test" /\ pc' # "frames" /\ UNCHANGED <<ctl, thread, cur>>
      /\ UNCHANGED <<known, mixed, stream, robbed, peer, rbuf, c2s>>
  BY DEF FramesDone, FlushClients, control, pcm
<1>2. thread = "run" /\ ctl # "close"  BY <1>1, InLoop
<1>3. PlaceOK'  BY <1>1, <1>2 DEF PlaceOK
<1>4. AnswersOK /\ PlaceOK /\ ClientsOK  BY DEF AudioInv
<1>5. /\ wbuf \in [Clients -> Seq(Messages)] /\ s2c \in [Clients -> Seq(Messages)]
      /\ \A c \in Clients : Len(s2c[c]) <= SockCap
  BY <1>4 DEF AnswersOK
<1>6. CASE FramesDone
  <2>1. cur \in Clients  BY <1>4, <1>6 DEF PlaceOK, ClientsOK, FramesDone
  <2>2. wbuf[cur] \in Seq(Messages)  BY <1>5, <2>1
  <2>3. /\ wbuf' = [wbuf EXCEPT ![cur] = Unsent(cur, wbuf[cur])]
        /\ s2c' = [s2c EXCEPT ![cur] = Sent(cur, wbuf[cur])]
    BY <1>6 DEF FramesDone
  <2>4. AnswersOK'  BY <1>4, <2>1, <2>2, <2>3, FlushOne
  <2> QED  BY <1>1, <1>3, <2>4, AnswerStep
<1>7. CASE FlushClients
  <2>1. /\ wbuf' = [c \in Clients |-> IF c \in known THEN Unsent(c, wbuf[c]) ELSE wbuf[c]]
        /\ s2c' = [c \in Clients |-> IF c \in known THEN Sent(c, wbuf[c]) ELSE s2c[c]]
    BY <1>7 DEF FlushClients
  <2>2. ASSUME NEW c \in Clients
        PROVE  /\ wbuf'[c] \in Seq(Messages) /\ s2c'[c] \in Seq(Messages)
               /\ Len(s2c'[c]) <= SockCap
    <3>1. wbuf[c] \in Seq(Messages)  BY <1>5
    <3>2. /\ Unsent(c, wbuf[c]) \in Seq(Messages)
          /\ Sent(c, wbuf[c]) \in Seq(Messages)
          /\ Len(Sent(c, wbuf[c])) <= SockCap
      BY <1>4, <3>1, SendTyped
    <3>3. CASE c \in known  BY <2>1, <3>2, <3>3
    <3>4. CASE c \notin known  BY <1>5, <2>1, <3>4
    <3> QED  BY <3>3, <3>4
  <2>3. wbuf' \in [Clients -> Seq(Messages)] /\ s2c' \in [Clients -> Seq(Messages)]
    BY <2>1, <2>2
  <2>4. AnswersOK'  BY <2>2, <2>3 DEF AnswersOK
  <2> QED  BY <1>1, <1>3, <2>4, AnswerStep
<1> QED  BY <1>6, <1>7

\* A server with no client: as it starts, and as alr_audio_sink_stop leaves it.
LEMMA Emptied ==
    ASSUME known = {}, mixed = {},
           stream = [c \in Clients |-> NoStream], rbuf = [c \in Clients |-> <<>>],
           wbuf = rbuf, c2s = rbuf, s2c = rbuf, peer \in [Clients -> PeerState],
           \A c \in Clients : peer[c].state \notin {"open", "shut"}, PlaceOK
    PROVE  AudioInv
<1> DEFINE z == NoStream
<1>1. z \in Stream /\ InOrder(z) /\ z.fill = 0 /\ z.live = FALSE  BY NoStreamIs DEF NoStream
<1> HIDE DEF z
<1>2. stream = [c \in Clients |-> z]  BY DEF z
<1>3. stream \in [Clients -> Stream] /\ \A c \in Clients : stream[c] = z  BY <1>1, <1>2
<1>4. /\ rbuf \in [Clients -> Seq(Frames)] /\ c2s \in [Clients -> Seq(Frames)]
      /\ wbuf \in [Clients -> Seq(Messages)] /\ s2c \in [Clients -> Seq(Messages)]
  OBVIOUS
<1>5. \A c \in Clients : rbuf[c] = <<>> /\ c2s[c] = <<>> /\ s2c[c] = <<>>  OBVIOUS
<1>6. ClientsOK  BY <1>4 DEF ClientsOK
<1>7. AnswersOK
  <2>1. Len(<<>>) <= SockCap  BY PulseAssumption
  <2> QED  BY <1>4, <1>5, <2>1 DEF AnswersOK
<1>8. StreamsOK  BY <1>1, <1>3 DEF StreamsOK, MixerFollowsClients
<1>9. ASSUME NEW c \in Clients PROVE Continues(stream[c], Unread(c), peer[c].blocks)
  <2>1. <<>> \o <<>> = <<>>  OBVIOUS
  <2>2. Unread(c) = <<>>  BY <1>5, <2>1 DEF Unread
  <2>3. peer[c].blocks \in Nat  BY DEF PeerState
  <2>4. Continues(z, <<>>, peer[c].blocks)  BY <1>1, <2>3, ContinuesEmpty
  <2> QED  BY <1>3, <2>2, <2>4
<1> QED  BY <1>6, <1>7, <1>8, <1>9 DEF AudioInv, BlocksOK

LEMMA AudioInit ==
    ASSUME ServerInit
    PROVE  AudioInv
<1>1. /\ known = {} /\ mixed = {} /\ stream = [c \in Clients |-> NoStream]
      /\ rbuf = [c \in Clients |-> <<>>] /\ wbuf = rbuf /\ c2s = rbuf /\ s2c = rbuf
  BY DEF ServerInit
<1>2. /\ peer \in [Clients -> PeerState]
      /\ \A c \in Clients : peer[c].state \notin {"open", "shut"}
  BY DEF ServerInit, PeerState
<1>3. PlaceOK  BY DEF ServerInit, PlaceOK
<1> QED  BY <1>1, <1>2, <1>3, Emptied

LEMMA ClosesKeeps ==
    ASSUME AudioInv, StopCloses
    PROVE  AudioInv'
<1>1. ClientsOK /\ PlaceOK  BY DEF AudioInv
<1>2. /\ ctl = "close" /\ ctl' = "off" /\ UNCHANGED <<thread, pc, cur>>
      /\ known' = {} /\ mixed' = {} /\ stream' = [c \in Clients |-> NoStream]
      /\ rbuf' = [c \in Clients |-> <<>>] /\ wbuf' = rbuf' /\ c2s' = rbuf' /\ s2c' = rbuf'
      /\ peer' = [c \in Clients |-> IF peer[c].state = "new" THEN peer[c]
                                    ELSE [peer[c] EXCEPT !.state = "gone"]]
  BY DEF StopCloses, loop
<1>3. PlaceOK'  BY <1>1, <1>2 DEF PlaceOK
<1>4. ASSUME NEW c \in Clients
      PROVE  peer'[c] \in PeerState /\ peer'[c].state \notin {"open", "shut"}
             /\ peer'[c].blocks \in Nat
  <2> DEFINE r == peer[c]
             p == peer'[c]
  <2>1. r \in PeerState  BY <1>1 DEF ClientsOK
  <2>2. p = IF r.state = "new" THEN r ELSE [r EXCEPT !.state = "gone"]  BY <1>2
  <2> HIDE DEF r, p
  <2>3. p \in PeerState /\ p.state \notin {"open", "shut"} /\ p.blocks \in Nat
    BY <2>1, <2>2 DEF PeerState
  <2> QED  BY <2>3 DEF p
<1>5. peer' \in [Clients -> PeerState]  BY <1>2, <1>4
<1> DEFINE z == NoStream
<1>6. z \in Stream /\ InOrder(z) /\ z.fill = 0 /\ z.live = FALSE  BY NoStreamIs DEF NoStream
<1>7. stream' = [c \in Clients |-> z]  BY <1>2
<1> HIDE DEF z
<1>8. stream' \in [Clients -> Stream] /\ \A c \in Clients : stream'[c] = z  BY <1>6, <1>7
<1>9. /\ rbuf' \in [Clients -> Seq(Frames)] /\ c2s' \in [Clients -> Seq(Frames)]
      /\ wbuf' \in [Clients -> Seq(Messages)] /\ s2c' \in [Clients -> Seq(Messages)]
      /\ \A c \in Clients : rbuf'[c] = <<>> /\ c2s'[c] = <<>> /\ s2c'[c] = <<>>
  BY <1>2
<1>10. ClientsOK'  BY <1>2, <1>4, <1>5, <1>9 DEF ClientsOK
<1>11. AnswersOK'
  <2>1. Len(<<>>) <= SockCap  BY PulseAssumption
  <2> QED  BY <1>9, <2>1 DEF AnswersOK
<1>12. StreamsOK'  BY <1>2, <1>6, <1>8 DEF StreamsOK, MixerFollowsClients
<1>13. ASSUME NEW c \in Clients
       PROVE  Continues(stream'[c], rbuf'[c] \o c2s'[c], peer'[c].blocks)
  <2>1. <<>> \o <<>> = <<>>  OBVIOUS
  <2>2. rbuf'[c] \o c2s'[c] = <<>>  BY <1>9, <2>1
  <2>3. Continues(z, <<>>, peer'[c].blocks)  BY <1>4, <1>6, ContinuesEmpty
  <2> QED  BY <1>8, <2>2, <2>3
<1>14. BlocksOK'  BY <1>13 DEF BlocksOK, Unread
<1> QED  BY <1>3, <1>10, <1>11, <1>12, <1>14 DEF AudioInv

LEMMA AudioNext == AudioInv /\ [ServerNext]_serverVars => AudioInv'
<1> SUFFICES ASSUME AudioInv, [ServerNext]_serverVars PROVE AudioInv'  OBVIOUS
<1>1. CASE UNCHANGED serverVars
  <2>1. /\ UNCHANGED <<known, mixed, stream, robbed, peer, rbuf, wbuf, c2s, s2c>>
        /\ UNCHANGED <<ctl, thread, pc, cur, known>>
    BY <1>1 DEF serverVars, control, loop, pcm
  <2> QED  BY <2>1, IdleStep, SamePlace DEF AudioInv
<1>2. CASE \/ SinkStart \/ SinkStop \/ StopWakes \/ StopJoins
           \/ EpollTest \/ EpollWait \/ OthersReady \/ OnWakeup \/ CallbackWaits
  BY <1>2, ControlKeeps
<1>3. CASE StopCloses  BY <1>3, ClosesKeeps
<1>4. CASE CallbackMixes  BY <1>4, CallbackKeeps
<1>5. CASE AcceptClients  BY <1>5, AcceptKeeps
<1>6. CASE FramesDone \/ FlushClients  BY <1>6, FlushKeeps
<1>7. CASE \E c \in Clients : OnHangup(c) \/ HandleReadable(c)
  BY <1>7, HangupKeeps, ReadableKeeps
<1>8. CASE LET f == Head(rbuf[cur]) IN
             \/ HandleCreate(f) \/ HandleDelete(f) \/ HandleControl(f) \/ OnDataFrame(f)
             \/ OnOversizedFrame(f)
  BY <1>8, CreateKeeps, DeleteKeeps, ControlFrameKeeps, DataKeeps, OversizedKeeps
<1>9. CASE \E c \in Clients :
             \/ Connect(c) \/ SendData(c) \/ SendOversized(c)
             \/ Receive(c) \/ Shut(c)
             \/ \E kind \in Requests : SendRequest(c, kind)
  BY <1>9, ClientKeeps
<1>12. CASE \E c \in Clients : OthersDelete(c)  BY <1>12, OthersKeep
<1>10. CASE EpollThread
  BY <1>2, <1>5, <1>6, <1>7, <1>8, <1>10 DEF EpollThread
<1>11. CASE ServerNext
  BY <1>2, <1>3, <1>4, <1>9, <1>10, <1>11, <1>12 DEF ServerNext, Stop
<1> QED  BY <1>1, <1>11

\* Where the server's threads, its clients, their streams and their frames can be.
THEOREM AudioInvariant == ServerSpec => []AudioInv
<1>1. ServerInit => AudioInv  BY AudioInit
<1>2. AudioInv /\ [ServerNext]_serverVars => AudioInv'  BY AudioNext
<1> QED  BY <1>1, <1>2, PTL DEF ServerSpec

\* aaudio_cb mixes only streams of connected clients, and misses only those that a
\* DELETE of another client took out, whichever thread is where (mix_streams,
\* close_client, erase_stream).
THEOREM MixerFollows == ServerSpec => []MixerFollowsClients
<1>1. AudioInv => MixerFollowsClients  BY DEF AudioInv, StreamsOK
<1> QED  BY <1>1, AudioInvariant, PTL

\* A stream's ring holds, in order and without a gap, the newest blocks its client sent,
\* around the end of the ring and whatever was dropped, played or flushed
\* (push_pcm_to_ring, aaudio_cb).
THEOREM RingNewest == ServerSpec => []RingHoldsNewest
<1>1. AudioInv => RingHoldsNewest  BY InOrderIsRing DEF AudioInv
<1> QED  BY <1>1, AudioInvariant, PTL

-----------------------------------------------------------------------------
(* Requests and their answers                                              *)

\* The answers on their way, up to some m, and the requests after m.
InStep(s, q, r) ==
    \E m \in Nat : InTurn(s, Answers, r.acked, m) /\ InTurn(q, Requests, m, r.tags)
Said(c) == s2c[c] \o wbuf[c]
Talking == {"new", "pending", "open"}
TurnsOK ==
    \A c \in Clients :
        /\ peer[c].state = "new" => peer[c].tags = 0 /\ peer[c].acked = 0
        /\ peer[c].state \in Talking => InStep(Said(c), Unread(c), peer[c])

LEMMA InStepIsInOrder ==
    ASSUME AudioInv, TurnsOK
    PROVE  AnswersInOrder
<1> SUFFICES ASSUME NEW c \in known, peer[c].state = "open"
             PROVE  \E m \in peer[c].acked .. peer[c].tags :
                      /\ InTurn(s2c[c] \o wbuf[c], Answers, peer[c].acked, m)
                      /\ InTurn(rbuf[c] \o c2s[c], Requests, m, peer[c].tags)
  BY DEF AnswersInOrder
<1>1. c \in Clients /\ peer[c] \in PeerState  BY DEF AudioInv, ClientsOK
<1>2. peer[c].acked \in Nat /\ peer[c].tags \in Nat  BY <1>1 DEF PeerState
<1>3. PICK m \in Nat : /\ InTurn(Said(c), Answers, peer[c].acked, m)
                       /\ InTurn(Unread(c), Requests, m, peer[c].tags)
  BY <1>1 DEF TurnsOK, Talking, InStep
<1>4. peer[c].acked <= m /\ m <= peer[c].tags  BY <1>2, <1>3, TurnMeans
<1>5. m \in peer[c].acked .. peer[c].tags  BY <1>2, <1>4
<1> QED  BY <1>3, <1>5 DEF Said, Unread

\* A client sends a frame.
LEMMA StepSends ==
    ASSUME NEW s, NEW S, NEW q \in Seq(S), NEW x \in S, NEW r, NEW p, r.tags \in Nat,
           InStep(s, q, r), p.acked = r.acked, x.kind \in Requests => x.n = r.tags + 1,
           p.tags = r.tags + (IF x.kind \in Requests THEN 1 ELSE 0)
    PROVE  InStep(s, Append(q, x), p)
<1> DEFINE t == r.tags
           a == r.acked
           K == Requests
<1>1. PICK m \in Nat : InTurn(s, Answers, a, m) /\ InTurn(q, K, m, t)
  BY DEF InStep
<1>2. t \in Nat /\ (x.kind \in K => x.n = t + 1)  OBVIOUS
<1> HIDE DEF t, a, K
<1>3. InTurn(Append(q, x), K, m, t + (IF x.kind \in K THEN 1 ELSE 0))
  BY <1>1, <1>2, TurnAppend
<1> QED  BY <1>1, <1>3 DEF InStep, t, a, K

\* A client takes an answer.
LEMMA StepReceives ==
    ASSUME NEW q, NEW S, NEW s \in Seq(S), s # <<>>, NEW r, NEW p, r.acked \in Nat,
           InStep(s, q, r), p.tags = r.tags,
           p.acked = IF Head(s).kind \in Answers THEN Head(s).n ELSE r.acked
    PROVE  InStep(Tail(s), q, p)
<1> DEFINE t == r.tags
           a == r.acked
           K == Answers
<1>1. PICK m \in Nat : InTurn(s, K, a, m) /\ InTurn(q, Requests, m, t)
  BY DEF InStep
<1>2. a \in Nat /\ p.acked = (IF Head(s).kind \in K THEN Head(s).n ELSE a)  OBVIOUS
<1> HIDE DEF t, a, K
<1>3. /\ Head(s).kind \in K => Head(s).n = a + 1 /\ InTurn(Tail(s), K, a + 1, m)
      /\ Head(s).kind \notin K => InTurn(Tail(s), K, a, m)
  BY <1>1, <1>2, TurnTail
<1>4. InTurn(Tail(s), K, p.acked, m)
  <2>1. CASE Head(s).kind \in K
    <3>1. p.acked = a + 1  BY <1>2, <1>3, <2>1
    <3> QED  BY <1>3, <2>1, <3>1
  <2>2. CASE Head(s).kind \notin K
    <3>1. p.acked = a  BY <1>2, <2>2
    <3> QED  BY <1>3, <2>2, <3>1
  <2> QED  BY <2>1, <2>2
<1> QED  BY <1>1, <1>4 DEF InStep, t, K

\* A request is taken and its answer queued.
LEMMA StepAnswers ==
    ASSUME NEW S, NEW s \in Seq(S), NEW T, NEW q \in Seq(T), q # <<>>, NEW x \in S, NEW r,
           r.acked \in Nat, r.tags \in Nat, InStep(s, q, r), Head(q).kind \in Requests,
           x.kind \in Answers, x.n = Head(q).n
    PROVE  InStep(Append(s, x), Tail(q), r)
<1> DEFINE t == r.tags
           a == r.acked
           K == Answers
           L == Requests
<1>1. PICK m \in Nat : InTurn(s, K, a, m) /\ InTurn(q, L, m, t)
  BY DEF InStep
<1>2. a \in Nat /\ t \in Nat /\ Head(q).kind \in L /\ x.kind \in K  OBVIOUS
<1> HIDE DEF t, a, K, L
<1>3. Head(q).n = m + 1 /\ InTurn(Tail(q), L, m + 1, t)  BY <1>1, <1>2, TurnTail
<1>4. x.n = m + 1  BY <1>3
<1>5. InTurn(Append(s, x), K, a, m + (IF x.kind \in K THEN 1 ELSE 0))
  BY <1>1, <1>2, <1>4, TurnAppend
<1>6. InTurn(Append(s, x), K, a, m + 1)  BY <1>2, <1>5
<1>7. m + 1 \in Nat  OBVIOUS
<1> QED  BY <1>3, <1>6, <1>7 DEF InStep, t, a, K, L

\* The server says something of its own.
LEMMA StepSays ==
    ASSUME NEW q, NEW S, NEW s \in Seq(S), NEW x \in S, NEW r, r.acked \in Nat,
           InStep(s, q, r), x.kind \notin Answers
    PROVE  InStep(Append(s, x), q, r)
<1> DEFINE t == r.tags
           a == r.acked
           K == Answers
<1>1. PICK m \in Nat : InTurn(s, K, a, m) /\ InTurn(q, Requests, m, t)
  BY DEF InStep
<1>2. a \in Nat /\ x.kind \notin K  OBVIOUS
<1> HIDE DEF t, a, K
<1>3. InTurn(Append(s, x), K, a, m + (IF x.kind \in K THEN 1 ELSE 0))
  BY <1>1, <1>2, TurnAppend
<1>4. m + (IF x.kind \in K THEN 1 ELSE 0) = m  BY <1>2
<1> QED  BY <1>1, <1>3, <1>4 DEF InStep, t, a, K

\* A frame that is no request is taken.
LEMMA StepSkips ==
    ASSUME NEW s, NEW S, NEW q \in Seq(S), q # <<>>, NEW r, r.tags \in Nat,
           InStep(s, q, r), Head(q).kind \notin Requests
    PROVE  InStep(s, Tail(q), r)
<1> DEFINE t == r.tags
           K == Requests
<1>1. PICK m \in Nat : InTurn(s, Answers, r.acked, m) /\ InTurn(q, K, m, t)
  BY DEF InStep
<1>2. t \in Nat /\ Head(q).kind \notin K  OBVIOUS
<1> HIDE DEF t, K
<1>3. InTurn(Tail(q), K, m, t)  BY <1>1, <1>2, TurnTail
<1> QED  BY <1>1, <1>3 DEF InStep, t, K

\* A step that concerns one client.
LEMMA TurnStep ==
    ASSUME TurnsOK, NEW c \in Clients,
           \A d \in Clients : d # c =>
             /\ peer'[d] = peer[d] /\ s2c'[d] = s2c[d] /\ wbuf'[d] = wbuf[d]
             /\ rbuf'[d] = rbuf[d] /\ c2s'[d] = c2s[d],
           peer'[c].state = "new" => peer'[c].tags = 0 /\ peer'[c].acked = 0,
           peer'[c].state \in Talking =>
             InStep(s2c'[c] \o wbuf'[c], rbuf'[c] \o c2s'[c], peer'[c])
    PROVE  TurnsOK'
<1>1. ASSUME NEW d \in Clients
      PROVE  /\ peer'[d].state = "new" => peer'[d].tags = 0 /\ peer'[d].acked = 0
             /\ peer'[d].state \in Talking =>
                  InStep(s2c'[d] \o wbuf'[d], rbuf'[d] \o c2s'[d], peer'[d])
  <2>1. CASE d = c  BY <2>1
  <2>2. CASE d # c  BY <2>2 DEF TurnsOK, Said, Unread
  <2> QED  BY <2>1, <2>2
<1> QED  BY <1>1 DEF TurnsOK, Said, Unread

\* The state of one client's conversation is typed.
LEMMA SaidTyped ==
    ASSUME AudioInv, NEW c \in Clients
    PROVE  /\ peer[c] \in PeerState /\ peer[c].tags \in Nat /\ peer[c].acked \in Nat
           /\ s2c[c] \in Seq(Messages) /\ wbuf[c] \in Seq(Messages)
           /\ Said(c) \in Seq(Messages) /\ Unread(c) \in Seq(Frames)
<1>1. ClientsOK /\ AnswersOK  BY DEF AudioInv
<1>2. peer[c] \in PeerState /\ s2c[c] \in Seq(Messages) /\ wbuf[c] \in Seq(Messages)
  BY <1>1 DEF ClientsOK, AnswersOK
<1>3. peer[c].tags \in Nat /\ peer[c].acked \in Nat  BY <1>2 DEF PeerState
<1>4. s2c[c] \o wbuf[c] \in Seq(Messages)  BY <1>2
<1> QED  BY <1>1, <1>2, <1>3, <1>4, UnreadTyped DEF Said

LEMMA FirstTaken ==
    ASSUME NEW p \in Seq(Messages), NEW q \in Seq(Messages), p # <<>>
    PROVE  p \o q # <<>> /\ Head(p \o q) = Head(p) /\ Tail(p) \o q = Tail(p \o q)
<1>1. /\ Tail(p) \in Seq(Messages) /\ p \o q \in Seq(Messages)
      /\ p \o q # <<>> /\ Head(p \o q) = Head(p)
  OBVIOUS
<1>2. /\ Tail(p) \o q \in Seq(Messages) /\ Tail(p \o q) \in Seq(Messages)
      /\ Len(Tail(p) \o q) = Len(p) + Len(q) - 1 /\ Len(Tail(p \o q)) = Len(p) + Len(q) - 1
  BY <1>1
<1>3. \A i \in 1 .. Len(p) + Len(q) - 1 : (Tail(p) \o q)[i] = Tail(p \o q)[i]  BY <1>1
<1> QED  BY <1>1, <1>2, <1>3

LEMMA ClientTurns ==
    ASSUME AudioInv, TurnsOK, NEW c \in Clients,
           \/ Connect(c) \/ SendData(c) \/ SendOversized(c)
           \/ Receive(c) \/ Shut(c)
           \/ \E kind \in Requests : SendRequest(c, kind)
    PROVE  TurnsOK'
<1> DEFINE r == peer[c]
           q == c2s[c]
           s == Said(c)
           u == Unread(c)
<1>1. /\ r \in PeerState /\ r.tags \in Nat /\ r.acked \in Nat /\ r.blocks \in Nat
      /\ s2c[c] \in Seq(Messages) /\ wbuf[c] \in Seq(Messages)
      /\ s \in Seq(Messages) /\ u \in Seq(Frames)
  BY SaidTyped, UnreadTyped DEF AudioInv
<1>2. /\ peer \in [Clients -> PeerState] /\ c2s \in [Clients -> Seq(Frames)]
      /\ rbuf[c] \in Seq(Frames) /\ q \in Seq(Frames)
      /\ s2c \in [Clients -> Seq(Messages)]
  BY DEF AudioInv, ClientsOK, AnswersOK
<1>3. /\ r.state = "new" => r.tags = 0 /\ r.acked = 0
      /\ r.state \in Talking => InStep(s, u, r)
  BY DEF TurnsOK
<1>4. s = s2c[c] \o wbuf[c] /\ u = rbuf[c] \o q  BY DEF Said, Unread
<1>5. CASE Connect(c) \/ Shut(c)
  <2>1. PICK z \in {"pending", "shut"} :
          /\ peer' = [peer EXCEPT ![c].state = z] /\ (z = "pending" => r.state = "new")
    BY <1>5 DEF Connect, Shut
  <2>2. UNCHANGED <<rbuf, c2s, wbuf, s2c>>  BY <1>5 DEF Connect, Shut
  <2> DEFINE p == [r EXCEPT !.state = z]
  <2>3. peer' = [peer EXCEPT ![c] = p]  BY <1>2, <2>1
  <2> HIDE DEF r, q, s, u
  <2>4. p.state = z /\ p.tags = r.tags /\ p.acked = r.acked  BY <1>1 DEF PeerState
  <2> HIDE DEF p
  <2>5. peer'[c] = p /\ \A d \in Clients : d # c => peer'[d] = peer[d]  BY <1>2, <2>3
  <2>6. p.state \in Talking => InStep(s, u, p)  BY <1>3, <2>1, <2>4 DEF Talking, InStep
  <2>7. p.state # "new"  BY <2>1, <2>4
  <2>8. p.state \in Talking => InStep(s2c'[c] \o wbuf'[c], rbuf'[c] \o c2s'[c], p)
    BY <1>4, <2>2, <2>6 DEF q
  <2> QED  BY <2>2, <2>5, <2>7, <2>8, TurnStep
<1>6. CASE Receive(c)
  <2> DEFINE m == Head(s2c[c])
             answers == m.kind \in {"reply", "created"}
             grant == IF m.kind = "request" THEN m.n ELSE IF m.kind = "created" THEN TLength ELSE 0
             k == IF answers THEN m.n ELSE r.acked
             e == r.credit + grant
             p == [r EXCEPT !.acked = k, !.credit = e]
  <2>1. /\ s2c[c] # <<>> /\ s2c' = [s2c EXCEPT ![c] = Tail(@)] /\ r.state = "open"
        /\ UNCHANGED <<rbuf, c2s, wbuf>>
    BY <1>6 DEF Receive
  <2>2. peer' = [peer EXCEPT ![c] = p]
    <3>1. peer' = [peer EXCEPT ![c].acked = IF answers THEN m.n ELSE @, ![c].credit = @ + grant]
      BY <1>6 DEF Receive
    <3> HIDE DEF answers, m, grant
    <3> QED  BY <1>2, <3>1
  <2>3. k = IF m.kind \in Answers THEN m.n ELSE r.acked  BY DEF Answers
  <2> HIDE DEF r, q, s, u, k, e, m
  <2>4. p.state = r.state /\ p.tags = r.tags /\ p.acked = k  BY <1>1 DEF PeerState
  <2> HIDE DEF p
  <2>5. peer'[c] = p /\ \A d \in Clients : d # c => peer'[d] = peer[d]  BY <1>2, <2>2
  <2>6. s2c'[c] = Tail(s2c[c]) /\ \A d \in Clients : d # c => s2c'[d] = s2c[d]  BY <1>2, <2>1
  <2>7. s # <<>> /\ Head(s) = m /\ Tail(s2c[c]) \o wbuf[c] = Tail(s)
    BY <1>1, <1>4, <2>1, FirstTaken DEF m
  <2>8. InStep(s, u, r)  BY <1>3, <2>1 DEF Talking
  <2>9. InStep(Tail(s), u, p)  BY <1>1, <2>3, <2>4, <2>7, <2>8, StepReceives
  <2>10. InStep(s2c'[c] \o wbuf'[c], rbuf'[c] \o c2s'[c], p)
    BY <1>4, <2>1, <2>6, <2>7, <2>9 DEF q
  <2>11. p.state # "new"  BY <2>1, <2>4
  <2> QED  BY <2>1, <2>5, <2>6, <2>10, <2>11, TurnStep
<1>7. CASE \/ SendData(c) \/ SendOversized(c)
           \/ \E kind \in Requests : SendRequest(c, kind)
  <2>1. UNCHANGED <<rbuf, wbuf, s2c>> /\ r.state \in {"pending", "open"}
    BY <1>7 DEF SendData, SendOversized, SendRequest
  <2>2. PICK x \in Frames, p \in PeerState :
          /\ peer' = [peer EXCEPT ![c] = p] /\ c2s' = [c2s EXCEPT ![c] = Append(q, x)]
          /\ p.state = r.state /\ p.acked = r.acked
          /\ p.tags = r.tags + (IF x.kind \in Requests THEN 1 ELSE 0)
          /\ x.kind \in Requests => x.n = r.tags + 1
    <3>1. CASE SendData(c)
      <4> DEFINE x == [kind |-> "data", n |-> r.blocks + 1]
                 k == r.blocks + 1
                 e == r.credit - 1
                 p == [r EXCEPT !.blocks = k, !.credit = e]
      <4>1. x \in Frames /\ x.kind \notin Requests
        BY <1>1 DEF Frames, Requests
      <4>2. peer' = [peer EXCEPT ![c] = p]
        <5>1. peer' = [peer EXCEPT ![c].blocks = @ + 1, ![c].credit = @ - 1]
          BY <3>1 DEF SendData
        <5> QED  BY <1>2, <5>1
      <4>3. c2s' = [c2s EXCEPT ![c] = Append(q, x)]  BY <1>2, <3>1 DEF SendData
      <4> HIDE DEF r, q, x
      <4>4. k \in Nat /\ e \in Int  BY <1>1, PeerNumbers
      <4> HIDE DEF k, e
      <4>5. p \in PeerState  BY <1>1, <4>4, PeerSends
      <4>6. p.state = r.state /\ p.acked = r.acked /\ p.tags = r.tags  BY <1>1 DEF PeerState
      <4> HIDE DEF p
      <4>7. p.tags = r.tags + (IF x.kind \in Requests THEN 1 ELSE 0)  BY <1>1, <4>1, <4>6
      <4> QED  BY <4>1, <4>2, <4>3, <4>5, <4>6, <4>7
    <3>2. CASE SendOversized(c)
      <4> DEFINE x == [kind |-> "bad", n |-> 0]
      <4>1. x \in Frames /\ x.kind \notin Requests
        BY DEF Frames, Requests
      <4>2. q = <<>> /\ c2s' = [c2s EXCEPT ![c] = <<x>>] /\ peer' = peer
        BY <3>2 DEF SendOversized
      <4>3. peer' = [peer EXCEPT ![c] = r]  BY <1>2, <4>2
      <4> HIDE DEF x, q, r
      <4>4. Append(<<>>, x) = <<x>>  OBVIOUS
      <4>5. r.tags = r.tags + (IF x.kind \in Requests THEN 1 ELSE 0)  BY <1>1, <4>1
      <4> QED  BY <1>1, <4>1, <4>2, <4>3, <4>4, <4>5
    <3>3. CASE \E kind \in Requests : SendRequest(c, kind)
      <4>1. PICK kind \in Requests : SendRequest(c, kind)  BY <3>3
      <4> DEFINE k == r.tags + 1
                 x == [kind |-> kind, n |-> k]
                 made == r.created \/ kind = "create"
                 p == [r EXCEPT !.tags = k, !.created = made]
      <4>2. k \in Nat /\ made \in BOOLEAN  BY <1>1
      <4>3. peer' = [peer EXCEPT ![c] = p]
        <5>1. peer' = [peer EXCEPT ![c].tags = @ + 1, ![c].created = @ \/ kind = "create"]
          BY <4>1 DEF SendRequest
        <5> QED  BY <1>2, <5>1
      <4>4. c2s' = [c2s EXCEPT ![c] = Append(q, x)]  BY <1>2, <4>1 DEF SendRequest
      <4> HIDE DEF made, r, q
      <4>5. x \in Frames /\ x.kind \in Requests /\ x.n = k
        BY <4>2 DEF Frames
      <4> HIDE DEF x
      <4>6. k = r.tags + (IF x.kind \in Requests THEN 1 ELSE 0)  BY <4>5
      <4>7. k = r.tags + 1  OBVIOUS
      <4> HIDE DEF k
      <4>8. p \in PeerState  BY <1>1, <4>2, PeerAsks
      <4>9. p.state = r.state /\ p.acked = r.acked /\ p.tags = k  BY <1>1 DEF PeerState
      <4> HIDE DEF p
      <4> QED  BY <4>3, <4>4, <4>5, <4>6, <4>7, <4>8, <4>9
    <3> QED  BY <1>7, <3>1, <3>2, <3>3
  <2> HIDE DEF r, q, s, u
  <2>3. peer'[c] = p /\ \A d \in Clients : d # c => peer'[d] = peer[d]  BY <1>2, <2>2
  <2>4. Append(q, x) \in Seq(Frames)  BY <1>2
  <2>5. c2s'[c] = Append(q, x) /\ \A d \in Clients : d # c => c2s'[d] = c2s[d]
    BY <1>2, <2>2, <2>4
  <2>6. rbuf[c] \o Append(q, x) = Append(u, x)  BY <1>2, <1>4, AppendLast
  <2>7. InStep(s, u, r)  BY <1>3, <2>1 DEF Talking
  <2>8. InStep(s, Append(u, x), p)  BY <1>1, <2>2, <2>7, StepSends
  <2>9. InStep(s2c'[c] \o wbuf'[c], rbuf'[c] \o c2s'[c], p)
    BY <1>4, <2>1, <2>5, <2>6, <2>8
  <2>10. p.state # "new"  BY <2>1, <2>2
  <2> QED  BY <2>1, <2>3, <2>5, <2>9, <2>10, TurnStep
<1> QED  BY <1>5, <1>6, <1>7

LEMMA JoinIs ==
    ASSUME NEW p \in Seq(Messages), NEW q \in Seq(Messages)
    PROVE  /\ p \o q \in Seq(Messages) /\ Len(p \o q) = Len(p) + Len(q)
           /\ \A i \in 1 .. Len(p) + Len(q) :
                (p \o q)[i] = IF i <= Len(p) THEN p[i] ELSE q[i - Len(p)]
  OBVIOUS

LEMMA SameSeq ==
    ASSUME NEW p \in Seq(Messages), NEW q \in Seq(Messages), Len(p) = Len(q),
           \A i \in 1 .. Len(p) : p[i] = q[i]
    PROVE  p = q
  OBVIOUS

\* What flush_wbuf sends and keeps is what there was, in order.
LEMMA NothingLost ==
    ASSUME AnswersOK, NEW c \in Clients, NEW w \in Seq(Messages),
           peer[c].state = "open"
    PROVE  Sent(c, w) \o Unsent(c, w) = s2c[c] \o w
<1> DEFINE s == s2c[c]
           k == Sendable(c, w)
           v == SubSeq(w, 1, k)
           t == SubSeq(w, k + 1, Len(w))
<1>1. s \in Seq(Messages) /\ Len(s) <= SockCap /\ SockCap \in Nat
  BY PulseAssumption DEF AnswersOK
<1>2. Len(s) \in Nat /\ Len(w) \in Nat  BY <1>1
<1>3. k \in 0 .. Len(w)
  <2> DEFINE lw == Len(w)
             ls == Len(s)
  <2>1. k = IF lw < SockCap - ls THEN lw ELSE SockCap - ls  BY DEF Sendable
  <2>2. lw \in Nat /\ ls \in Nat /\ ls <= SockCap /\ SockCap \in Nat  BY <1>1, <1>2
  <2> HIDE DEF lw, ls, k
  <2>3. k \in 0 .. lw  BY <2>1, <2>2
  <2> QED  BY <2>3 DEF lw
<1>4. Sent(c, w) = s \o v /\ Unsent(c, w) = t  BY DEF Sent, Unsent
<1> HIDE DEF s, k
<1>5. /\ v \in Seq(Messages) /\ Len(v) = k /\ \A i \in 1 .. k : v[i] = w[i]
  <2>1. \A j \in 1 .. k : w[j] \in Messages  BY <1>2, <1>3
  <2> QED  BY <1>2, <1>3, <2>1
<1>6. /\ t \in Seq(Messages) /\ Len(t) = Len(w) - k
      /\ \A i \in 1 .. Len(w) - k : t[i] = w[k + i]
  <2>1. \A j \in k + 1 .. Len(w) : w[j] \in Messages  BY <1>2, <1>3
  <2> QED  BY <1>2, <1>3, <2>1
<1> HIDE DEF v, t
<1> DEFINE sv == s \o v
           svt == sv \o t
           sw == s \o w
           ls == Len(s)
           lw == Len(w)
<1>7. /\ sv \in Seq(Messages) /\ Len(sv) = ls + k
      /\ \A i \in 1 .. ls + k : sv[i] = IF i <= ls THEN s[i] ELSE v[i - ls]
  <2>1. Len(v) = k /\ v \in Seq(Messages)  BY <1>5
  <2> QED  BY <1>1, <2>1, JoinIs
<1> HIDE DEF sv
<1>8. /\ sw \in Seq(Messages) /\ Len(sw) = ls + lw
      /\ \A i \in 1 .. ls + lw : sw[i] = IF i <= ls THEN s[i] ELSE w[i - ls]
  BY <1>1, JoinIs
<1> HIDE DEF sw
<1>9. ls \in Nat /\ lw \in Nat /\ k \in 0 .. lw  BY <1>2, <1>3
<1>10. /\ t \in Seq(Messages) /\ Len(t) = lw - k /\ \A i \in 1 .. lw - k : t[i] = w[k + i]
  BY <1>6
<1> HIDE DEF ls, lw
<1>11. /\ svt \in Seq(Messages) /\ Len(svt) = ls + lw
       /\ \A i \in 1 .. ls + lw : svt[i] = IF i <= ls + k THEN sv[i] ELSE t[i - (ls + k)]
  <2>1. (ls + k) + (lw - k) = ls + lw  BY <1>9
  <2>2. /\ svt \in Seq(Messages) /\ Len(svt) = Len(sv) + Len(t)
        /\ \A i \in 1 .. Len(sv) + Len(t) :
             svt[i] = IF i <= Len(sv) THEN sv[i] ELSE t[i - Len(sv)]
    BY <1>7, <1>10, JoinIs
  <2> QED  BY <1>7, <1>10, <2>1, <2>2
<1> HIDE DEF svt
<1>12. ASSUME NEW i \in 1 .. ls + lw PROVE svt[i] = sw[i]
  <2>1. CASE i <= ls
    <3>1. i \in 1 .. ls + k /\ i <= ls + k  BY <1>9, <2>1
    <3> QED  BY <1>7, <1>8, <1>11, <2>1, <3>1
  <2>2. CASE i > ls /\ i <= ls + k
    <3>1. i \in 1 .. ls + k /\ i - ls \in 1 .. k /\ ~(i <= ls)  BY <1>9, <2>2
    <3>2. svt[i] = v[i - ls] /\ sw[i] = w[i - ls]  BY <1>7, <1>8, <1>11, <2>2, <3>1
    <3> QED  BY <1>5, <3>1, <3>2
  <2>3. CASE i > ls + k
    <3> DEFINE e == i - (ls + k)
    <3>1. e \in 1 .. lw - k /\ k + e = i - ls /\ ~(i <= ls) /\ ~(i <= ls + k)  BY <1>9, <2>3
    <3>2. svt[i] = t[e] /\ sw[i] = w[i - ls]  BY <1>8, <1>11, <3>1
    <3> HIDE DEF e
    <3> QED  BY <1>10, <3>1, <3>2
  <2> QED  BY <1>9, <2>1, <2>2, <2>3
<1>13. svt = sw  BY <1>8, <1>11, <1>12, SameSeq
<1> QED  BY <1>4, <1>13 DEF s, sv, svt, sw

\* Answers queued one by one.
LEMMA QueueOne ==
    ASSUME NEW p \in Seq(Messages), NEW q \in Seq(Messages), NEW x \in Messages
    PROVE  p \o (q \o <<x>>) = Append(p \o q, x)
<1>1. p \o (q \o <<x>>) \in Seq(Messages) /\ Append(p \o q, x) \in Seq(Messages)
  OBVIOUS
<1>2. Len(p \o (q \o <<x>>)) = Len(Append(p \o q, x))  OBVIOUS
<1>3. \A i \in 1 .. Len(p) + Len(q) + 1 : (p \o (q \o <<x>>))[i] = Append(p \o q, x)[i]
  OBVIOUS
<1> QED  BY <1>1, <1>2, <1>3

\* Nothing happens to a conversation.
LEMMA TurnsIdle ==
    ASSUME TurnsOK, UNCHANGED <<peer, s2c, wbuf, rbuf, c2s>>
    PROVE  TurnsOK'
  BY DEF TurnsOK, Said, Unread

\* close_client ends the conversation.
LEMMA CloseTurns ==
    ASSUME AudioInv, TurnsOK, NEW c \in Clients, CloseClient(c)
    PROVE  TurnsOK'
<1> DEFINE r == peer[c]
           p == [r EXCEPT !.state = "gone"]
<1>1. /\ peer \in [Clients -> PeerState] /\ r \in PeerState
      /\ rbuf \in [Clients -> Seq(Frames)] /\ c2s \in [Clients -> Seq(Frames)]
      /\ wbuf \in [Clients -> Seq(Messages)] /\ s2c \in [Clients -> Seq(Messages)]
  BY DEF AudioInv, ClientsOK, AnswersOK
<1>2. /\ peer' = [peer EXCEPT ![c] = p]
      /\ rbuf' = [rbuf EXCEPT ![c] = <<>>] /\ wbuf' = [wbuf EXCEPT ![c] = <<>>]
      /\ c2s' = [c2s EXCEPT ![c] = <<>>] /\ s2c' = [s2c EXCEPT ![c] = <<>>]
  BY DEF CloseClient
<1>3. p.state = "gone"
  <2> HIDE DEF r
  <2> QED  BY <1>1 DEF PeerState
<1> HIDE DEF p
<1>4. /\ peer'[c] = p
      /\ \A d \in Clients : d # c =>
           /\ peer'[d] = peer[d] /\ s2c'[d] = s2c[d] /\ wbuf'[d] = wbuf[d]
           /\ rbuf'[d] = rbuf[d] /\ c2s'[d] = c2s[d]
  BY <1>1, <1>2
<1>5. p.state # "new" /\ p.state \notin Talking  BY <1>3 DEF Talking
<1> QED  BY <1>4, <1>5, TurnStep

LEMMA AcceptTurns ==
    ASSUME AudioInv, TurnsOK, AcceptClients
    PROVE  TurnsOK'
<1> DEFINE new == {c \in Clients : peer[c].state = "pending"}
<1>1. /\ peer' = [c \in Clients |-> IF c \in new THEN [peer[c] EXCEPT !.state = "open"] ELSE peer[c]]
      /\ UNCHANGED <<rbuf, wbuf, c2s, s2c>>
  BY DEF AcceptClients
<1>2. ASSUME NEW c \in Clients
      PROVE  /\ peer'[c].state = "new" => peer'[c].tags = 0 /\ peer'[c].acked = 0
             /\ peer'[c].state \in Talking => InStep(Said(c), Unread(c), peer'[c])
  <2> DEFINE r == peer[c]
             p == peer'[c]
  <2>1. r \in PeerState  BY DEF AudioInv, ClientsOK
  <2>2. /\ r.state = "new" => r.tags = 0 /\ r.acked = 0
        /\ r.state \in Talking => InStep(Said(c), Unread(c), r)
    BY DEF TurnsOK
  <2>3. CASE c \in new
    <3>1. p = [r EXCEPT !.state = "open"] /\ r.state = "pending"  BY <1>1, <2>3
    <3> HIDE DEF r, p
    <3>2. p.state = "open" /\ p.tags = r.tags /\ p.acked = r.acked  BY <2>1, <3>1 DEF PeerState
    <3>3. InStep(Said(c), Unread(c), p)  BY <2>2, <3>1, <3>2 DEF InStep, Talking
    <3> QED  BY <3>2, <3>3 DEF p
  <2>4. CASE c \notin new
    <3>1. p = r  BY <1>1, <2>4
    <3> QED  BY <2>2, <3>1
  <2> QED  BY <2>3, <2>4
<1>3. \A c \in Clients : Said(c)' = Said(c) /\ Unread(c)' = Unread(c)  BY <1>1 DEF Said, Unread
<1> QED  BY <1>2, <1>3 DEF TurnsOK

LEMMA ReadableTurns ==
    ASSUME AudioInv, TurnsOK, NEW c \in Clients, HandleReadable(c)
    PROVE  TurnsOK'
<1>1. \/ CloseClient(c)
      \/ /\ rbuf' = [rbuf EXCEPT ![c] = @ \o c2s[c]] /\ c2s' = [c2s EXCEPT ![c] = <<>>]
         /\ UNCHANGED <<wbuf, peer, s2c>>
  BY DEF HandleReadable
<1>2. CASE CloseClient(c)  BY <1>2, CloseTurns
<1>3. CASE /\ rbuf' = [rbuf EXCEPT ![c] = @ \o c2s[c]] /\ c2s' = [c2s EXCEPT ![c] = <<>>]
           /\ UNCHANGED <<wbuf, peer, s2c>>
  <2> DEFINE u == Unread(c)
  <2>1. /\ rbuf \in [Clients -> Seq(Frames)] /\ c2s \in [Clients -> Seq(Frames)]
        /\ u \in Seq(Frames)
    BY SaidTyped DEF AudioInv, ClientsOK
  <2>2. rbuf' = [rbuf EXCEPT ![c] = u]  BY <1>3, <2>1 DEF Unread
  <2> HIDE DEF u
  <2>3. /\ rbuf'[c] = u /\ c2s'[c] = <<>>
        /\ \A d \in Clients : d # c => rbuf'[d] = rbuf[d] /\ c2s'[d] = c2s[d]
    BY <1>3, <2>1, <2>2
  <2>4. u \o <<>> = u  BY <2>1
  <2>5. /\ peer[c].state = "new" => peer[c].tags = 0 /\ peer[c].acked = 0
        /\ peer[c].state \in Talking => InStep(s2c[c] \o wbuf[c], u, peer[c])
    BY DEF TurnsOK, Said, u
  <2> QED  BY <1>3, <2>3, <2>4, <2>5, TurnStep
<1> QED  BY <1>1, <1>2, <1>3

\* drain_frames takes a frame: what it means to the conversation.
LEMMA FrameTurn ==
    ASSUME AudioInv, TurnsOK, NEW f, Frame(f), ConsumeFrame,
           UNCHANGED <<peer, c2s>>,
           \A d \in Clients : d # cur => s2c'[d] = s2c[d] /\ wbuf'[d] = wbuf[d],
           peer[cur].state = "open" =>
             InStep(s2c'[cur] \o wbuf'[cur], Tail(Unread(cur)), peer[cur])
    PROVE  TurnsOK'
<1> DEFINE c == cur
           p == Tail(rbuf[c])
<1>1. /\ c \in known /\ c \in Clients /\ p \in Seq(Frames)
      /\ p \o c2s[c] = Tail(Unread(c))
  BY FrameIs
<1>2. rbuf \in [Clients -> Seq(Frames)] /\ peer[c].state \in {"open", "shut"}
  BY <1>1 DEF AudioInv, ClientsOK
<1>3. rbuf' = [rbuf EXCEPT ![c] = p]  BY DEF ConsumeFrame
<1>4. /\ peer[c].state = "open" => InStep(s2c'[c] \o wbuf'[c], Tail(Unread(c)), peer[c])
      /\ \A d \in Clients : d # c => s2c'[d] = s2c[d] /\ wbuf'[d] = wbuf[d]
  OBVIOUS
<1> HIDE DEF c, p
<1>5. rbuf'[c] = p /\ \A d \in Clients : d # c => rbuf'[d] = rbuf[d]  BY <1>1, <1>2, <1>3
<1>6. peer[c].state \in Talking => peer[c].state = "open"  BY <1>2 DEF Talking
<1>7. peer[c].state # "new"  BY <1>2
<1> QED  BY <1>1, <1>4, <1>5, <1>6, <1>7, TurnStep

\* The conversation with the client served.
LEMMA ServedTurn ==
    ASSUME AudioInv, TurnsOK, NEW f, Frame(f)
    PROVE  /\ cur \in Clients /\ peer[cur].tags \in Nat /\ peer[cur].acked \in Nat
           /\ s2c[cur] \in Seq(Messages) /\ wbuf[cur] \in Seq(Messages)
           /\ Said(cur) \in Seq(Messages) /\ Said(cur) = s2c[cur] \o wbuf[cur]
           /\ Unread(cur) \in Seq(Frames) /\ Unread(cur) # <<>> /\ f = Head(Unread(cur))
           /\ f.n \in Nat
           /\ peer[cur].state = "open" => InStep(Said(cur), Unread(cur), peer[cur])
           /\ wbuf \in [Clients -> Seq(Messages)] /\ s2c \in [Clients -> Seq(Messages)]
<1>1. /\ cur \in Clients /\ Unread(cur) \in Seq(Frames) /\ Unread(cur) # <<>>
      /\ f = Head(Unread(cur)) /\ f.n \in Nat
  BY FrameIs
<1>2. /\ wbuf \in [Clients -> Seq(Messages)] /\ s2c \in [Clients -> Seq(Messages)]
  BY DEF AudioInv, AnswersOK
<1>3. peer[cur].state = "open" => InStep(Said(cur), Unread(cur), peer[cur])
  BY <1>1 DEF TurnsOK, Talking
<1> QED  BY <1>1, <1>2, <1>3, SaidTyped DEF Said

LEMMA QueueTwo ==
    ASSUME NEW p \in Seq(Messages), NEW x \in Messages, NEW y \in Messages
    PROVE  p \o <<x, y>> = (p \o <<x>>) \o <<y>>
<1> DEFINE u == p \o <<x, y>>
           v == (p \o <<x>>) \o <<y>>
<1>1. /\ u \in Seq(Messages) /\ v \in Seq(Messages)
      /\ Len(u) = Len(p) + 2 /\ Len(v) = Len(p) + 2
  OBVIOUS
<1>2. ASSUME NEW i \in 1 .. Len(p) + 2 PROVE u[i] = v[i]
  <2>1. CASE i \in 1 .. Len(p)  BY <2>1
  <2>2. CASE i = Len(p) + 1  BY <2>2
  <2>3. CASE i = Len(p) + 2  BY <2>3
  <2> QED  BY <2>1, <2>2, <2>3
<1> HIDE DEF u, v
<1>3. u = v  BY <1>1, <1>2
<1> QED  BY <1>3 DEF u, v

LEMMA ReplyTurns ==
    ASSUME AudioInv, TurnsOK, NEW f, Frame(f), ConsumeFrame,
           f.kind \in Requests, UNCHANGED <<peer, c2s>>,
           NEW x \in Messages, x.kind \in Answers, x.n = f.n,
           \/ Queue(<<x>>)
           \/ Queue(<<x, [kind |-> "request", n |-> TLength]>>)
    PROVE  TurnsOK'
<1> DEFINE w == wbuf[cur]
           o == s2c[cur]
           s == Said(cur)
           q == Unread(cur)
           r == peer[cur]
           y == [kind |-> "request", n |-> TLength]
<1>1. /\ cur \in Clients /\ r.tags \in Nat /\ r.acked \in Nat
      /\ o \in Seq(Messages) /\ w \in Seq(Messages)
      /\ s \in Seq(Messages) /\ s = o \o w
      /\ q \in Seq(Frames) /\ q # <<>> /\ f = Head(q)
      /\ r.state = "open" => InStep(s, q, r)
      /\ wbuf \in [Clients -> Seq(Messages)]
  BY ServedTurn
<1>2. y \in Messages /\ y.kind \notin Answers
  BY PulseAssumption DEF Messages, Answers
<1>3. /\ s2c' = s2c
      /\ \/ wbuf' = [wbuf EXCEPT ![cur] = w \o <<x>>]
         \/ wbuf' = [wbuf EXCEPT ![cur] = w \o <<x, y>>]
  BY DEF Queue
<1> HIDE DEF w, o, s, q, r, y
<1>4. r.state = "open" => InStep(Append(s, x), Tail(q), r)
  BY <1>1, StepAnswers
<1>5. o \o (w \o <<x>>) = Append(s, x)  BY <1>1, QueueOne
<1>6. CASE wbuf' = [wbuf EXCEPT ![cur] = w \o <<x>>]
  <2>1. wbuf'[cur] = w \o <<x>> /\ \A d \in Clients : d # cur => wbuf'[d] = wbuf[d]
    BY <1>1, <1>6
  <2>2. s2c'[cur] \o wbuf'[cur] = Append(s, x)  BY <1>3, <1>5, <2>1 DEF o
  <2>3. r.state = "open" => InStep(s2c'[cur] \o wbuf'[cur], Tail(q), r)  BY <1>4, <2>2
  <2> QED  BY <1>3, <2>1, <2>3, FrameTurn DEF r, q
<1>7. CASE wbuf' = [wbuf EXCEPT ![cur] = w \o <<x, y>>]
  <2> DEFINE v == w \o <<x>>
             a == Append(s, x)
  <2>1. w \o <<x, y>> = v \o <<y>>  BY <1>1, <1>2, QueueTwo
  <2>2. v \in Seq(Messages) /\ a \in Seq(Messages) /\ o \o v = a  BY <1>1, <1>5
  <2>3. wbuf'[cur] = v \o <<y>> /\ \A d \in Clients : d # cur => wbuf'[d] = wbuf[d]
    BY <1>1, <1>7, <2>1
  <2> HIDE DEF v, a
  <2>4. o \o (v \o <<y>>) = Append(a, y)  BY <1>1, <1>2, <2>2, QueueOne
  <2>5. r.state = "open" => InStep(a, Tail(q), r)  BY <1>4 DEF a
  <2>6. r.state = "open" => InStep(Append(a, y), Tail(q), r)
    BY <1>1, <1>2, <2>2, <2>5, StepSays
  <2>7. s2c'[cur] \o wbuf'[cur] = Append(a, y)  BY <1>3, <2>3, <2>4 DEF o
  <2>8. r.state = "open" => InStep(s2c'[cur] \o wbuf'[cur], Tail(q), r)  BY <2>6, <2>7
  <2> QED  BY <1>3, <2>3, <2>8, FrameTurn DEF r, q
<1> QED  BY <1>3, <1>6, <1>7

LEMMA RequestTurns ==
    ASSUME AudioInv, TurnsOK, NEW f,
           HandleCreate(f) \/ HandleDelete(f) \/ HandleControl(f)
    PROVE  TurnsOK'
<1>1. /\ Frame(f) /\ ConsumeFrame /\ UNCHANGED <<peer, c2s>>
      /\ f.kind \in Requests
  BY DEF HandleCreate, HandleDelete, HandleControl, Requests
<1>2. f.n \in Nat  BY <1>1, FrameIs
<1> DEFINE x == Reply(f)
           z == [kind |-> "created", n |-> f.n]
<1>3. x \in Messages /\ x.kind \in Answers /\ x.n = f.n
  BY <1>2 DEF Messages, Answers, Reply
<1>4. z \in Messages /\ z.kind \in Answers /\ z.n = f.n
  BY <1>2 DEF Messages, Answers
<1>5. Queue(<<x>>) \/ Queue(<<z, [kind |-> "request", n |-> TLength]>>)
  BY DEF HandleCreate, HandleDelete, HandleControl
<1> HIDE DEF x, z
<1>6. CASE Queue(<<x>>)  BY <1>1, <1>3, <1>6, ReplyTurns
<1>7. CASE Queue(<<z, [kind |-> "request", n |-> TLength]>>)
  BY <1>1, <1>4, <1>7, ReplyTurns
<1> QED  BY <1>5, <1>6, <1>7

LEMMA DataTurns ==
    ASSUME AudioInv, TurnsOK, NEW f, OnDataFrame(f)
    PROVE  TurnsOK'
<1> DEFINE w == wbuf[cur]
           o == s2c[cur]
           s == Said(cur)
           q == Unread(cur)
           r == peer[cur]
           st == stream[cur]
<1>1. /\ Frame(f) /\ ConsumeFrame /\ UNCHANGED <<peer, c2s>> /\ f.kind = "data"
  BY DEF OnDataFrame
<1>2. /\ cur \in Clients /\ r.tags \in Nat /\ r.acked \in Nat
      /\ o \in Seq(Messages) /\ w \in Seq(Messages)
      /\ s \in Seq(Messages) /\ s = o \o w
      /\ q \in Seq(Frames) /\ q # <<>> /\ f = Head(q)
      /\ r.state = "open" => InStep(s, q, r)
      /\ wbuf \in [Clients -> Seq(Messages)] /\ s2c \in [Clients -> Seq(Messages)]
  BY <1>1, ServedTurn
<1>3. Head(q).kind \notin Requests  BY <1>1, <1>2 DEF Requests
<1>4. r.state = "open" => InStep(s, Tail(q), r)
  <2> HIDE DEF w, o, s, q, r
  <2> QED  BY <1>2, <1>3, StepSkips
<1>5. CASE st.live
  <2> DEFINE y == [kind |-> "request", n |-> MinReq]
             x == [kind |-> "started", n |-> 0]
             v == w \o (IF st.started THEN <<>> ELSE <<x>>)
             n2 == v \o <<y>>
  <2>1. /\ wbuf' = [wbuf EXCEPT ![cur] = Unsent(cur, n2)]
        /\ s2c' = [s2c EXCEPT ![cur] = Sent(cur, n2)]
    BY <1>5 DEF OnDataFrame
  <2>2. /\ x \in Messages /\ y \in Messages
        /\ x.kind \notin Answers /\ y.kind \notin Answers
    BY PulseAssumption DEF Messages, Answers
  <2> HIDE DEF w, o, s, q, r, x, y
  <2>3. /\ v \in Seq(Messages) /\ o \o v \in Seq(Messages)
        /\ r.state = "open" => InStep(o \o v, Tail(q), r)
    <3>1. CASE st.started
      <4>1. v = w  BY <1>2, <3>1
      <4> QED  BY <1>2, <1>4, <4>1
    <3>2. CASE ~st.started
      <4>1. v = w \o <<x>>  BY <3>2
      <4> HIDE DEF v
      <4>2. o \o v = Append(s, x)  BY <1>2, <2>2, <4>1, QueueOne
      <4>3. r.state = "open" => InStep(Append(s, x), Tail(q), r)
        BY <1>2, <1>4, <2>2, StepSays
      <4>4. v \in Seq(Messages)  BY <1>2, <2>2, <4>1
      <4> QED  BY <1>2, <2>2, <4>2, <4>3, <4>4
    <3> QED  BY <3>1, <3>2
  <2> HIDE DEF v
  <2> DEFINE ov == o \o v
  <2>4. ov \in Seq(Messages) /\ (r.state = "open" => InStep(ov, Tail(q), r))  BY <2>3
  <2>5. o \o n2 = Append(ov, y) /\ n2 \in Seq(Messages)
    <3>1. o \o (v \o <<y>>) = Append(o \o v, y)  BY <1>2, <2>2, <2>3, QueueOne
    <3>2. v \o <<y>> \in Seq(Messages)  BY <2>2, <2>3
    <3> QED  BY <3>1, <3>2
  <2> HIDE DEF ov, n2
  <2>6. r.state = "open" => InStep(Append(ov, y), Tail(q), r)  BY <1>2, <2>2, <2>4, StepSays
  <2>7. /\ wbuf'[cur] = Unsent(cur, n2) /\ s2c'[cur] = Sent(cur, n2)
        /\ \A d \in Clients : d # cur => s2c'[d] = s2c[d] /\ wbuf'[d] = wbuf[d]
    BY <1>2, <2>1
  <2>8. AnswersOK  BY DEF AudioInv
  <2>9. r.state = "open" => s2c'[cur] \o wbuf'[cur] = o \o n2
    BY <1>2, <2>5, <2>7, <2>8, NothingLost DEF o, r
  <2>10. r.state = "open" => InStep(s2c'[cur] \o wbuf'[cur], Tail(q), r)  BY <2>5, <2>6, <2>9
  <2> QED  BY <1>1, <2>7, <2>10, FrameTurn DEF r, q
<1>6. CASE ~st.live
  <2>1. UNCHANGED <<wbuf, s2c>>  BY <1>6 DEF OnDataFrame
  <2>2. r.state = "open" => InStep(s2c'[cur] \o wbuf'[cur], Tail(q), r)  BY <1>2, <1>4, <2>1
  <2> QED  BY <1>1, <2>1, <2>2, FrameTurn
<1> QED  BY <1>5, <1>6

\* flush_wbuf for every client the step flushes.
LEMMA FlushTurns ==
    ASSUME AudioInv, TurnsOK, FramesDone \/ FlushClients
    PROVE  TurnsOK'
<1>1. UNCHANGED <<peer, rbuf, c2s>>  BY DEF FramesDone, FlushClients
<1>2. AnswersOK /\ ClientsOK /\ PlaceOK  BY DEF AudioInv
<1>3. /\ wbuf \in [Clients -> Seq(Messages)] /\ s2c \in [Clients -> Seq(Messages)]
  BY <1>2 DEF AnswersOK
<1>4. ASSUME NEW c \in Clients
      PROVE  \/ wbuf'[c] = wbuf[c] /\ s2c'[c] = s2c[c]
             \/ /\ c \in known
                /\ wbuf'[c] = Unsent(c, wbuf[c]) /\ s2c'[c] = Sent(c, wbuf[c])
  <2>1. CASE FramesDone
    <3>1. cur \in known  BY <1>2, <2>1 DEF PlaceOK, FramesDone
    <3>2. /\ wbuf' = [wbuf EXCEPT ![cur] = Unsent(cur, wbuf[cur])]
          /\ s2c' = [s2c EXCEPT ![cur] = Sent(cur, wbuf[cur])]
      BY <2>1 DEF FramesDone
    <3> QED  BY <1>3, <3>1, <3>2
  <2>2. CASE FlushClients
    <3>1. /\ wbuf' = [d \in Clients |-> IF d \in known THEN Unsent(d, wbuf[d]) ELSE wbuf[d]]
          /\ s2c' = [d \in Clients |-> IF d \in known THEN Sent(d, wbuf[d]) ELSE s2c[d]]
      BY <2>2 DEF FlushClients
    <3> QED  BY <3>1
  <2> QED  BY <2>1, <2>2
<1>5. ASSUME NEW c \in Clients
      PROVE  /\ peer[c].state = "new" => peer[c].tags = 0 /\ peer[c].acked = 0
             /\ peer[c].state \in Talking => InStep(s2c'[c] \o wbuf'[c], Unread(c), peer[c])
  <2>1. /\ peer[c].state = "new" => peer[c].tags = 0 /\ peer[c].acked = 0
        /\ peer[c].state \in Talking => InStep(s2c[c] \o wbuf[c], Unread(c), peer[c])
    BY DEF TurnsOK, Said
  <2>2. CASE wbuf'[c] = wbuf[c] /\ s2c'[c] = s2c[c]  BY <2>1, <2>2
  <2>3. CASE /\ c \in known
             /\ wbuf'[c] = Unsent(c, wbuf[c]) /\ s2c'[c] = Sent(c, wbuf[c])
    <3>1. peer[c].state \in {"open", "shut"}  BY <1>2, <2>3 DEF ClientsOK
    <3>2. CASE peer[c].state = "open"
      <4>1. wbuf[c] \in Seq(Messages)  BY <1>3
      <4>2. s2c'[c] \o wbuf'[c] = s2c[c] \o wbuf[c]  BY <1>2, <2>3, <3>2, <4>1, NothingLost
      <4> QED  BY <2>1, <4>2
    <3>3. CASE peer[c].state = "shut"  BY <3>3 DEF Talking
    <3> QED  BY <3>1, <3>2, <3>3
  <2> QED  BY <1>4, <2>2, <2>3
<1> QED  BY <1>1, <1>5 DEF TurnsOK, Said, Unread

\* Before a client has said anything.
LEMMA StepSilent ==
    ASSUME NEW r, r.tags = 0, r.acked = 0
    PROVE  InStep(<<>> \o <<>>, <<>> \o <<>>, r)
<1>1. <<>> \o <<>> = <<>>  OBVIOUS
<1>2. 0 \in Nat  OBVIOUS
<1>3. InTurn(<<>>, Answers, 0, 0) /\ InTurn(<<>>, Requests, 0, 0)
  BY <1>2, TurnEmpty
<1>4. InStep(<<>>, <<>>, r)  BY <1>2, <1>3 DEF InStep
<1> QED  BY <1>1, <1>4

LEMMA ClosesTurns ==
    ASSUME AudioInv, TurnsOK, StopCloses
    PROVE  TurnsOK'
<1>1. /\ rbuf' = [c \in Clients |-> <<>>] /\ wbuf' = rbuf' /\ c2s' = rbuf' /\ s2c' = rbuf'
      /\ peer' = [c \in Clients |-> IF peer[c].state = "new" THEN peer[c]
                                    ELSE [peer[c] EXCEPT !.state = "gone"]]
  BY DEF StopCloses
<1>2. ASSUME NEW c \in Clients
      PROVE  /\ peer'[c].state = "new" => peer'[c].tags = 0 /\ peer'[c].acked = 0
             /\ peer'[c].state \in Talking =>
                  InStep(s2c'[c] \o wbuf'[c], rbuf'[c] \o c2s'[c], peer'[c])
  <2> DEFINE r == peer[c]
             p == peer'[c]
  <2>1. r \in PeerState /\ (r.state = "new" => r.tags = 0 /\ r.acked = 0)
    BY DEF AudioInv, ClientsOK, TurnsOK
  <2>2. p = IF r.state = "new" THEN r ELSE [r EXCEPT !.state = "gone"]  BY <1>1
  <2>3. s2c'[c] = <<>> /\ wbuf'[c] = <<>> /\ rbuf'[c] = <<>> /\ c2s'[c] = <<>>  BY <1>1
  <2> HIDE DEF r, p
  <2>4. CASE r.state = "new"
    <3>1. p = r /\ p.tags = 0 /\ p.acked = 0  BY <2>1, <2>2, <2>4
    <3>2. InStep(<<>> \o <<>>, <<>> \o <<>>, p)  BY <3>1, StepSilent
    <3> QED  BY <2>3, <3>1, <3>2 DEF p
  <2>5. CASE r.state # "new"
    <3>1. p.state = "gone"  BY <2>1, <2>2, <2>5 DEF PeerState
    <3>2. p.state # "new" /\ p.state \notin Talking  BY <3>1 DEF Talking
    <3> QED  BY <3>2 DEF p
  <2> QED  BY <2>4, <2>5
<1> QED  BY <1>2 DEF TurnsOK, Said, Unread

LEMMA TurnsInit ==
    ASSUME ServerInit
    PROVE  TurnsOK
<1> SUFFICES ASSUME NEW c \in Clients
             PROVE  /\ peer[c].tags = 0 /\ peer[c].acked = 0
                    /\ InStep(Said(c), Unread(c), peer[c])
  BY DEF TurnsOK
<1>1. peer[c].tags = 0 /\ peer[c].acked = 0  BY DEF ServerInit
<1>2. s2c[c] = <<>> /\ wbuf[c] = <<>> /\ rbuf[c] = <<>> /\ c2s[c] = <<>>  BY DEF ServerInit
<1>3. InStep(<<>> \o <<>>, <<>> \o <<>>, peer[c])  BY <1>1, StepSilent
<1> QED  BY <1>1, <1>2, <1>3 DEF Said, Unread

LEMMA TurnsNext == AudioInv /\ TurnsOK /\ [ServerNext]_serverVars => TurnsOK'
<1> SUFFICES ASSUME AudioInv, TurnsOK, [ServerNext]_serverVars PROVE TurnsOK'  OBVIOUS
<1>1. CASE UNCHANGED serverVars
  BY <1>1, TurnsIdle DEF serverVars
<1>2. CASE \/ SinkStart \/ SinkStop \/ StopWakes \/ StopJoins
           \/ EpollTest \/ EpollWait \/ OthersReady \/ OnWakeup
           \/ CallbackWaits \/ CallbackMixes \/ \E c \in Clients : OthersDelete(c)
  <2>1. UNCHANGED <<peer, s2c, wbuf, rbuf, c2s>>
    BY <1>2 DEF SinkStart, SinkStop, StopWakes, StopJoins,
                EpollTest, EpollWait, OthersReady, OnWakeup, CallbackWaits, CallbackMixes,
                OthersDelete
  <2> QED  BY <2>1, TurnsIdle
<1>3. CASE StopCloses  BY <1>3, ClosesTurns
<1>4. CASE AcceptClients  BY <1>4, AcceptTurns
<1>5. CASE FramesDone \/ FlushClients  BY <1>5, FlushTurns
<1>6. CASE \E c \in Clients : OnHangup(c) \/ HandleReadable(c)
  <2>1. PICK c \in Clients : OnHangup(c) \/ HandleReadable(c)  BY <1>6
  <2>2. CASE OnHangup(c)  BY <2>2, CloseTurns DEF OnHangup
  <2>3. CASE HandleReadable(c)  BY <2>3, ReadableTurns
  <2> QED  BY <2>1, <2>2, <2>3
<1>7. CASE LET f == Head(rbuf[cur]) IN
             \/ HandleCreate(f) \/ HandleDelete(f) \/ HandleControl(f) \/ OnDataFrame(f)
             \/ OnOversizedFrame(f)
  <2> DEFINE f == Head(rbuf[cur])
  <2>1. \/ HandleCreate(f) \/ HandleDelete(f) \/ HandleControl(f) \/ OnDataFrame(f)
        \/ OnOversizedFrame(f)
    BY <1>7
  <2> HIDE DEF f
  <2>2. CASE HandleCreate(f) \/ HandleDelete(f) \/ HandleControl(f)  BY <2>2, RequestTurns
  <2>3. CASE OnDataFrame(f)  BY <2>3, DataTurns
  <2>4. CASE OnOversizedFrame(f)
    <3>1. Frame(f) /\ CloseClient(cur)  BY <2>4 DEF OnOversizedFrame
    <3>2. cur \in Clients  BY <3>1, FrameIs
    <3> QED  BY <3>1, <3>2, CloseTurns
  <2> QED  BY <2>1, <2>2, <2>3, <2>4
<1>8. CASE \E c \in Clients :
             \/ Connect(c) \/ SendData(c) \/ SendOversized(c)
             \/ Receive(c) \/ Shut(c)
             \/ \E kind \in Requests : SendRequest(c, kind)
  BY <1>8, ClientTurns
<1>9. CASE EpollThread
  BY <1>2, <1>4, <1>5, <1>6, <1>7, <1>9 DEF EpollThread
<1>10. CASE ServerNext
  BY <1>2, <1>3, <1>8, <1>9, <1>10 DEF ServerNext, Stop
<1> QED  BY <1>1, <1>10

\* Every request is answered once and in order, though replies are cut at a full socket
\* (flush_wbuf, drain_frames).
THEOREM AnswersOrdered == ServerSpec => []AnswersInOrder
<1>1. ServerInit => AudioInv /\ TurnsOK  BY AudioInit, TurnsInit
<1>2. AudioInv /\ TurnsOK /\ [ServerNext]_serverVars => (AudioInv /\ TurnsOK)'
  BY AudioNext, TurnsNext
<1>3. AudioInv /\ TurnsOK => AnswersInOrder  BY InStepIsInOrder
<1> QED  BY <1>1, <1>2, <1>3, PTL DEF ServerSpec

=============================================================================
