------------------------------- MODULE GpuRing -------------------------------
(***************************************************************************)
(* The GPU command ring shared by a guest process and the host:            *)
(* app/src/main/cpp/alr_gpu/alr_gpu_ring.hpp, its C producer               *)
(* guest_shim/alr_gpu_ring_c.h, and the drain loop that the executor in    *)
(* alr_gpu_host_service.hpp runs over it.                                  *)
(*                                                                         *)
(* One producer and one consumer, no lock: each side owns one cursor and   *)
(* reads the other's.  memcpy moves one byte per step, so every overlap of *)
(* a copy on one side with steps of the other is a behaviour.  The byte    *)
(* written at stream position i has the value i.  The release/acquire      *)
(* pairs on head and tail make the byte copies visible in this order.      *)
(***************************************************************************)
EXTENDS Naturals, Sequences

CONSTANTS
  RingBytes,  \* h->ring_bytes
  MaxBytes    \* bound on the stream

ASSUME RingAssumption == RingBytes \in Nat \ {0} /\ MaxBytes \in Nat

\* ring_init and ring_valid insist on a power of two: & mask is % RingBytes.
ring_valid(bytes) == \E k \in 0..31 : bytes = 2 ^ k

ASSUME RingInitAssumption == ring_valid(RingBytes)

VARIABLES
  data,         \* the data ring; NoByte where nothing was ever written
  head, tail,   \* absolute write and read cursors
  ppc,          \* producer: idle, or copy (inside append)
  len,          \* length of the append under way
  wrote,        \* bytes of it copied in
  cpc,          \* consumer: poll, snap, or copy (inside snapshot)
  cap,          \* scratch.size()
  n,            \* length of the snapshot under way
  buf,          \* bytes of it copied out
  frame_bytes   \* the executor's accumulator over all frames

NoByte == MaxBytes

ring == <<data, head, tail>>
producer == <<ppc, len, wrote>>
consumer == <<cpc, cap, n, buf, frame_bytes>>
vars == <<ring, producer, consumer>>

TypeOK ==
  /\ data \in [0..(RingBytes - 1) -> 0..NoByte]
  /\ head \in 0..MaxBytes /\ tail \in 0..MaxBytes
  /\ ppc \in {"idle", "copy"}
  /\ len \in 0..MaxBytes /\ wrote \in 0..len
  /\ cpc \in {"poll", "snap", "copy"}
  /\ cap \in 0..MaxBytes /\ n \in 0..MaxBytes
  /\ buf \in Seq(0..NoByte) /\ frame_bytes \in Seq(0..NoByte)

Init ==
  /\ data = [s \in 0..(RingBytes - 1) |-> NoByte]
  /\ head = 0 /\ tail = 0
  /\ ppc = "idle" /\ len = 0 /\ wrote = 0
  /\ cpc = "poll" /\ cap = 0 /\ n = 0 /\ buf = <<>>
  /\ frame_bytes = <<>>

-----------------------------------------------------------------------------
free_bytes == (RingBytes - 1) - (head - tail)

available == head - tail

\* Where byte k of an l-byte copy at a cursor goes: the copy is split in two
\* where it meets the end of the ring.
Slot(cursor, l, k) ==
  LET off == cursor % RingBytes
      first == IF off + l <= RingBytes THEN l ELSE RingBytes - off
  IN  IF k < first THEN off + k ELSE k - first

(***************************************************************************)
(* append().  One that does not fit returns false and changes nothing.     *)
(***************************************************************************)

\* Mutant: only an append larger than the ring is refused.
AppendOverwriting(l) ==
  /\ ppc = "idle"
  /\ l <= RingBytes - 1
  /\ head + l <= MaxBytes
  /\ ppc' = "copy" /\ len' = l /\ wrote' = 0
  /\ UNCHANGED <<ring, consumer>>

Append_(l) ==
  /\ ppc = "idle"
  /\ l <= free_bytes
  /\ head + l <= MaxBytes
  /\ ppc' = "copy" /\ len' = l /\ wrote' = 0
  /\ UNCHANGED <<ring, consumer>>

CopyIn ==
  /\ ppc = "copy" /\ wrote < len
  /\ data' = [data EXCEPT ![Slot(head, len, wrote)] = head + wrote]
  /\ wrote' = wrote + 1
  /\ UNCHANGED <<head, tail, ppc, len, consumer>>

\* Mutant: head is published as soon as the first copy is done.
PublishEarly ==
  /\ ppc = "copy" /\ wrote >= 1
  /\ head' = head + len
  /\ ppc' = "idle"
  /\ UNCHANGED <<data, tail, len, wrote, consumer>>

\* The release store of head.
Publish ==
  /\ ppc = "copy" /\ wrote = len
  /\ head' = head + len
  /\ ppc' = "idle"
  /\ UNCHANGED <<data, tail, len, wrote, consumer>>

-----------------------------------------------------------------------------
(***************************************************************************)
(* The drain loop: available, resize the scratch buffer, snapshot, append  *)
(* to the frame, advance, and again while bytes are available.  snapshot   *)
(* reads head again, and may take more or fewer bytes than were counted.   *)
(***************************************************************************)

\* Mutant: the last byte is left in the ring.
PollAllButOne ==
  /\ cpc = "poll" /\ available > 1
  /\ cap' = IF cap < available THEN available ELSE cap
  /\ cpc' = "snap"
  /\ UNCHANGED <<ring, producer, n, buf, frame_bytes>>

Poll ==
  /\ cpc = "poll" /\ available > 0
  /\ cap' = IF cap < available THEN available ELSE cap
  /\ cpc' = "snap"
  /\ UNCHANGED <<ring, producer, n, buf, frame_bytes>>

Snapshot ==
  /\ cpc = "snap"
  /\ n' = IF available < cap THEN available ELSE cap
  /\ cpc' = "copy"
  /\ UNCHANGED <<ring, producer, cap, buf, frame_bytes>>

CopyOut ==
  /\ cpc = "copy" /\ Len(buf) < n
  /\ buf' = Append(buf, data[Slot(tail, n, Len(buf))])
  /\ UNCHANGED <<ring, producer, cpc, cap, n, frame_bytes>>

advance ==
  /\ cpc = "copy" /\ Len(buf) = n
  /\ frame_bytes' = frame_bytes \o buf
  /\ tail' = tail + n
  /\ cpc' = "poll" /\ buf' = <<>>
  /\ UNCHANGED <<data, head, producer, cap, n>>

-----------------------------------------------------------------------------
Produce == (\E l \in 1..MaxBytes : Append_(l)) \/ CopyIn \/ Publish

Consume == Poll \/ Snapshot \/ CopyOut \/ advance

Next == Produce \/ Consume

\* The executor thread polls for ever; the guest owes nothing.
Spec == Init /\ [][Next]_vars /\ WF_vars(Consume)

-----------------------------------------------------------------------------
(***************************************************************************)
(* Properties                                                              *)
(***************************************************************************)

\* Every byte that is published and not yet consumed, and every byte of an
\* append under way, is in its slot: no copy overwrites what the other side has
\* still to read (free_bytes, the split memcpy, head published last).
InFlightIntact ==
  \A i \in 0..MaxBytes :
    tail <= i /\ i < head + (IF ppc = "copy" THEN wrote ELSE 0)
      => data[i % RingBytes] = i

\* The cursors never cross and one byte of the ring stays unused, an append
\* under way included.
Bounded ==
  /\ tail <= head
  /\ head + (IF ppc = "copy" THEN len ELSE 0) <= tail + RingBytes - 1
  /\ head + (IF ppc = "copy" THEN len ELSE 0) <= MaxBytes

\* A snapshot holds exactly the next bytes of the stream, in order.
SnapshotExact ==
  /\ cpc = "poll" => buf = <<>>
  /\ cpc = "snap" => buf = <<>>
  /\ cpc = "copy" => n <= head - tail /\ Len(buf) <= n
  /\ \A k \in 1..Len(buf) : buf[k] = tail + k - 1
  /\ Len(frame_bytes) = tail

\* Inductive.
RingInv == TypeOK /\ Bounded /\ InFlightIntact /\ SnapshotExact

Pipe == INSTANCE BytePipe WITH
  Capacity <- RingBytes - 1, written <- head, received <- frame_bytes

\* The ring is a lossless, ordered, bounded pipe of bytes (append, snapshot,
\* advance): each publication writes, each advance receives what was written.
IsPipe == Pipe!PipeSpec

\* What the guest published is eventually in the executor's accumulator.
PublishedIsDrained ==
  \A b \in 1..MaxBytes : head >= b ~> tail >= b
==============================================================================
