------------------------------ MODULE BytePipe ------------------------------
(***************************************************************************)
(* What the GPU command ring promises: a bounded, lossless, ordered pipe   *)
(* of bytes.  The value of a byte is its position in the stream, so a      *)
(* byte that is lost, repeated, reordered or torn shows in what is         *)
(* received.                                                               *)
(***************************************************************************)
EXTENDS Naturals, Sequences

CONSTANTS
  Capacity,   \* bytes that may be written and not yet received
  MaxBytes    \* bound on the stream

VARIABLES
  written,    \* bytes written so far
  received    \* the bytes received so far

PipeInit == written = 0 /\ received = <<>>

PipeWrite(k) ==
  /\ written + k <= MaxBytes
  /\ written + k <= Len(received) + Capacity
  /\ written' = written + k
  /\ UNCHANGED received

PipeRead(k) ==
  /\ Len(received) + k <= written
  /\ received' = received \o [i \in 1..k |-> Len(received) + i - 1]
  /\ UNCHANGED written

PipeNext == \E k \in 1..MaxBytes : PipeWrite(k) \/ PipeRead(k)

PipeSpec == PipeInit /\ [][PipeNext]_<<written, received>>
==============================================================================
