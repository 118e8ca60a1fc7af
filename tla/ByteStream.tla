------------------------------ MODULE ByteStream ------------------------------
(***************************************************************************)
(* What the socket promises its reader: the bytes of the peer's stream,    *)
(* each at most once and in the order they were sent, through a buffer     *)
(* that keeps of each arrival what it has room for and that is emptied at  *)
(* the end of a run, of which there are fewer than Runs.  No other step    *)
(* drops, repeats or reorders a byte.  Byte i of the stream is the number  *)
(* i; "arrived" bytes have left the network, "pending" holds those not     *)
(* read yet and "taken" those that were.                                   *)
(***************************************************************************)
EXTENDS Integers, Sequences

CONSTANTS
  Chunk,      \* most bytes that arrive in one piece
  Capacity,   \* most bytes that are pending
  Runs        \* the run after which the pending bytes are left alone

VARIABLES arrived, pending, taken, runs

streamVars == <<arrived, pending, taken, runs>>

Init == arrived = 0 /\ pending = <<>> /\ taken = <<>> /\ runs = 0

\* The next n bytes of the stream arrive; as many as there is room for stay.
Arrive(n) ==
  /\ arrived' = arrived + n
  /\ LET room == Capacity - Len(pending)
         kept == IF n <= room THEN n ELSE room
     IN  pending' = pending \o [i \in 1 .. kept |-> arrived + i]
  /\ UNCHANGED <<taken, runs>>

\* The reader takes the k oldest pending bytes.
Take(k) ==
  /\ taken' = taken \o SubSeq(pending, 1, k)
  /\ pending' = SubSeq(pending, k + 1, Len(pending))
  /\ UNCHANGED <<arrived, runs>>

\* A run ends: before the last one the pending bytes are dropped.
EndRun ==
  /\ runs' = runs + 1
  /\ pending' = IF runs' < Runs THEN <<>> ELSE pending
  /\ UNCHANGED <<arrived, taken>>

Next ==
  \/ \E n \in 1 .. Chunk : Arrive(n)
  \/ \E k \in 1 .. Len(pending) : Take(k)
  \/ EndRun

Spec == Init /\ [][Next]_streamVars
=============================================================================
