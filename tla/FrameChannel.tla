---------------------------- MODULE FrameChannel ----------------------------
(***************************************************************************)
(* What the rest of the project assumes of one direction of a connection   *)
(* (Wire's down and torn): whole frames, in order, until a read that timed *)
(* out within a frame puts the reader out of step.  Out of step it can     *)
(* only lose whole frames, fall back into step, or notice.                 *)
(***************************************************************************)
EXTENDS Naturals, Sequences

CONSTANT Frames

VARIABLES queue, torn, got, closed

vars == <<queue, torn, got, closed>>

Init == queue = <<>> /\ torn = FALSE /\ got = <<>> /\ closed = FALSE

Put ==
  /\ \E f \in Frames : queue' = Append(queue, f)
  /\ UNCHANGED <<torn, got, closed>>

Deliver ==
  /\ ~torn /\ ~closed /\ queue # <<>>
  /\ got' = Append(got, Head(queue))
  /\ queue' = Tail(queue)
  /\ UNCHANGED <<torn, closed>>

Tear ==
  /\ ~torn /\ ~closed /\ queue # <<>>
  /\ torn' = TRUE
  /\ UNCHANGED <<queue, got, closed>>

\* Frames are lost; the reader may or may not be in step after them.
Lose ==
  /\ torn /\ ~closed
  /\ \E k \in 1 .. Len(queue) :
       /\ queue' = SubSeq(queue, k + 1, Len(queue))
       /\ torn' = FALSE \/ (torn' = TRUE /\ queue' # <<>>)
  /\ UNCHANGED <<got, closed>>

Notice ==
  /\ torn /\ ~closed
  /\ closed' = TRUE
  /\ UNCHANGED <<queue, torn, got>>

Next == Put \/ Deliver \/ Tear \/ Lose \/ Notice

Spec == Init /\ [][Next]_vars
=============================================================================
