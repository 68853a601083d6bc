---------------------------- MODULE FrameChannel ----------------------------
(***************************************************************************)
(* What a buffer queue promises, without its semaphores and indices: a     *)
(* bounded first-in first-out channel of frames with one producer and one  *)
(* consumer.  The consumer holds at most one frame at a time.  It may      *)
(* discard the frame in its hand only when a newer one is waiting, so the  *)
(* newest published frame is never lost.                                   *)
(***************************************************************************)
EXTENDS Naturals, Sequences

CONSTANTS
  Capacity,  \* how many frames the channel and the consumer hold together
  NULL       \* "no frame in hand"

VARIABLES
  waiting,   \* the published frames not yet taken, oldest first
  inHand,    \* the frame the consumer holds, or NULL
  newest,    \* the last frame published
  delivered, \* how many frames the consumer finished with
  discarded  \* how many frames the consumer skipped

vars == <<waiting, inHand, newest, delivered, discarded>>

Occupied == Len(waiting) + (IF inHand = NULL THEN 0 ELSE 1)

Init ==
  /\ waiting = <<>>
  /\ inHand = NULL
  /\ newest = 0
  /\ delivered = 0
  /\ discarded = 0

\* The producer hands over a frame newer than every frame before it.
Publish ==
  /\ Occupied < Capacity
  /\ newest' > newest
  /\ waiting' = Append(waiting, newest')
  /\ UNCHANGED <<inHand, delivered, discarded>>

\* The consumer takes the oldest waiting frame.
Take ==
  /\ inHand = NULL
  /\ waiting # <<>>
  /\ inHand' = Head(waiting)
  /\ waiting' = Tail(waiting)
  /\ UNCHANGED <<newest, delivered, discarded>>

\* The consumer gives the frame it holds back unread: a newer one is waiting.
Discard ==
  /\ inHand # NULL
  /\ waiting # <<>>
  /\ inHand' = NULL
  /\ discarded' = discarded + 1
  /\ UNCHANGED <<waiting, newest, delivered>>

\* The consumer is done with the frame.
Release ==
  /\ inHand # NULL
  /\ inHand' = NULL
  /\ delivered' = delivered + 1
  /\ UNCHANGED <<waiting, newest, discarded>>

Next == Publish \/ Take \/ Discard \/ Release

Spec == Init /\ [][Next]_vars
=============================================================================
