---------------------------- MODULE BoundedFifo ----------------------------
(***************************************************************************)
(* What LogBuffer promises: a first-in first-out queue of bounded          *)
(* capacity.  A message put into a full queue is refused; the consumer     *)
(* receives the accepted messages one at a time, in order.                 *)
(***************************************************************************)
EXTENDS Integers, Sequences

CONSTANTS Messages, Capacity

VARIABLES
  queue,   \* the accepted messages nobody has received yet
  taken    \* the consumer's message, as a sequence of at most one

Init == queue = <<>> /\ taken = <<>>

Put(m) ==
  /\ Len(queue) < Capacity
  /\ queue' = Append(queue, m)
  /\ UNCHANGED taken

Get ==
  /\ queue # <<>> /\ taken = <<>>
  /\ taken' = <<Head(queue)>>
  /\ queue' = Tail(queue)

Finish ==
  /\ taken # <<>>
  /\ taken' = <<>>
  /\ UNCHANGED queue

Next == (\E m \in Messages : Put(m)) \/ Get \/ Finish

Spec == Init /\ [][Next]_<<queue, taken>>

=============================================================================
