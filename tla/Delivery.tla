------------------------------ MODULE Delivery ------------------------------
(***************************************************************************)
(* What one direction of a thread pipe promises its reader: messages are   *)
(* numbered in the order they are written; a message is delivered at least *)
(* once and possibly again, never before it is written, and never before   *)
(* its predecessor has been delivered.                                     *)
(***************************************************************************)
EXTENDS Integers, Sequences

VARIABLES
  written,     \* how many messages have been written
  delivered    \* the messages handed to the callback, in order

(* Every delivered message was written, and its predecessor came before.   *)
NoGap(d, w) ==
  \A i \in 1 .. Len(d) :
    /\ d[i] \in 1 .. w
    /\ d[i] = 1 \/ \E j \in 1 .. i - 1 : d[j] = d[i] - 1

Init ==
  /\ written = 0
  /\ delivered = <<>>

Write ==
  /\ written' = written + 1
  /\ UNCHANGED delivered

(* One read event may deliver several messages, or none.                   *)
Deliver ==
  /\ UNCHANGED written
  /\ Len(delivered) <= Len(delivered')
  /\ delivered = SubSeq(delivered', 1, Len(delivered))
  /\ NoGap(delivered', written)

Next == Write \/ Deliver

Spec == Init /\ [][Next]_<<written, delivered>>
=============================================================================
