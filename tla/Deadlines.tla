----------------------------- MODULE Deadlines -----------------------------
(***************************************************************************)
(* What a timer facility promises: a timer is called in the tick it was    *)
(* set for, once, unless it is cancelled before.                           *)
(***************************************************************************)
EXTENDS Integers

VARIABLES
  now,       \* ticks so far
  pending,   \* [handle, tick] of the timers that are set
  due        \* the timers of this tick that have not been called yet

Init == now = 0 /\ pending = {} /\ due = {}

Set(h, t) ==
  /\ t > now /\ \A e \in pending \cup due : e.handle # h
  /\ pending' = pending \cup {[handle |-> h, tick |-> t]}
  /\ UNCHANGED <<now, due>>

Cancel(e) ==
  /\ e \in pending \cup due
  /\ pending' = pending \ {e}
  /\ due' = due \ {e}
  /\ UNCHANGED now

Tick ==
  /\ due = {}
  /\ now' = now + 1
  /\ due' = {e \in pending : e.tick = now'}
  /\ pending' = pending \ due'

Call(e) ==
  /\ e \in due
  /\ due' = due \ {e}
  /\ UNCHANGED <<now, pending>>

Next ==
  \/ Tick
  \/ \E e \in pending' \ pending : Set(e.handle, e.tick)
  \/ \E e \in pending \cup due : Cancel(e)
  \/ \E e \in due : Call(e)

Spec == Init /\ [][Next]_<<now, pending, due>>
=============================================================================
