------------------------------- MODULE Timer -------------------------------
(***************************************************************************)
(* The hierarchical timing wheel EvTimer of core/ax_timer.cc.              *)
(*                                                                         *)
(* A slot is the set of its entries; process_tick meets them in any order. *)
(* It remembers the first one, head, and, while a callback runs, the one   *)
(* behind it, next_.  A callback may delete any timer, these two included: *)
(* the entry is then freed, and process_tick calls it, or frees it again,  *)
(* all the same.  What follows is up to the memory: phase is "lost", and   *)
(* the behaviour ends.                                                     *)
(*                                                                         *)
(* Two reads of memory nobody has written are taken to find zeros, as in   *)
(* pages fresh from the system: slot_now_, which the constructor does not  *)
(* set, and the cell behind the last slot of a wheel, which process_tick   *)
(* reads before a carry.  All that is shown here is shown of a timer that  *)
(* starts so.                                                              *)
(*                                                                         *)
(* The clock is the number of ticks timer_routine finds to be processed.   *)
(***************************************************************************)
EXTENDS Integers, FiniteSetsExt

CONSTANTS
  SLOT_PER_WHEEL, TOTAL_WHEEL,
  TickInterval,   \* tick_interval_
  Timeouts,       \* arguments of add_timer
  MaxHandle,      \* bound on the timers ever set
  MaxBacklog      \* bound on the ticks one timer_routine processes

ASSUME WheelAssumption ==
  /\ SLOT_PER_WHEEL \in Nat \ {0, 1} /\ TOTAL_WHEEL \in Nat \ {0}
  /\ TickInterval \in Nat \ {0} /\ Timeouts \subseteq Nat
  /\ MaxHandle \in Nat /\ MaxBacklog \in Nat

VARIABLES
  ticknow_, slot_now_, wheel_, entry_map_, handle_,
  backlog,   \* ticks of the current timer_routine not processed yet
  phase,     \* "poll": outside process_tick; "tick": it has taken its list;
             \* "call": in a callback; "lost": see above
  due,       \* the list process_tick is running
  left,      \* the entries of it still to be called
  head, next_

timerVars == <<ticknow_, slot_now_, wheel_, entry_map_, handle_, backlog, phase, due, left,
               head, next_>>

Wheel == 0 .. TOTAL_WHEEL - 1

NoEntry == [handle |-> 0, tick |-> 0]

TimerInit ==
  /\ ticknow_ = 0
  /\ slot_now_ = [i \in Wheel |-> 0]
  /\ wheel_ = [i \in Wheel |-> [s \in 0 .. SLOT_PER_WHEEL |-> {}]]
  /\ entry_map_ = {}
  /\ handle_ = 0
  /\ backlog = 0 /\ phase = "poll" /\ due = {} /\ left = {}
  /\ head = NoEntry /\ next_ = NoEntry

(* What the first loop of which_slot leaves of tick after i rounds.        *)
Rest(tick, i) ==
  LET r[k \in 0 .. TOTAL_WHEEL] == IF k = 0 THEN tick ELSE r[k - 1] \div SLOT_PER_WHEEL
  IN  r[i]

Slot(tick, i) == Rest(tick, i) % SLOT_PER_WHEEL

(* The assertion behind the loop: tick is below max_time.                  *)
InRange(tick) == Rest(tick, TOTAL_WHEEL) < 1

(* Mutant of WhichWheel: the loop runs upwards.                            *)
BugWhichWheel(tick, now) ==
  LET ahead == {i \in Wheel : Slot(tick, i) > now[i]}
  IN  IF ahead = {} THEN 0 ELSE Min(ahead)

(* which_slot: the highest wheel on which tick is ahead of now.            *)
WhichWheel(tick, now) ==
  LET ahead == {i \in Wheel : Slot(tick, i) > now[i]}
  IN  IF ahead = {} THEN 0 ELSE Max(ahead)

(* The cell which_slot names for entry e.                                  *)
Cell(e, now) == <<WhichWheel(e.tick, now), Slot(e.tick, WhichWheel(e.tick, now))>>

Insert(wheel, now, e) ==
  [wheel EXCEPT ![Cell(e, now)[1]][Cell(e, now)[2]] = @ \cup {e}]

(* Timers are set by callbacks and between two polls.                      *)
(* A tick that which_slot would refuse ends the process.                   *)
AddTimer(timeout) ==
  LET ticks == IF timeout > TickInterval THEN timeout \div TickInterval ELSE 1
      e == [handle |-> handle_ + 1, tick |-> ticknow_ + ticks]
  IN  /\ phase \in {"poll", "call"} /\ handle_ < MaxHandle /\ InRange(e.tick)
      /\ handle_' = handle_ + 1
      /\ entry_map_' = entry_map_ \cup {e}
      /\ wheel_' = Insert(wheel_, slot_now_, e)
      /\ UNCHANGED <<ticknow_, slot_now_, backlog, phase, due, left, head, next_>>

(* del_timer: the handle leaves entry_map_, and the entry its list if it   *)
(* is found where which_slot says.  The callback loop no longer meets it,  *)
(* unless it is the one behind the running callback.                       *)
DelTimer(e) ==
  /\ phase \in {"poll", "call"} /\ e \in entry_map_
  /\ entry_map_' = entry_map_ \ {e}
  /\ wheel_' = [wheel_ EXCEPT ![Cell(e, slot_now_)[1]][Cell(e, slot_now_)[2]] = @ \ {e}]
  /\ due' = due \ {e}
  /\ left' = IF e = next_ THEN left ELSE left \ {e}
  /\ UNCHANGED <<ticknow_, slot_now_, handle_, backlog, phase, head, next_>>

(* timer_routine reads the clock; n = 0 also when it has been away for     *)
(* more than a minute and skips what it missed.                            *)
TimerRoutine(n) ==
  /\ phase = "poll" /\ backlog = 0
  /\ backlog' = n
  /\ UNCHANGED <<ticknow_, slot_now_, wheel_, entry_map_, handle_, phase, due, left, head, next_>>

(* Mutant of Cascade: the entries of the wheel above stay there.           *)
BugCascade(c, i) ==
  IF c.now[i] < SLOT_PER_WHEEL THEN c
  ELSE [c EXCEPT !.now = [@ EXCEPT ![i] = 0, ![i + 1] = @ + 1]]

(* "move wheel": a carry out of wheel i takes the entries of the next slot *)
(* of wheel i + 1 to where they belong now.                                *)
Cascade(c, i) ==
  IF c.now[i] < SLOT_PER_WHEEL THEN c
  ELSE LET now == [c.now EXCEPT ![i] = 0, ![i + 1] = @ + 1]
           moved == c.wheel[i + 1][now[i + 1]]
           rest == [c.wheel EXCEPT ![i + 1][now[i + 1]] = {}]
       IN  [now |-> now,
            wheel |-> [j \in Wheel |-> [s \in DOMAIN rest[j] |->
                         rest[j][s] \cup {e \in moved : Cell(e, now) = <<j, s>>}]]]

(* The wheels after the loop of process_tick has reached wheel i.          *)
Turned[i \in 0 .. TOTAL_WHEEL - 1] ==
  IF i = 0 THEN [now |-> [slot_now_ EXCEPT ![0] = @ + 1], wheel |-> wheel_]
  ELSE Cascade(Turned[i - 1], i - 1)

(* The entry a list of these entries begins with.                          *)
FirstOf(entries) == IF entries = {} THEN {NoEntry} ELSE entries

(* process_tick up to the callbacks; the process must be restarted before  *)
(* max_time.                                                               *)
ProcessTick ==
  LET c == Turned[TOTAL_WHEEL - 1]
  IN  /\ phase = "poll" /\ backlog > 0 /\ InRange(ticknow_ + 1)
      /\ backlog' = backlog - 1
      /\ ticknow_' = ticknow_ + 1
      /\ slot_now_' = c.now
      /\ wheel_' = c.wheel
      /\ phase' = "tick"
      /\ due' = c.wheel[0][c.now[0]]
      /\ left' = due'
      /\ next_' \in FirstOf(left')
      /\ head' = next_'
      /\ UNCHANGED <<entry_map_, handle_>>

CallBack(e) ==
  /\ phase \in {"tick", "call"} /\ e = next_ /\ e \in entry_map_
  /\ phase' = "call"
  /\ left' = left \ {e}
  /\ next_' \in FirstOf(left')
  /\ UNCHANGED <<ticknow_, slot_now_, wheel_, entry_map_, handle_, backlog, due, head>>

(* "delete all entry", after the last callback.                            *)
EndTick ==
  /\ phase \in {"tick", "call"} /\ next_ = NoEntry
  /\ head # NoEntry => head \in entry_map_
  /\ entry_map_' = entry_map_ \ due
  /\ wheel_' = [wheel_ EXCEPT ![0][slot_now_[0]] = {}]
  /\ phase' = "poll"
  /\ due' = {} /\ head' = NoEntry
  /\ UNCHANGED <<ticknow_, slot_now_, handle_, backlog, left, next_>>

(* The callback just run has deleted the entry to be called next, or one   *)
(* before it the entry the deletion of the list starts from.               *)
UseFreed ==
  /\ phase = "call"
  /\ IF next_ # NoEntry THEN next_ \notin entry_map_ ELSE head \notin entry_map_
  /\ phase' = "lost"
  /\ UNCHANGED <<ticknow_, slot_now_, wheel_, entry_map_, handle_, backlog, due, left, head, next_>>

Routine == EndTick \/ UseFreed \/ ProcessTick \/ \E n \in 1 .. MaxBacklog : TimerRoutine(n)

TimerNext ==
  \/ \E t \in Timeouts : AddTimer(t)
  \/ \E e \in entry_map_ : DelTimer(e) \/ CallBack(e)
  \/ Routine

TimerSpec == TimerInit /\ [][TimerNext]_timerVars

(* The poller calls timer_routine in every round, time passes, and         *)
(* callbacks return.                                                       *)
TimerFairSpec == TimerSpec /\ WF_timerVars(Routine) /\ WF_timerVars(\E e \in entry_map_ : CallBack(e))

-----------------------------------------------------------------------------
Entries == UNION {wheel_[i][s] : i \in Wheel, s \in 0 .. SLOT_PER_WHEEL}

D == INSTANCE Deadlines WITH now <- ticknow_, pending <- Entries \ due, due <- left

(* The wheel keeps the promise of Deadlines: a timer is called in its      *)
(* tick, once, unless it is deleted before, whatever timers callbacks set  *)
(* and delete, those of the running tick included, up to the use of a      *)
(* freed entry (ax_timer.cc:141-192); see FreedOnce.                       *)
DeadlinesSpec == D!Spec

(* A timer that is set goes off or is deleted, unless a freed entry is     *)
(* used (ax_timer.cc:126-139).                                             *)
SetGoesOff == \A h \in 1 .. MaxHandle :
  (\E e \in entry_map_ : e.handle = h)
    ~> ((\A e \in entry_map_ : e.handle # h) \/ phase = "lost")

(* When the last callback has returned, the entry the deletion of the list *)
(* starts from is still allocated: the pool asserts that a node given back *)
(* has its POOL_ALLOC_FLAG (ax_timer.cc:182-190, mem_pool.cc:69).          *)
FreedOnce == phase = "call" /\ next_ = NoEntry => head \in entry_map_
=============================================================================
