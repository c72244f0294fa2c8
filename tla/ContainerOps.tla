---------------------------- MODULE ContainerOps ----------------------------
(***************************************************************************)
(* class ConnectContainer of core/connect.cc as operators on a container   *)
(* value, shared by the component specification (ConnectContainer) and by  *)
(* the gateway that composes it with the poller and the mailboxes (CGate). *)
(*                                                                         *)
(* A container is a record: per connection object status_, fd_, hid_,      *)
(* next_ and prev_; and free_stack_, stack_top_, count_, head_.  A pointer *)
(* to a connection is its index; NULL is NoConn.                           *)
(***************************************************************************)
EXTENDS Integers

CONSTANT ConnCapacity   \* capacity_: the number of connection objects

ASSUME ConnCapacityAssumption == ConnCapacity \in Nat \ {0}

Vfd == 0 .. ConnCapacity - 1
NoConn == -1
AX_RET_FULL == -2
AX_RET_ERROR == -1

ConnStatus == {"EMPTY", "ACTIVE"}

Container ==
  [status_     : [Vfd -> ConnStatus],
   fd_         : [Vfd -> Int],
   hid_        : [Vfd -> Int],
   next_       : [Vfd -> Vfd \cup {NoConn}],
   prev_       : [Vfd -> Vfd \cup {NoConn}],
   free_stack_ : [Vfd -> Vfd],
   stack_top_  : 0 .. ConnCapacity,
   count_      : 0 .. ConnCapacity,
   head_       : Vfd \cup {NoConn}]

(* The free stack as the constructor fills it.                             *)
InitStack == [i \in Vfd |-> i]

(* The constructor: every Connect object is empty and on the stack.        *)
EmptyContainer ==
  [status_     |-> [v \in Vfd |-> "EMPTY"],
   fd_         |-> [v \in Vfd |-> -1],
   hid_        |-> [v \in Vfd |-> 0],
   next_       |-> [v \in Vfd |-> NoConn],
   prev_       |-> [v \in Vfd |-> NoConn],
   free_stack_ |-> InitStack,
   stack_top_  |-> 0,
   count_      |-> 0,
   head_       |-> NoConn]

(* Mutant of ContainerFull: the last object is never handed out.           *)
BugContainerFull(c) == c.count_ >= ConnCapacity - 1

ContainerFull(c) == c.count_ >= ConnCapacity

(* What alloc_connect returns: an index, or a negative error.              *)
AllocVfd(c) ==
  IF ContainerFull(c) THEN AX_RET_FULL
  ELSE LET v == c.free_stack_[c.stack_top_]
       IN  IF c.status_[v] = "EMPTY" THEN v ELSE AX_RET_ERROR

(* The container after a successful alloc_connect(fd) that returned v:     *)
(* Connect::init, the insertion at the head of the list, the stack.        *)
alloc_connect(c, v, fd) ==
  LET prev1 == [c.prev_ EXCEPT ![v] = NoConn]
  IN  [c EXCEPT
         !.status_[v] = "EMPTY",
         !.fd_[v]     = fd,
         !.next_[v]   = c.head_,
         !.prev_      = IF c.head_ = NoConn THEN prev1 ELSE [prev1 EXCEPT ![c.head_] = v],
         !.head_      = v,
         !.stack_top_ = @ + 1,
         !.count_     = @ + 1]

(* The RT_ASSERT at the top of free_connect.                               *)
FreeAllowed(c) == c.stack_top_ > 0 /\ c.count_ > 0

(* Mutant of PushFree: the index is stored before the top is decremented.  *)
BugPushFree(c, v) == [c.free_stack_ EXCEPT ![c.stack_top_] = v]

(* --stack_top_; free_stack_[stack_top_] = vfd.                            *)
PushFree(c, v) == [c.free_stack_ EXCEPT ![c.stack_top_ - 1] = v]

(* free_connect(v): unlink, then push v on the free stack.  The head of    *)
(* the list is not adjusted and hid_ is left in place.                     *)
free_connect(c, v) ==
  LET next1 == IF c.prev_[v] = NoConn THEN c.next_
               ELSE [c.next_ EXCEPT ![c.prev_[v]] = c.next_[v]]
  IN  [c EXCEPT
         !.status_[v]  = "EMPTY",
         !.next_       = next1,
         !.prev_       = IF next1[v] = NoConn THEN c.prev_
                         ELSE [c.prev_ EXCEPT ![next1[v]] = c.prev_[v]],
         !.count_      = @ - 1,
         !.stack_top_  = @ - 1,
         !.free_stack_ = PushFree(c, v)]
=============================================================================
