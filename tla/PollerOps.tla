----------------------------- MODULE PollerOps -----------------------------
(***************************************************************************)
(* The fd poller as operators on a poller value: class FdPollerBase of     *)
(* core/fd_poller.cc with its Linux driver EpollPoller of core/epoll.cc.   *)
(* Shared by the component specification (FdPoller) and the gateway        *)
(* (CGate).                                                                *)
(*                                                                         *)
(* A poller is a record:                                                   *)
(*   status, reactor  the fields of entry_[fd] (ev_mask is only written)   *)
(*   reg              the kernel's epoll interest list, which holds one    *)
(*                    registration per descriptor: EPOLL_CTL_ADD fails on  *)
(*                    a registered one, EPOLL_CTL_DEL removes it whole     *)
(*   pending_new_     <<[fd, reactor], ...>>, in link order, newest first  *)
(*   retired_         descriptors passed to close_fd in this round         *)
(***************************************************************************)
EXTENDS Integers, Sequences, FiniteSets

CONSTANTS
  MaxFds,      \* max_fds_: entry_ has MaxFds elements
  Reactor,     \* the IFdEventReactor objects
  NoReactor    \* NULL

ASSUME MaxFdsAssumption == MaxFds \in Nat \ {0}
ASSUME ReactorAssumption == NoReactor \notin Reactor

Fd == 0 .. MaxFds - 1
FdStatus == {"EMPTY", "ACTIVE", "WAIT_CLOSE"}

Poller ==
  [status       : [Fd -> FdStatus],
   reactor      : [Fd -> Reactor \cup {NoReactor}],
   reg          : [Fd -> {"NONE", "IN", "OUT"}],
   pending_new_ : Seq([fd : Fd, reactor : Reactor]),
   retired_     : Seq(Int)]

(* reset_fd on every entry.                                                *)
ResetStatus == [fd \in Fd |-> "EMPTY"]

(* The constructor; new PollerEntry[maxn] leaves reactor unset, which no   *)
(* step reads before add_fd sets it.                                       *)
EmptyPoller ==
  [status       |-> ResetStatus,
   reactor      |-> [fd \in Fd |-> NoReactor],
   reg          |-> [fd \in Fd |-> "NONE"],
   pending_new_ |-> <<>>,
   retired_     |-> <<>>]

(* add_event(fd, ev): EPOLL_CTL_ADD, which fails with EEXIST if registered.*)
add_event(p, fd, ev) ==
  IF p.reg[fd] = "NONE" THEN [p EXCEPT !.reg[fd] = ev] ELSE p

(* del_event(fd, flags): EPOLL_CTL_DEL for whichever flag drops the whole  *)
(* registration; on an unregistered descriptor it fails with ENOENT.       *)
del_event(p, fd) == [p EXCEPT !.reg[fd] = "NONE"]

(* Mutant of add_fd: the new descriptor is never polled.                   *)
BugAddFdNoEvent(p, fd, r) ==
  IF fd \in Fd /\ p.status[fd] = "EMPTY"
  THEN [p EXCEPT !.reactor[fd] = r, !.status[fd] = "ACTIVE"]
  ELSE p

(* add_fd: a descriptor whose entry is still in use goes to pending_new_.  *)
add_fd(p, fd, r) ==
  IF fd \notin Fd THEN p
  ELSE IF p.status[fd] # "EMPTY"
  THEN [p EXCEPT !.pending_new_ = <<[fd |-> fd, reactor |-> r]>> \o @]
  ELSE add_event([p EXCEPT !.reactor[fd] = r, !.status[fd] = "ACTIVE"], fd, "IN")

(* Mutant of wait_close: the entry stays ACTIVE.                           *)
BugWaitCloseKeepsStatus(p, fd) ==
  IF fd \in Fd /\ p.status[fd] = "ACTIVE"
  THEN [del_event(p, fd) EXCEPT !.reactor[fd] = NoReactor]
  ELSE p

(* Mutant of wait_close: the epoll registration survives.                  *)
BugWaitCloseKeepsEvent(p, fd) ==
  IF fd \in Fd /\ p.status[fd] = "ACTIVE"
  THEN [p EXCEPT !.status[fd] = "WAIT_CLOSE", !.reactor[fd] = NoReactor]
  ELSE p

(* wait_close: no more events, no reactor, and the number stays reserved.  *)
wait_close(p, fd) ==
  IF fd \in Fd /\ p.status[fd] = "ACTIVE"
  THEN [del_event(p, fd) EXCEPT !.status[fd] = "WAIT_CLOSE", !.reactor[fd] = NoReactor]
  ELSE p

(* Mutant of close_fd: retired_sz_ is incremented twice.                   *)
BugCloseFdTwice(p, fd) == [p EXCEPT !.retired_ = @ \o <<fd, fd>>]

(* close_fd: queue the descriptor for the end of the round.                *)
close_fd(p, fd) == [p EXCEPT !.retired_ = Append(@, fd)]

set_reactor(p, fd, r) ==
  IF p.status[fd] = "ACTIVE" THEN [p EXCEPT !.reactor[fd] = r] ELSE p

-----------------------------------------------------------------------------
(* The end of process(): the retired loop, then the pending_new_ loop.     *)

RetiredFds(p) == {p.retired_[i] : i \in 1 .. Len(p.retired_)}

(* del_event and reset_fd for every retired descriptor; retired_sz_ = 0.   *)
RetireAll(p) ==
  [p EXCEPT
     !.reg      = [fd \in Fd |-> IF fd \in RetiredFds(p) THEN "NONE" ELSE p.reg[fd]],
     !.status   = [fd \in Fd |-> IF fd \in RetiredFds(p) THEN "EMPTY" ELSE p.status[fd]],
     !.retired_ = <<>>]

(* The descriptors ::close is called on: the status test of the loop comes *)
(* after reset_fd.                                                         *)
ClosedBySweep(p) == {fd \in RetiredFds(p) : RetireAll(p).status[fd] # "EMPTY"}

PendingFds(p) == {p.pending_new_[i].fd : i \in 1 .. Len(p.pending_new_)}

(* The loop walks the list from its head, so the last one wins.            *)
PendingReactor(p, fd) ==
  LET last == CHOOSE i \in 1 .. Len(p.pending_new_) :
                /\ p.pending_new_[i].fd = fd
                /\ \A j \in i + 1 .. Len(p.pending_new_) : p.pending_new_[j].fd # fd
  IN  p.pending_new_[last].reactor

(* Every pending entry is made ACTIVE with its reactor and add_event(READ) *)
(* is called, which fails with EBADF for a descriptor that is not open;    *)
(* the entries stay in pending_new_.                                       *)
ApplyPending(p, open) ==
  [p EXCEPT
     !.status  = [fd \in Fd |-> IF fd \in PendingFds(p) THEN "ACTIVE" ELSE p.status[fd]],
     !.reactor = [fd \in Fd |-> IF fd \in PendingFds(p) THEN PendingReactor(p, fd)
                                ELSE p.reactor[fd]],
     !.reg     = [fd \in Fd |-> IF fd \in PendingFds(p) \cap open /\ p.reg[fd] = "NONE"
                                THEN "IN" ELSE p.reg[fd]]]

Sweep(p, open) == ApplyPending(RetireAll(p), open)
=============================================================================
