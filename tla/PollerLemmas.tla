---------------------------- MODULE PollerLemmas ----------------------------
(***************************************************************************)
(* What every operation of the poller preserves, whoever calls it: the     *)
(* facts FdPollerProofs rests on.                                          *)
(***************************************************************************)
EXTENDS PollerOps, WellFoundedInduction, TLAPS

(* The invariant of one poller value: its type, a reactor behind every     *)
(* ACTIVE entry, and no registration outside ACTIVE entries.               *)
PollerOK(p) ==
  /\ p \in Poller
  /\ \A fd \in Fd : p.status[fd] = "ACTIVE" => p.reactor[fd] # NoReactor
  /\ \A fd \in Fd : p.reg[fd] # "NONE" => p.status[fd] = "ACTIVE"

(* The constructor of the poller (fd_poller.cc:8-25) establishes PollerOK. *)
LEMMA EmptyPollerOK == PollerOK(EmptyPoller)
BY DEF PollerOK, Poller, EmptyPoller, ResetStatus, FdStatus

(* add_event on an ACTIVE entry preserves PollerOK (epoll.cc:23-52).       *)
LEMMA AddEventOK ==
  ASSUME NEW p, PollerOK(p), NEW fd \in Fd, p.status[fd] = "ACTIVE", NEW ev \in {"IN", "OUT"}
  PROVE  PollerOK(add_event(p, fd, ev))
BY DEF PollerOK, Poller, add_event

(* del_event preserves PollerOK (epoll.cc:54-82).                          *)
LEMMA DelEventOK ==
  ASSUME NEW p, PollerOK(p), NEW fd \in Fd
  PROVE  PollerOK(del_event(p, fd))
BY DEF PollerOK, Poller, del_event

(* add_fd preserves PollerOK, whether it refuses the descriptor, activates *)
(* its entry or pends it (fd_poller.cc:46-64).                             *)
LEMMA AddFdOK ==
  ASSUME NEW p, PollerOK(p), NEW fd, NEW r \in Reactor
  PROVE  PollerOK(add_fd(p, fd, r))
<1>0. CASE fd \notin Fd
  BY <1>0 DEF add_fd
<1>1. CASE fd \in Fd /\ p.status[fd] # "EMPTY"
  <2> DEFINE e == [fd |-> fd, reactor |-> r]
  <2>1. <<e>> \o p.pending_new_ \in Seq([fd : Fd, reactor : Reactor])
    BY <1>1 DEF PollerOK, Poller
  <2>2. add_fd(p, fd, r) = [p EXCEPT !.pending_new_ = <<e>> \o p.pending_new_]
    BY <1>1 DEF add_fd, PollerOK, Poller
  <2> QED
    BY <1>1, <2>1, <2>2 DEF PollerOK, Poller
<1>2. CASE fd \in Fd /\ p.status[fd] = "EMPTY"
  <2> DEFINE q == [p EXCEPT !.reactor[fd] = r, !.status[fd] = "ACTIVE"]
  <2>1. PollerOK(q) /\ q.status[fd] = "ACTIVE"
    BY <1>2, ReactorAssumption DEF PollerOK, Poller, FdStatus
  <2>2. add_fd(p, fd, r) = add_event(q, fd, "IN")
    BY <1>2 DEF add_fd
  <2> QED
    BY <1>2, <2>1, <2>2, AddEventOK
<1> QED
  BY <1>0, <1>1, <1>2

(* wait_close preserves PollerOK: status, reactor and registration go      *)
(* together (fd_poller.cc:74-84).                                          *)
LEMMA WaitCloseOK ==
  ASSUME NEW p, PollerOK(p), NEW fd
  PROVE  PollerOK(wait_close(p, fd))
BY DEF PollerOK, Poller, wait_close, del_event, FdStatus

(* close_fd preserves PollerOK (fd_poller.cc:87-92).                       *)
LEMMA CloseFdOK ==
  ASSUME NEW p, PollerOK(p), NEW fd \in Int
  PROVE  PollerOK(close_fd(p, fd))
<1>1. Append(p.retired_, fd) \in Seq(Int)
  BY DEF PollerOK, Poller
<1> QED
  BY <1>1 DEF PollerOK, Poller, close_fd

(* set_reactor preserves PollerOK (fd_poller.cc:95-104).                   *)
LEMMA SetReactorOK ==
  ASSUME NEW p, PollerOK(p), NEW fd \in Fd, NEW r \in Reactor
  PROVE  PollerOK(set_reactor(p, fd, r))
BY ReactorAssumption DEF PollerOK, Poller, set_reactor

(* The retired loop of process() preserves PollerOK (fd_poller.cc:130-138).*)
LEMMA RetireAllOK ==
  ASSUME NEW p, PollerOK(p)
  PROVE  PollerOK(RetireAll(p))
<1>1. <<>> \in Seq(Int)
  OBVIOUS
<1> QED
  BY <1>1 DEF PollerOK, Poller, RetireAll, FdStatus

(* A non-empty set of indices of a sequence has a greatest element.        *)
LEMMA LastIndex ==
  ASSUME NEW n \in Nat, NEW S \in SUBSET (1 .. n), S # {}
  PROVE  \E i \in S : \A j \in i + 1 .. n : j \notin S
<1> DEFINE R == OpToRel(<, Nat)
           T == {n - i : i \in S}
<1>1. IsWellFoundedOn(R, Nat)
  BY NatLessThanWellFounded
<1>2. T \subseteq Nat /\ T # {}
  <2>1. \A i \in S : n - i \in Nat
    OBVIOUS
  <2>2. PICK k \in S : TRUE
    OBVIOUS
  <2>3. n - k \in T
    BY <2>2
  <2> QED
    BY <2>1, <2>3
<1>3. PICK x \in T : \A y \in T : ~(<<y, x>> \in R)
  <2> HIDE DEF R, T
  <2> QED BY <1>1, <1>2, WFMin
<1>4. \A y \in T : ~(y < x)
  BY <1>2, <1>3 DEF OpToRel
<1>5. PICK i \in S : x = n - i
  BY <1>3
<1>6. ASSUME NEW j \in i + 1 .. n, j \in S  PROVE FALSE
  <2>1. n - j \in T
    BY <1>6
  <2>2. n - j < x
    BY <1>5, <1>6
  <2> QED BY <2>1, <2>2, <1>4
<1> QED
  BY <1>6

(* The pending entry that wins for a descriptor carries a real reactor     *)
(* (fd_poller.cc:141-149).                                                 *)
LEMMA PendingReactorOK ==
  ASSUME NEW p, PollerOK(p), NEW fd \in PendingFds(p)
  PROVE  PendingReactor(p, fd) \in Reactor
<1> DEFINE L == Len(p.pending_new_)
           S == {i \in 1 .. L : p.pending_new_[i].fd = fd}
           Last(i) == /\ p.pending_new_[i].fd = fd
                      /\ \A j \in i + 1 .. L : p.pending_new_[j].fd # fd
<1>1. L \in Nat /\ p.pending_new_ \in Seq([fd : Fd, reactor : Reactor])
  BY DEF PollerOK, Poller
<1>2. S \in SUBSET (1 .. L) /\ S # {}
  BY DEF PendingFds
<1>3. \E i \in S : \A j \in i + 1 .. L : j \notin S
  <2> HIDE DEF L, S
  <2> QED BY <1>1, <1>2, LastIndex
<1>4. \E i \in 1 .. L : Last(i)
  BY <1>1, <1>3
<1>5. (CHOOSE i \in 1 .. L : Last(i)) \in 1 .. L
  <2> HIDE DEF Last
  <2> QED BY <1>4
<1>6. PendingReactor(p, fd) = p.pending_new_[CHOOSE i \in 1 .. L : Last(i)].reactor
  BY DEF PendingReactor
<1>7. ASSUME NEW k \in 1 .. L  PROVE p.pending_new_[k].reactor \in Reactor
  <2> DEFINE E == [fd : Fd, reactor : Reactor]
             q == p.pending_new_
  <2>1. q[k] \in E
    <3> HIDE DEF E, q
    <3>1. q \in Seq(E) /\ k \in 1 .. Len(q)
      BY <1>1 DEF E, q, L
    <3> QED BY <3>1
  <2> QED BY <2>1
<1> QED
  <2> HIDE DEF Last, L
  <2> QED BY <1>5, <1>6, <1>7

(* The pending_new_ loop of process() preserves PollerOK.                  *)
LEMMA ApplyPendingOK ==
  ASSUME NEW p, PollerOK(p), NEW open
  PROVE  PollerOK(ApplyPending(p, open))
<1>1. \A fd \in PendingFds(p) : PendingReactor(p, fd) \in Reactor
  BY PendingReactorOK
<1> DEFINE st == [fd \in Fd |-> IF fd \in PendingFds(p) THEN "ACTIVE" ELSE p.status[fd]]
           re == [fd \in Fd |-> IF fd \in PendingFds(p) THEN PendingReactor(p, fd)
                                ELSE p.reactor[fd]]
           rg == [fd \in Fd |-> IF fd \in PendingFds(p) \cap open /\ p.reg[fd] = "NONE"
                                THEN "IN" ELSE p.reg[fd]]
<1>2. ApplyPending(p, open) = [p EXCEPT !.status = st, !.reactor = re, !.reg = rg]
  BY DEF ApplyPending
<1>3. st \in [Fd -> FdStatus]
  BY DEF PollerOK, Poller, FdStatus
<1>4. re \in [Fd -> Reactor \cup {NoReactor}]
  BY <1>1 DEF PollerOK, Poller
<1>5. rg \in [Fd -> {"NONE", "IN", "OUT"}]
  BY DEF PollerOK, Poller
<1>6. \A fd \in Fd : st[fd] = "ACTIVE" => re[fd] # NoReactor
  BY <1>1, ReactorAssumption DEF PollerOK
<1>7. \A fd \in Fd : rg[fd] # "NONE" => st[fd] = "ACTIVE"
  BY DEF PollerOK
<1> HIDE DEF st, re, rg
<1> QED
  BY <1>2, <1>3, <1>4, <1>5, <1>6, <1>7 DEF PollerOK, Poller

(* The end of a round preserves PollerOK (fd_poller.cc:129-149).           *)
LEMMA SweepOK ==
  ASSUME NEW p, PollerOK(p), NEW open
  PROVE  PollerOK(Sweep(p, open))
BY RetireAllOK, ApplyPendingOK DEF Sweep
=============================================================================
